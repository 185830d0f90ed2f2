# A verification project for CTagSpotlight

CTagSpotlight is a Spotlight importer for macOS. Spotlight's worker process
(`mdworker`) loads it as a plug-in and calls it for one source file after
another; the importer runs Exuberant Ctags, which is linked into it as a
library, collects the names of the tags by kind, and hands them back as
metadata attributes. Two things make the code interesting. Ctags is a program
that expects to run once, and here it runs again and again in one process, so
every static that is not reset is state one file leaves for the next. And ctags'
parsers are heuristics over source text that may be anything, held together by
stacks of bounded size, by exceptions (`setjmp`/`longjmp`) and by flags that
several components share.

Paths are relative to `src/`. C sources without a directory are in `ctagSource/`.

## 1. Inventory

| Component | State it keeps | Operations | What is hard | What makes it correct |
|---|---|---|---|---|
| Importer (`GetMetadataForFile.m`, `hacking.h`) | global `ctxt`: arrays by kind, kind table by letter | `GetMetadataForURL`, `prepareContext`, `notifySystemTagEntry`, `dumpContextInAttributes`, `cleanupContext` | state between imports, ownership of the arrays shared with the host, results ignored | every dictionary holds the tags of its own file by the table of its type; no array used after release; exact retain counts |
| Plug-in shell (`main.c`) | per instance: function table, count, factory id | factory, `QueryInterface`, `AddRef`, `Release`, dealloc | clients interleave; one table for all interfaces of an instance | an instance lives exactly while a reference to it is held; no client finds a NULL function |
| Preprocessor (`get.c`) | `Cpp`: ungotten characters, directive state, stack of 20 conditionals, `resolveRequired` | `cppInit`, `cppGetc`, `cppUngetc`, `cppBeginStatement`, `cppEndStatement` | nests of any depth on a bounded stack; unbalanced sources; branch heuristics that depend on the parser's state | the level is an index of the array and comes back to 0; text is delivered by the rules of nested conditionals |
| C parser (`c.c`) | chain of statements, three tokens each, `Exception`, `Signature`, counters of anonymous names | `createTags`, `nextToken`, `checkStatementEnd`, `skipToMatch`, ... | `longjmp` out of any depth; second pass by brace formatting | no statement leaks, tags carry the scope of the braces they are in |
| Parsing control (`parse.c`, `parsers.h`) | table of parsers, language maps | `initializeParsing`, `getFileLanguage`, `parseFile`, `createTagsWithFallback` | retry after an exception; the plug-in's build leaves the retry out | one pass's tags are kept, never two |
| Options (`options.c`, `args.c`) | `Option`, `OptionFiles`, cooked arguments | `initOptions`, `readOptionConfiguration`, `parseOptions`, `freeOptionResources` | option files include each other; values stay from run to run | the last source of an option wins; reading ends |
| Keyword table (`keyword.c`) | hash table, allocation flag | `addKeyword`, `lookupKeyword`, `freeKeywordTable` | used again after it was freed | a lookup finds what the language's parser added |
| Reading (`read.c`) | `File`: position, line, ungotten character, end-of-line flags | `fileOpen`, `fileGetc`, `fileUngetc`, `fileReadLine`, `fileClose` | CR, LF, CR LF; `#line`; state left for the next file | characters and line numbers agree with the file |
| Tag file (`entry.c`, `sort.c`) | `TagFile`: stream, counters, `max` widths, etags part | `openTagFile`, `makeTagEntry`, `closeTagFile` | cut back after a retry, sorting | the file holds the tags counted |
| Regex tags (`lregex.c`) | pattern sets by language | `addTagRegex`, `matchRegex`, `freeRegexResources` | sets freed and filled again | a language has its own patterns only |
| Strings, lists, paths (`vstring.c`, `strlist.c`, `routines.c`) | buffers, current directory | append, combine, make absolute or relative | sizes computed before writing | writes stay within buffers |
| Other parsers (one file each) | nests, scopes, states from line to line | one `find...Tags` each | bounded nests, recursive descent on any input | a tag is made in the scope it is in |
| `readtags.c` | position in a tag file | `tagsFind`, `tagsFindNext` | binary search on a file with lines of different length | finds the first match |
| `main.c` of ctags, `haskell.c` | | | not part of the plug-in | |
| `gnu_regex/`, `argproc.c`, `mac.c`, `qdos.c`, `debug.c`, `e_*.h`, `config.h` | | | vendored, or for other platforms | |

How they interact. `mdworker` calls the shell (`main.c`), whose table leads to
`GetMetadataForURL`. That translates the content type into a `--language-force`
argument, initialises ctags (parsers, options, option files, arguments),
prepares `ctxt`, and calls `parseFile`. The parser reads characters through
`get.c` (C family) or `read.c`; the C parser tells `get.c` when a statement is
incomplete, and `get.c` decides from that which branches of a conditional the
parser sees. Every tag goes through `makeTagEntry`, which in this build
(`SYSTEM_SEARCH_FILTER`) calls back `notifySystemTagEntry`. Then the arrays are
put into the host's dictionary, ctags' resources are freed, and `ctxt`'s arrays
are released, while the host keeps the dictionary as long as it likes.

All of this runs on one thread of the worker; concurrency is the interleaving of
clients of the shell, and of the host's releases with later imports.

## 2. Modules

| Module | What it models |
|---|---|
| `KindTables` | the constant tables: content type to language and number, kind letter to attribute per number, letters some parsers emit |
| `RunTables` | the keyword table and the pattern sets that every run of ctags fills and frees: part of the state of `Importer` |
| `SpotlightService` | abstract: what an import promises, one at a time and with no memory |
| `Importer` | `GetMetadataForURL` stage by stage over many imports in one process, with crashes and relaunches of the worker |
| `MCImporter` | the importer on the real tables, restricted to a few types and letters |
| `Importer_proofs` | proofs about `Importer` for any tables, and that it implements `SpotlightService` |
| `RunTables_proofs` | proofs about the keyword table and the pattern sets, run after run |
| `PlugIn` | the reference counting of the shell |
| `PlugIn_proofs` | proofs about `PlugIn` for any number of instances and clients |
| `ConditionalNest` | abstract: the rules of nested conditionals |
| `CppConditionals` | the directives of `get.c` and the stack of conditionals |
| `CppText` | `cppGetc`: what of a text of the C family reaches its parser, and the tags of macros |
| `MCCppConditionals` | stale array contents and kinds of directives for the runs |
| `CDeclarations` | the language, knowing nothing of `c.c`: which lexeme may follow which in C and C++, and the tags a reader expects of each |
| `CStatements` | the statement machine of `c.c` for C and C++, on those sources |
| `CStatements_proofs` | proofs about `CStatements` for any number of blocks in each other |
| `CppConditionals_proofs` | proofs about `CppConditionals` for any array and any source |
| `SourceText` | abstract: a file as its parser should see it, taken by characters or by lines |
| `ReadLayer` | `read.c`: bytes to lines and characters, positions and line numbers, the line buffer that doubles, over many files |
| `MCReadLayer` | every file up to a length |
| `ReadLayer_proofs` | proofs about `ReadLayer` for files of any bytes and length |
| `Iteration` | induction and loops, for the proofs about recursive functions |
| `TagBook` | abstract: a book of tags that runs take over and add to |
| `TagText` | the bytes of a tag file: lines, orders, the flag |
| `TagFile` | a run that opens, writes, puts back, cuts and sorts a tag file (`entry.c`, `sort.c`, the passes of `parse.c`) |
| `ReadTags` | lookups of `readtags.c`, sequential and binary, in what a run leaves |
| `MCTagFiles` | small tag files: what there is before a run, its tags, the names looked up |
| `TagFile_proofs` | proofs about `TagFile` for any tags and old files, and that it implements `TagBook` |
| `TokenStream`, `ScriptTokens` | what parsers that read token by token have in common, dotted scopes included, and how a grammar puts sources together with the tags expected of them; what JavaScript and Flex share |
| `JavaScript`, `Flex`, `Sql`, `Fortran`, `OCaml`, `Eiffel`, `ObjC`, `Python`, `Vhdl`, `Verilog` | one parser each, and the grammar of its sources |
| `Ruby`, `Perl`, `Vim`, `Pascal`, `Tex` | the same for parsers that keep something from line to line |
| `TokenParsers` | these fifteen parsers, and `CppText`, on their sources, read on a token or a line at a time |

### Importer

`pc` is where `GetMetadataForURL` stands; each action is a stage of it
(`BeginImport` up to `checkOptions`, `PrepareContext`, a tag at a time through
`NotifySystemTagEntry`, `DumpContextInAttributes`, `CleanupContext`). `language`
is `Option.language`, which survives the import. `kindTable` and `kindLists` are
the fields of `ctxt`, which are *not* reset: `fillTable` resets as many cells as
`sizeof(char) * 8`, and `kindLists` keeps its pointers after their release. An
array is named by the import that made it and by its kind; `heap` has its retain
count and contents. Using a pointer that is NULL crashes the process; using a
released array may crash or, if the memory has not been reused, do nothing. The
host may release a dictionary at any time after the import has returned
(`HostRelease`), and starts the worker again after a crash (`Relaunch`).

Abstracted: names of tags (a tag is its file, position, letter and whether its
name is UTF-8), and the parser (any sequence of letters the language can emit).
Not modelled: what an out-of-range write of `fillTable` does to the globals
behind the table (the cells are taken to be there, holding `Junk` at the start),
kind values no kind has, the exit of the process by a FATAL option error.

### Tables of a run

`RunTables` has the operations on what ctags keeps in static tables while it runs; the
tables are variables of `Importer`. `HashTable` is the pointer, `hashTableIsAllocated` and
the chains of `keyword.c`: a chain is kept under each word that falls into its bucket, in
the order of insertion. The pointer is not reset when the table is freed, so it may be
`"freed"`, and what a lookup then finds is no keyword's value. `Sets` is the array of
pattern sets of `lregex.c` with its upper language, which grows to the highest language
that is given a pattern. `BeginImport` initialises the parsers, which fill both, and reads
the options of a file, which add patterns to a language or clear them; `CleanupContext`
frees both; a crash loses them with the process.

### Plug-in shell

A reference is one count a client owes a `Release` for. Clients follow the rules
of COM: they use and release only what they hold. Addresses of freed instances
are given out again. `slot` is the entry of the function table that
`QueryInterface` overwrites for all clients of the instance.

### Conditionals

One action per kind of line. `skipping` stands for `directive && ignore` at the
end of a line in `cppGetc`: the next line is read and thrown away. The parser is
the environment: on delivered text it may call `cppBeginStatement` or
`cppEndStatement`, which set `resolveRequired`. The source is the environment
too: any sequence of lines and directives, balanced or not. Four history variables
say what a reader knows of it: `depth` is the number of its open conditionals,
`balanced` that every `#endif` so far had its `#if` and no directive was null, `plain` that
moreover nothing followed an `#else` but its `#endif`, no conditional was deeper than the
array and no directive ended with its name (or with a string, as `#include "x"`: then no
character of it makes `handleDirective` ask `isIgnore`); and `open` is the nest of a
plain source. Properties are claimed for as long as a source is balanced
(`NeverDeeper`), for as long as it is plain (`LevelIsDepth`, `BranchChoice`,
`ImplementsNest`), or for every source (types, `SkipsOnlyIgnored`); no action of the
program looks at a history variable. `SkipText` models what a null directive leaves behind: the state `DRCTV_HASH`,
by which the first word of the next skipped line is taken for a directive.

### Text of the C family

`CppText` has `cppGetc` with all it calls, on characters, of which a run of letters and digits is
one. The record has the rest of the file, what of `Cpp` is used, the two characters that can be given
back, and the locals `directive` and `ignore`, on which the loop of `cppGetc` depends. The
parser is between statements, so that only an `#if 0` hides a branch. Texts are built
of pieces, each with what a reader sees of it: literals with quotes, comment marks and
backslashes in them, comments with directives and quotes in them, trigraphs, lines that go
on, directives with every kind of rest, branches in branches. The texts are put together
only from the pieces; what the model makes of texts of any shape (16 000 random ones) was
compared with `get.c` as compiled, and differs only in a word after `@` in C#, of which the
code loses the first letter and the model, where a word is one character, all.

### C and C++ statements

`statements` is `CurrentStatement` with its parents, innermost last; each has the
fields of `statementInfo` and its last three tokens. `createTags` reads one
lexeme: a step of `nextToken` that completes a token deals with it at once
(`tagCheck`, `nest`, `checkStatementEnd`), any other reads on. What the code
reads at one go is one lexeme: a parenthesised group, which `parseParens`
classifies by its content (`parenInfo` by shape), a bracketed group, a skipped
body, an initializer, a colon with what it reads. What the code has read and put
back is `ahead`. A `longjmp` is `Leaves`: `findCTags` deletes all statements.

Sources come from `CDeclarations`: any sequence of variables, prototypes,
functions, pointers to functions, classes with bases, constructors, access marks
and bit-fields, enumerations, typedefs, namespaces, blocks of `extern "C"`,
members defined outside of their class, uses of macros, in any block where the
language allows them. With `Damaged`, a source may break off at any lexeme, in
any group, body or initializer. Names are roles: a type declared elsewhere, a
name of a block, another name. Anonymous blocks share one name. `src` is the
position in the source, with the tags the last lexeme should make; the parser
never looks at it.

Tags have their name, kind, scope and access. Left out are the signature, the
bases, the implementation (`virtual`) and the type of a variable.

The parser misreads some declarations. Each of them was also tried on ctags
built from this source, and each is a member of `Deviations`, which has to hold
it for `CDeclarations` to produce it:

* `namespace`, `using`: the statement goes on after the brace of a namespace and
  after the semicolon of a using directive, so `Foo x;` after either has no tag.
  The first is against a comment in `isStatementEnd` (`c.c:2615`).
* `bits`: in a class or a union a colon starts the statement anew, so a
  bit-field has no tag; in a struct it has.
* `extern`: in `extern int a = 1, b;` the initializer ends the scope, and `b` is
  tagged as a definition.
* `pointer`: in `int a, (*fp)(int);` no token is before the group, so it is not
  read as one, and `fp` is tagged as a prototype.
* `virtual`: in `virtual int f(T), g(U) = 0;` the comma loses `virtual`, and `U`
  is taken for the name of what is initialized.

No line of the repository contradicts the others, so they are facts about the
parser and no findings.

### Reading

`ReadLayer` models `read.c` byte by byte. A byte is an ordinary one, a line
feed, a carriage return, a NUL, or the text of a whole `#line` directive. `File`
is the static record of the program and is *not* made anew with a file:
`fileOpen` sets the fields it sets. A file is read in one of three modes, as the
program does: by characters with one given back (`fileGetc`, `fileUngetc`), by
lines (`fileReadLine`), or as a list read by `readLine` (`readStreamLine`). In
the first two the line in hand may be read once more for the pattern of a tag
(`readSourceLine`), through the same line buffer, whose size stays from file to
file. `readLine` is modelled with what `strlen` makes of a line: it is cut at its first NUL, a
NUL in the last place of the buffer passes for the end of the line, and of a line that is
nothing but a newline the byte before the buffer decides what is left (`BytesBefore`).
`ImplementsText` is the refinement of `SourceText`: whatever the bytes, the parser gets the
text of the file in order and once, each end of a line as one newline; unless the file
has a carriage return that no line feed follows, which the program does not convert, though
its comment says so (`ConvertsReturns`, violated). `PatternOfLine` claims of a pattern's line what comes
before its first NUL.

### Tag files

`TagFile` is a run of ctags on one tag file. `pc` follows `makeTags`: open,
append or refuse; for each source file one or more passes, of which each but the
last is put back to where the file began; then cut and sort. The bytes are there:
offsets, the flag in the first line and the numbers of lines are the program's.
Of a tag's line the model keeps its name and one byte; of the six pseudo tags
one line, the flag that tells the order. `ReadTags` adds a reader, who looks
names up in the file a run leaves, with and without case, whole and by prefix: the
binary search over offsets with its walk back to the first match. Blank lines in a file
there is, which `internalSortTags` drops, are left out: ctags writes none. `KeepsTagBook` is the refinement of `TagBook`: the tags of a pass that
failed are never in the book.

`qsort` may leave equal lines in any order (`Orders`), so all are tried. `Sorts`
is which combinations of `--sort` and of the sort program are looked at.

### Parsers that read tokens or lines

A parser is a set of operators, one per function of its source file, each taking
the parser's state and giving the next: a record of what is still to be read, the
token in hand, the scopes, the tags made. What the functions do when the file
ends, a `longjmp` out of any depth, is the token `EOF`: it is in hand from then on, every
loop stops at it, and no tag is made. The bodies follow the functions in order:
which token is read when, on what the next decision depends, which scope is
current when a tag is made.

At the end of each module is a grammar, written without a look at the parser:
a set of sources, each with the tags (kind, name, scope) a reader of the language
expects. Grammars are finite, built with `**` (one after the other), `Opt` and
unions, and meant for what parsers get wrong: declarations within others, an end
that is shared by several constructs, forward declarations, keywords as names,
lists, members after a nested scope, statements between declarations.
`TokenParsers` reads every source a token or a line further in each step. At
every prefix the tags made so far must be tags of the source, so every sentence is also
tried cut off at every place; at the end the parser has made exactly the expected
tags, each once.

Not in these models: characters within a token, comments, signatures, regular
expressions, and the letters kinds have in the tag file. What a parser is known to
get wrong is not in its grammar but in section 7. Where it shows in the tag of something
worth having in the grammar, the property looks at the tags through an operator `Claimed`
that leaves out what is not claimed: the scope of a class's own name and all variables in
`Flex`, the scope of a protocol's own tag and scopes without a name in `ObjC`.

A tag without a name is a tag: the plug-in is handed it (`entry.c:837`), and only the
program refuses it (`entry.c:816`). So no parser of the models drops one unless its code does.

## 3. Runs

| Run | Shows | Bounds |
|---|---|---|
| `Importer` | no crash, exact retain counts, the forced language, `SpotlightService`, no array of an import that has returned is left for good | C and Objective-C, letters `c` and `m` (`m` is unmapped in one of them and `c` goes to different kinds), option files that may force Python, 2 imports of up to 2 tags: every order of two languages, and order within a file |
| `UntabledTypes` | a crash is always the work of a type without a table; every import has the keywords and patterns of its own run | types with a table, with a row but the empty table, and without a row; 3 imports, so an import before and after each; 3 languages with two words in one bucket and one in another, a word two languages share, a language without patterns below one with; each import without options or with six that add, clear and add again |
| `StaleKinds` | (violated) unmapped letters are dropped | 2 imports: one language after another |
| `VerilogCrash` | (violated) no crash, with Verilog among the types | 1 import |
| `PlugIn` | counts, factory, functions | 2 instances, 4 references: two clients of each, and all of one |
| `Cpp` | types, no text withheld without reason, level never above the depth, on all sources; level, branches and `ConditionalNest` as long as they are plain | array of 4, so plain nests up to 3 deep, and depth 4: one conditional more than the array has room for; stale levels either all clear or all set |
| `CStatements` | exact tags, errors, one statement for each block around (none once the parser has left by an exception), `resolveRequired` between declarations | C and C++; blocks two deep: a class in a class, an enum in a namespace, anything in `extern "C"`; groups of one parameter, with or without a name; names by role, so a scope shows how deep it is |
| `Reading` | `SourceText`, line numbers with and without `#line`, positions, whole lines for patterns | every file of up to 3 bytes, and those of 4 without a NUL, after every other; a buffer of 3, so a line may be shorter, fill it, or be longer; directives are read |
| `LoneReturns` | (violated) every form of line break is a newline to the parser | every file of up to 2 bytes, and those of 3 without a NUL |
| `TagFiles` | `TagBook`, lines counted as they are sorted, the flag tells the order, lookups find all | 2 source files, 2 passes over each, 1 tag a pass; 3 tags, two of which differ in case only and one of which is longer; 8 files to begin with, sorted in either way, unsorted, empty, foreign or none; every `--sort`; lines shorter than half of `JUMP_BACK` |
| `AppendKeepsTags` | (violated) appending keeps the tags there are, when a parser asks for another pass | the same |
| `TokenParsers` | the tags of fifteen languages, and the text and macros of the C family, of whole sources and of sources cut off | all sentences of the grammars: some 13 000 sources of the fifteen languages and 5 000 texts of the C family, nests of two and three scopes, every prefix |

`Importer`, the conditionals, `TagFiles` and `TokenParsers` set `CHECK_DEADLOCK
FALSE`: the number of imports is bounded, the source may end, a run is over when
its file is closed. `CStatements` and `Reading` need no such setting: the machine
of the one rests only after an error or the end of the file, the other opens one
file after another.

The properties of `TokenParsers` are action properties: each says what a parser
makes of the text as it is after a step (`Text'`), which is one more token or line, so
that a source is parsed once for each of its prefixes.

Two bounds leave something out on purpose. `TagFiles` has `Retries = FALSE`: no parser
asks for another pass while the file is appended to, which is the case of the
finding `AppendKeepsTags`. And its sorts are `KeepingSorts`, which leaves out the
external `sort -u -f`, as it drops tags (section 7).

Fairness: `Importer` assumes weak fairness of `HostRelease`, for each import: the host lets go
of a dictionary it was given, once it has copied the attributes, as every user of Core
Foundation must. It may do so at any time, also in the middle of a later import.
Nothing is assumed of the importer itself, whose parsers may loop, nor
that imports go on. `NothingLeaks` rests on it: that an import returned is its
hypothesis, that every array is freed then is up to the counts of both sides.

The four violated properties contradict documentation or a comment; the lines are in
`PROJECT.json`, `findings`.

## 4. Proofs

All proofs are for every value of the constants within the named assumptions.

* `Importer_proofs`. `TypeCorrect` and `ForcedLanguageCorrect` need nothing but
  the assumptions on the tables. `TabledNeverCrashes` and `TabledRetainCounts`
  assume that every content type has a non-empty table. The inductive invariant
  joins `OwnArrays` and `RetainCounts` with three facts: dictionaries hold
  arrays of their own import (`OwnEntries`), an import under way has its number
  and type (`Running`), and its dictionary is empty until it dumps
  (`EmptyUntilDumped`). Retain counts alone are not inductive: to see that
  `cleanupContext` does not release an array of another import one has to know
  whose arrays `ctxt` points to. `OnlyUntabledCrash` needs no such assumption: its
  invariant `CrashInv` carries these facts for as long as every request so far had a
  table, and the requests are a history that only grows. `TabledImplementsService` is the
  refinement of `SpotlightService`, again if every content type has a table. To these
  invariants it adds `Showing`: the kind table agrees with that of the content type where
  this maps a letter (what `fillTable` leaves of the import before does no harm), the arrays
  hold what is due of the tags made so far (`ArraysDue`), and what is dumped is every array
  that is not empty (`AllDumped`). Each step is then a step of the service or does not show.
* `PlugIn_proofs`. `RefCountExact` is inductive together with types; the work is
  in the cardinality of the references to an instance when one is added or
  taken away. `Callable` needs that a living instance's slot was written before
  any reference for an importer interface was handed out.
* `CppConditionals_proofs`. Types (the level is always an index of the array) and
  `SkipsOnlyIgnored` hold for every source, `NeverDeeper` as long as it is balanced,
  and `LevelIsDepth`, `BranchChoice` and the refinement `ImplementsNest` as long as it is plain:
  the theorems state the properties as they are, with no further hypothesis. The
  inductive invariant `NestInv` says
  that every level knows whether the text around it is ignored (`Inherits`) and
  that `skipping` is the state of the innermost one. `BranchChoiceCorrect` joins to it
  that a chosen branch is remembered until the conditional ends, and that a branch closed by
  an incomplete statement is not opened again.
* `Iteration`. The library's induction theorems take an operator, which the provers
  cannot instantiate. Here induction over the natural numbers is stated for *sets* and
  proved from the library's pigeon-hole principle: a counterexample `m` would make
  `x - 1` an injection of the numbers up to `m` outside of the set into fewer.
  `Iterates` and `LoopRuns` give the values a loop runs through; a recursive
  function written `f[k \in 0 .. n] == IF k = 0 THEN x ELSE step(f[k - 1], k)` is one of them.
* `ReadLayer_proofs`. `Effect` is what a call of `iFileGetc` delivers. `InPlace` is what holds of
  the place in the file between two calls: what is still to come (`Reading`), the number and
  start of the line (`Placed`), the number since the last directive (`Numbered`); `Kept` counts the
  characters delivered before a place. The loop of `iFileGetLine` has an invariant of its own
  (`LineState`), and so has the loop that doubles the buffer of `readLine`. `ReadInv` joins `InPlace`
  with what parsers have been given, `StringInv` says that the line in hand is a piece of the
  whole line (`Whole`, `Piece`) that is read again for a pattern, as far as its first NUL. The results are `TextDelivered`
  (the refinement of `SourceText`), `LinesPlaced`, `LinesNumbered` and `WholeLinesMatched`.
* `RunTables_proofs`. `TablesInv` is inductive: an import under way finds in the tables what
  its run put there, and between two imports nothing is to be found, though the pointer
  may be one to a freed table (`FreedTable`: then it is not taken for allocated). For the step that
  begins an import each loop has a lemma with its own invariant: the keywords of a language
  (`LanguageAdds`), of all (`KeywordsAdded`), the patterns of a language (`LanguagePatterns`),
  of all (`PatternsAdded`), the options (`OptionsAdded`). In each the effect of
  one turn on what is looked up is shown to be its effect on what should be found: `ChainGrows` and
  `ValueGrows`, `OptionSets` and `OptionGrows`.
* `TagFile_proofs`. The hypotheses are that the old files are what ctags leaves
  (`OldFilesAreTagFiles`, an assumption TLC evaluates in `MCTagFiles`) and that no pass is repeated
  while a file is appended to (`~Retries`): with such a pass the properties are false, which is
  the finding `AppendKeepsTags`. `Parses` says that lines put together are taken apart into the
  same lines, by induction over the lines with the places of their ends; it lets the proof speak of
  sequences of lines where the program has bytes and offsets. The invariant `FileInv` says that
  the file is at any time the lines of the files done, the tags of the present pass, and behind
  them, if a pass has failed, what is left of it (`Filed`), with the position of the stream,
  the position put aside and the counts at the ends of these. Sorting has two loops with an
  invariant each: the order of what is sorted and what is still left (`Sorting`), and what is kept
  of the lines so far (`Keeping`). `LinesCounted` and `FlagTells` hold for every sort;
  `TagBookKept`, the refinement, excludes `sort -u -f`.

* `CStatements_proofs`. The theorems hold for C and C++, for all `Heads`, `Storages` and `Shapes`
  and every `MaxDepth`, with or without `Damaged` sources. The hypothesis `AsMeant` has three
  parts: no `Deviations` (with one of them `c.c` misreads what the language allows, and the
  theorems are false); `local` is disabled, as in the plug-in, so that bodies of functions are
  skipped; and the passes are the first of the plug-in or of ctags, not the second, by brace
  formatting. The invariant `StatementInv` says that the statements are in step with the source:
  each statement around a block holds that block (`Encloses`), and the innermost one
  holds what the place in the declaration calls for (`Matches`, with what all places share in
  `Common` and what each of them adds in `Placed`). `StatementsAreBlocks` alone is not inductive:
  whether `{` opens a block, and which, is decided by the tokens and the declaration the
  innermost statement has kept since `reinitStatement`, so that a tag left over from the
  last declaration would show only several lexemes later. TLC checked `StatementInv` on the run
  `CStatements` before it was proved. The proof takes one lexeme at a time: every lexeme that
  may follow, or after which the source may break off, is `Served`, with a lemma for each kind of place. The scope
  of a tag is found by the loop of `findScopeHierarchy`, whose invariant is that it has put
  together the names of the blocks it has passed (`ScopeIs`, by `LoopRuns` of `Iteration`).
  The results are `TagsCorrect`, `ErrorsCorrect`, `BlocksCorrect` and `ResolvedCorrect`.

Model-checked only: `NothingLeaks` (liveness is out of the prover's reach), the lookups in tag
files (`LookupFindsAll`) and the parsers of `TokenParsers`, which are written with `RECURSIVE`
operators where the program loops or recurses; no module with a theorem may reach these.
`OwnArrays`, part of the inductive invariant of the importer, is proved and no property of a run.

## 5. Plan

What is left, each with its abstract specification or reference definition:

1. `LanguageMap`: how extensions and interpreters choose a language, and the maps options
   change.
2. `CStatements` for Java, C# and Vera (a declaration outside of a class has no
   Java kind, and its index is -1), for bodies with local variables, and for the
   second pass.
3. `Options`: cooked arguments and option files.
4. Beta, Erlang, SML, Lua, Tcl, Cobol, Makefiles and the other parsers that match lines.
5. Proofs: the binary search of `ReadTags`, whose loops have to become recursive functions for
   it, with the order of the lines that `FlagTells` provides as its hypothesis.

## 6. Not modelled

See `components` in `PROJECT.json` for every part with its reason. In short:
vendored and foreign-platform code, the text of messages, pattern matching of
regular expressions, and everything about files the operating system does.

## 7. What the program does otherwise

Disagreements with the documentation or with comments, met while modelling and
kept as no run:

* `--language-force=auto` and an unknown content type: the language forced by an option file
  stays (`options.c:1816`), though `ctags.1:594-596` says the language is then
  selected automatically; `AutomaticSelection` in `Importer` does not hold.
* `#if 0` within a statement: with `--if0` both branches are read (`get.c:379`,
  `ctags.1:813-816`); `OneBranchOfIfZero` in `CppConditionals` does not hold with `if0 = TRUE`.
* `#include "x"` in an ignored branch lets the text after it through (`get.c:364`).
* Macros in ignored branches get no tag, though `ctags.1` (`--if0`) says macro tags
  are always included; `#undef` makes a tag of kind `d`, which `c.c` describes as
  macro definitions; in the second pass, by brace formatting, `isIgnoreBranch`
  still ignores the branches after the first, though `ctags.1:841-845` says the fall-back
  heuristic "does not selectively follow conditional preprocessor branches".
* Reading: `readLine` ends the line of a full buffer at a CR. (That a lone CR is not converted
  is the finding `LoneReturns`.)
* Tag files: the flag tells the order (`ctags.1:863`) only if a tag was added and the
  file appended to was not sorted regardless of case: `updateSortedFlag` never rewrites a
  `2`, and a run without tags rewrites the flag and does not sort. `sort -u -f`
  drops tags that differ in case only.
* JavaScript: the comment at `jscript.c:1180` says nothing within a block is tagged;
  in `A.prototype.b = function(){ c = function(){}; }` it tags `A.c`.
* Flex: variables are meant to have a tag in global scope only (`flex.c:161`, `flex.c:1385-1388`);
  the public variables of classes have one, those of a script none. A class `D` is tagged as
  `D.D`, as its name is put into the scope before it is copied (`flex.c:1424-1427`).
* Objective-C: outside of a class a tag has a scope of empty name, as the test of `parentName`
  is always true (`objc.c:463`); a protocol is pushed before it is tagged, so its own tag
  has the scope of that protocol.
* Python: `checkParent` (`python.c:446`) fails for nested parents; names are joined
  with `.` where the comment at 406-416 has `/`.
* Fortran: an end written as one word right after the specification part is lost, against the
  comment at `fortran.c:2054`.
* TeX: `\section*[short]{long}` has no tag, though the comment at `tex.c:371` describes it.

Inputs the grammars leave out, as the parser does not make of them the tags a
reader expects; met while the models were compared with ctags built from this
source.

* Options: the kinds switched on and off by `--<LANG>-kinds` are in the parsers' static tables
  and stay switched for the imports that follow in the process.
* Reading (`read.c`, `vstring.c`): NULs are dropped for parsers, and end the line of a pattern or of
  a list. Strings of length 0 or 1 are indexed
  before their start by the stripping of newlines and by `readLine`; the given-back
  character stays in `File` for the next file, if a parser leaves it there.
* Tag files: a lookup may miss a name if a line is longer than about half of `JUMP_BACK`.
* Preprocessor (`get.c`): characters given back within a directive come after it, so `#define Q ??a`
  leaves a `?`, and of three the first is lost; a line that goes on within a word or a comment's
  mark; trigraphs in literals; `#pragma weak` at the end of its line reads on, and
  has its tag in ignored branches too; a `?` or a bracket as trigraph does not
  end the place for a directive; the character after `@` in C#.
* JavaScript: blocks of `if` and loops get a scope from the token before; a statement in a
  function clears the scope; `if (x) y();` swallows the next token; an object with a
  comma at its end has no methods.
* Flex: the first word of a script is lost; a class with `extends` and a public
  variable outside of a class have no tag; of several
  characters given back one is kept; a `switch` ends at its first brace.
* SQL: tables, triggers and types clear the scope; FOR without IS returns early.
* Fortran: what is looked at for a label gets the scope outside; a plain `end` of a
  derived type makes a variable `end`; two statics stay from file to file.
* OCaml: a constructor at the end of a file; a declaration after a variant or a class in a
  module loses the module; `and z` after a `let`; the kinds are the parser's own words, so a function bound by
  `let` is a `var` and the grammar has it so; a global `let` after `begin ... end`;
  counts and flags stay for the next file.
* Objective-C: a property ends the class; brackets among fields; a named struct keeps its
  scope open, as does a named enumeration; statics stay from file to file; two kinds have
  the letter `p`.
* Python: `x = y = 1`; `#` is skipped like a string; `import` in a comment.
* Eiffel: `convert` clauses are looked at a token too early.
* VHDL: `end;` of a subprogram, and an operator's body.
* Verilog: a second direction in an ANSI port list; the character after a list in braces.
* Ruby: `while x do` and `for ... do` count twice; `until` and `class << self` not at
  all, though their `end` does; words after a string on a line, `end.x`; heads within
  `=begin`; `self.m?` loses its mark; `class A::B` is `A`.
* Perl: words that begin like `sub`, `use`, `package` or `format`; `sub P::q` is `P`;
  a forward declaration at the end of a file; constants in a list; a package does not end
  with its block.
* Vim: `normal`, `nohlsearch`, `imenu` pass for maps; some maps are not known; an odd
  character before the name of a command is looked at forever; a script that ends where a command has no name yet
  makes `parseCommand` read from NULL (`vim.c:417`): the model crashes, and of such cuts nothing is claimed; `let a.b` is `a`.
* Pascal: `EXTERN` in capitals and `external`; a comment between keyword and name;
  words that end in a keyword; procedural types; nested parentheses; a name pending at the end.
* TeX: braces and `\%` in a title; an apostrophe begins a string; a keyword
  right after a keyword; marks count as empty words.
