-------------------------------- MODULE ReadLayer --------------------------------
(***************************************************************************)
(* read.c: the bytes of a file become lines, and the lines characters.     *)
(* "File" is one static record that outlives the file, as does the place   *)
(* where the current line starts.                                          *)
(***************************************************************************)
EXTENDS Naturals, Sequences, FiniteSets

CONSTANTS
  Files,           \* the files, as sequences of bytes
  lineDirectives,  \* Option.lineDirectives
  InitialSize      \* vStringInitialSize

\* A byte is "x", "LF", "CR", "NUL" or "#line": the text of a whole directive,
\* without the end of its line, that says line 7 comes next.
Bytes == {"x", "LF", "CR", "NUL", "#line"}
DirectiveLine == 7

ASSUME ReadAssumption ==
  /\ Files \subseteq Seq(Bytes) /\ lineDirectives \in BOOLEAN
  /\ InitialSize \in Nat \ {0, 1}

VARIABLES
  bytes,     \* the file that is open
  File,      \* the static of read.c, StartOfLine included
  mode,      \* which interface is used: two for parsers, one for other files
  answer,    \* what the last call returned
  given,     \* characters delivered of this file (history)
  vLine,     \* the string of readLine, kept from file to file
  stream     \* where readLine goes on in a file that is no source

vars == << bytes, File, mode, answer, given, vLine, stream >>

NULL == << "NULL" >>

-------------------------------------------------------------------------------
(* Bytes to lines                                                          *)

ByteAt(i) == IF i \in DOMAIN bytes THEN bytes[i] ELSE "EOF"

fileNewline(f) ==
  [f EXCEPT !.filePosition = f.StartOfLine, !.newLine = FALSE,
            !.lineNumber = @ + 1, !.sourceLine = @ + 1]

EndsLine(f, fp) == [f EXCEPT !.fp = fp, !.newLine = TRUE, !.StartOfLine = fp, !.c = "LF"]

\* Mutant: a line feed after a carriage return is read again.
ReturnAlone(f) == [f EXCEPT !.fp = @ + 1, !.c = "LF", !.newLine = TRUE, !.StartOfLine = f.fp + 1]

\* A carriage return ends a line only with a line feed after it.
CarriageReturn(f) ==
  IF ByteAt(f.fp + 1) = "LF" THEN EndsLine(f, f.fp + 2)
  ELSE [f EXCEPT !.fp = @ + 1, !.c = "CR"]

\* One byte, with what the end of a line does.
Canonical(f) ==
  CASE ByteAt(f.fp) = "EOF" -> [f EXCEPT !.eof = TRUE, !.c = "EOF"]
    [] ByteAt(f.fp) = "LF"  -> EndsLine(f, f.fp + 1)
    [] ByteAt(f.fp) = "CR"  -> CarriageReturn(f)
    [] OTHER                -> [f EXCEPT !.fp = @ + 1, !.c = ByteAt(f.fp)]

\* Mutant: the number is taken for that of the directive's own line.
directiveItself(f) == [f EXCEPT !.fp = @ + 1, !.sourceLine = DirectiveLine]

parseLineDirective(f) == [f EXCEPT !.fp = @ + 1, !.sourceLine = DirectiveLine - 1]

\* The first byte of a line counts the line; a directive there is passed over.
iFileGetc(f) ==
  IF f.newLine /\ ByteAt(f.fp) # "EOF"
    THEN IF lineDirectives /\ ByteAt(f.fp) = "#line"
           THEN Canonical(parseLineDirective(fileNewline(f)))
           ELSE Canonical(fileNewline(f))
    ELSE Canonical(f)

\* vStringPut does not keep a NUL.
Put(line, c) == IF c \in {"EOF", "NUL"} THEN line ELSE Append(line, c)

\* One turn of the loop of iFileGetLine, and its turns from f on.
Take(f) == LET g == iFileGetc(f) IN [g EXCEPT !.line = Put(@, g.c)]
Turns(f) == LET turn[k \in Nat] == IF k = 0 THEN f ELSE Take(turn[k - 1]) IN turn

\* The loop ends with the first turn that meets the end of the line or the file.
GetsLine(f) ==
  LET Ends(k) == Turns(f)[k].c \in {"LF", "EOF"}
      last == CHOOSE k \in 1 .. Len(bytes) + 2 : Ends(k) /\ \A j \in 1 .. k - 1 : ~ Ends(j)
  IN Turns(f)[last]

\* The line is NULL at the end of the file.
iFileGetLine(f) ==
  LET g == GetsLine([f EXCEPT !.line = <<>>])
  IN [g EXCEPT !.result = IF g.c = "EOF" /\ g.line = <<>> THEN NULL ELSE g.line]

-------------------------------------------------------------------------------
(* readLine: a line of any length is read by fgets into a string of a      *)
(* given size, which is doubled and read again until the line fits.        *)

\* The bytes fgets puts into a buffer of a size, reading from position p.
fgets(b, p, size) ==
  LET Ends(n) == n = size - 1 \/ p + n > Len(b) \/ (n > 0 /\ b[p + n - 1] = "LF")
      n == CHOOSE n \in 0 .. size - 1 : Ends(n) /\ \A k \in 0 .. n - 1 : ~ Ends(k)
  IN SubSeq(b, p, p + n - 1)

Last(s) == IF s = <<>> THEN "none" ELSE s[Len(s)]

\* Mutant: a line that fills the buffer is taken for a whole one.
FitsFull(s, size) == TRUE

\* The last place of the buffer is empty, or holds the end of a line or a NUL.
Fits(s, size) == Len(s) < size - 1 \/ Last(s) \in {"LF", "CR", "NUL"}

\* What strlen finds of it: the bytes before the first NUL.
UpToNul(s) ==
  LET Ends(n) == n = Len(s) \/ s[n + 1] = "NUL"
      n == CHOOSE n \in 0 .. Len(s) : Ends(n) /\ \A k \in 0 .. n - 1 : ~ Ends(k)
  IN SubSeq(s, 1, n)

\* A newline as parsers know it.  Of a bare newline the byte "before" the buffer
\* is looked at, and after a carriage return there it is gone.  (Of an empty
\* string two such bytes are looked at; its characters stay as they are.)
Canonize(s, before) ==
  IF Last(s) = "CR" THEN SubSeq(s, 1, Len(s) - 1) \o << "LF" >>
  ELSE IF Len(s) > 1 /\ Last(s) = "LF" /\ s[Len(s) - 1] = "CR"
    THEN SubSeq(s, 1, Len(s) - 2) \o << "LF" >>
  ELSE IF s = << "LF" >> /\ before = "CR" THEN <<>>
  ELSE s

\* The sizes of the string, doubled each time (vStringAutoResize).
Sizes(first) == LET size[k \in Nat] == IF k = 0 THEN first ELSE 2 * size[k - 1] IN size

\* The line is read with the first size it fits.
readLine(b, p, first, before) ==
  LET Whole(k) == Fits(fgets(b, p, Sizes(first)[k]), Sizes(first)[k])
      tries == CHOOSE k \in 0 .. Len(b) : Whole(k) /\ \A j \in 0 .. k - 1 : ~ Whole(j)
      size == Sizes(first)[tries]
      s == fgets(b, p, size)
  IN [text |-> Canonize(UpToNul(s), before), next |-> p + Len(s), size |-> size]

-------------------------------------------------------------------------------
(* The interfaces                                                          *)

\* Mutant: the file is opened with the flags of the one before it.
fileOpenStale(f) ==
  [f EXCEPT !.fp = 1, !.StartOfLine = 1, !.filePosition = 1, !.currentLine = NULL,
            !.lineNumber = 0, !.eof = FALSE, !.line = <<>>, !.sourceLine = 0]

fileOpen(f) ==
  [f EXCEPT !.fp = 1, !.StartOfLine = 1, !.filePosition = 1, !.currentLine = NULL,
            !.lineNumber = 0, !.eof = FALSE, !.newLine = TRUE, !.line = <<>>,
            !.sourceLine = 0]

\* fileGetc when nothing has been given back: the rest of the line, or a new one.
NextOfLine(f) ==
  LET g == IF f.currentLine \in {NULL, <<>>} THEN iFileGetLine(f)
           ELSE [f EXCEPT !.result = f.currentLine]
  IN IF g.result = NULL THEN [g EXCEPT !.currentLine = NULL, !.c = "EOF"]
     ELSE [g EXCEPT !.currentLine = Tail(g.result), !.c = Head(g.result)]

Open(file, m) ==
  /\ mode = "closed"
  /\ bytes' = file /\ mode' = m /\ File' = fileOpen(File)
  /\ answer' = <<>> /\ given' = 0
  /\ stream' = 1 /\ vLine' = [vLine EXCEPT !.text = <<>>, !.next = 1]

fileGetc ==
  /\ mode = "chars"
  /\ File' = IF File.ungetch # "none" THEN [File EXCEPT !.c = File.ungetch, !.ungetch = "none"]
             ELSE NextOfLine(File)
  /\ answer' = << File'.c >>
  /\ given' = IF File'.c = "EOF" THEN given ELSE given + 1
  /\ UNCHANGED << bytes, mode, vLine, stream >>

\* A parser gives back the character it read last.
fileUngetc ==
  /\ mode = "chars" /\ File.ungetch = "none" /\ answer # <<>>
  /\ File' = [File EXCEPT !.ungetch = answer[1]]
  /\ given' = IF answer[1] = "EOF" THEN given ELSE given - 1
  /\ UNCHANGED << bytes, mode, answer, vLine, stream >>

\* vStringStripNewline.
Stripped(line) == IF line[Len(line)] = "LF" THEN SubSeq(line, 1, Len(line) - 1) ELSE line

fileReadLine ==
  /\ mode = "lines"
  /\ File' = iFileGetLine(File)
  /\ answer' = IF File'.result = NULL THEN << "EOF" >> ELSE Stripped(File'.result)
  /\ given' = IF File'.result = NULL THEN given ELSE given + Len(File'.result)
  /\ UNCHANGED << bytes, mode, vLine, stream >>

\* What may be in memory before the buffer of a string: a carriage return or not.
BytesBefore == {"CR", "x"}

\* The line in hand, read once more for the pattern of a tag.
readSourceLine ==
  /\ mode \in {"chars", "lines"} /\ answer \notin {<<>>, << "EOF" >>}
  /\ \E before \in BytesBefore :
        vLine' = readLine(bytes, File.filePosition, vLine.size, before)
  /\ UNCHANGED << bytes, File, mode, answer, given, stream >>

\* The next line of a list of files, an option file or a tag file.
readStreamLine ==
  /\ mode = "stream" /\ stream <= Len(bytes)
  /\ \E before \in BytesBefore : vLine' = readLine(bytes, stream, vLine.size, before)
  /\ stream' = vLine'.next
  /\ UNCHANGED << bytes, File, mode, answer, given >>

\* A parser may stop before the end of the file, but takes what it has given back.
fileClose ==
  /\ \/ mode \in {"chars", "lines"} /\ File.ungetch = "none"
     \/ mode = "stream" /\ stream > Len(bytes)
  /\ mode' = "closed" /\ bytes' = <<>> /\ answer' = <<>> /\ given' = 0 /\ stream' = 1
  /\ File' = [File EXCEPT !.fp = 0, !.c = "none", !.result = NULL]
  /\ vLine' = [vLine EXCEPT !.text = <<>>, !.next = 1]

Init ==
  /\ bytes = <<>> /\ mode = "closed" /\ answer = <<>> /\ given = 0
  /\ vLine = [text |-> <<>>, next |-> 1, size |-> InitialSize] /\ stream = 1
  /\ File = [ fp |-> 0, StartOfLine |-> 1, filePosition |-> 1, line |-> <<>>,
              currentLine |-> NULL, lineNumber |-> 0, sourceLine |-> 0,
              ungetch |-> "none", eof |-> FALSE, newLine |-> FALSE,
              c |-> "none", result |-> NULL ]

Next ==
  \/ \E file \in Files, m \in {"chars", "lines", "stream"} : Open(file, m)
  \/ fileGetc \/ fileUngetc \/ fileReadLine \/ readSourceLine \/ readStreamLine
  \/ fileClose

Spec == Init /\ [][Next]_vars

-------------------------------------------------------------------------------
(* Properties                                                              *)

\* Where the lines of a file start, as a reader counts them.
Starts(b) == {1} \union {i \in 2 .. Len(b) : b[i - 1] = "LF"}

IsDirective(b, i) == lineDirectives /\ b[i] = "#line" /\ i \in Starts(b)

\* The characters that a file's bytes stand for: CR LF is a newline; directives and
\* NULs are gone.
Characters(b) ==
  LET Kept(i) == ~ \/ b[i] = "NUL" \/ IsDirective(b, i)
                   \/ b[i] = "CR" /\ i < Len(b) /\ b[i + 1] = "LF"
      Places == {i \in DOMAIN b : Kept(i)}
      Nth(n) == CHOOSE i \in Places : Cardinality({j \in Places : j <= i}) = n
  IN [n \in 1 .. Cardinality(Places) |-> b[Nth(n)]]

\* The file a parser should see: a CR, which ends a line on Mac OS 9, is a newline too.
Text(b) ==
  LET t == Characters(b)
  IN [n \in DOMAIN t |-> IF t[n] = "CR" THEN "LF" ELSE t[n]]

LoneReturn(s) == \E i \in DOMAIN s : s[i] = "CR" /\ (i = Len(s) \/ s[i + 1] # "LF")

\* Parsers are given the characters of the file, in order and once, whichever
\* interface they use, and whatever file was read before (iFileGetc, fileGetc,
\* fileUngetc, fileOpen); of a file without a carriage return of its own.
Source == INSTANCE SourceText WITH
  Texts <- Seq(Bytes), text <- Text(bytes), position <- given
ImplementsText ==
  /\ Source!Init
  /\ [][LoneReturn(bytes) \/ Source!Next]_<< Text(bytes), given, answer >>

\* read.c:379: "The three commonly used forms if line breaks: LF (UNIX/Mac OS X),
\* CR (Mac OS 9), and CR-LF (MS-DOS) are converted into a generic newline."
ConvertsReturns == Source!Init /\ [][Source!Next]_<< Text(bytes), given, answer >>

\* While a line is delivered, lineNumber counts it and filePosition is where it
\* starts in the file, whatever ends lines and however far a parser reads ahead
\* in it (fileNewline).
PositionOfLine ==
  mode \in {"chars", "lines"} /\ File.lineNumber > 0 =>
    LET Begun == {s \in Starts(bytes) : s < File.fp}
    IN /\ File.filePosition \in Begun /\ \A s \in Begun : s <= File.filePosition
       /\ File.lineNumber = Cardinality(Begun)

\* sourceLine numbers lines from the directive before them, or from the top.
SourceLineCounts ==
  mode \in {"chars", "lines"} /\ File.lineNumber > 0 =>
    LET D == {i \in DOMAIN bytes : IsDirective(bytes, i) /\ i <= File.filePosition}
        Lines(from) == Cardinality({s \in Starts(bytes) : from < s /\ s <= File.filePosition})
    IN File.sourceLine = IF D = {} THEN File.lineNumber
                         ELSE DirectiveLine - 1 + Lines(CHOOSE i \in D : \A j \in D : j <= i)

LineFrom(b, s) ==
  LET e == CHOOSE e \in s - 1 .. Len(b) :
             /\ e = Len(b) \/ (e >= s /\ b[e] = "LF")
             /\ \A i \in s .. e - 1 : b[i] # "LF"
  IN SubSeq(b, s, e)

\* A tag's pattern is made from the whole line the tag is in, however long, up to
\* its first NUL if it has one; unless the line holds a carriage return of its own
\* or is nothing but a newline (readSourceLine, readLine).
PatternOfLine ==
  mode \in {"chars", "lines"} =>
    \A s \in Starts(bytes) :
      LET line == LineFrom(bytes, s)
      IN s < vLine.next /\ vLine.next <= s + Len(line)
           /\ ~ LoneReturn(line) /\ line # << "LF" >>
           => vLine.text = Canonize(UpToNul(line), "x")
===============================================================================
