------------------------------- MODULE ReadTags -------------------------------
(***************************************************************************)
(* Looking a name up in the tag file a run leaves (readtags.c).  A reader   *)
(* is a record: pos the offset of the last line read (file->pos), next the  *)
(* offset of fp, name the name of that line, ok what the last read          *)
(* returned; a lookup adds what it searches for.  Offsets are counted from  *)
(* 0.                                                                       *)
(***************************************************************************)
EXTENDS TagFile, SequencesExt

CONSTANT JUMP_BACK, LookupNames

ASSUME JumpBackAssumption == JUMP_BACK \in Nat \ {0}

EndOfLine(bytes, i) ==
    IF \E n \in i..Len(bytes) : bytes[n] = NL
    THEN CHOOSE n \in i..Len(bytes) : bytes[n] = NL /\ \A k \in i..(n - 1) : bytes[k] # NL
    ELSE Len(bytes)

(* copyName: up to the first TAB, else up to the newline.                  *)
NameOf(line) ==
    LET stop == IF Contains(line, TAB) THEN TAB ELSE NL
    IN  IF Contains(line, stop)
        THEN SubSeq(line, 1, (CHOOSE i \in DOMAIN line :
                                line[i] = stop /\ \A k \in 1..(i - 1) : line[k] # stop) - 1)
        ELSE line

readTagLineRaw(bytes, r) ==
    LET end == EndOfLine(bytes, r.next + 1)
        line == SubSeq(bytes, r.next + 1, end)
    IN  IF r.next = Len(bytes) THEN [r EXCEPT !.pos = r.next, !.ok = FALSE]
        ELSE [r EXCEPT !.pos = r.next, !.next = end,
                       !.line = line, !.name = NameOf(line), !.ok = TRUE]

(* A line without a name is passed over: also what is left of a line when   *)
(* the offset sought is that of its TAB or its newline.                     *)
RECURSIVE readTagLine(_, _)
readTagLine(bytes, r) ==
    LET read == readTagLineRaw(bytes, r)
    IN  IF read.ok /\ read.name = <<>> THEN readTagLine(bytes, read) ELSE read

readTagLineSeek(bytes, r, pos) ==
    LET partial == readTagLine(bytes, [r EXCEPT !.next = pos])
    IN  IF pos > 0 /\ partial.ok THEN readTagLine(bytes, partial) ELSE partial

-----------------------------------------------------------------------------
Prefix(s, n) == SubSeq(s, 1, IF n < Len(s) THEN n ELSE Len(s))

\* The name of a line, and the name looked for, as they are compared.
Compared(r, name) ==
    LET s == IF r.partial THEN Prefix(name, Len(r.search)) ELSE name
    IN  IF r.ignorecase THEN Folded(s) ELSE s

(* -1, 0 or 1: the name searched for is before, like or after the line's.  *)
nameComparison(r) ==
    LET search == Compared(r, r.search)
        name == Compared(r, r.name)
    IN  CASE search = name -> 0
          [] Before(search, name) -> -1
          [] OTHER -> 1

Matches(r) == nameComparison(r) = 0

RECURSIVE NonMatchFrom(_, _, _, _)
NonMatchFrom(bytes, r, pos, start) ==
    LET back == IF pos < JUMP_BACK THEN 0 ELSE pos - JUMP_BACK
        read == readTagLineSeek(bytes, r, back)
    IN  IF read.ok /\ Matches(read) /\ back > 0 /\ back < start
        THEN NonMatchFrom(bytes, read, back, start)
        ELSE read

\* A mutant: the search for the first match does not go back.
stayAtMatch(bytes, r) == r

findFirstNonMatchBefore(bytes, r) == NonMatchFrom(bytes, r, r.pos, r.pos)

Success(r) == [r EXCEPT !.found = TRUE]
Failure(r) == [r EXCEPT !.found = FALSE]

RECURSIVE FirstMatchUpTo(_, _, _)
FirstMatchUpTo(bytes, r, start) ==
    LET read == readTagLine(bytes, r)
    IN  IF Matches(read) THEN Success(read)
        ELSE IF read.ok /\ read.pos < start THEN FirstMatchUpTo(bytes, read, start)
        ELSE Failure(read)

findFirstMatchBefore(bytes, r) ==
    FirstMatchUpTo(bytes, findFirstNonMatchBefore(bytes, r), r.pos)

RECURSIVE BinaryFrom(_, _, _, _, _, _)
BinaryFrom(bytes, r, pos, last_pos, lower_limit, upper_limit) ==
    LET read == readTagLineSeek(bytes, r, pos)
        comp == nameComparison(read)
        lower == IF comp > 0 THEN pos ELSE lower_limit
        upper == IF comp < 0 THEN pos ELSE upper_limit
    IN  CASE ~read.ok -> findFirstMatchBefore(bytes, read)
          [] read.ok /\ pos = last_pos -> Failure(read)
          [] read.ok /\ pos # last_pos /\ comp # 0 ->
                BinaryFrom(bytes, read, lower + (upper - lower) \div 2, pos, lower, upper)
          [] OTHER -> IF pos = 0 THEN Success(read) ELSE findFirstMatchBefore(bytes, read)

findBinary(bytes, r) == BinaryFrom(bytes, r, Len(bytes) \div 2, 0, 0, Len(bytes))

RECURSIVE findSequential(_, _)
findSequential(bytes, r) ==
    LET read == readTagLine(bytes, r)
    IN  IF ~read.ok THEN Failure(read)
        ELSE IF Matches(read) THEN Success(read)
        ELSE findSequential(bytes, read)

-----------------------------------------------------------------------------
Binary(bytes, r) ==
    \/ SortMethod(bytes) = Sorted /\ ~r.ignorecase
    \/ SortMethod(bytes) = FoldSorted /\ r.ignorecase

Reader(name, ignorecase, partial) ==
    [pos |-> 0, next |-> 0, line |-> <<>>, name |-> <<>>, ok |-> TRUE, found |-> FALSE,
     search |-> name, ignorecase |-> ignorecase, partial |-> partial]

find(bytes, r) == IF Binary(bytes, r) THEN findBinary(bytes, r) ELSE findSequential(bytes, r)

findNext(bytes, r) ==
    IF Binary(bytes, r)
    THEN LET read == readTagLine(bytes, r)
         IN  IF read.ok /\ Matches(read) THEN Success(read) ELSE Failure(read)
    ELSE findSequential(bytes, r)

(* tagsFind and then tagsFindNext until it fails: the lines returned.       *)
RECURSIVE FoundFrom(_, _)
FoundFrom(bytes, r) ==
    IF r.found THEN <<r.line>> \o FoundFrom(bytes, findNext(bytes, r)) ELSE <<>>

Lookup(bytes, name, ignorecase, partial) ==
    FoundFrom(bytes, find(bytes, Reader(name, ignorecase, partial)))

(* What a lookup is for: the lines whose name is the one looked for.        *)
Wanted(bytes, name, ignorecase, partial) ==
    LET r == Reader(name, ignorecase, partial)
    IN  SelectSeq(LinesOf(bytes), LAMBDA line : Matches([r EXCEPT !.name = NameOf(line)]))

(* A lookup returns each line with its name, in the order of the file,      *)
(* wherever a flag and order agree (readtags.c:560).                        *)
LookupFindsAll ==
    Closed /\ InOrder(SortMethod(disk.bytes), LinesOf(disk.bytes)) =>
        \A name \in LookupNames : \A ignorecase, partial \in BOOLEAN :
            Lookup(disk.bytes, name, ignorecase, partial) =
                Wanted(disk.bytes, name, ignorecase, partial)
=============================================================================
