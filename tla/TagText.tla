------------------------------- MODULE TagText -------------------------------
(***************************************************************************)
(* The bytes of a tag file: lines of a name, a TAB, the rest and a newline *)
(* (writeCtagsEntry).  Of the rest one byte is kept, which tells two tags  *)
(* of one name apart.  Of the six pseudo tags of addPseudoTags the model   *)
(* keeps one line, TAG_FILE_SORTED, whose byte after the TAB is its flag.  *)
(***************************************************************************)
EXTENDS Integers, Sequences, FiniteSets, Functions

TAB == "TAB"
NL  == "NL"

\* The bytes in the order of their codes.
Ascii == <<TAB, NL, "!", "#", "0", "1", "2", "A", "B", "_", "a", "b">>

Characters == Range(Ascii)

Code == [c \in Range(Ascii) |-> CHOOSE i \in DOMAIN Ascii : Ascii[i] = c]

toupper(c) == CASE c = "a" -> "A" [] c = "b" -> "B" [] OTHER -> c

Folded(s) == [i \in DOMAIN s |-> toupper(s[i])]

\* s is what t begins with.
Begins(s, t) == Len(s) <= Len(t) /\ \A i \in DOMAIN s : s[i] = t[i]

(* The orders of strcmp and of struppercmp. *)
Before(s, t) ==
    \/ \E n \in DOMAIN s \cap DOMAIN t :
        /\ Code[s[n]] < Code[t[n]]
        /\ \A i \in 1..(n - 1) : s[i] = t[i]
    \/ Len(s) < Len(t) /\ Begins(s, t)

Unsorted == "0"
Sorted == "1"
FoldSorted == "2"
SortMethods == {Unsorted, Sorted, FoldSorted}

\* What a line is compared by under a sort method.
Key(method, s) == IF method = FoldSorted THEN Folded(s) ELSE s

\* PSEUDO_TAG_PREFIX, and where the flag of the pseudo tag is.
PseudoTagPrefix == <<"!", "_">>
FlagAt == 4

PseudoTag(flag) == PseudoTagPrefix \o <<TAB, flag, NL>>

IsPseudo(s) == Begins(PseudoTagPrefix, s)

\* readPseudoTags: the flag of the line that begins with "!_", '0' without one.
SortMethod(bytes) == IF IsPseudo(bytes) THEN bytes[FlagAt] ELSE Unsorted

WholeLines ==
    {line \in Seq(Characters) :
        /\ line # <<>> /\ line[Len(line)] = NL
        /\ \A i \in 1..(Len(line) - 1) : line[i] # NL}

(* What readLine returns one after the other: each line with its newline,  *)
(* a last one without it when the file does not end in one.                *)
Ends(bytes) == {i \in DOMAIN bytes : bytes[i] = NL \/ i = Len(bytes)}

Nth(places, n) == CHOOSE i \in places : Cardinality({j \in places : j <= i}) = n

LinesOf(bytes) ==
    LET ends == Ends(bytes)
    IN  [n \in 1..Cardinality(ends) |->
            SubSeq(bytes, IF n = 1 THEN 1 ELSE Nth(ends, n - 1) + 1, Nth(ends, n))]

Bytes(lines) ==
    LET joined[i \in 0..Len(lines)] ==
            IF i = 0 THEN <<>> ELSE joined[i - 1] \o lines[i]
    IN  joined[Len(lines)]

InOrder(method, lines) ==
    method = Unsorted \/ \A i \in 1..(Len(lines) - 1) :
        ~Before(Key(method, lines[i + 1]), Key(method, lines[i]))

(* Every order qsort may leave the lines in: which of two equal lines comes *)
(* first is not determined.                                                 *)
Least(method, lines, left) ==
    {i \in left : \A j \in left : ~Before(Key(method, lines[j]), Key(method, lines[i]))}

Orders(method, lines) ==
    LET begun[k \in 0..Len(lines)] ==
            IF k = 0 THEN {[order |-> <<>>, left |-> DOMAIN lines]}
            ELSE UNION {{[order |-> Append(s.order, lines[i]), left |-> s.left \ {i}]
                            : i \in Least(method, lines, s.left)}
                        : s \in begun[k - 1]}
    IN  {s.order : s \in begun[Len(lines)]}
=============================================================================
