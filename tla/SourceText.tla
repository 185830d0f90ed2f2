------------------------------- MODULE SourceText -------------------------------
(***************************************************************************)
(* What read.c promises its parsers: a file is a sequence of characters    *)
(* with every line end a single newline.  A parser takes it a character at *)
(* a time, and may give the last one back, or a line at a time.            *)
(***************************************************************************)
EXTENDS Naturals, Sequences

CONSTANTS Texts    \* the files there are, as a parser should see them

VARIABLES
  text,       \* the open file
  position,   \* how much of it has been delivered
  answer      \* what the last call returned

LineEnds(t) == {i \in DOMAIN t : t[i] = "LF"}

\* The end of the line that begins after position p, its newline included.
LineEnd(t, p) ==
  IF \E i \in LineEnds(t) : i > p
    THEN CHOOSE i \in LineEnds(t) : i > p /\ \A j \in LineEnds(t) : j > p => i <= j
    ELSE Len(t)

Init == text = <<>> /\ position = 0 /\ answer = <<>>

Open == text' \in Texts /\ position' = 0 /\ answer' = <<>>

Close == text' = <<>> /\ position' = 0 /\ answer' = <<>>

Getc ==
  IF position < Len(text)
    THEN position' = position + 1 /\ answer' = << text[position + 1] >> /\ UNCHANGED text
    ELSE answer' = << "EOF" >> /\ UNCHANGED << text, position >>

Ungetc == position' = position - 1 /\ UNCHANGED << text, answer >>

ReadLine ==
  /\ position' = LineEnd(text, position)
  /\ answer' = IF position = Len(text) THEN << "EOF" >>
               ELSE SubSeq(text, position + 1, IF text[position'] = "LF" THEN position' - 1
                                               ELSE position')
  /\ UNCHANGED text

Next == Open \/ Close \/ Getc \/ Ungetc \/ ReadLine
===============================================================================
