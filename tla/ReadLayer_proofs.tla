---------------------------- MODULE ReadLayer_proofs ----------------------------
(***************************************************************************)
(* Proofs about ReadLayer, for files of any bytes and any length: parsers  *)
(* are given the text of every file in order and once, under the right     *)
(* numbers and positions of lines, and the pattern of a tag is made from   *)
(* its whole line.                                                         *)
(*                                                                         *)
(* The argument: what a call of iFileGetc delivers (Effect), what this     *)
(* says of the place in the file (Reading, Placed, Numbered) and of the    *)
(* characters delivered so far (Kept); then the loop of iFileGetLine, one  *)
(* turn at a time (LineState); then the interfaces (ReadInv).              *)
(***************************************************************************)
EXTENDS ReadLayer, Iteration, SequenceTheorems

FileRecords ==
  [ fp : Nat, StartOfLine : Nat, filePosition : Nat, line : Seq(Bytes),
    currentLine : Seq(Bytes) \cup {NULL}, lineNumber : Nat, sourceLine : Nat,
    ungetch : Bytes \cup {"none", "EOF"}, eof : BOOLEAN, newLine : BOOLEAN,
    c : Bytes \cup {"none", "EOF"}, result : Seq(Bytes) \cup {NULL} ]

\* A line begins at p.
Begins(b, p) == p = 1 \/ b[p - 1] = "LF"

\* The starts of the lines begun before p.
Begun(b, p) == {s \in Starts(b) : s < p}

-------------------------------------------------------------------------------

\* What comes of the byte at q: the character and the place it leaves.  A line
\* that does not end there leaves the flag and the start of the next line alone.
Delivered(b, g, q, newLine, start) ==
  \/ /\ q = Len(b) + 1 /\ g.fp = q /\ g.c = "EOF"
     /\ g.newLine = newLine /\ g.StartOfLine = start
  \/ /\ q <= Len(b) /\ b[q] = "LF" /\ g.fp = q + 1
     /\ g.c = "LF" /\ g.newLine = TRUE /\ g.StartOfLine = q + 1
  \/ /\ q < Len(b) /\ b[q] = "CR" /\ b[q + 1] = "LF" /\ g.fp = q + 2
     /\ g.c = "LF" /\ g.newLine = TRUE /\ g.StartOfLine = q + 2
  \/ /\ q <= Len(b) /\ b[q] # "LF" /\ ~ (b[q] = "CR" /\ q < Len(b) /\ b[q + 1] = "LF")
     /\ g.fp = q + 1 /\ g.c = b[q]
     /\ g.newLine = newLine /\ g.StartOfLine = start

SameLine(f, g) ==
  /\ g.filePosition = f.filePosition /\ g.lineNumber = f.lineNumber
  /\ g.sourceLine = f.sourceLine

SameBuffers(f, g) ==
  g.line = f.line /\ g.currentLine = f.currentLine /\ g.ungetch = f.ungetch

\* The byte at fp, wherever the reading is.
LEMMA CanonicalDelivers ==
  ASSUME bytes \in Seq(Bytes), NEW f \in FileRecords, f.fp \in 1 .. Len(bytes) + 1
  PROVE  /\ Canonical(f) \in FileRecords
         /\ SameLine(f, Canonical(f)) /\ SameBuffers(f, Canonical(f))
         /\ Delivered(bytes, Canonical(f), f.fp, f.newLine, f.StartOfLine)
<1> DEFINE q == f.fp
           g == Canonical(f)
<1>1. q \in Nat /\ q >= 1 /\ Len(bytes) \in Nat /\ DOMAIN bytes = 1 .. Len(bytes)
  OBVIOUS
<1>2. CASE q = Len(bytes) + 1
  <2>1. ByteAt(q) = "EOF"
    BY <1>1, <1>2 DEF ByteAt
  <2>2. g = [f EXCEPT !.eof = TRUE, !.c = "EOF"]
    BY <2>1 DEF Canonical
  <2> HIDE DEF g
  <2>3. g \in FileRecords /\ SameLine(f, g) /\ SameBuffers(f, g)
    BY <2>2 DEF FileRecords, SameLine, SameBuffers
  <2>4. g.fp = q /\ g.c = "EOF" /\ g.newLine = f.newLine /\ g.StartOfLine = f.StartOfLine
    BY <2>2 DEF FileRecords
  <2>5. Delivered(bytes, g, q, f.newLine, f.StartOfLine)
    BY <1>2, <2>4 DEF Delivered
  <2> QED
    BY <2>3, <2>5 DEF g
<1>3. ASSUME NEW p \in Nat, g = EndsLine(f, p)
      PROVE  /\ g \in FileRecords /\ SameLine(f, g) /\ SameBuffers(f, g)
             /\ g.fp = p /\ g.c = "LF" /\ g.newLine = TRUE /\ g.StartOfLine = p
  <2> HIDE DEF g
  <2>1. g = [f EXCEPT !.fp = p, !.newLine = TRUE, !.StartOfLine = p, !.c = "LF"]
    BY <1>3 DEF EndsLine
  <2>2. g \in FileRecords
    BY <2>1 DEF FileRecords, Bytes
  <2> QED
    BY <2>1, <2>2 DEF FileRecords, SameLine, SameBuffers
<1>4. CASE q <= Len(bytes) /\ bytes[q] = "LF"
  <2>1. ByteAt(q) = "LF"
    BY <1>1, <1>4 DEF ByteAt
  <2>2. g = EndsLine(f, q + 1)
    BY <2>1 DEF Canonical
  <2>3. q + 1 \in Nat
    BY <1>1
  <2> HIDE DEF g
  <2>4. /\ g \in FileRecords /\ SameLine(f, g) /\ SameBuffers(f, g)
        /\ g.fp = q + 1 /\ g.c = "LF" /\ g.newLine = TRUE /\ g.StartOfLine = q + 1
    BY <1>3, <2>2, <2>3
  <2>5. Delivered(bytes, g, q, f.newLine, f.StartOfLine)
    BY <1>4, <2>4 DEF Delivered
  <2> QED
    BY <2>4, <2>5 DEF g
<1>5. CASE q < Len(bytes) /\ bytes[q] = "CR" /\ bytes[q + 1] = "LF"
  <2>1. ByteAt(q) = "CR" /\ ByteAt(q + 1) = "LF"
    BY <1>1, <1>5 DEF ByteAt
  <2>2. g = EndsLine(f, q + 2)
    BY <2>1 DEF Canonical, CarriageReturn
  <2>3. q + 2 \in Nat
    BY <1>1
  <2> HIDE DEF g
  <2>4. /\ g \in FileRecords /\ SameLine(f, g) /\ SameBuffers(f, g)
        /\ g.fp = q + 2 /\ g.c = "LF" /\ g.newLine = TRUE /\ g.StartOfLine = q + 2
    BY <1>3, <2>2, <2>3
  <2>5. Delivered(bytes, g, q, f.newLine, f.StartOfLine)
    BY <1>5, <2>4 DEF Delivered
  <2> QED
    BY <2>4, <2>5 DEF g
<1>6. CASE /\ q <= Len(bytes) /\ bytes[q] # "LF"
           /\ ~ (bytes[q] = "CR" /\ q < Len(bytes) /\ bytes[q + 1] = "LF")
  <2>1. ByteAt(q) = bytes[q] /\ bytes[q] \in Bytes
    BY <1>1, <1>6 DEF ByteAt
  <2>2. bytes[q] = "CR" => ByteAt(q + 1) # "LF"
    BY <1>1, <1>6 DEF ByteAt
  <2>3. g = [f EXCEPT !.fp = q + 1, !.c = bytes[q]]
    BY <1>6, <2>1, <2>2 DEF Canonical, CarriageReturn, Bytes
  <2> HIDE DEF g
  <2>4. g \in FileRecords /\ SameLine(f, g) /\ SameBuffers(f, g)
    <3>1. q + 1 \in Nat
      BY <1>1
    <3>2. g \in FileRecords
      BY <2>1, <2>3, <3>1 DEF FileRecords
    <3> QED
      BY <2>3, <3>2 DEF FileRecords, SameLine, SameBuffers
  <2>5. g.fp = q + 1 /\ g.c = bytes[q] /\ g.newLine = f.newLine /\ g.StartOfLine = f.StartOfLine
    BY <2>3 DEF FileRecords
  <2>6. Delivered(bytes, g, q, f.newLine, f.StartOfLine)
    BY <1>6, <2>5 DEF Delivered
  <2> QED
    BY <2>4, <2>6 DEF g
<1> QED
  BY <1>1, <1>2, <1>4, <1>5, <1>6

\* What iFileGetc does: q is where the byte it delivers is.
Effect(b, f, g, q) ==
  LET line == f.newLine /\ f.fp <= Len(b)
      directive == line /\ lineDirectives /\ b[f.fp] = "#line"
  IN
  /\ q = IF directive THEN f.fp + 1 ELSE f.fp
  /\ g.filePosition = IF line THEN f.StartOfLine ELSE f.filePosition
  /\ g.lineNumber = IF line THEN f.lineNumber + 1 ELSE f.lineNumber
  /\ g.sourceLine = IF directive THEN DirectiveLine - 1
                    ELSE IF line THEN f.sourceLine + 1 ELSE f.sourceLine
  /\ SameBuffers(f, g)
  /\ Delivered(b, g, q, f.newLine /\ ~ line, f.StartOfLine)

LEMMA GetcEffect ==
  ASSUME bytes \in Seq(Bytes), NEW f \in FileRecords, f.fp \in 1 .. Len(bytes) + 1
  PROVE  /\ iFileGetc(f) \in FileRecords
         /\ \E q \in 1 .. Len(bytes) + 1 : Effect(bytes, f, iFileGetc(f), q)
<1> DEFINE g == iFileGetc(f)
           line == f.newLine /\ f.fp <= Len(bytes)
           directive == line /\ lineDirectives /\ bytes[f.fp] = "#line"
<1>1. /\ f.fp \in Nat /\ f.fp >= 1 /\ Len(bytes) \in Nat /\ DOMAIN bytes = 1 .. Len(bytes)
      /\ f.newLine \in BOOLEAN
  BY DEF FileRecords
<1>0. f.lineNumber + 1 \in Nat /\ f.sourceLine + 1 \in Nat /\ f.StartOfLine \in Nat
  BY DEF FileRecords
<1>2. /\ ByteAt(f.fp) # "EOF" <=> f.fp <= Len(bytes)
      /\ f.fp <= Len(bytes) => ByteAt(f.fp) = bytes[f.fp] /\ bytes[f.fp] \in Bytes
  BY <1>1 DEF ByteAt, Bytes
<1>3. CASE ~ line
  <2>1. g = Canonical(f)
    BY <1>2, <1>3 DEF iFileGetc
  <2> HIDE DEF g
  <2>2. Effect(bytes, f, g, f.fp)
    BY <1>1, <1>3, <2>1, CanonicalDelivers DEF Effect, SameLine
  <2> QED
    BY <2>1, <2>2, CanonicalDelivers DEF g
<1>4. CASE line /\ ~ directive
  <2> DEFINE h == fileNewline(f)
  <2>1. g = Canonical(h)
    BY <1>2, <1>4 DEF iFileGetc
  <2>2. /\ h \in FileRecords /\ h.fp = f.fp /\ SameBuffers(f, h)
        /\ h.filePosition = f.StartOfLine /\ h.lineNumber = f.lineNumber + 1
        /\ h.sourceLine = f.sourceLine + 1 /\ h.newLine = FALSE
        /\ h.StartOfLine = f.StartOfLine
    <3>1. h = [f EXCEPT !.filePosition = f.StartOfLine, !.newLine = FALSE,
                        !.lineNumber = f.lineNumber + 1, !.sourceLine = f.sourceLine + 1]
      BY DEF fileNewline
    <3> HIDE DEF h
    <3>2. h \in FileRecords
      BY <1>0, <3>1 DEF FileRecords
    <3> QED
      BY <3>1, <3>2 DEF FileRecords, SameBuffers
  <2> HIDE DEF g, h
  <2>3. /\ g \in FileRecords /\ SameLine(h, g) /\ SameBuffers(h, g)
        /\ Delivered(bytes, g, f.fp, FALSE, f.StartOfLine)
    BY <2>1, <2>2, CanonicalDelivers
  <2>4. Effect(bytes, f, g, f.fp)
    BY <1>1, <1>4, <2>2, <2>3 DEF Effect, SameLine, SameBuffers
  <2> QED
    BY <2>3, <2>4 DEF g
<1>5. CASE directive
  <2> DEFINE h == parseLineDirective(fileNewline(f))
  <2>1. g = Canonical(h)
    BY <1>2, <1>5 DEF iFileGetc
  <2>2. /\ h \in FileRecords /\ h.fp = f.fp + 1 /\ SameBuffers(f, h)
        /\ h.filePosition = f.StartOfLine /\ h.lineNumber = f.lineNumber + 1
        /\ h.sourceLine = DirectiveLine - 1 /\ h.newLine = FALSE
        /\ h.StartOfLine = f.StartOfLine
    <3> DEFINE f1 == fileNewline(f)
    <3>1. f1 = [f EXCEPT !.filePosition = f.StartOfLine, !.newLine = FALSE,
                         !.lineNumber = f.lineNumber + 1, !.sourceLine = f.sourceLine + 1]
      BY DEF fileNewline
    <3>2. h = [f1 EXCEPT !.fp = f1.fp + 1, !.sourceLine = DirectiveLine - 1]
      BY DEF parseLineDirective
    <3> HIDE DEF f1, h
    <3>3. f1 \in FileRecords
      BY <1>0, <3>1 DEF FileRecords
    <3>4. DirectiveLine - 1 \in Nat /\ f1.fp + 1 \in Nat
      BY <3>3, SMTT(30) DEF FileRecords, DirectiveLine
    <3>5. h \in FileRecords
      BY <3>2, <3>3, <3>4 DEF FileRecords
    <3> QED
      BY <3>1, <3>2, <3>3, <3>5 DEF FileRecords, SameBuffers
  <2> HIDE DEF g, h
  <2>3. /\ g \in FileRecords /\ SameLine(h, g) /\ SameBuffers(h, g)
        /\ Delivered(bytes, g, f.fp + 1, FALSE, f.StartOfLine)
    <3>1. h.fp \in 1 .. Len(bytes) + 1
      BY <1>1, <1>5, <2>2
    <3> QED
      BY <2>1, <2>2, <3>1, CanonicalDelivers
  <2>4. Effect(bytes, f, g, f.fp + 1)
    BY <1>1, <1>5, <2>2, <2>3 DEF Effect, SameLine, SameBuffers
  <2> QED
    BY <1>1, <1>5, <2>3, <2>4 DEF g
<1> QED
  BY <1>3, <1>4, <1>5

-------------------------------------------------------------------------------
(* Where the lines of a file begin *)

LEMMA BegunFinite ==
  ASSUME NEW b \in Seq(Bytes), NEW p \in Nat
  PROVE  /\ Begun(b, p) \subseteq Nat /\ IsFiniteSet(Begun(b, p))
         /\ Cardinality(Begun(b, p)) \in Nat
         /\ Cardinality(Begun(b, p)) = 0 <=> Begun(b, p) = {}
<1>1. Len(b) \in Nat
  OBVIOUS
<1>2. Begun(b, p) \in SUBSET Nat /\ \A s \in Begun(b, p) : s <= p
  BY <1>1 DEF Begun, Starts
<1>3. IsFiniteSet(Begun(b, p))
  BY <1>2, FS_BoundedSetOfNaturals
<1> QED
  BY <1>2, <1>3, FS_CardinalityType, FS_EmptySet

\* Reading on, whether a line has begun.
Reading(b, f) ==
  /\ f \in FileRecords /\ f.fp \in 1 .. Len(b) + 1
  /\ f.newLine <=> Begins(b, f.fp)
  /\ f.newLine => f.StartOfLine = f.fp

\* A call begins a line if it finds the first byte of one, and no other.
LEMMA GetcBegins ==
  ASSUME NEW b \in Seq(Bytes), NEW f, Reading(b, f), NEW g \in FileRecords,
         NEW q \in 1 .. Len(b) + 1, Effect(b, f, g, q)
  PROVE  /\ Reading(b, g)
         /\ Begun(b, g.fp) = IF f.newLine /\ f.fp <= Len(b) THEN Begun(b, f.fp) \cup {f.fp}
                             ELSE Begun(b, f.fp)
<1> DEFINE line == f.newLine /\ f.fp <= Len(b)
           directive == line /\ lineDirectives /\ b[f.fp] = "#line"
<1>1. /\ Len(b) \in Nat /\ f.fp \in Nat /\ f.fp >= 1 /\ f.fp <= Len(b) + 1
      /\ g.fp \in Nat /\ f.newLine \in BOOLEAN /\ g.newLine \in BOOLEAN
      /\ q \in Nat /\ q >= 1 /\ q <= Len(b) + 1 /\ f.StartOfLine \in Nat
  BY DEF Reading, FileRecords
<1>2. /\ q = IF directive THEN f.fp + 1 ELSE f.fp
      /\ Delivered(b, g, q, f.newLine /\ ~ line, f.StartOfLine)
  BY DEF Effect
<1>3. f.newLine <=> Begins(b, f.fp)
  BY DEF Reading
<1> HIDE DEF directive
<1>4. directive => line /\ b[f.fp] = "#line"
  BY DEF directive
<1>5. CASE q = Len(b) + 1 /\ g.fp = q /\ g.newLine = (f.newLine /\ ~ line) /\ g.StartOfLine = f.StartOfLine
  <2>1. CASE directive
    <3>1. ~ Begins(b, g.fp) /\ ~ g.newLine
      <4>1. g.fp - 1 = f.fp /\ g.fp # 1 /\ b[f.fp] = "#line"
        BY <1>1, <1>2, <1>4, <1>5, <2>1
      <4>2. ~ g.newLine
        BY <1>4, <1>5, <2>1
      <4> QED
        BY <4>1, <4>2 DEF Begins
    <3>2. Begun(b, g.fp) = Begun(b, f.fp) \cup {f.fp}
      BY <1>1, <1>2, <1>3, <1>4, <1>5, <2>1 DEF Begun, Starts, Begins
    <3> QED
      BY <1>1, <1>2, <1>4, <1>5, <2>1, <3>1, <3>2 DEF Reading
  <2>2. CASE ~ directive
    <3>1. g.fp = f.fp /\ ~ line
      BY <1>1, <1>2, <1>5, <2>2
    <3> QED
      BY <1>1, <1>3, <1>5, <3>1 DEF Reading
  <2> QED
    BY <2>1, <2>2
<1>6. CASE q <= Len(b)
  <2>1. /\ line <=> f.newLine
        /\ g.fp \in {q + 1, q + 2} /\ g.fp <= Len(b) + 1
        /\ g.fp = q + 2 => b[q] = "CR"
        /\ g.newLine <=> b[g.fp - 1] = "LF"
        /\ g.newLine => g.StartOfLine = g.fp
    <3>1. line <=> f.newLine
      BY <1>1, <1>2, <1>6
    <3> DEFINE flag == f.newLine /\ ~ line
    <3>2. Delivered(b, g, q, flag, f.StartOfLine) /\ flag = FALSE
      BY <1>2, <3>1
    <3> HIDE DEF line, flag
    <3>3. CASE g.fp = q + 1 /\ g.newLine = TRUE /\ b[q] = "LF" /\ g.StartOfLine = q + 1
      BY <1>1, <1>6, <3>1, <3>3
    <3>4. CASE /\ g.fp = q + 2 /\ g.newLine = TRUE /\ q < Len(b) /\ b[q] = "CR" /\ b[q + 1] = "LF"
               /\ g.StartOfLine = q + 2
      <4>1. g.fp - 1 = q + 1
        BY <1>1, <3>4
      <4> QED
        BY <1>1, <1>6, <3>1, <3>4, <4>1
    <3>5. CASE g.fp = q + 1 /\ g.newLine = FALSE /\ b[q] # "LF"
      <4>1. g.fp - 1 = q /\ g.fp <= Len(b) + 1 /\ g.fp # q + 2
        BY <1>1, <1>6, <3>5
      <4> QED
        BY <3>1, <3>5, <4>1
    <3>6. \/ g.fp = q + 1 /\ g.newLine = TRUE /\ b[q] = "LF" /\ g.StartOfLine = q + 1
          \/ /\ g.fp = q + 2 /\ g.newLine = TRUE /\ q < Len(b) /\ b[q] = "CR" /\ b[q + 1] = "LF"
             /\ g.StartOfLine = q + 2
          \/ g.fp = q + 1 /\ g.newLine = FALSE /\ b[q] # "LF"
      <4>1. q # Len(b) + 1
        BY <1>1, <1>6
      <4> QED
        BY <3>2, <4>1 DEF Delivered
    <3> QED
      BY <3>3, <3>4, <3>5, <3>6
  <2>2. Reading(b, g)
    BY <1>1, <2>1 DEF Reading, Begins
  <2>3. ASSUME NEW s \in Nat, f.fp < s, s < g.fp PROVE s \notin Starts(b)
    <3>1. \/ s = f.fp + 1 /\ b[f.fp] \in {"CR", "#line"}
          \/ s = f.fp + 2 /\ b[f.fp + 1] \in {"CR"}
      <4>1. CASE directive
        <5>1. s = f.fp + 1 \/ (s = f.fp + 2 /\ g.fp = q + 2)
          BY <1>1, <1>2, <2>1, <2>3, <4>1, SMTT(30)
        <5> QED
          BY <1>2, <1>4, <2>1, <4>1, <5>1
      <4>2. CASE ~ directive
        <5>1. s = f.fp + 1 /\ g.fp = q + 2
          BY <1>1, <1>2, <2>1, <2>3, <4>2, SMTT(30)
        <5> QED
          BY <1>2, <2>1, <4>2, <5>1
      <4> QED
        BY <4>1, <4>2
    <3>2. s - 1 \in {f.fp, f.fp + 1} /\ s # 1 /\ b[s - 1] # "LF"
      <4>1. s = f.fp + 1 => s - 1 = f.fp
        BY <1>1
      <4>2. s = f.fp + 2 => s - 1 = f.fp + 1
        BY <1>1
      <4>3. s # 1
        BY <1>1, <2>3
      <4> QED
        BY <3>1, <4>1, <4>2, <4>3
    <3> QED
      BY <3>2 DEF Starts
  <2>4. f.fp \in Starts(b) <=> line
    BY <1>1, <1>2, <1>3, <1>6 DEF Starts, Begins
  <2>5. f.fp < g.fp
    BY <1>1, <1>2, <2>1, SMTT(30)
  <2>6. \A s \in Starts(b) : s \in Nat
    BY <1>1 DEF Starts
  <2> HIDE DEF line
  <2>7. Begun(b, g.fp) = IF line THEN Begun(b, f.fp) \cup {f.fp} ELSE Begun(b, f.fp)
    BY <1>1, <2>3, <2>4, <2>5, <2>6 DEF Begun
  <2> QED
    BY <2>2, <2>7 DEF line
<1> QED
  BY <1>1, <1>2, <1>5, <1>6 DEF Delivered

\* The number of the line in hand and its place in the file.
Placed(b, f) ==
  /\ f.lineNumber = Cardinality(Begun(b, f.fp))
  /\ f.filePosition \in Starts(b)
  /\ f.lineNumber = 0 => f.filePosition = 1
  /\ f.lineNumber > 0 =>
       f.filePosition < f.fp /\ \A s \in Begun(b, f.fp) : s <= f.filePosition

LEMMA GetcPlaces ==
  ASSUME NEW b \in Seq(Bytes), NEW f, Reading(b, f), Placed(b, f), NEW g \in FileRecords,
         NEW q \in 1 .. Len(b) + 1, Effect(b, f, g, q)
  PROVE  Placed(b, g)
<1> DEFINE line == f.newLine /\ f.fp <= Len(b)
<1>1. /\ f.fp \in Nat /\ f.fp >= 1 /\ Len(b) \in Nat /\ f.lineNumber \in Nat /\ g.fp \in Nat
  BY DEF Reading, FileRecords
<1>2. /\ g.filePosition = IF line THEN f.StartOfLine ELSE f.filePosition
      /\ g.lineNumber = IF line THEN f.lineNumber + 1 ELSE f.lineNumber
  BY DEF Effect
<1>3. Begun(b, g.fp) = IF line THEN Begun(b, f.fp) \cup {f.fp} ELSE Begun(b, f.fp)
  BY GetcBegins
<1>4. f.filePosition \in Nat /\ \A s \in Starts(b) : s \in Nat
  BY DEF Reading, FileRecords, Starts
<1>5. CASE line
  <2>1. g.filePosition = f.fp /\ g.lineNumber = f.lineNumber + 1
    BY <1>2, <1>5 DEF Reading
  <2>2. Begun(b, g.fp) = Begun(b, f.fp) \cup {f.fp}
    BY <1>3, <1>5
  <2>3. f.fp \notin Begun(b, f.fp) /\ \A s \in Begun(b, f.fp) : s \in Nat /\ s <= f.fp
    BY <1>1, <1>4 DEF Begun
  <2>4. Cardinality(Begun(b, g.fp)) = g.lineNumber
    <3>1. IsFiniteSet(Begun(b, f.fp))
      BY <1>1, BegunFinite
    <3>2. Cardinality(Begun(b, f.fp) \cup {f.fp}) = Cardinality(Begun(b, f.fp)) + 1
      BY <2>3, <3>1, FS_AddElement
    <3>3. f.lineNumber = Cardinality(Begun(b, f.fp))
      BY DEF Placed
    <3> QED
      BY <2>1, <2>2, <3>2, <3>3
  <2>5. f.fp \in Begun(b, g.fp)
    BY <2>2
  <2>6. f.fp \in Starts(b) /\ f.fp < g.fp
    BY <2>5 DEF Begun
  <2>7. \A s \in Begun(b, g.fp) : s <= f.fp
    BY <1>1, <2>2, <2>3
  <2>8. g.lineNumber # 0
    BY <1>1, <2>1
  <2> QED
    BY <2>1, <2>4, <2>6, <2>7, <2>8 DEF Placed
<1>6. CASE ~ line
  <2>1. /\ g.filePosition = f.filePosition /\ g.lineNumber = f.lineNumber
        /\ Begun(b, g.fp) = Begun(b, f.fp)
    BY <1>2, <1>3, <1>6
  <2>2. f.lineNumber > 0 => f.filePosition < g.fp
    <3>1. f.lineNumber > 0 => f.filePosition \in Begun(b, f.fp)
      BY DEF Placed, Begun
    <3> QED
      BY <2>1, <3>1 DEF Begun
  <2> QED
    BY <2>1, <2>2 DEF Placed
<1> QED
  BY <1>5, <1>6

-------------------------------------------------------------------------------
(* #line directives *)

\* The directives up to the line that begins at p, and the lines after one of them.
Directives(b, p) == {i \in DOMAIN b : IsDirective(b, i) /\ i <= p}
LinesAfter(b, i, p) == {s \in Starts(b) : i < s /\ s <= p}
Latest(D) == CHOOSE i \in D : \A j \in D : j <= i

\* The number of the line in hand as #line directives have it.
Numbered(b, f) ==
  f.sourceLine =
    IF f.lineNumber = 0 THEN 0
    ELSE IF Directives(b, f.filePosition) = {} THEN f.lineNumber
    ELSE DirectiveLine - 1
           + Cardinality(LinesAfter(b, Latest(Directives(b, f.filePosition)), f.filePosition))

LEMMA LatestIs ==
  ASSUME NEW D \in SUBSET Nat, NEW i \in D, \A j \in D : j <= i
  PROVE  Latest(D) = i
<1>1. \A k \in D : (\A j \in D : j <= k) => k = i
  <2> SUFFICES ASSUME NEW k \in D, \A j \in D : j <= k PROVE k = i
    OBVIOUS
  <2>1. i <= k /\ k <= i /\ i \in Nat /\ k \in Nat
    OBVIOUS
  <2> QED
    BY <2>1
<1> QED
  BY <1>1 DEF Latest

LEMMA DirectivesFinite ==
  ASSUME NEW b \in Seq(Bytes), NEW p \in Nat
  PROVE  /\ Directives(b, p) \subseteq Nat
         /\ Directives(b, p) # {} =>
              /\ Latest(Directives(b, p)) \in Directives(b, p)
              /\ Latest(Directives(b, p)) \in Nat
              /\ \A j \in Directives(b, p) : j <= Latest(Directives(b, p))
<1>1. Directives(b, p) \subseteq 1 .. Len(b) /\ Len(b) \in Nat
  BY DEF Directives
<1>2. Directives(b, p) # {} =>
        \E i \in Directives(b, p) : \A j \in Directives(b, p) : j <= i
  <2> SUFFICES ASSUME Directives(b, p) # {}
               PROVE  \E i \in Directives(b, p) : \A j \in Directives(b, p) : j <= i
    OBVIOUS
  <2> DEFINE Above == {n \in Nat : \A j \in Directives(b, p) : j <= n}
  <2>1. Len(b) \in Above
    BY <1>1
  <2>2. PICK n \in Above : \A m \in Above : n <= m
    BY <2>1, LeastNumber
  <2>3. CASE n \in Directives(b, p)
    BY <2>2, <2>3
  <2>4. CASE n \notin Directives(b, p)
    <3>1. PICK j \in Directives(b, p) : TRUE
      OBVIOUS
    <3>2. n >= 1
      BY <1>1, <2>2, <3>1
    <3>3. n - 1 \in Nat /\ \A k \in Directives(b, p) : k <= n - 1
      BY <1>1, <2>2, <2>4, <3>2
    <3>4. n - 1 \in Above
      BY <3>3
    <3> QED
      BY <2>2, <3>4
  <2> QED
    BY <2>3, <2>4
<1> QED
  BY <1>1, <1>2 DEF Latest

LEMMA GetcNumbers ==
  ASSUME NEW b \in Seq(Bytes), NEW f, Reading(b, f), Placed(b, f), Numbered(b, f),
         NEW g \in FileRecords, NEW q \in 1 .. Len(b) + 1, Effect(b, f, g, q)
  PROVE  Numbered(b, g)
<1> DEFINE line == f.newLine /\ f.fp <= Len(b)
           directive == line /\ lineDirectives /\ b[f.fp] = "#line"
           old == f.filePosition
           p == f.fp
<1>1. /\ p \in Nat /\ p >= 1 /\ Len(b) \in Nat /\ f.lineNumber \in Nat /\ old \in Nat
      /\ \A s \in Starts(b) : s \in Nat /\ s >= 1
  BY SMTT(30) DEF Reading, FileRecords, Starts
<1>2. /\ g.filePosition = IF line THEN f.StartOfLine ELSE f.filePosition
      /\ g.lineNumber = IF line THEN f.lineNumber + 1 ELSE f.lineNumber
      /\ g.sourceLine = IF directive THEN DirectiveLine - 1
                        ELSE IF line THEN f.sourceLine + 1 ELSE f.sourceLine
  BY DEF Effect
<1>3. CASE ~ line
  BY <1>2, <1>3 DEF Numbered
<1>4. CASE line
  <2>1. g.filePosition = p /\ g.lineNumber = f.lineNumber + 1
    BY <1>2, <1>4 DEF Reading
  <2>2. p \in Starts(b) /\ p \in DOMAIN b
    BY <1>1, <1>4 DEF Reading, Begins, Starts
  <2>3. \A s \in Starts(b) : s < p => f.lineNumber > 0 /\ s <= old
    <3> SUFFICES ASSUME NEW s \in Starts(b), s < p PROVE f.lineNumber > 0 /\ s <= old
      OBVIOUS
    <3>1. s \in Begun(b, p)
      BY DEF Begun
    <3>2. f.lineNumber # 0
      BY <1>1, <3>1, BegunFinite DEF Placed
    <3> QED
      BY <1>1, <3>1, <3>2 DEF Placed
  <2>4. f.lineNumber > 0 => old < p
    BY DEF Placed
  <2>5. CASE directive
    <3>1. p \in Directives(b, p) /\ \A j \in Directives(b, p) : j <= p
      BY <1>1, <2>2, <2>5 DEF Directives, IsDirective
    <3>2. Latest(Directives(b, p)) = p
      BY <1>1, <3>1, DirectivesFinite, LatestIs
    <3>3. LinesAfter(b, p, p) = {}
      BY <1>1 DEF LinesAfter
    <3>4. g.sourceLine = DirectiveLine - 1 /\ g.lineNumber # 0
      BY <1>1, <1>2, <2>1, <2>5
    <3>5. Cardinality(LinesAfter(b, p, p)) = 0
      BY <3>3, FS_EmptySet
    <3> QED
      BY <2>1, <3>1, <3>2, <3>4, <3>5 DEF Numbered, DirectiveLine
  <2>6. CASE ~ directive
    <3>1. ~ IsDirective(b, p)
      BY <1>4, <2>6 DEF IsDirective
    <3>2. g.sourceLine = f.sourceLine + 1 /\ g.lineNumber = f.lineNumber + 1 /\ g.lineNumber # 0
      BY <1>1, <1>2, <1>4, <2>1, <2>6
    <3>3. \A i \in Directives(b, p) : f.lineNumber > 0 /\ i <= old
      <4> SUFFICES ASSUME NEW i \in Directives(b, p) PROVE f.lineNumber > 0 /\ i <= old
        OBVIOUS
      <4>1. i \in Starts(b) /\ i <= p /\ i # p
        BY <3>1 DEF Directives, IsDirective
      <4> QED
        BY <1>1, <2>3, <4>1
    <3>4. CASE Directives(b, p) = {}
      <4>1. f.lineNumber > 0 => Directives(b, old) = {}
        BY <1>1, <2>4, <3>4 DEF Directives
      <4>2. f.sourceLine = f.lineNumber
        BY <1>1, <4>1 DEF Numbered
      <4> QED
        BY <2>1, <3>2, <3>4, <4>2 DEF Numbered
    <3>5. CASE Directives(b, p) # {}
      <4>1. f.lineNumber > 0 /\ Directives(b, old) = Directives(b, p)
        BY <1>1, <2>4, <3>3, <3>5 DEF Directives
      <4> DEFINE i == Latest(Directives(b, p))
      <4>2. i \in Directives(b, p) /\ i \in Nat
        BY <1>1, <3>5, DirectivesFinite
      <4>3. i <= old
        BY <3>3, <4>2
      <4> HIDE DEF i
      <4>4. LinesAfter(b, i, p) = LinesAfter(b, i, old) \cup {p}
        BY <1>1, <2>2, <2>3, <2>4, <4>1, <4>2, <4>3 DEF LinesAfter
      <4>5. p \notin LinesAfter(b, i, old)
        BY <1>1, <2>4, <4>1 DEF LinesAfter
      <4>6. IsFiniteSet(LinesAfter(b, i, old)) /\ Cardinality(LinesAfter(b, i, old)) \in Nat
        <5>1. LinesAfter(b, i, old) \in SUBSET Nat /\ \A s \in LinesAfter(b, i, old) : s <= old
          BY <1>1 DEF LinesAfter
        <5> QED
          BY <1>1, <5>1, FS_BoundedSetOfNaturals, FS_CardinalityType
      <4>7. Cardinality(LinesAfter(b, i, p)) = Cardinality(LinesAfter(b, i, old)) + 1
        BY <4>4, <4>5, <4>6, FS_AddElement
      <4>8. f.sourceLine = DirectiveLine - 1 + Cardinality(LinesAfter(b, i, old))
        BY <1>1, <3>5, <4>1 DEF Numbered, i
      <4> QED
        BY <2>1, <3>2, <3>5, <4>6, <4>7, <4>8 DEF Numbered, i, DirectiveLine
    <3> QED
      BY <3>4, <3>5
  <2> QED
    BY <2>5, <2>6
<1> QED
  BY <1>3, <1>4

-------------------------------------------------------------------------------
(* The text of a file *)

\* The bytes of a file that its text keeps, and how many there are before p.
KeptAt(b, i) ==
  ~ \/ b[i] = "NUL" \/ IsDirective(b, i)
    \/ b[i] = "CR" /\ i < Len(b) /\ b[i + 1] = "LF"
Places(b) == {i \in DOMAIN b : KeptAt(b, i)}
KeptBefore(b, p) == {i \in Places(b) : i < p}
Kept(b, p) == Cardinality(KeptBefore(b, p))

LEMMA KeptType ==
  ASSUME NEW b \in Seq(Bytes), NEW p \in Nat
  PROVE  IsFiniteSet(KeptBefore(b, p)) /\ Kept(b, p) \in Nat /\ KeptBefore(b, p) \subseteq Nat
<1>1. KeptBefore(b, p) \in SUBSET Nat /\ \A s \in KeptBefore(b, p) : s <= p
  BY DEF KeptBefore, Places
<1>2. IsFiniteSet(KeptBefore(b, p))
  BY <1>1, FS_BoundedSetOfNaturals
<1> QED
  BY <1>1, <1>2, FS_CardinalityType DEF Kept

LEMMA KeptNone == ASSUME NEW b \in Seq(Bytes) PROVE Kept(b, 1) = 0
<1>1. KeptBefore(b, 1) = {}
  BY DEF KeptBefore, Places
<1> QED
  BY <1>1, FS_EmptySet DEF Kept

LEMMA KeptNext ==
  ASSUME NEW b \in Seq(Bytes), NEW p \in DOMAIN b
  PROVE  Kept(b, p + 1) = IF KeptAt(b, p) THEN Kept(b, p) + 1 ELSE Kept(b, p)
<1>1. p \in Nat /\ IsFiniteSet(KeptBefore(b, p)) /\ p \notin KeptBefore(b, p)
  <2>1. p \in Nat
    OBVIOUS
  <2> QED
    BY <2>1, KeptType DEF KeptBefore
<1>2. KeptBefore(b, p + 1) = IF KeptAt(b, p) THEN KeptBefore(b, p) \cup {p} ELSE KeptBefore(b, p)
  BY <1>1 DEF KeptBefore, Places
<1> QED
  BY <1>1, <1>2, FS_AddElement DEF Kept

LEMMA KeptGrows ==
  ASSUME NEW b \in Seq(Bytes), NEW p \in Nat, NEW q \in Nat, p <= q
  PROVE  Kept(b, p) <= Kept(b, q)
<1>1. KeptBefore(b, p) \in SUBSET KeptBefore(b, q)
  BY DEF KeptBefore, Places
<1>2. IsFiniteSet(KeptBefore(b, q))
  BY KeptType
<1> QED
  BY <1>1, <1>2, FS_Subset DEF Kept

\* The character kept at i comes after those kept before it.
LEMMA CharactersOf ==
  ASSUME NEW b \in Seq(Bytes)
  PROVE  /\ Characters(b) \in Seq(Bytes) /\ Len(Characters(b)) = Kept(b, Len(b) + 1)
         /\ \A i \in Places(b) : /\ Kept(b, i) + 1 \in 1 .. Len(Characters(b))
                                 /\ Characters(b)[Kept(b, i) + 1] = b[i]
         /\ \A n \in 1 .. Len(Characters(b)) : \E i \in Places(b) : Characters(b)[n] = b[i]
<1> DEFINE UpTo(i) == {j \in Places(b) : j <= i}
           Nth(n) == CHOOSE i \in Places(b) : Cardinality(UpTo(i)) = n
<1>1. Characters(b) = [n \in 1 .. Cardinality(Places(b)) |-> b[Nth(n)]]
  BY DEF Characters, Places, KeptAt
<1>2. /\ Len(b) \in Nat /\ DOMAIN b = 1 .. Len(b) /\ Places(b) \subseteq Nat
      /\ \A i \in Places(b) : i <= Len(b)
  BY DEF Places
<1>3. Cardinality(Places(b)) = Kept(b, Len(b) + 1) /\ Cardinality(Places(b)) \in Nat
  <2>1. KeptBefore(b, Len(b) + 1) = Places(b)
    BY <1>2 DEF KeptBefore
  <2> QED
    BY <1>2, <2>1, KeptType DEF Kept
<1>4. ASSUME NEW i \in Places(b) PROVE Cardinality(UpTo(i)) = Kept(b, i) + 1 /\ Kept(b, i) \in Nat
  <2>1. UpTo(i) = KeptBefore(b, i + 1) /\ i \in DOMAIN b /\ KeptAt(b, i) /\ i \in Nat
    BY <1>2 DEF KeptBefore, Places
  <2> QED
    BY <2>1, KeptNext, KeptType DEF Kept
<1>5. ASSUME NEW i \in Places(b), NEW j \in Places(b), i < j
      PROVE  Kept(b, i) + 1 <= Kept(b, j)
  <2>1. /\ i \in Nat /\ j \in Nat /\ i + 1 \in Nat /\ i + 1 <= j
        /\ i \in DOMAIN b /\ KeptAt(b, i)
    BY <1>2, <1>5 DEF Places
  <2> QED
    BY <2>1, KeptNext, KeptGrows
<1>6. ASSUME NEW i \in Places(b) PROVE Nth(Kept(b, i) + 1) = i
  <2>1. ASSUME NEW j \in Places(b), Cardinality(UpTo(j)) = Kept(b, i) + 1 PROVE j = i
    <3>1. Kept(b, j) = Kept(b, i) /\ Kept(b, i) \in Nat /\ Kept(b, j) \in Nat
      <4>1. Cardinality(UpTo(j)) = Kept(b, j) + 1 /\ Kept(b, j) \in Nat /\ Kept(b, i) \in Nat
        BY <1>4
      <4> QED
        BY <2>1, <4>1
    <3>2. ~ (i < j) /\ ~ (j < i)
      BY <1>5, <3>1
    <3> QED
      BY <1>2, <3>2
  <2>2. Cardinality(UpTo(i)) = Kept(b, i) + 1
    BY <1>4
  <2> HIDE DEF UpTo
  <2> QED
    BY <2>1, <2>2
<1>7. ASSUME NEW i \in Places(b) PROVE Kept(b, i) + 1 \in 1 .. Cardinality(Places(b))
  <2>1. i + 1 \in Nat /\ Len(b) + 1 \in Nat /\ i + 1 <= Len(b) + 1 /\ i \in DOMAIN b /\ KeptAt(b, i) /\ i \in Nat
    BY <1>2 DEF Places
  <2>2. Kept(b, i + 1) = Kept(b, i) + 1 /\ Kept(b, i) \in Nat
    BY <2>1, KeptNext, KeptType
  <2>3. Kept(b, i + 1) <= Kept(b, Len(b) + 1)
    BY <2>1, KeptGrows
  <2> QED
    BY <1>3, <2>2, <2>3
<1>8. ASSUME NEW n \in 1 .. Cardinality(Places(b))
      PROVE  b[Nth(n)] \in Bytes /\ Nth(n) \in Places(b)
  <2> DEFINE Far == {p \in Nat : p >= 1 /\ p <= Len(b) + 1 /\ n <= Kept(b, p)}
  <2>1. n \in Nat /\ n >= 1 /\ Len(b) + 1 \in Far
    BY <1>2, <1>3
  <2>2. PICK p \in Far : \A m \in Far : p <= m
    BY <2>1, LeastNumber
  <2>3. p \in Nat /\ p >= 1 /\ p <= Len(b) + 1 /\ n <= Kept(b, p)
    BY <2>2
  <2>4. p # 1
    BY <2>1, <2>3, KeptNone
  <2> DEFINE i == p - 1
  <2>5. i \in Nat /\ i >= 1 /\ i <= Len(b) /\ i < p /\ p = i + 1 /\ i \in DOMAIN b
    BY <1>2, <2>3, <2>4
  <2> HIDE DEF i
  <2>6. Kept(b, i) < n /\ Kept(b, i) \in Nat
    <3>1. Kept(b, i) \in Nat
      BY <2>5, KeptType
    <3>2. i \notin Far
      BY <2>2, <2>3, <2>5
    <3> QED
      BY <2>1, <2>5, <3>1, <3>2, <1>2
  <2>7. KeptAt(b, i) /\ Kept(b, i) + 1 = n
    BY <2>1, <2>3, <2>5, <2>6, KeptNext
  <2>8. i \in Places(b)
    BY <2>5, <2>7 DEF Places
  <2>9. Nth(n) = i
    BY <1>6, <2>7, <2>8
  <2>10. b[i] \in Bytes
    BY <2>5
  <2> HIDE DEF Nth
  <2> QED
    BY <2>8, <2>9, <2>10
<1> HIDE DEF Nth
<1>9. Characters(b) \in Seq(Bytes) /\ Len(Characters(b)) = Cardinality(Places(b))
  BY <1>1, <1>3, <1>8
<1>10. \A n \in 1 .. Len(Characters(b)) : \E i \in Places(b) : Characters(b)[n] = b[i]
  <2> SUFFICES ASSUME NEW n \in 1 .. Cardinality(Places(b))
               PROVE  \E i \in Places(b) : Characters(b)[n] = b[i]
    BY <1>9
  <2>1. Characters(b)[n] = b[Nth(n)]
    BY <1>1
  <2> QED
    BY <1>8, <2>1
<1> QED
  BY <1>1, <1>3, <1>6, <1>7, <1>9, <1>10

\* The text of a file without a carriage return of its own is its characters.
LEMMA TextOf ==
  ASSUME NEW b \in Seq(Bytes)
  PROVE  /\ Text(b) \in Seq(Bytes) /\ Len(Text(b)) = Len(Characters(b))
         /\ ~ LoneReturn(b) => Text(b) = Characters(b)
<1> DEFINE t == Characters(b)
<1>1. t \in Seq(Bytes) /\ Len(t) \in Nat /\ DOMAIN t = 1 .. Len(t)
  BY CharactersOf
<1>2. \A n \in 1 .. Len(t) : \E i \in Places(b) : t[n] = b[i]
  BY CharactersOf
<1>3. Text(b) = [n \in 1 .. Len(t) |-> IF t[n] = "CR" THEN "LF" ELSE t[n]]
  BY <1>1 DEF Text
<1> HIDE DEF t
<1>4. \A n \in 1 .. Len(t) : (IF t[n] = "CR" THEN "LF" ELSE t[n]) \in Bytes
  BY <1>1 DEF Bytes
<1>5. Text(b) \in Seq(Bytes) /\ Len(Text(b)) = Len(t)
  BY <1>1, <1>3, <1>4
<1>6. ASSUME ~ LoneReturn(b), NEW n \in 1 .. Len(t) PROVE t[n] # "CR"
  <2>1. PICK i \in Places(b) : t[n] = b[i]
    BY <1>2
  <2>2. i \in DOMAIN b /\ ~ (b[i] = "CR" /\ i < Len(b) /\ b[i + 1] = "LF")
    BY DEF Places, KeptAt
  <2>3. i \in 1 .. Len(b) /\ Len(b) \in Nat
    BY <2>2
  <2>4. b[i] = "CR" => i = Len(b) \/ b[i + 1] # "LF"
    BY <2>2, <2>3
  <2> QED
    BY <1>6, <2>1, <2>2, <2>4 DEF LoneReturn
<1>7. ASSUME ~ LoneReturn(b) PROVE Text(b) = t
  <2>1. Text(b) = [n \in 1 .. Len(t) |-> t[n]]
    BY <1>3, <1>6, <1>7
  <2> QED
    BY <1>1, <2>1
<1> QED
  BY <1>5, <1>7 DEF t

\* A call of iFileGetc delivers the next character of the text, if any: a NUL is
\* read and not kept, and at the end of the file there is none.
Reads(b, f, g) ==
  /\ g.c \in Bytes \cup {"EOF"} /\ g.fp >= f.fp
  /\ IF g.c = "EOF" THEN g.fp = Len(b) + 1 /\ Kept(b, g.fp) = Kept(b, f.fp)
     ELSE /\ g.fp > f.fp
          /\ IF g.c = "NUL" THEN Kept(b, g.fp) = Kept(b, f.fp)
             ELSE /\ Kept(b, g.fp) = Kept(b, f.fp) + 1
                  /\ Kept(b, g.fp) \in 1 .. Len(Characters(b))
                  /\ Characters(b)[Kept(b, g.fp)] = g.c

LEMMA GetcReads ==
  ASSUME NEW b \in Seq(Bytes), NEW f, Reading(b, f), NEW g \in FileRecords,
         NEW q \in 1 .. Len(b) + 1, Effect(b, f, g, q)
  PROVE  Reads(b, f, g)
<1> DEFINE line == f.newLine /\ f.fp <= Len(b)
           directive == line /\ lineDirectives /\ b[f.fp] = "#line"
<1>1. /\ f.fp \in Nat /\ f.fp >= 1 /\ f.fp <= Len(b) + 1 /\ Len(b) \in Nat
      /\ q \in Nat /\ q >= 1 /\ q <= Len(b) + 1 /\ DOMAIN b = 1 .. Len(b)
  BY DEF Reading, FileRecords
<1>2. /\ q = IF directive THEN f.fp + 1 ELSE f.fp
      /\ Delivered(b, g, q, f.newLine /\ ~ line, f.StartOfLine)
  BY DEF Effect
<1>3. directive => IsDirective(b, f.fp) /\ f.fp \in DOMAIN b /\ b[f.fp] = "#line"
  BY <1>1 DEF Reading, Begins, IsDirective, Starts
<1>4. Kept(b, q) = Kept(b, f.fp) /\ q >= f.fp
  <2>1. CASE directive
    BY <1>1, <1>2, <1>3, <2>1, KeptNext DEF KeptAt
  <2> QED
    BY <1>1, <1>2, <2>1
<1>5. q <= Len(b) => ~ IsDirective(b, q)
  <2> SUFFICES ASSUME q <= Len(b), IsDirective(b, q) PROVE FALSE
    OBVIOUS
  <2>1. b[q] = "#line" /\ lineDirectives /\ q \in Starts(b)
    BY DEF IsDirective
  <2>2. CASE directive
    <3>1. q - 1 = f.fp /\ q # 1
      BY <1>1, <1>2, <2>2
    <3> QED
      BY <1>3, <2>1, <2>2, <3>1 DEF Starts
  <2>3. CASE ~ directive
    <3>1. q = f.fp /\ Begins(b, q)
      BY <1>2, <2>1, <2>3 DEF Starts, Begins
    <3>2. line
      BY <3>1 DEF Reading
    <3> QED
      BY <2>1, <2>3, <3>1, <3>2
  <2> QED
    BY <2>2, <2>3
<1>6. ASSUME NEW p \in DOMAIN b, KeptAt(b, p), Kept(b, p) = Kept(b, f.fp), g.fp = p + 1, g.c = b[p],
             p >= f.fp
      PROVE  Reads(b, f, g)
  <2>1. p \in Nat /\ p \in Places(b) /\ b[p] \in Bytes /\ b[p] # "NUL"
    BY <1>6 DEF Places, KeptAt
  <2>2. Kept(b, p + 1) = Kept(b, p) + 1 /\ Kept(b, p) + 1 \in 1 .. Len(Characters(b))
        /\ Characters(b)[Kept(b, p) + 1] = b[p]
    BY <1>6, <2>1, KeptNext, CharactersOf
  <2>3. g.fp > f.fp /\ g.c # "EOF" /\ g.c # "NUL" /\ g.c \in Bytes /\ g.fp >= f.fp
    BY <1>1, <1>6, <2>1 DEF Bytes
  <2> QED
    BY <1>6, <2>2, <2>3 DEF Reads
<1>7. CASE q = Len(b) + 1 /\ g.fp = q /\ g.c = "EOF"
  BY <1>1, <1>4, <1>7 DEF Reads
<1>8. CASE q <= Len(b) /\ b[q] = "LF" /\ g.fp = q + 1 /\ g.c = "LF"
  <2>1. KeptAt(b, q) /\ q \in DOMAIN b
    BY <1>1, <1>5, <1>8 DEF KeptAt
  <2> QED
    BY <1>4, <1>6, <1>8, <2>1
<1>9. CASE q < Len(b) /\ b[q] = "CR" /\ b[q + 1] = "LF" /\ g.fp = q + 2 /\ g.c = "LF"
  <2>1. /\ ~ KeptAt(b, q) /\ q \in DOMAIN b /\ q + 1 \in DOMAIN b /\ q + 1 >= f.fp
        /\ g.fp = (q + 1) + 1
    BY <1>1, <1>4, <1>9 DEF KeptAt
  <2>2. Kept(b, q + 1) = Kept(b, f.fp)
    BY <1>4, <2>1, KeptNext
  <2>3. KeptAt(b, q + 1)
    BY <1>9 DEF KeptAt, IsDirective
  <2> QED
    BY <1>6, <1>9, <2>1, <2>2, <2>3
<1>10. CASE /\ q <= Len(b) /\ b[q] # "LF" /\ ~ (b[q] = "CR" /\ q < Len(b) /\ b[q + 1] = "LF")
            /\ g.fp = q + 1 /\ g.c = b[q]
  <2>1. q \in DOMAIN b /\ b[q] \in Bytes
    BY <1>1, <1>10
  <2>2. CASE b[q] = "NUL"
    <3>1. Kept(b, q + 1) = Kept(b, q)
      BY <2>1, <2>2, KeptNext DEF KeptAt
    <3> QED
      BY <1>1, <1>4, <1>10, <2>1, <2>2, <3>1 DEF Reads
  <2>3. CASE b[q] # "NUL"
    <3>1. KeptAt(b, q)
      BY <1>5, <1>10, <2>3 DEF KeptAt
    <3> QED
      BY <1>4, <1>6, <1>10, <2>1, <3>1
  <2> QED
    BY <2>2, <2>3
<1> QED
  BY <1>2, <1>7, <1>8, <1>9, <1>10 DEF Delivered

-------------------------------------------------------------------------------
(* A line, turn by turn *)

\* The line read so far by turns that began at f is the text between f and g.
LineState(b, f, g) ==
  /\ Reading(b, g) /\ Placed(b, g) /\ Numbered(b, g)
  /\ g.fp >= f.fp
  /\ g.currentLine = f.currentLine /\ g.ungetch = f.ungetch
  /\ g.line = SubSeq(Characters(b), Kept(b, f.fp) + 1, Kept(b, g.fp))

LEMMA SubSeqAppends ==
  ASSUME NEW t \in Seq(Bytes), NEW i \in Nat, NEW j \in Nat, i <= j, j < Len(t)
  PROVE  /\ SubSeq(t, i + 1, j) \in Seq(Bytes)
         /\ Append(SubSeq(t, i + 1, j), t[j + 1]) = SubSeq(t, i + 1, j + 1)
<1>1. Len(t) \in Nat
  OBVIOUS
<1>2. \A k \in i + 1 .. j + 1 : t[k] \in Bytes
  BY <1>1
<1>3. SubSeq(t, i + 1, j) = [k \in 1 .. j - i |-> t[i + k]] 
  OBVIOUS
<1> QED
  BY <1>1, <1>2, <1>3

LEMMA TakeKeeps ==
  ASSUME bytes \in Seq(Bytes), NEW f \in FileRecords, f.fp \in 1 .. Len(bytes) + 1,
         NEW g, LineState(bytes, f, g)
  PROVE  LineState(bytes, f, Take(g)) /\ Reads(bytes, g, Take(g))
<1> DEFINE h == iFileGetc(g)
           then == Take(g)
           a == Kept(bytes, f.fp)
<1>1. g \in FileRecords /\ g.fp \in 1 .. Len(bytes) + 1 /\ Reading(bytes, g)
  BY DEF LineState, Reading
<1>2. h \in FileRecords /\ \E q \in 1 .. Len(bytes) + 1 : Effect(bytes, g, h, q)
  BY <1>1, GetcEffect
<1> HIDE DEF h
<1>3. PICK q \in 1 .. Len(bytes) + 1 : Effect(bytes, g, h, q)
  BY <1>2
<1>4. /\ Reading(bytes, h) /\ Placed(bytes, h) /\ Numbered(bytes, h) /\ Reads(bytes, g, h)
      /\ SameBuffers(g, h)
  BY <1>1, <1>2, <1>3, GetcBegins, GetcPlaces, GetcNumbers, GetcReads DEF LineState, Effect
<1>5. then = [h EXCEPT !.line = Put(h.line, h.c)]
  BY DEF Take, h
<1>6. /\ f.fp \in Nat /\ g.fp \in Nat /\ h.fp \in Nat /\ g.fp >= f.fp /\ h.fp >= g.fp
      /\ Characters(bytes) \in Seq(Bytes)
  BY <1>1, <1>2, <1>4, CharactersOf DEF FileRecords, LineState, Reads
<1>7. a \in Nat /\ Kept(bytes, g.fp) \in Nat /\ a <= Kept(bytes, g.fp)
  BY <1>6, KeptType, KeptGrows
<1>8. g.line = SubSeq(Characters(bytes), a + 1, Kept(bytes, g.fp)) /\ h.line = g.line
  BY <1>4 DEF LineState, SameBuffers
<1>9. Put(h.line, h.c) = SubSeq(Characters(bytes), a + 1, Kept(bytes, h.fp))
  <2>1. CASE h.c = "EOF"
    BY <1>4, <1>8, <2>1 DEF Put, Reads
  <2>2. CASE h.c = "NUL"
    BY <1>4, <1>8, <2>2 DEF Put, Reads
  <2>3. CASE h.c # "EOF" /\ h.c # "NUL"
    <3>1. /\ Kept(bytes, h.fp) = Kept(bytes, g.fp) + 1 /\ Kept(bytes, h.fp) \in 1 .. Len(Characters(bytes))
          /\ Characters(bytes)[Kept(bytes, h.fp)] = h.c
      BY <1>4, <2>3 DEF Reads
    <3>2. Kept(bytes, g.fp) < Len(Characters(bytes))
      BY <1>6, <1>7, <3>1
    <3>3. Put(h.line, h.c) = Append(h.line, h.c)
      BY <2>3 DEF Put
    <3> DEFINE t == Characters(bytes)
               j == Kept(bytes, g.fp)
    <3>4. t \in Seq(Bytes) /\ a \in Nat /\ j \in Nat /\ a <= j /\ j < Len(t)
      BY <1>6, <1>7, <3>2
    <3>5. h.line = SubSeq(t, a + 1, j) /\ Kept(bytes, h.fp) = j + 1 /\ h.c = t[j + 1]
      BY <1>8, <3>1
    <3> HIDE DEF a, t, j
    <3>6. Append(SubSeq(t, a + 1, j), t[j + 1]) = SubSeq(t, a + 1, j + 1)
      BY <3>4, SubSeqAppends
    <3> QED
      BY <3>3, <3>5, <3>6 DEF t
  <2> QED
    BY <2>1, <2>2, <2>3
<1>10. Put(h.line, h.c) \in Seq(Bytes)
  <2>1. h.line \in Seq(Bytes)
    BY <1>2 DEF FileRecords
  <2>2. h.c \notin {"EOF", "NUL"} => h.c \in Bytes
    BY <1>4 DEF Reads
  <2> QED
    BY <2>1, <2>2 DEF Put
<1> HIDE DEF then
<1>11. /\ then \in FileRecords /\ then.fp = h.fp /\ then.newLine = h.newLine
       /\ then.StartOfLine = h.StartOfLine /\ then.lineNumber = h.lineNumber
       /\ then.filePosition = h.filePosition /\ then.sourceLine = h.sourceLine
       /\ then.currentLine = h.currentLine /\ then.ungetch = h.ungetch /\ then.c = h.c
       /\ then.line = Put(h.line, h.c)
  <2>1. then \in FileRecords
    BY <1>2, <1>5, <1>10 DEF FileRecords
  <2> QED
    BY <1>2, <1>5, <2>1 DEF FileRecords
<1>12. Reading(bytes, then) /\ Placed(bytes, then) /\ Numbered(bytes, then) /\ Reads(bytes, g, then)
  BY <1>4, <1>11 DEF Reading, Placed, Numbered, Reads
<1>13. LineState(bytes, f, then)
  <2>1. then.fp >= f.fp
    BY <1>6, <1>11
  <2> QED
    BY <1>4, <1>9, <1>11, <1>12, <2>1 DEF LineState, SameBuffers
<1> QED
  BY <1>12, <1>13 DEF then

\* A line is begun with nothing of it read.
BeginsLine(b, f) ==
  Reading(b, f) /\ Placed(b, f) /\ Numbered(b, f) /\ f.line = << >>

LEMMA BeginsLineState ==
  ASSUME NEW b \in Seq(Bytes), NEW f, BeginsLine(b, f)
  PROVE  /\ f \in FileRecords /\ f.fp \in 1 .. Len(b) + 1 /\ LineState(b, f, f)
         /\ f.fp \in Nat /\ Kept(b, f.fp) \in 0 .. Len(Characters(b))
<1>1. f \in FileRecords /\ f.fp \in 1 .. Len(b) + 1 /\ f.fp \in Nat /\ f.fp >= f.fp
  BY DEF BeginsLine, Reading, FileRecords
<1>2. Kept(b, f.fp) \in Nat /\ Kept(b, f.fp) <= Len(Characters(b))
  BY <1>1, KeptType, KeptGrows, CharactersOf, SMTT(30)
<1>3. SubSeq(Characters(b), Kept(b, f.fp) + 1, Kept(b, f.fp)) = << >>
  BY <1>2, CharactersOf
<1> QED
  BY <1>1, <1>2, <1>3, CharactersOf DEF BeginsLine, LineState

\* The turns of the loop of iFileGetLine: each takes a byte from where the last
\* one has left the file.
LEMMA TurnsRun ==
  ASSUME bytes \in Seq(Bytes), NEW f, BeginsLine(bytes, f)
  PROVE  /\ Turns(f)[0] = f
         /\ \A k \in Nat : /\ LineState(bytes, f, Turns(f)[k])
                           /\ Turns(f)[k + 1] = Take(Turns(f)[k])
                           /\ Reads(bytes, Turns(f)[k], Turns(f)[k + 1])
<1> DEFINE S == {g \in FileRecords : LineState(bytes, f, g)}
           next == [g \in S |-> Take(g)]
           Follows(turn) == turn = [k \in Nat |-> IF k = 0 THEN f ELSE Take(turn[k - 1])]
<1>1. f \in FileRecords /\ f.fp \in 1 .. Len(bytes) + 1 /\ LineState(bytes, f, f)
  BY BeginsLineState
<1>2. f \in S
  BY <1>1
<1>3. next \in [S -> S]
  <2>1. ASSUME NEW g \in S PROVE Take(g) \in S
    <3>1. LineState(bytes, f, Take(g))
      BY <1>1, TakeKeeps
    <3> QED
      BY <3>1 DEF LineState, Reading
  <2> QED
    BY <2>1
<1> HIDE DEF S, next
<1>4. PICK run : Orbit(S, f, next, run)
  BY <1>2, <1>3, Iterates
<1> USE DEF next, Orbit
<1>5. Follows(run)
  <2>1. ASSUME NEW k \in Nat PROVE run[k] = IF k = 0 THEN f ELSE Take(run[k - 1])
    <3>1. CASE k # 0
      <4>1. k - 1 \in Nat /\ (k - 1) + 1 = k
        BY <3>1
      <4> QED
        BY <1>4, <3>1, <4>1
    <3> QED
      BY <1>4, <3>1
  <2>2. run \in [Nat -> S]
    BY <1>4
  <2> QED
    BY <2>1, <2>2
<1>6. Turns(f) = CHOOSE turn : Follows(turn)
  BY DEF Turns
<1>7. Follows(Turns(f))
  BY <1>5, <1>6
<1> DEFINE T == Turns(f)
<1> HIDE DEF T
<1>8. T = [k \in Nat |-> IF k = 0 THEN f ELSE Take(T[k - 1])]
  BY <1>7 DEF T
<1>9. T[0] = f /\ \A k \in Nat : T[k + 1] = Take(T[k])
  <2>1. ASSUME NEW k \in Nat PROVE T[k + 1] = Take(T[k])
    <3>1. k + 1 \in Nat /\ k + 1 # 0 /\ (k + 1) - 1 = k
      OBVIOUS
    <3> QED
      BY <1>8, <3>1
  <2> QED
    BY <1>8, <2>1
<1>10. \A k \in Nat : LineState(bytes, f, T[k])
  <2> DEFINE Good == {k \in Nat : LineState(bytes, f, T[k])}
  <2>1. 0 \in Good
    BY <1>1, <1>9
  <2>2. ASSUME NEW k \in Nat, k \in Good PROVE k + 1 \in Good
    <3>1. LineState(bytes, f, Take(T[k]))
      BY <1>1, <2>2, TakeKeeps
    <3> QED
      BY <1>9, <3>1
  <2>3. Nat \subseteq Good
    BY <2>1, <2>2, SetInduction
  <2> QED
    BY <2>3
<1>11. \A k \in Nat : Reads(bytes, T[k], T[k + 1])
  BY <1>1, <1>9, <1>10, TakeKeeps
<1> QED
  BY <1>9, <1>10, <1>11 DEF T

\* Reading a line moves over the text to the end of its line, or of the text.
LEMMA GetsLineReads ==
  ASSUME bytes \in Seq(Bytes), NEW f, BeginsLine(bytes, f)
  PROVE  LET g == GetsLine(f) t == Characters(bytes) a == Kept(bytes, f.fp) z == Kept(bytes, g.fp) IN
         /\ LineState(bytes, f, g)
         /\ z = Source!LineEnd(t, a)
         /\ \/ g.c = "EOF" /\ z = Len(t) /\ \A i \in a + 1 .. z : t[i] # "LF"
            \/ /\ g.c = "LF" /\ a < z /\ z <= Len(t) /\ t[z] = "LF"
               /\ \A i \in a + 1 .. z - 1 : t[i] # "LF"
<1> DEFINE T == Turns(f)
           Ends(k) == T[k].c \in {"LF", "EOF"}
           t == Characters(bytes)
           a == Kept(bytes, f.fp)
           K(k) == Kept(bytes, T[k].fp)
           Running(k) == \A j \in 1 .. k : ~ Ends(j)
           last == CHOOSE k \in 1 .. Len(bytes) + 2 : Ends(k) /\ \A j \in 1 .. k - 1 : ~ Ends(j)
<1>1. GetsLine(f) = T[last]
  BY DEF GetsLine
<1>2. /\ f.fp \in Nat /\ f.fp >= 1 /\ a \in 0 .. Len(t) /\ Len(bytes) \in Nat /\ t \in Seq(Bytes)
      /\ Len(t) \in Nat /\ a \in Nat
  BY BeginsLineState, CharactersOf
<1>3. T[0] = f
  BY TurnsRun
<1>4. \A k \in Nat : LineState(bytes, f, T[k]) /\ Reads(bytes, T[k], T[k + 1])
  BY TurnsRun
<1>5. ASSUME NEW k \in Nat
      PROVE  T[k].fp \in Nat /\ T[k].fp <= Len(bytes) + 1 /\ K(k) \in Nat /\ K(k) <= Len(t) /\ a <= K(k)
  <2> DEFINE g == T[k]
  <2>1. LineState(bytes, f, g)
    BY <1>4
  <2> HIDE DEF g, T, t, a
  <2>2. g.fp \in Nat /\ g.fp <= Len(bytes) + 1 /\ f.fp <= g.fp
    BY <1>2, <2>1 DEF LineState, Reading, FileRecords
  <2>3. Kept(bytes, g.fp) \in Nat /\ Kept(bytes, f.fp) <= Kept(bytes, g.fp)
    BY <1>2, <2>2, KeptType, KeptGrows
  <2>4. Kept(bytes, g.fp) <= Kept(bytes, Len(bytes) + 1)
    BY <1>2, <2>2, KeptGrows
  <2>5. Kept(bytes, g.fp) <= Len(t)
    BY <2>4, CharactersOf DEF t
  <2> QED
    BY <2>2, <2>3, <2>5 DEF g, a
<1> HIDE DEF T, t, a
<1> DEFINE Far == {k \in Nat : Running(k) => /\ T[k].fp >= f.fp + k
                                          /\ \A i \in a + 1 .. K(k) : t[i] # "LF"}
<1>6. 0 \in Far
  <2>1. K(0) = a
    BY <1>3 DEF a
  <2> QED
    BY <1>2, <1>3, <2>1
<1>7. ASSUME NEW k \in Nat, k \in Far PROVE k + 1 \in Far
  <2> SUFFICES ASSUME Running(k + 1)
               PROVE  T[k + 1].fp >= f.fp + (k + 1) /\ \A i \in a + 1 .. K(k + 1) : t[i] # "LF"
    OBVIOUS
  <2>1. Running(k) /\ ~ Ends(k + 1)
    BY <1>7
  <2>2. T[k].fp >= f.fp + k /\ \A i \in a + 1 .. K(k) : t[i] # "LF"
    BY <1>7, <2>1
  <2>3. /\ T[k + 1].fp > T[k].fp
        /\ \/ K(k + 1) = K(k)
           \/ K(k + 1) = K(k) + 1 /\ t[K(k + 1)] # "LF"
    BY <1>4, <2>1 DEF Reads, t
  <2>4. T[k].fp \in Nat /\ T[k + 1].fp \in Nat /\ K(k) \in Nat
    <3>1. k + 1 \in Nat
      OBVIOUS
    <3> QED
      BY <1>5, <3>1
  <2> HIDE DEF K
  <2> QED
    BY <1>2, <2>2, <2>3, <2>4, SMTT(30)
<1>8. Nat \subseteq Far
  BY <1>6, <1>7, SetInduction
<1>9. \E k \in 1 .. Len(bytes) + 2 : Ends(k)
  <2> SUFFICES ASSUME Running(Len(bytes) + 2) PROVE FALSE
    OBVIOUS
  <2> DEFINE n == Len(bytes) + 2
  <2>1. n \in Nat /\ n > Len(bytes) + 1 /\ Running(n)
    BY <1>2
  <2> HIDE DEF n
  <2>2. T[n].fp >= f.fp + n
    BY <1>8, <2>1
  <2>3. T[n].fp \in Nat /\ T[n].fp <= Len(bytes) + 1
    BY <1>5, <2>1
  <2> QED
    BY <1>2, <2>1, <2>2, <2>3
<1>10. last \in 1 .. Len(bytes) + 2 /\ Ends(last) /\ \A j \in 1 .. last - 1 : ~ Ends(j)
  <2> DEFINE Ending == {k \in Nat : k \in 1 .. Len(bytes) + 2 /\ Ends(k)}
  <2>1. Ending # {}
    BY <1>2, <1>9
  <2>2. PICK k \in Ending : \A j \in Ending : k <= j
    BY <2>1, LeastNumber
  <2>3. \A j \in 1 .. k - 1 : ~ Ends(j)
    BY <1>2, <2>2
  <2> HIDE DEF Ends
  <2> QED
    BY <2>2, <2>3
<1> HIDE DEF last
<1> DEFINE p == last - 1
<1>11. p \in Nat /\ last = p + 1 /\ last \in Nat /\ Running(p)
  BY <1>10
<1> HIDE DEF p
<1>12. /\ \A i \in a + 1 .. K(p) : t[i] # "LF"
  BY <1>8, <1>11
<1>13. /\ K(p) \in Nat /\ K(last) \in Nat /\ K(p) <= Len(t) /\ K(last) <= Len(t) /\ a <= K(p)
  BY <1>5, <1>11
<1>14. Reads(bytes, T[p], T[last])
  BY <1>4, <1>11
<1>15. CASE T[last].c = "EOF"
  <2>1. K(last) = K(p) /\ K(last) = Len(t)
    BY <1>14, <1>15, CharactersOf DEF Reads, t
  <2> HIDE DEF K
  <2>2. \A i \in a + 1 .. K(last) : t[i] # "LF"
    BY <1>12, <2>1
  <2>3. Source!LineEnd(t, a) = Len(t)
    BY <1>2, <2>1, <2>2 DEF Source!LineEnd, Source!LineEnds
  <2> QED
    BY <1>1, <1>4, <1>11, <1>15, <2>1, <2>2, <2>3 DEF K, a, t
<1>16. CASE T[last].c = "LF"
  <2>1. K(last) = K(p) + 1 /\ t[K(last)] = "LF"
    BY <1>14, <1>16 DEF Reads, t
  <2> HIDE DEF K
  <2>2. a < K(last) /\ \A i \in a + 1 .. K(last) - 1 : t[i] # "LF"
    BY <1>2, <1>12, <1>13, <2>1
  <2>3. Source!LineEnd(t, a) = K(last)
    <3> DEFINE L == Source!LineEnds(t)
               End(i) == i > a /\ \A j \in L : j > a => i <= j
    <3>1. K(last) \in L /\ K(last) > a /\ \A i \in L : i \in Nat
      BY <1>2, <1>13, <2>1, <2>2 DEF Source!LineEnds
    <3>2. \A j \in L : j > a => K(last) <= j
      BY <1>2, <1>13, <2>1, <2>2 DEF Source!LineEnds
    <3>3. \A i \in L : End(i) => i = K(last)
      BY <1>2, <1>13, <3>1, <3>2
    <3>4. Source!LineEnd(t, a) = CHOOSE i \in L : End(i)
      BY <3>1 DEF Source!LineEnd
    <3>5. End(K(last))
      BY <3>1, <3>2
    <3> HIDE DEF L, End
    <3> QED
      BY <3>1, <3>3, <3>4, <3>5
  <2> QED
    BY <1>1, <1>4, <1>11, <1>13, <1>16, <2>1, <2>2, <2>3 DEF K, a, t
<1> QED
  BY <1>10, <1>15, <1>16

\* Where the reading is in a file, and how its lines are counted.
InPlace(b, f) == Reading(b, f) /\ Placed(b, f) /\ Numbered(b, f)

\* iFileGetLine returns the next line of the text, NULL at its end.
LEMMA GetLineReads ==
  ASSUME bytes \in Seq(Bytes), NEW f, InPlace(bytes, f)
  PROVE  LET g == iFileGetLine(f) t == Characters(bytes) a == Kept(bytes, f.fp) z == Kept(bytes, g.fp) IN
         /\ InPlace(bytes, g)
         /\ g.currentLine = f.currentLine /\ g.ungetch = f.ungetch
         /\ a \in 0 .. Len(t) /\ z \in a .. Len(t) /\ z = Source!LineEnd(t, a)
         /\ g.result = IF a = Len(t) THEN NULL ELSE SubSeq(t, a + 1, z)
         /\ a < Len(t) => a < z
         /\ \A i \in a + 1 .. z - 1 : t[i] # "LF"
<1> DEFINE t == Characters(bytes)
           a == Kept(bytes, f.fp)
           e == [f EXCEPT !.line = << >>]
           h == GetsLine(e)
           z == Kept(bytes, h.fp)
           g == iFileGetLine(f)
<1>1. /\ e \in FileRecords /\ e.fp = f.fp /\ e.line = << >> /\ e.newLine = f.newLine
      /\ e.StartOfLine = f.StartOfLine /\ e.lineNumber = f.lineNumber
      /\ e.filePosition = f.filePosition /\ e.sourceLine = f.sourceLine
      /\ e.currentLine = f.currentLine /\ e.ungetch = f.ungetch
  <2>1. f \in FileRecords
    BY DEF InPlace, Reading
  <2>2. << >> \in Seq(Bytes)
    OBVIOUS
  <2>3. e \in FileRecords
    BY <2>1, <2>2 DEF FileRecords
  <2> QED
    BY <2>1, <2>3 DEF FileRecords
<1>2. g = [h EXCEPT !.result = IF h.c = "EOF" /\ h.line = << >> THEN NULL ELSE h.line]
  BY DEF iFileGetLine
<1> HIDE DEF e
<1>3. BeginsLine(bytes, e)
  BY <1>1 DEF BeginsLine, InPlace, Reading, Placed, Numbered
<1>4. /\ LineState(bytes, e, h) /\ z = Source!LineEnd(t, a)
      /\ \/ h.c = "EOF" /\ z = Len(t) /\ \A i \in a + 1 .. z : t[i] # "LF"
         \/ /\ h.c = "LF" /\ a < z /\ z <= Len(t) /\ t[z] = "LF"
            /\ \A i \in a + 1 .. z - 1 : t[i] # "LF"
  BY <1>1, <1>3, GetsLineReads
<1> HIDE DEF h, g
<1>5. /\ t \in Seq(Bytes) /\ Len(t) \in Nat /\ f.fp \in Nat /\ h.fp \in Nat /\ f.fp <= h.fp
      /\ h \in FileRecords
  BY <1>1, <1>4, CharactersOf, SMTT(30) DEF LineState, Reading, FileRecords
<1>6. a \in Nat /\ z \in Nat /\ a <= z
  BY <1>5, KeptType, KeptGrows
<1>7. z <= Len(t)
  BY <1>4, <1>5, <1>6
<1> HIDE DEF a, t
<1>8. h.line = SubSeq(t, a + 1, z)
  BY <1>1, <1>4 DEF LineState, a, t
<1> HIDE DEF z
<1>9. h.c = "EOF" /\ h.line = << >> <=> a = Len(t)
  <2>1. h.line = << >> <=> a = z
    <3>1. h.line \in Seq(Bytes) /\ Len(h.line) = z - a
      BY <1>5, <1>6, <1>7, <1>8
    <3>2. h.line = << >> <=> Len(h.line) = 0
      BY <3>1
    <3> QED
      BY <1>6, <3>1, <3>2
  <2> QED
    BY <1>4, <1>5, <1>6, <1>7, <2>1
<1>10. g.result = IF a = Len(t) THEN NULL ELSE SubSeq(t, a + 1, z)
  BY <1>2, <1>5, <1>8, <1>9 DEF FileRecords
<1>11. /\ g \in FileRecords /\ g.fp = h.fp /\ g.newLine = h.newLine
       /\ g.StartOfLine = h.StartOfLine /\ g.lineNumber = h.lineNumber
       /\ g.filePosition = h.filePosition /\ g.sourceLine = h.sourceLine
       /\ g.currentLine = h.currentLine /\ g.ungetch = h.ungetch
  <2>1. h.line \in Seq(Bytes)
    BY <1>5 DEF FileRecords
  <2>2. g \in FileRecords
    BY <1>2, <1>5, <2>1 DEF FileRecords
  <2> QED
    BY <1>2, <1>5, <2>2 DEF FileRecords
<1>12. InPlace(bytes, g)
  BY <1>4, <1>11 DEF InPlace, LineState, Reading, Placed, Numbered
<1>13. g.currentLine = f.currentLine /\ g.ungetch = f.ungetch
  BY <1>1, <1>4, <1>11 DEF LineState
<1>14. a < Len(t) => a < z
  BY <1>4, <1>5, <1>6
<1>15. \A i \in a + 1 .. z - 1 : t[i] # "LF"
  BY <1>4, <1>5, <1>6
<1>16. z = Kept(bytes, g.fp)
  BY <1>11 DEF z
<1>17. a \in 0 .. Len(t) /\ z \in a .. Len(t) /\ z = Source!LineEnd(t, a)
  BY <1>4, <1>5, <1>6, <1>7
<1> QED
  BY <1>10, <1>12, <1>13, <1>14, <1>15, <1>16, <1>17 DEF g, a, t

-------------------------------------------------------------------------------
(* The interfaces *)

\* Characters are taken from the line in hand: at is how many of the text have
\* been, n how many a parser has kept, the one it gave back not counted.
CharsPlace(t, k, f, n, ans) ==
  LET back == IF f.ungetch \in {"none", "EOF"} THEN 0 ELSE 1
      at == n + back
  IN /\ at <= Len(t)
     /\ f.currentLine \in {NULL, << >>} => at = k
     /\ f.currentLine \notin {NULL, << >>} => at < k /\ f.currentLine = SubSeq(t, at + 1, k)
     /\ f.ungetch \notin {"none", "EOF"} => f.ungetch = t[n + 1]
     /\ f.ungetch = "EOF" => n = Len(t)
     /\ ans # << >> =>
          /\ ans \in [{1} -> Bytes \cup {"EOF"}]
          /\ f.ungetch = "none" => IF ans[1] = "EOF" THEN n = Len(t)
                                   ELSE n >= 1 /\ t[n] = ans[1]

CharsInv == mode = "chars" =>
  CharsPlace(Characters(bytes), Kept(bytes, File.fp), File, given, answer)
LinesInv == mode = "lines" =>
  given = Kept(bytes, File.fp) /\ File.currentLine = NULL /\ File.ungetch = "none"
IdleInv == mode \in {"closed", "stream"} =>
  given = 0 /\ answer = << >> /\ File.ungetch = "none"
TypeInv ==
  /\ bytes \in Seq(Bytes) /\ given \in Nat /\ File \in FileRecords
  /\ mode \in {"closed", "chars", "lines", "stream"}
  /\ mode = "closed" => bytes = << >>
PlaceInv == mode # "closed" => InPlace(bytes, File)
ReadInv == TypeInv /\ PlaceInv /\ CharsInv /\ LinesInv /\ IdleInv

LEMMA InitRead == Init => ReadInv
<1> SUFFICES ASSUME Init PROVE ReadInv
  OBVIOUS
<1>1. File \in FileRecords
  BY DEF Init, FileRecords, NULL
<1> QED
  BY <1>1 DEF Init, ReadInv, TypeInv, PlaceInv, CharsInv, LinesInv, IdleInv

\* A file is opened before its first byte.
LEMMA OpenInPlace ==
  ASSUME NEW b \in Seq(Bytes), NEW f \in FileRecords
  PROVE  /\ fileOpen(f) \in FileRecords /\ InPlace(b, fileOpen(f))
         /\ fileOpen(f).currentLine = NULL /\ fileOpen(f).ungetch = f.ungetch
         /\ Kept(b, fileOpen(f).fp) = 0
<1> DEFINE g == fileOpen(f)
<1>1. g = [f EXCEPT !.fp = 1, !.StartOfLine = 1, !.filePosition = 1, !.currentLine = NULL,
            !.lineNumber = 0, !.eof = FALSE, !.newLine = TRUE, !.line = << >>, !.sourceLine = 0]
  BY DEF fileOpen
<1> HIDE DEF g
<1>2. g \in FileRecords
  <2>1. << >> \in Seq(Bytes) /\ NULL \in Seq(Bytes) \cup {NULL} /\ 0 \in Nat /\ 1 \in Nat
    OBVIOUS
  <2> QED
    BY <1>1, <2>1 DEF FileRecords
<1>3. /\ g.fp = 1 /\ g.StartOfLine = 1 /\ g.filePosition = 1 /\ g.currentLine = NULL
      /\ g.lineNumber = 0 /\ g.newLine = TRUE /\ g.sourceLine = 0 /\ g.ungetch = f.ungetch
  BY <1>1, <1>2 DEF FileRecords
<1>4. Reading(b, g) /\ Numbered(b, g)
  BY <1>2, <1>3 DEF Reading, Numbered, Begins
<1>5. Cardinality(Begun(b, 1)) = 0 /\ 1 \in Starts(b)
  <2>1. Begun(b, 1) = {} /\ 1 \in Starts(b)
    BY DEF Begun, Starts
  <2> QED
    BY <2>1, FS_EmptySet
<1>6. Placed(b, g)
  BY <1>3, <1>5 DEF Placed
<1> QED
  BY <1>2, <1>3, <1>4, <1>6, KeptNone DEF InPlace, g

\* A record that differs only in what the interfaces keep is in the same place.
SameReading(f, g) ==
  g.fp = f.fp /\ g.newLine = f.newLine /\ g.StartOfLine = f.StartOfLine /\ SameLine(f, g)

LEMMA SamePlace ==
  ASSUME NEW b, NEW f, InPlace(b, f), NEW g \in FileRecords, SameReading(f, g)
  PROVE  InPlace(b, g)
BY DEF InPlace, Reading, Placed, Numbered, SameReading, SameLine

LEMMA EmptyIsShort == ASSUME NEW s \in Seq(Bytes) PROVE s = << >> <=> Len(s) = 0
OBVIOUS

LEMMA NotNull == ASSUME NEW s \in Seq(Bytes) PROVE s # NULL
<1> SUFFICES ASSUME s = NULL PROVE FALSE
  OBVIOUS
<1>1. Len(s) = 1 /\ s[1] = "NULL"
  BY DEF NULL
<1>2. s[1] \in Bytes
  BY <1>1
<1> QED
  BY <1>1, <1>2 DEF Bytes

\* The next character of a line, or of the next line.
LEMMA NextOfLineReads ==
  ASSUME bytes \in Seq(Bytes), NEW f, InPlace(bytes, f), NEW n \in Nat, NEW ans,
         CharsPlace(Characters(bytes), Kept(bytes, f.fp), f, n, ans), f.ungetch = "none"
  PROVE  LET g == NextOfLine(f) t == Characters(bytes) k == Kept(bytes, g.fp) IN
         /\ InPlace(bytes, g) /\ g.ungetch = "none"
         /\ IF n = Len(t) THEN g.c = "EOF" /\ CharsPlace(t, k, g, n, << "EOF" >>)
            ELSE n < Len(t) /\ g.c = t[n + 1] /\ g.c \in Bytes
                 /\ CharsPlace(t, k, g, n + 1, << g.c >>)
<1> DEFINE t == Characters(bytes)
           k == Kept(bytes, f.fp)
           h == IF f.currentLine \in {NULL, << >>} THEN iFileGetLine(f)
                ELSE [f EXCEPT !.result = f.currentLine]
           z == Kept(bytes, h.fp)
           g == NextOfLine(f)
<1>1. g = IF h.result = NULL THEN [h EXCEPT !.currentLine = NULL, !.c = "EOF"]
          ELSE [h EXCEPT !.currentLine = Tail(h.result), !.c = Head(h.result)]
  BY DEF NextOfLine
<1>2. /\ n <= Len(t)
      /\ f.currentLine \in {NULL, << >>} => n = k
      /\ f.currentLine \notin {NULL, << >>} => n < k /\ f.currentLine = SubSeq(t, n + 1, k)
  BY DEF CharsPlace
<1>3. t \in Seq(Bytes) /\ Len(t) \in Nat /\ k \in 0 .. Len(t) /\ f \in FileRecords
  <2>1. /\ f \in FileRecords /\ f.fp \in Nat /\ f.fp <= Len(bytes) + 1 /\ Len(bytes) + 1 \in Nat
        /\ t \in Seq(Bytes)
    BY CharactersOf DEF InPlace, Reading, FileRecords
  <2>2. k \in Nat /\ k <= Kept(bytes, Len(bytes) + 1)
    BY <2>1, KeptType, KeptGrows
  <2> QED
    BY <2>1, <2>2, CharactersOf
<1> HIDE DEF g, h
<1>4. /\ InPlace(bytes, h) /\ h.ungetch = "none" /\ z \in 0 .. Len(t)
      /\ IF n = Len(t) THEN h.result = NULL /\ z = Len(t)
         ELSE n < z /\ h.result = SubSeq(t, n + 1, z)
  <2>1. CASE f.currentLine \in {NULL, << >>}
    <3>1. h = iFileGetLine(f)
      BY <2>1 DEF h
    <3>2. /\ InPlace(bytes, h) /\ h.ungetch = f.ungetch
          /\ z \in k .. Len(t)
          /\ h.result = IF k = Len(t) THEN NULL ELSE SubSeq(t, k + 1, z)
          /\ k < Len(t) => k < z
      BY <3>1, GetLineReads
    <3> HIDE DEF z, k, t
    <3> QED
      BY <1>2, <1>3, <2>1, <3>2, SMTT(30)
  <2>2. CASE f.currentLine \notin {NULL, << >>}
    <3>1. h = [f EXCEPT !.result = f.currentLine]
      BY <2>2 DEF h
    <3>2. h.fp = f.fp /\ h.result = f.currentLine /\ h.ungetch = "none" /\ InPlace(bytes, h)
      <4>1. f.currentLine \in Seq(Bytes) \cup {NULL}
        BY <1>3 DEF FileRecords
      <4>2. h \in FileRecords
        BY <1>3, <3>1, <4>1 DEF FileRecords
      <4>3. /\ h.fp = f.fp /\ h.newLine = f.newLine /\ h.StartOfLine = f.StartOfLine
            /\ h.lineNumber = f.lineNumber /\ h.filePosition = f.filePosition
            /\ h.sourceLine = f.sourceLine /\ h.result = f.currentLine /\ h.ungetch = f.ungetch
        BY <1>3, <3>1, <4>2 DEF FileRecords
      <4> QED
        BY <4>2, <4>3 DEF InPlace, Reading, Placed, Numbered
    <3>3. z = k
      BY <3>2
    <3> HIDE DEF z, k, t
    <3> QED
      BY <1>2, <1>3, <2>2, <3>2, <3>3
  <2> QED
    BY <2>1, <2>2
<1>5. h \in FileRecords /\ h.c \in Bytes \cup {"none", "EOF"} /\ h.result \in Seq(Bytes) \cup {NULL}
  <2>1. h \in FileRecords
    BY <1>4 DEF InPlace, Reading
  <2> QED
    BY <2>1 DEF FileRecords
<1>6. CASE n = Len(t)
  <2>1. g = [h EXCEPT !.currentLine = NULL, !.c = "EOF"]
    BY <1>1, <1>4, <1>6
  <2>2. g \in FileRecords
    BY <1>5, <2>1 DEF FileRecords
  <2>3. SameReading(h, g) /\ g.currentLine = NULL /\ g.c = "EOF" /\ g.ungetch = h.ungetch
    BY <1>5, <2>1, <2>2 DEF FileRecords, SameReading, SameLine
  <2>4. /\ InPlace(bytes, g) /\ g.fp = h.fp /\ g.currentLine = NULL /\ g.c = "EOF"
        /\ g.ungetch = "none"
    BY <1>4, <2>2, <2>3, SamePlace DEF SameReading
  <2>5. CharsPlace(t, z, g, n, << "EOF" >>)
    BY <1>3, <1>4, <1>6, <2>4 DEF CharsPlace
  <2> QED
    BY <1>6, <2>4, <2>5 DEF g
<1>7. CASE n # Len(t)
  <2>1. n < z /\ n < Len(t) /\ h.result = SubSeq(t, n + 1, z) /\ z \in Nat /\ z <= Len(t)
    BY <1>2, <1>3, <1>4, <1>7
  <2> HIDE DEF z, t
  <2>2. /\ h.result \in Seq(Bytes) /\ h.result # << >> /\ h.result # NULL
        /\ Head(h.result) = t[n + 1] /\ t[n + 1] \in Bytes
        /\ Tail(h.result) = SubSeq(t, (n + 1) + 1, z) /\ Tail(h.result) \in Seq(Bytes)
    <3>1. h.result \in Seq(Bytes) /\ Len(h.result) = z - n
      BY <1>3, <2>1
    <3>2. n + 1 \in 1 .. Len(t) /\ z \in n + 1 .. Len(t)
      BY <1>3, <2>1
    <3>3. h.result # << >> /\ h.result # NULL
      <4>1. Len(h.result) # 0
        BY <1>3, <2>1, <3>1
      <4> QED
        BY <3>1, <4>1, EmptyIsShort, NotNull
    <3>4. Head(h.result) = t[n + 1] /\ Tail(h.result) = SubSeq(t, (n + 1) + 1, z)
      BY <1>3, <2>1, <3>2, HeadTailOfSubSeq
    <3>5. t[n + 1] \in Bytes
      BY <1>3, <3>2
    <3>6. Tail(h.result) \in Seq(Bytes)
      BY <3>1, <3>3
    <3> QED
      BY <3>1, <3>3, <3>4, <3>5, <3>6
  <2> DEFINE cur == Tail(h.result)
             c == Head(h.result)
  <2>3. g = [h EXCEPT !.currentLine = cur, !.c = c]
    BY <1>1, <2>2
  <2>4. cur \in Seq(Bytes) /\ c \in Bytes /\ cur = SubSeq(t, (n + 1) + 1, z) /\ c = t[n + 1]
    BY <2>2
  <2> HIDE DEF cur, c
  <2>5. g \in FileRecords
    BY <1>5, <2>3, <2>4 DEF FileRecords
  <2>6. InPlace(bytes, g) /\ g.fp = h.fp /\ g.currentLine = cur /\ g.c = c /\ g.ungetch = "none"
    <3>1. SameReading(h, g) /\ g.currentLine = cur /\ g.c = c /\ g.ungetch = h.ungetch
      BY <1>5, <2>3, <2>5 DEF FileRecords, SameReading, SameLine
    <3> QED
      BY <1>4, <2>5, <3>1, SamePlace DEF SameReading
  <2>7. CharsPlace(t, z, g, n + 1, << g.c >>)
    <3>1. cur # NULL
      BY <2>4, NotNull
    <3>2. cur = << >> <=> n + 1 = z
      <4>1. Len(cur) = IF n + 1 < z THEN z - (n + 1) ELSE 0
        BY <1>3, <2>1, <2>4
      <4>2. cur = << >> <=> Len(cur) = 0
        BY <2>4, EmptyIsShort
      <4> QED
        BY <2>1, <4>1, <4>2
    <3>3. << g.c >> \in [{1} -> Bytes \cup {"EOF"}] /\ << g.c >>[1] = g.c /\ g.c # "EOF"
      BY <2>4, <2>6 DEF Bytes
    <3>4. /\ n + 1 <= Len(t) /\ g.ungetch = "none" /\ (n + 1) + 0 = n + 1 /\ n + 1 >= 1
          /\ g.currentLine = cur /\ t[n + 1] = g.c /\ << g.c >> # << >>
          /\ cur # << >> => n + 1 < z
      BY <1>3, <2>1, <2>4, <2>6, <3>2
    <3> QED
      BY <2>4, <3>1, <3>2, <3>3, <3>4 DEF CharsPlace
  <2>8. z = Kept(bytes, g.fp)
    BY <2>6 DEF z
  <2> QED
    BY <1>7, <2>1, <2>4, <2>6, <2>7, <2>8 DEF g, t
<1> QED
  BY <1>6, <1>7

\* What a parser sees, and how it may move.
Seen == << Text(bytes), given, answer >>
Moves == LoneReturn(bytes) \/ Source!Next

LEMMA EmptyText == Text(<< >>) = << >>
<1>1. << >> \in Seq(Bytes) /\ Len(<< >>) + 1 = 1
  OBVIOUS
<1>2. Text(<< >>) \in Seq(Bytes) /\ Len(Text(<< >>)) = 0
  BY <1>1, TextOf, CharactersOf, KeptNone
<1> QED
  BY <1>2, EmptyIsShort

LEMMA OpenReads ==
  ASSUME ReadInv, NEW file \in Files, NEW m \in {"chars", "lines", "stream"}, Open(file, m)
  PROVE  ReadInv' /\ Source!Next
<1>1. /\ bytes' = file /\ mode' = m /\ File' = fileOpen(File) /\ answer' = << >> /\ given' = 0
      /\ file \in Seq(Bytes) /\ File \in FileRecords /\ File.ungetch = "none"
  BY ReadAssumption DEF Open, ReadInv, TypeInv, IdleInv
<1>2. /\ File' \in FileRecords /\ InPlace(bytes', File') /\ File'.currentLine = NULL
      /\ File'.ungetch = "none" /\ Kept(bytes', File'.fp) = 0
  BY <1>1, OpenInPlace
<1>3. Text(bytes') \in Seq(Bytes) /\ Characters(bytes') \in Seq(Bytes)
  BY <1>1, TextOf, CharactersOf
<1>4. CharsPlace(Characters(bytes'), Kept(bytes', File'.fp), File', given', answer')
  <2>1. Len(Characters(bytes')) >= 0
    BY <1>3
  <2> QED
    BY <1>1, <1>2, <2>1 DEF CharsPlace
<1>5. ReadInv'
  BY <1>1, <1>2, <1>4 DEF ReadInv, TypeInv, PlaceInv, CharsInv, LinesInv, IdleInv
<1>6. Source!Open
  BY <1>1, <1>3 DEF Source!Open
<1> QED
  BY <1>5, <1>6 DEF Source!Next

LEMMA CloseReads == ASSUME ReadInv, fileClose PROVE ReadInv' /\ Source!Next
<1>1. /\ mode' = "closed" /\ bytes' = << >> /\ answer' = << >> /\ given' = 0
      /\ File' = [File EXCEPT !.fp = 0, !.c = "none", !.result = NULL]
      /\ File.ungetch = "none" /\ File \in FileRecords
  BY DEF fileClose, ReadInv, TypeInv, IdleInv
<1>2. File' \in FileRecords /\ File'.ungetch = "none"
  BY <1>1 DEF FileRecords
<1>3. Text(<< >>) = << >>
  BY EmptyText
<1>4. ReadInv'
  BY <1>1, <1>2 DEF ReadInv, TypeInv, PlaceInv, CharsInv, LinesInv, IdleInv
<1>5. Source!Close
  BY <1>1, <1>3 DEF Source!Close
<1> QED
  BY <1>4, <1>5 DEF Source!Next

LEMMA GetcReadsNext == ASSUME ReadInv, fileGetc PROVE ReadInv' /\ Moves
<1> DEFINE t == Characters(bytes)
<1>1. /\ mode = "chars" /\ mode' = mode /\ bytes' = bytes /\ answer' = << File'.c >>
      /\ given' = IF File'.c = "EOF" THEN given ELSE given + 1
      /\ File' = IF File.ungetch # "none" THEN [File EXCEPT !.c = File.ungetch, !.ungetch = "none"]
                 ELSE NextOfLine(File)
  BY DEF fileGetc
<1>2. /\ bytes \in Seq(Bytes) /\ given \in Nat /\ InPlace(bytes, File) /\ File \in FileRecords
      /\ CharsPlace(t, Kept(bytes, File.fp), File, given, answer)
  BY <1>1 DEF ReadInv, TypeInv, PlaceInv, CharsInv
<1>3. t \in Seq(Bytes) /\ Len(t) \in Nat
  BY <1>2, CharactersOf
<1>4. SUFFICES /\ InPlace(bytes, File')
               /\ IF given = Len(t) THEN File'.c = "EOF"
                  ELSE given < Len(t) /\ File'.c = t[given + 1] /\ File'.c \in Bytes
               /\ CharsPlace(t, Kept(bytes, File'.fp), File', given', answer')
  <2>1. ReadInv'
    <3>1. File' \in FileRecords /\ given' \in Nat
      BY <1>1, <1>2, <1>4 DEF InPlace, Reading
    <3> QED
      BY <1>1, <1>2, <1>4, <3>1 DEF ReadInv, TypeInv, PlaceInv, CharsInv, LinesInv, IdleInv
  <2>2. ASSUME ~ LoneReturn(bytes) PROVE Source!Getc
    <3>1. Text(bytes) = t /\ Text(bytes') = Text(bytes)
      BY <1>1, <1>2, <2>2, TextOf
    <3> HIDE DEF t
    <3> QED
      BY <1>1, <1>3, <1>4, <3>1 DEF Source!Getc, Bytes
  <2> QED
    BY <2>1, <2>2 DEF Moves, Source!Next
<1>5. CASE File.ungetch = "none"
  <2>1. /\ InPlace(bytes, File') /\ File'.ungetch = "none"
        /\ IF given = Len(t)
           THEN File'.c = "EOF" /\ CharsPlace(t, Kept(bytes, File'.fp), File', given, << "EOF" >>)
           ELSE given < Len(t) /\ File'.c = t[given + 1] /\ File'.c \in Bytes
                /\ CharsPlace(t, Kept(bytes, File'.fp), File', given + 1, << File'.c >>)
    BY <1>1, <1>2, <1>5, NextOfLineReads
  <2>2. File'.c \in Bytes => File'.c # "EOF"
    BY DEF Bytes
  <2> QED
    BY <1>1, <2>1, <2>2
<1>6. CASE File.ungetch # "none"
  <2> DEFINE u == File.ungetch
             g == [File EXCEPT !.c = u, !.ungetch = "none"]
             k == Kept(bytes, File.fp)
  <2>1. File' = g /\ u \in Bytes \cup {"EOF"} /\ u # "none"
    BY <1>1, <1>2, <1>6 DEF FileRecords
  <2>2. g \in FileRecords
    BY <1>2, <2>1 DEF FileRecords
  <2>3. SameReading(File, g) /\ g.currentLine = File.currentLine /\ g.c = u /\ g.ungetch = "none"
    BY <1>2, <2>2 DEF FileRecords, SameReading, SameLine
  <2>4. InPlace(bytes, g) /\ Kept(bytes, g.fp) = k
    BY <1>2, <2>2, <2>3, SamePlace DEF SameReading
  <2> HIDE DEF g, k, t
  <2>5. CASE u = "EOF"
    <3>1. given = Len(t) /\ given' = given /\ answer' = << "EOF" >>
      BY <1>1, <1>2, <2>1, <2>3, <2>5 DEF CharsPlace, k, t
    <3>2. CharsPlace(t, k, g, given, << "EOF" >>)
      BY <1>2, <1>3, <2>3, <2>5, <3>1 DEF CharsPlace, k, t
    <3> QED
      BY <2>1, <2>3, <2>4, <2>5, <3>1, <3>2
  <2>6. CASE u # "EOF"
    <3>1. /\ given' = given + 1 /\ answer' = << u >> /\ u \in Bytes
      BY <1>1, <2>1, <2>3, <2>6
    <3>2. /\ given + 1 <= Len(t) /\ u = t[given + 1]
          /\ g.currentLine \in {NULL, << >>} => given + 1 = k
          /\ g.currentLine \notin {NULL, << >>} =>
               given + 1 < k /\ g.currentLine = SubSeq(t, (given + 1) + 1, k)
      BY <1>2, <2>1, <2>3, <2>6 DEF CharsPlace, k, t
    <3>3. << u >> \in [{1} -> Bytes \cup {"EOF"}] /\ << u >>[1] = u
      BY <3>1
    <3>4. CharsPlace(t, k, g, given + 1, << u >>)
      BY <1>2, <1>3, <2>3, <2>6, <3>1, <3>2, <3>3 DEF CharsPlace
    <3>5. given < Len(t)
      BY <1>2, <1>3, <3>2
    <3> QED
      BY <1>2, <1>3, <2>1, <2>3, <2>4, <3>1, <3>2, <3>4, <3>5
  <2> QED
    BY <2>5, <2>6
<1> QED
  BY <1>5, <1>6

LEMMA UngetcReads == ASSUME ReadInv, fileUngetc PROVE ReadInv' /\ [Moves]_Seen
<1> DEFINE t == Characters(bytes)
           c == answer[1]
           k == Kept(bytes, File.fp)
           g == [File EXCEPT !.ungetch = c]
<1>1. /\ mode = "chars" /\ mode' = mode /\ bytes' = bytes /\ answer' = answer
      /\ File.ungetch = "none" /\ answer # << >> /\ File' = g
      /\ given' = IF c = "EOF" THEN given ELSE given - 1
  BY DEF fileUngetc
<1>2. /\ bytes \in Seq(Bytes) /\ given \in Nat /\ InPlace(bytes, File) /\ File \in FileRecords
      /\ CharsPlace(t, k, File, given, answer)
  BY <1>1 DEF ReadInv, TypeInv, PlaceInv, CharsInv
<1>3. t \in Seq(Bytes) /\ Len(t) \in Nat
  BY <1>2, CharactersOf
<1>4. /\ answer \in [{1} -> Bytes \cup {"EOF"}]
      /\ IF c = "EOF" THEN given = Len(t) ELSE given >= 1 /\ t[given] = c
      /\ given <= Len(t)
      /\ File.currentLine \in {NULL, << >>} => given = k
      /\ File.currentLine \notin {NULL, << >>} =>
           given < k /\ File.currentLine = SubSeq(t, given + 1, k)
  BY <1>1, <1>2 DEF CharsPlace
<1>5. c \in Bytes \cup {"EOF"} /\ c # "none" /\ (c # "EOF" => c \in Bytes)
  BY <1>4 DEF Bytes
<1> HIDE DEF c
<1>6. g \in FileRecords
  BY <1>2, <1>5 DEF FileRecords
<1>7. SameReading(File, g) /\ g.currentLine = File.currentLine /\ g.ungetch = c
  BY <1>2, <1>6 DEF FileRecords, SameReading, SameLine
<1> HIDE DEF g
<1>8. InPlace(bytes, g) /\ Kept(bytes, g.fp) = k
  BY <1>2, <1>6, <1>7, SamePlace DEF SameReading
<1>9. given' \in Nat /\ CharsPlace(t, k, g, given', answer)
  <2>1. CASE c = "EOF"
    BY <1>1, <1>2, <1>3, <1>4, <1>7, <2>1 DEF CharsPlace
  <2>2. CASE c # "EOF"
    <3>1. given' = given - 1 /\ given' \in Nat /\ given' + 1 = given
      BY <1>1, <1>2, <1>4, <2>2
    <3> HIDE DEF t, k
    <3>2. /\ given' + 1 <= Len(t) /\ c = t[given' + 1]
          /\ g.currentLine \in {NULL, << >>} => given' + 1 = k
          /\ g.currentLine \notin {NULL, << >>} =>
               given' + 1 < k /\ g.currentLine = SubSeq(t, (given' + 1) + 1, k)
      BY <1>4, <1>7, <2>2, <3>1
    <3> DEFINE n == given'
    <3> HIDE DEF n
    <3>3. CharsPlace(t, k, g, n, answer)
      BY <1>4, <1>5, <1>7, <2>2, <3>2 DEF CharsPlace, n
    <3> QED
      BY <3>1, <3>3 DEF n
  <2> QED
    BY <2>1, <2>2
<1>10. ReadInv'
  BY <1>1, <1>2, <1>6, <1>8, <1>9 DEF ReadInv, TypeInv, PlaceInv, CharsInv, LinesInv, IdleInv
<1>11. CASE c = "EOF"
  BY <1>1, <1>10, <1>11 DEF Seen
<1>12. CASE c # "EOF"
  <2>1. Source!Ungetc
    BY <1>1, <1>12 DEF Source!Ungetc
  <2> QED
    BY <1>10, <2>1 DEF Moves, Source!Next
<1> QED
  BY <1>11, <1>12

LEMMA ReadLineReads == ASSUME ReadInv, fileReadLine PROVE ReadInv' /\ Moves
<1> DEFINE t == Characters(bytes)
           k == Kept(bytes, File.fp)
           z == Kept(bytes, File'.fp)
<1>1. /\ mode = "lines" /\ mode' = mode /\ bytes' = bytes /\ File' = iFileGetLine(File)
      /\ answer' = IF File'.result = NULL THEN << "EOF" >> ELSE Stripped(File'.result)
      /\ given' = IF File'.result = NULL THEN given ELSE given + Len(File'.result)
  BY DEF fileReadLine
<1>2. /\ bytes \in Seq(Bytes) /\ given \in Nat /\ InPlace(bytes, File)
      /\ given = k /\ File.currentLine = NULL /\ File.ungetch = "none"
  BY <1>1 DEF ReadInv, TypeInv, PlaceInv, LinesInv
<1>3. t \in Seq(Bytes) /\ Len(t) \in Nat
  BY <1>2, CharactersOf
<1>4. /\ InPlace(bytes, File')
      /\ File'.currentLine = File.currentLine /\ File'.ungetch = File.ungetch
      /\ k \in 0 .. Len(t) /\ z \in k .. Len(t) /\ z = Source!LineEnd(t, k)
      /\ File'.result = IF k = Len(t) THEN NULL ELSE SubSeq(t, k + 1, z)
      /\ k < Len(t) => k < z
  BY <1>1, <1>2, GetLineReads
<1> HIDE DEF t, k, z
<1>5. /\ given' = z
      /\ answer' = IF k = Len(t) THEN << "EOF" >>
                   ELSE SubSeq(t, k + 1, IF t[z] = "LF" THEN z - 1 ELSE z)
  <2>1. CASE k = Len(t)
    BY <1>1, <1>2, <1>3, <1>4, <2>1
  <2>2. CASE k # Len(t)
    <3> DEFINE r == SubSeq(t, k + 1, z)
    <3>1. k \in Nat /\ z \in Nat /\ k < z /\ z <= Len(t) /\ File'.result = r
      BY <1>3, <1>4, <2>2
    <3>2. r \in Seq(Bytes) /\ Len(r) = z - k /\ r[Len(r)] = t[z]
      <4>1. r \in Seq(Bytes) /\ Len(r) = z - k /\ z - k \in 1 .. Len(r)
        BY <1>3, <3>1
      <4>2. r[z - k] = t[(k + 1) + (z - k) - 1] /\ (k + 1) + (z - k) - 1 = z
        BY <1>3, <3>1
      <4> QED
        BY <4>1, <4>2
    <3>3. r # NULL
      BY <3>2, NotNull
    <3>4. given' = z
      BY <1>1, <1>2, <3>1, <3>2, <3>3
    <3>5. answer' = Stripped(r)
      BY <1>1, <3>1, <3>3
    <3>6. SubSeq(r, 1, Len(r) - 1) = SubSeq(t, k + 1, z - 1)
      BY <1>3, <3>1, <3>2
    <3> HIDE DEF r
    <3>7. Stripped(r) = IF t[z] = "LF" THEN SubSeq(t, k + 1, z - 1) ELSE r
      BY <3>2, <3>6 DEF Stripped
    <3> QED
      BY <2>2, <3>4, <3>5, <3>7 DEF r
  <2> QED
    BY <2>1, <2>2
<1>6. ReadInv'
  <2>1. File' \in FileRecords /\ given' \in Nat
    BY <1>4, <1>5, <1>3 DEF InPlace, Reading
  <2> QED
    BY <1>1, <1>2, <1>4, <1>5, <2>1
       DEF ReadInv, TypeInv, PlaceInv, CharsInv, LinesInv, IdleInv, z
<1>7. ASSUME ~ LoneReturn(bytes) PROVE Source!ReadLine
  <2>1. Text(bytes) = t /\ Text(bytes') = Text(bytes)
    BY <1>1, <1>2, <1>7, TextOf DEF t
  <2> QED
    BY <1>1, <1>2, <1>4, <1>5, <2>1 DEF Source!ReadLine
<1> QED
  BY <1>6, <1>7 DEF Moves, Source!Next

LEMMA LookReads ==
  ASSUME ReadInv, readSourceLine \/ readStreamLine \/ UNCHANGED vars
  PROVE  ReadInv' /\ UNCHANGED Seen
<1>1. UNCHANGED << bytes, File, mode, answer, given >>
  BY DEF readSourceLine, readStreamLine, vars
<1> QED
  BY <1>1 DEF ReadInv, TypeInv, PlaceInv, CharsInv, LinesInv, IdleInv, Seen

LEMMA NextReads == ASSUME ReadInv, [Next]_vars PROVE ReadInv' /\ [Moves]_Seen
BY OpenReads, CloseReads, GetcReadsNext, UngetcReads, ReadLineReads, LookReads DEF Next, Moves

\* Parsers are given the characters of every file in order and each once, by
\* characters with any of them given back, or by lines, of a file without a carriage
\* return of its own (ImplementsText).
THEOREM TextDelivered == Spec => ImplementsText
<1>1. Init => ReadInv /\ Source!Init
  <2> SUFFICES ASSUME Init PROVE Source!Init
    BY InitRead
  <2> QED
    BY EmptyText DEF Init, Source!Init
<1>2. ReadInv /\ [Next]_vars => ReadInv' /\ [Moves]_Seen
  BY NextReads
<1> QED
  BY <1>1, <1>2, PTL DEF Spec, ImplementsText, Seen, Moves

\* While a line is delivered, lineNumber counts it and filePosition is where it
\* starts, whatever ends the lines before it and however far a parser has read in it.
THEOREM LinesPlaced == Spec => []PositionOfLine
<1>1. ReadInv => PositionOfLine
  BY DEF ReadInv, PlaceInv, InPlace, Placed, PositionOfLine, Begun
<1> QED
  BY <1>1, InitRead, NextReads, PTL DEF Spec

\* sourceLine numbers the lines from the last #line directive before them, or from
\* the top of the file.
THEOREM LinesNumbered == Spec => []SourceLineCounts
<1>1. ReadInv => SourceLineCounts
  BY DEF ReadInv, PlaceInv, InPlace, Numbered, SourceLineCounts, Directives, LinesAfter, Latest
<1> QED
  BY <1>1, InitRead, NextReads, PTL DEF Spec

-------------------------------------------------------------------------------
(* The line in hand, read again *)

\* The sizes of the buffer grow beyond any line.
LEMMA SizesGrow ==
  ASSUME NEW first \in Nat \ {0, 1}
  PROVE  \A k \in Nat : Sizes(first)[k] \in Nat /\ Sizes(first)[k] >= k + 2
<1> DEFINE next == [n \in Nat |-> 2 * n]
           Follows(size) == size = [k \in Nat |-> IF k = 0 THEN first ELSE 2 * size[k - 1]]
<1>1. PICK run : Orbit(Nat, first, next, run)
  <2>1. next \in [Nat -> Nat]
    OBVIOUS
  <2> HIDE DEF next
  <2> QED
    BY <2>1, Iterates
<1>2. Follows(run)
  <2>1. ASSUME NEW k \in Nat PROVE run[k] = IF k = 0 THEN first ELSE 2 * run[k - 1]
    <3>1. CASE k # 0
      <4>1. k - 1 \in Nat /\ (k - 1) + 1 = k
        BY <3>1
      <4> QED
        BY <1>1, <3>1, <4>1 DEF Orbit
    <3> QED
      BY <1>1, <3>1 DEF Orbit
  <2>2. run \in [Nat -> Nat]
    BY <1>1 DEF Orbit
  <2> QED
    BY <2>1, <2>2
<1>3. Sizes(first) = CHOOSE size : Follows(size)
  BY DEF Sizes
<1>4. Follows(Sizes(first))
  BY <1>2, <1>3
<1> DEFINE S == Sizes(first)
           Good == {k \in Nat : S[k] \in Nat /\ S[k] >= k + 2}
<1> HIDE DEF S
<1>5. S = [k \in Nat |-> IF k = 0 THEN first ELSE 2 * S[k - 1]]
  BY <1>4 DEF S
<1>6. 0 \in Good
  BY <1>5
<1>7. ASSUME NEW k \in Nat, k \in Good PROVE k + 1 \in Good
  <2>1. k + 1 \in Nat /\ k + 1 # 0 /\ (k + 1) - 1 = k
    OBVIOUS
  <2>2. S[k + 1] = 2 * S[k]
    BY <1>5, <2>1
  <2> QED
    BY <1>7, <2>2
<1>8. Nat \subseteq Good
  BY <1>6, <1>7, SetInduction
<1> QED
  BY <1>8 DEF S

\* fgets reads to the end of the line, of the file or of the buffer.
LEMMA FgetsReads ==
  ASSUME NEW b \in Seq(Bytes), NEW p \in Nat \ {0}, NEW size \in Nat \ {0, 1}
  PROVE  LET s == fgets(b, p, size) IN
         /\ s \in Seq(Bytes) /\ s = SubSeq(b, p, p + Len(s) - 1)
         /\ Len(s) <= size - 1 /\ (Len(s) > 0 => p + Len(s) <= Len(b) + 1)
         /\ \/ Len(s) = size - 1
            \/ p + Len(s) > Len(b)
            \/ Len(s) > 0 /\ b[p + Len(s) - 1] = "LF"
         /\ \A i \in p .. p + Len(s) - 2 : b[i] # "LF"
<1> DEFINE Ends(n) == n = size - 1 \/ p + n > Len(b) \/ (n > 0 /\ b[p + n - 1] = "LF")
           At(n) == Ends(n) /\ \A k \in 0 .. n - 1 : ~ Ends(k)
           n == CHOOSE n \in 0 .. size - 1 : At(n)
<1>1. fgets(b, p, size) = SubSeq(b, p, p + n - 1)
  BY DEF fgets
<1>2. Len(b) \in Nat /\ p \in Nat /\ p >= 1 /\ size \in Nat /\ size - 1 \in Nat
  OBVIOUS
<1>3. n \in 0 .. size - 1 /\ At(n)
  <2> DEFINE Ending == {m \in Nat : m \in 0 .. size - 1 /\ Ends(m)}
  <2>1. size - 1 \in Ending
    BY <1>2
  <2>2. PICK m \in Ending : \A k \in Ending : m <= k
    BY <2>1, LeastNumber
  <2>3. m \in Nat /\ m <= size - 1 /\ Ends(m)
    BY <1>2, <2>2
  <2>4. ASSUME NEW k \in 0 .. m - 1 PROVE ~ Ends(k)
    <3>1. k \in Nat /\ k \in 0 .. size - 1 /\ k < m
      BY <1>2, <2>3
    <3>2. Ends(k) => k \in Ending
      BY <3>1
    <3>3. Ends(k) => m <= k
      BY <2>2, <3>2
    <3> HIDE DEF Ends
    <3> QED
      BY <2>3, <3>1, <3>3
  <2>5. At(m)
    BY <2>3, <2>4
  <2>6. m \in 0 .. size - 1
    BY <1>2, <2>3
  <2> HIDE DEF At
  <2> QED
    BY <2>5, <2>6
<1> HIDE DEF n
<1>4. n \in Nat /\ n <= size - 1
  BY <1>2, <1>3
<1>5. p <= Len(b) + 1 => p + n <= Len(b) + 1
  <2> SUFFICES ASSUME p <= Len(b) + 1, p + n > Len(b) + 1 PROVE FALSE
    BY <1>2, <1>4
  <2>1. n - 1 \in 0 .. n - 1 /\ Ends(n - 1)
    BY <1>2, <1>4
  <2> QED
    BY <1>3, <2>1
<1>6. \A i \in p .. p + n - 2 : b[i] # "LF"
  <2> SUFFICES ASSUME NEW i \in p .. p + n - 2, b[i] = "LF" PROVE FALSE
    OBVIOUS
  <2> DEFINE k == (i - p) + 1
  <2>1. k \in 0 .. n - 1 /\ k > 0 /\ p + k - 1 = i
    BY <1>2, <1>4
  <2> HIDE DEF k
  <2> QED
    BY <1>3, <2>1
<1>7. ASSUME n > 0 PROVE p + n <= Len(b) + 1
  <2>1. 0 \in 0 .. n - 1
    BY <1>2, <1>4, <1>7
  <2>2. ~ (p + 0 > Len(b))
    BY <1>3, <2>1
  <2> QED
    BY <1>2, <1>4, <1>5, <2>2
<1> DEFINE s == fgets(b, p, size)
<1>8. s \in Seq(Bytes) /\ Len(s) = n
  <2>1. CASE n = 0
    <3>1. s = << >>
      BY <1>1, <1>2, <2>1
    <3> HIDE DEF s
    <3> QED
      BY <2>1, <3>1
  <2>2. CASE n > 0
    <3>1. p \in 1 .. Len(b) /\ p + n - 1 \in 1 .. Len(b) /\ p <= p + n - 1
      BY <1>2, <1>4, <1>7, <2>2
    <3>2. \A i \in p .. p + n - 1 : b[i] \in Bytes
      BY <1>2, <3>1
    <3> DEFINE last == p + n - 1
    <3>3. last \in Nat /\ last - p + 1 = n /\ p <= last /\ last <= Len(b)
      BY <1>2, <1>4, <3>1
    <3>4. s = SubSeq(b, p, last)
      BY <1>1
    <3> HIDE DEF last, s
    <3>5. s \in Seq(Bytes) /\ Len(s) = last - p + 1
      BY <1>2, <3>3, <3>4, SubSeqProperties
    <3> QED
      BY <3>3, <3>5
  <2> QED
    BY <1>4, <2>1, <2>2
<1>9. s = SubSeq(b, p, p + Len(s) - 1)
  BY <1>1, <1>8
<1> HIDE DEF s
<1>10. Ends(n)
  BY <1>3
<1> QED
  BY <1>4, <1>6, <1>7, <1>8, <1>9, <1>10 DEF s

\* A piece of the file from p on that readLine takes for a line.
Whole(b, p, n) ==
  /\ n > 0 => p + n <= Len(b) + 1
  /\ p + n > Len(b) \/ (n > 0 /\ b[p + n - 1] \in {"LF", "CR", "NUL"})
  /\ \A i \in p .. p + n - 2 : b[i] # "LF"

\* The string that readLine leaves.
Piece(b, p, n, v) ==
  /\ \E before \in BytesBefore : v.text = Canonize(UpToNul(SubSeq(b, p, p + n - 1)), before)
  /\ v.next = p + n

Strings == [text : Seq(Bytes), next : Nat \ {0}, size : Nat \ {0, 1}]

\* The first NUL of s, if it has one, is after n bytes.
NulAfter(s, n) ==
  /\ n \in 0 .. Len(s) /\ (n = Len(s) \/ s[n + 1] = "NUL")
  /\ \A i \in 1 .. n : s[i] # "NUL"

LEMMA UpToNulIs ==
  ASSUME NEW s \in Seq(Bytes)
  PROVE  /\ \E n \in Nat : NulAfter(s, n)
         /\ \A n \in Nat : NulAfter(s, n) => UpToNul(s) = SubSeq(s, 1, n)
<1> DEFINE Ends(n) == n = Len(s) \/ s[n + 1] = "NUL"
           At(n) == Ends(n) /\ \A k \in 0 .. n - 1 : ~ Ends(k)
           at == CHOOSE n \in 0 .. Len(s) : At(n)
           Ending == {m \in Nat : m <= Len(s) /\ Ends(m)}
<1>1. Len(s) \in Nat
  OBVIOUS
<1>2. ASSUME NEW n \in Nat PROVE NulAfter(s, n) <=> n \in 0 .. Len(s) /\ At(n)
  <2>1. n <= Len(s) => ((\A k \in 0 .. n - 1 : ~ Ends(k)) <=> \A i \in 1 .. n : s[i] # "NUL")
    <3>1. ASSUME n <= Len(s), \A k \in 0 .. n - 1 : ~ Ends(k), NEW i \in 1 .. n PROVE s[i] # "NUL"
      <4>1. i - 1 \in 0 .. n - 1 /\ (i - 1) + 1 = i
        OBVIOUS
      <4> QED
        BY <3>1, <4>1
    <3>2. ASSUME n <= Len(s), \A i \in 1 .. n : s[i] # "NUL", NEW k \in 0 .. n - 1 PROVE ~ Ends(k)
      <4>1. k + 1 \in 1 .. n /\ k # Len(s)
        BY <1>1, <3>2
      <4> QED
        BY <3>2, <4>1
    <3> QED
      BY <3>1, <3>2
  <2> QED
    BY <1>1, <2>1 DEF NulAfter
<1>3. \E n \in Nat : NulAfter(s, n)
  <2>1. Len(s) \in Ending
    BY <1>1
  <2>2. PICK m \in Ending : \A k \in Ending : m <= k
    BY <2>1, LeastNumber
  <2>3. ASSUME NEW k \in 0 .. m - 1 PROVE ~ Ends(k)
    <3>1. k \in Nat /\ k < m /\ k <= Len(s) /\ m \in Nat
      BY <1>1, <2>2
    <3>2. k \notin Ending
      BY <2>2, <3>1
    <3> QED
      BY <3>1, <3>2
  <2>4. m \in Nat /\ m \in 0 .. Len(s) /\ At(m)
    BY <1>1, <2>2, <2>3
  <2> HIDE DEF At
  <2> QED
    BY <1>2, <2>4
<1>4. ASSUME NEW n \in Nat, NulAfter(s, n) PROVE UpToNul(s) = SubSeq(s, 1, n)
  <2>1. n \in 0 .. Len(s) /\ At(n)
    BY <1>2, <1>4
  <2>2. ASSUME NEW m \in 0 .. Len(s), At(m) PROVE m = n
    <3>1. m \in Nat /\ Ends(m) /\ Ends(n) /\ ~ (n \in 0 .. m - 1) /\ ~ (m \in 0 .. n - 1)
      BY <1>1, <2>1, <2>2
    <3> QED
      BY <3>1
  <2>3. UpToNul(s) = SubSeq(s, 1, at)
    BY DEF UpToNul
  <2> HIDE DEF At
  <2>4. at = n
    BY <2>1, <2>2
  <2> QED
    BY <2>3, <2>4
<1> QED
  BY <1>3, <1>4

LEMMA UpToNulType ==
  ASSUME NEW s \in Seq(Bytes)
  PROVE  UpToNul(s) \in Seq(Bytes)
<1>1. PICK n \in Nat : NulAfter(s, n) /\ UpToNul(s) = SubSeq(s, 1, n)
  BY UpToNulIs
<1>2. n <= Len(s) /\ Len(s) \in Nat
  BY <1>1 DEF NulAfter
<1>3. \A i \in 1 .. n : s[i] \in Bytes
  BY <1>2
<1> QED
  BY <1>1, <1>3, SubSeqProperties

\* Without a NUL all of it is kept.
LEMMA WithoutNul ==
  ASSUME NEW s \in Seq(Bytes), \A i \in 1 .. Len(s) : s[i] # "NUL"
  PROVE  UpToNul(s) = s
<1>1. NulAfter(s, Len(s)) /\ Len(s) \in Nat
  BY DEF NulAfter
<1>2. UpToNul(s) = SubSeq(s, 1, Len(s))
  BY <1>1, UpToNulIs
<1> QED
  BY <1>2

\* What follows the first NUL does not matter.
LEMMA WithNul ==
  ASSUME NEW s \in Seq(Bytes), NEW t \in Seq(Bytes), Len(s) <= Len(t),
         \A i \in 1 .. Len(s) : s[i] = t[i], \E i \in 1 .. Len(s) : s[i] = "NUL"
  PROVE  UpToNul(s) = UpToNul(t)
<1>1. PICK n \in Nat : NulAfter(s, n) /\ UpToNul(s) = SubSeq(s, 1, n)
  BY UpToNulIs
<1>2. n < Len(s) /\ s[n + 1] = "NUL" /\ Len(s) \in Nat /\ Len(t) \in Nat
  <2>1. n # Len(s)
    BY <1>1 DEF NulAfter
  <2> QED
    BY <1>1, <2>1 DEF NulAfter
<1>3. NulAfter(t, n)
  <2>1. t[n + 1] = "NUL" /\ n \in 0 .. Len(t)
    BY <1>2
  <2>2. \A i \in 1 .. n : t[i] # "NUL"
    BY <1>1, <1>2 DEF NulAfter
  <2> QED
    BY <2>1, <2>2 DEF NulAfter
<1>4. UpToNul(t) = SubSeq(t, 1, n)
  BY <1>3, UpToNulIs
<1>5. SubSeq(s, 1, n) = SubSeq(t, 1, n)
  <2>1. \A i \in 1 .. n : s[i] = t[i] /\ s[i] \in Bytes
    BY <1>2
  <2> DEFINE u == SubSeq(s, 1, n)
             v == SubSeq(t, 1, n)
  <2>2. u \in Seq(Bytes) /\ Len(u) = n /\ \A i \in 1 .. n : u[i] = s[i]
    BY <2>1, SubSeqProperties
  <2>3. v \in Seq(Bytes) /\ Len(v) = n /\ \A i \in 1 .. n : v[i] = t[i]
    BY <2>1, SubSeqProperties
  <2> HIDE DEF u, v
  <2>4. u = v
    BY <2>1, <2>2, <2>3, SeqEqual, SMTT(30)
  <2> QED
    BY <2>4 DEF u, v
<1> QED
  BY <1>1, <1>4, <1>5

LEMMA CanonizeType ==
  ASSUME NEW s \in Seq(Bytes), NEW before
  PROVE  Canonize(s, before) \in Seq(Bytes)
<1>1. ASSUME s # << >>, NEW n \in Nat, n < Len(s) PROVE SubSeq(s, 1, n) \o << "LF" >> \in Seq(Bytes)
  <2>1. \A i \in 1 .. n : s[i] \in Bytes
    BY <1>1
  <2>2. SubSeq(s, 1, n) \in Seq(Bytes)
    BY <2>1, SubSeqProperties
  <2>3. << "LF" >> \in Seq(Bytes)
    BY DEF Bytes
  <2> HIDE DEF Bytes
  <2> QED
    BY <2>2, <2>3
<1>2. CASE s = << >>
  BY <1>2 DEF Canonize, Last
<1>3. CASE s # << >>
  <2>1. Len(s) \in Nat /\ Len(s) > 0
    BY <1>3, EmptyIsShort
  <2>2. Len(s) - 1 \in Nat /\ Len(s) - 1 < Len(s)
    BY <2>1
  <2>3. Len(s) > 1 => Len(s) - 2 \in Nat /\ Len(s) - 2 < Len(s)
    BY <2>1
  <2>4. << >> \in Seq(Bytes)
    OBVIOUS
  <2> QED
    BY <1>1, <1>3, <2>2, <2>3, <2>4 DEF Canonize
<1> QED
  BY <1>2, <1>3

\* With some size the line fits, and what fits is whole.
LEMMA ReadsWhole ==
  ASSUME NEW b \in Seq(Bytes), NEW p \in Nat \ {0}, NEW first \in Nat \ {0, 1},
         NEW before \in BytesBefore
  PROVE  LET v == readLine(b, p, first, before) IN
         v \in Strings /\ \E n \in Nat : Whole(b, p, n) /\ Piece(b, p, n, v)
<1> DEFINE size(k) == Sizes(first)[k]
           got(k) == fgets(b, p, size(k))
           Enough(k) == Fits(got(k), size(k))
           First(k) == Enough(k) /\ \A j \in 0 .. k - 1 : ~ Enough(j)
           tries == CHOOSE k \in 0 .. Len(b) : First(k)
           s == got(tries)
           n == Len(s)
           v == readLine(b, p, first, before)
           text == Canonize(UpToNul(s), before)
<1>1. Len(b) \in Nat /\ p \in Nat /\ p >= 1
  OBVIOUS
<1>2. \A k \in Nat : size(k) \in Nat \ {0, 1} /\ size(k) >= k + 2
  <2> TAKE k \in Nat
  <2>1. Sizes(first)[k] \in Nat /\ Sizes(first)[k] >= k + 2
    BY SizesGrow
  <2> QED
    BY <2>1
<1>3. tries \in Nat /\ Enough(tries)
  <2> DEFINE Enoughs == {k \in Nat : k \in 0 .. Len(b) /\ Enough(k)}
  <2>1. Len(b) \in Enoughs
    <3> DEFINE z == size(Len(b))
               g == fgets(b, p, z)
    <3>1. z \in Nat \ {0, 1} /\ z >= Len(b) + 2
      BY <1>1, <1>2
    <3> HIDE DEF z
    <3>2. g \in Seq(Bytes) /\ (Len(g) > 0 => p + Len(g) <= Len(b) + 1)
          /\ g = SubSeq(b, p, p + Len(g) - 1)
          /\ (Len(g) = z - 1 \/ p + Len(g) > Len(b) \/ (Len(g) > 0 /\ b[p + Len(g) - 1] = "LF"))
      BY <3>1, FgetsReads
    <3>3. Len(g) < z - 1
      BY <1>1, <3>1, <3>2
    <3>4. Fits(g, z)
      BY <3>3 DEF Fits
    <3> QED
      BY <1>1, <3>4 DEF z
  <2>2. PICK m \in Enoughs : \A k \in Enoughs : m <= k
    BY <2>1, LeastNumber
  <2>3. m \in Nat /\ m <= Len(b) /\ Enough(m)
    BY <1>1, <2>2
  <2>4. ASSUME NEW k \in 0 .. m - 1 PROVE ~ Enough(k)
    <3>1. k \in Nat /\ k \in 0 .. Len(b) /\ k < m
      BY <1>1, <2>3
    <3>2. Enough(k) => k \in Enoughs
      BY <3>1
    <3>3. Enough(k) => m <= k
      BY <2>2, <3>2
    <3> HIDE DEF Enough
    <3> QED
      BY <2>3, <3>1, <3>3
  <2>5. First(m)
    BY <2>3, <2>4
  <2>6. m \in 0 .. Len(b)
    BY <1>1, <2>3
  <2> HIDE DEF First
  <2>7. tries \in 0 .. Len(b) /\ First(tries)
    BY <2>5, <2>6
  <2> HIDE DEF tries, Enough
  <2> QED
    BY <1>1, <2>7 DEF First
<1>4. v = [text |-> text, next |-> p + Len(s), size |-> size(tries)]
  BY DEF readLine
<1> HIDE DEF tries
<1> DEFINE z == size(tries)
<1>5. z \in Nat \ {0, 1}
  BY <1>2, <1>3
<1>6. s = fgets(b, p, z) /\ Fits(s, z)
  BY <1>3
<1> HIDE DEF z, s, v
<1>7. /\ s \in Seq(Bytes) /\ s = SubSeq(b, p, p + n - 1) /\ n \in Nat
      /\ n <= z - 1 /\ (n > 0 => p + n <= Len(b) + 1)
      /\ n = z - 1 \/ p + n > Len(b) \/ (n > 0 /\ b[p + n - 1] = "LF")
      /\ \A i \in p .. p + n - 2 : b[i] # "LF"
  <2>1. /\ s \in Seq(Bytes) /\ s = SubSeq(b, p, p + Len(s) - 1)
        /\ Len(s) <= z - 1 /\ (Len(s) > 0 => p + Len(s) <= Len(b) + 1)
        /\ Len(s) = z - 1 \/ p + Len(s) > Len(b) \/ (Len(s) > 0 /\ b[p + Len(s) - 1] = "LF")
        /\ \A i \in p .. p + Len(s) - 2 : b[i] # "LF"
    BY <1>5, <1>6, FgetsReads
  <2>2. n \in Nat /\ n = Len(s)
    BY <2>1
  <2> HIDE DEF n
  <2> QED
    BY <2>1, <2>2
<1>8. b[p + n - 1] = s[n] \/ n = 0
  <2> DEFINE m == p + n - 1
  <2>1. m \in Int /\ (n > 0 => n \in 1 .. m - p + 1 /\ p + n - 1 = m)
    BY <1>1, <1>7
  <2>2. s = SubSeq(b, p, m)
    BY <1>7
  <2>3. \A i \in p .. m : b[i] \in Bytes \/ n = 0
    BY <1>1, <1>7
  <2> HIDE DEF m
  <2>4. n > 0 => s[n] = b[p + n - 1]
    BY <1>1, <2>1, <2>2, <2>3, SubSeqProperties
  <2> QED
    BY <1>7, <2>4
<1>9. Whole(b, p, n)
  <2>1. CASE n < z - 1
    BY <1>7, <2>1 DEF Whole
  <2>2. CASE n = z - 1
    <3>1. n > 0 /\ Last(s) = s[n] /\ Last(s) \in {"LF", "CR", "NUL"}
      BY <1>5, <1>6, <1>7, <2>2 DEF Fits, Last, n
    <3> QED
      BY <1>7, <1>8, <3>1 DEF Whole
  <2> QED
    BY <1>5, <1>7, <2>1, <2>2
<1>10. text \in Seq(Bytes)
  BY <1>7, UpToNulType, CanonizeType
<1>11. v = [text |-> text, next |-> p + n, size |-> z]
  BY <1>4 DEF n, z, s
<1>12. text = Canonize(UpToNul(SubSeq(b, p, p + n - 1)), before)
  BY <1>7
<1> HIDE DEF text
<1>13. v.text = text /\ v.next = p + n /\ v.size = z
  BY <1>11
<1>14. p + n \in Nat \ {0}
  BY <1>1, <1>7
<1>15. v \in Strings
  BY <1>5, <1>10, <1>11, <1>14 DEF Strings
<1>16. Piece(b, p, n, v)
  BY <1>12, <1>13 DEF Piece
<1> QED
  BY <1>7, <1>9, <1>15, <1>16 DEF v

\* The string in hand was read from the start of a line, if anything was.
InHand(b, v) ==
  v.next = 1 \/ \E p \in Starts(b), n \in Nat \ {0} : Whole(b, p, n) /\ Piece(b, p, n, v)

StringInv ==
  /\ vLine \in Strings /\ stream \in Nat \ {0}
  /\ mode \in {"chars", "lines"} => InHand(bytes, vLine)

LEMMA ClearedString ==
  ASSUME NEW v \in Strings
  PROVE  [v EXCEPT !.text = << >>, !.next = 1] \in Strings
         /\ [v EXCEPT !.text = << >>, !.next = 1].next = 1
<1>1. << >> \in Seq(Bytes) /\ 1 \in Nat \ {0}
  OBVIOUS
<1> QED
  BY <1>1 DEF Strings

LEMMA InitString == Init => StringInv
<1> SUFFICES ASSUME Init PROVE StringInv
  OBVIOUS
<1>1. << >> \in Seq(Bytes) /\ 1 \in Nat \ {0} /\ InitialSize \in Nat \ {0, 1}
  BY ReadAssumption
<1>2. vLine = [text |-> << >>, next |-> 1, size |-> InitialSize]
  BY DEF Init
<1>3. vLine \in Strings
  BY <1>1, <1>2 DEF Strings
<1> QED
  BY <1>3 DEF Init, StringInv

LEMMA NextString == ASSUME ReadInv, StringInv, [Next]_vars PROVE StringInv'
<1>1. bytes \in Seq(Bytes) /\ vLine \in Strings /\ stream \in Nat \ {0}
  BY DEF ReadInv, TypeInv, StringInv
<1>2. vLine.size \in Nat \ {0, 1}
  BY <1>1 DEF Strings
<1>3. ASSUME NEW file \in Files, NEW m \in {"chars", "lines", "stream"}, Open(file, m)
      PROVE  StringInv'
  <2>1. stream' = 1 /\ vLine' = [vLine EXCEPT !.text = << >>, !.next = 1]
    BY <1>3 DEF Open
  <2>2. vLine' \in Strings /\ vLine'.next = 1
    BY <1>1, <2>1, ClearedString
  <2> QED
    BY <2>1, <2>2 DEF StringInv, InHand
<1>4. ASSUME fileClose PROVE StringInv'
  <2>1. stream' = 1 /\ vLine' = [vLine EXCEPT !.text = << >>, !.next = 1]
    BY <1>4 DEF fileClose
  <2>2. vLine' \in Strings /\ vLine'.next = 1
    BY <1>1, <2>1, ClearedString
  <2> QED
    BY <2>1, <2>2 DEF StringInv, InHand
<1>5. ASSUME readSourceLine PROVE StringInv'
  <2> DEFINE p == File.filePosition
  <2>1. PICK before \in BytesBefore : vLine' = readLine(bytes, p, vLine.size, before)
    BY <1>5 DEF readSourceLine
  <2>2. /\ bytes' = bytes /\ stream' = stream /\ p \in Starts(bytes)
        /\ File.lineNumber = 0 => p = 1
        /\ File.lineNumber > 0 => p < File.fp
        /\ File.lineNumber \in Nat /\ File.fp \in Nat /\ File.fp <= Len(bytes) + 1
    BY <1>5 DEF readSourceLine, ReadInv, TypeInv, PlaceInv, InPlace, Placed, Reading, FileRecords
  <2>3. p \in Nat \ {0} /\ Len(bytes) \in Nat
    BY <1>1, <2>2 DEF Starts
  <2> HIDE DEF p
  <2>4. PICK n \in Nat : Whole(bytes, p, n) /\ Piece(bytes, p, n, vLine')
    BY <1>1, <1>2, <2>1, <2>3, ReadsWhole
  <2>5. vLine' \in Strings
    BY <1>1, <1>2, <2>1, <2>3, ReadsWhole
  <2>6. n = 0 => vLine'.next = 1
    <3> SUFFICES ASSUME n = 0 PROVE vLine'.next = p /\ p = 1
      BY <2>3, <2>4 DEF Piece
    <3>1. p > Len(bytes)
      BY <2>3, <2>4 DEF Whole
    <3> QED
      BY <2>2, <2>3, <2>4, <3>1 DEF Piece
  <2>7. InHand(bytes, vLine')
    BY <2>2, <2>4, <2>6 DEF InHand
  <2> QED
    BY <1>1, <2>2, <2>5, <2>7 DEF StringInv
<1>6. ASSUME readStreamLine PROVE StringInv'
  <2>1. PICK before \in BytesBefore : vLine' = readLine(bytes, stream, vLine.size, before)
    BY <1>6 DEF readStreamLine
  <2>2. mode' = "stream" /\ stream' = vLine'.next
    BY <1>6 DEF readStreamLine
  <2>3. vLine' \in Strings
    BY <1>1, <1>2, <2>1, ReadsWhole
  <2>4. stream' \in Nat \ {0}
    BY <2>2, <2>3 DEF Strings
  <2> QED
    BY <2>2, <2>3, <2>4 DEF StringInv
<1>7. ASSUME fileGetc \/ fileUngetc \/ fileReadLine \/ UNCHANGED vars PROVE StringInv'
  <2>1. UNCHANGED << bytes, mode, vLine, stream >>
    BY <1>7 DEF fileGetc, fileUngetc, fileReadLine, vars
  <2> QED
    BY <2>1 DEF StringInv
<1> QED
  BY <1>3, <1>4, <1>5, <1>6, <1>7 DEF Next

\* The line at s ends at e.
EndsAt(b, s, e) ==
  /\ e \in s - 1 .. Len(b) /\ (e = Len(b) \/ (e >= s /\ b[e] = "LF"))
  /\ \A i \in s .. e - 1 : b[i] # "LF"

LEMMA LineFromEnds ==
  ASSUME NEW b \in Seq(Bytes), NEW s \in Nat, 1 <= s, s <= Len(b) + 1
  PROVE  \E e \in Nat : EndsAt(b, s, e) /\ LineFrom(b, s) = SubSeq(b, s, e)
<1> DEFINE at == CHOOSE e \in s - 1 .. Len(b) :
             /\ e = Len(b) \/ (e >= s /\ b[e] = "LF")
             /\ \A i \in s .. e - 1 : b[i] # "LF"
           Feeds == {e \in Nat : s <= e /\ (e = Len(b) \/ (e < Len(b) /\ b[e] = "LF"))}
<1>1. Len(b) \in Nat
  OBVIOUS
<1>2. \E e \in Nat : EndsAt(b, s, e)
  <2>1. CASE s = Len(b) + 1
    <3>1. EndsAt(b, s, Len(b))
      BY <1>1, <2>1 DEF EndsAt
    <3> QED
      BY <1>1, <3>1
  <2>2. CASE s <= Len(b)
    <3>1. Len(b) \in Feeds
      BY <1>1, <2>2
    <3>2. PICK e \in Feeds : \A k \in Feeds : e <= k
      BY <3>1, LeastNumber
    <3>3. ASSUME NEW i \in s .. e - 1, b[i] = "LF" PROVE FALSE
      <4>1. i \in Feeds
        BY <1>1, <3>2, <3>3
      <4>2. e <= i
        BY <3>2, <4>1
      <4> QED
        BY <3>2, <4>2
    <3>4. EndsAt(b, s, e)
      BY <1>1, <2>2, <3>2, <3>3 DEF EndsAt
    <3> QED
      BY <3>2, <3>4
  <2> QED
    BY <1>1, <2>1, <2>2
<1>3. at \in Nat /\ EndsAt(b, s, at)
  <2>1. PICK e \in s - 1 .. Len(b) : EndsAt(b, s, e)
    BY <1>1, <1>2 DEF EndsAt
  <2>2. at = CHOOSE f \in s - 1 .. Len(b) :
               (f = Len(b) \/ (f >= s /\ b[f] = "LF")) /\ (\A i \in s .. f - 1 : b[i] # "LF")
    OBVIOUS
  <2> HIDE DEF at
  <2>3. at \in s - 1 .. Len(b) /\ (at = Len(b) \/ (at >= s /\ b[at] = "LF"))
        /\ (\A i \in s .. at - 1 : b[i] # "LF")
    BY <2>1, <2>2 DEF EndsAt
  <2> QED
    BY <1>1, <2>3 DEF EndsAt
<1>4. LineFrom(b, s) = SubSeq(b, s, at)
  BY DEF LineFrom
<1> HIDE DEF at
<1> QED
  BY <1>3, <1>4

\* A piece of b from p on, character by character.
LEMMA PieceOf ==
  ASSUME NEW b \in Seq(Bytes), NEW p \in Nat \ {0}, NEW n \in Nat, n > 0 => p + n <= Len(b) + 1
  PROVE  LET s == SubSeq(b, p, p + n - 1) IN
         s \in Seq(Bytes) /\ Len(s) = n /\ \A i \in 1 .. n : s[i] = b[p + i - 1]
<1> DEFINE m == p + n - 1
<1>1. m \in Int /\ p \in Int /\ m - p + 1 = n /\ (p <= m <=> n > 0) /\ (n > 0 => m <= Len(b))
  OBVIOUS
<1> HIDE DEF m
<1>2. \A i \in p .. m : b[i] \in Bytes
  BY <1>1
<1> DEFINE s == SubSeq(b, p, m)
<1>3. /\ s \in Seq(Bytes) /\ Len(s) = IF p <= m THEN m - p + 1 ELSE 0
      /\ \A i \in 1 .. m - p + 1 : s[i] = b[p + i - 1]
  BY <1>1, <1>2, SubSeqProperties
<1> HIDE DEF s
<1>4. s \in Seq(Bytes) /\ Len(s) = n /\ \A i \in 1 .. n : s[i] = b[p + i - 1]
  BY <1>1, <1>3
<1> QED
  BY <1>4 DEF s, m

\* The line that holds the end of a piece that starts a line starts where it does.
LEMMA SameStart ==
  ASSUME NEW b \in Seq(Bytes), NEW p \in Starts(b), NEW n \in Nat, n > 0, Whole(b, p, n),
         NEW s \in Starts(b), NEW e \in Nat, EndsAt(b, s, e), s < p + n, p + n <= e + 1
  PROVE  s = p
<1>1. Len(b) \in Nat /\ s \in Nat /\ p \in Nat /\ s >= 1 /\ p >= 1
  BY DEF Starts
<1>2. CASE s < p
  <2>1. b[p - 1] = "LF" /\ p - 1 \in s .. e - 1
    BY <1>1, <1>2 DEF Starts
  <2> QED
    BY <2>1 DEF EndsAt
<1>3. CASE s > p
  <2>1. b[s - 1] = "LF" /\ s - 1 \in p .. p + n - 2
    BY <1>1, <1>3 DEF Starts
  <2> QED
    BY <2>1 DEF Whole
<1> QED
  BY <1>1, <1>2, <1>3

\* A carriage return and the line feed after it count as one newline, so that it is
\* the same whether the piece holds both or ends between them.
LEMMA SameNewline ==
  ASSUME NEW b \in Seq(Bytes), NEW p \in Nat \ {0}, NEW n \in Nat, n > 0, p + n <= Len(b),
         b[p + n - 1] = "CR", b[p + n] = "LF"
  PROVE  \A before, other :
           Canonize(SubSeq(b, p, p + n - 1), before) = Canonize(SubSeq(b, p, p + n), other)
<1> TAKE before, other
<1> DEFINE s == SubSeq(b, p, p + n - 1)
           t == SubSeq(b, p, p + n)
<1>1. s \in Seq(Bytes) /\ Len(s) = n /\ \A i \in 1 .. n : s[i] = b[p + i - 1]
  BY PieceOf
<1>2. t \in Seq(Bytes) /\ Len(t) = n + 1 /\ \A i \in 1 .. n + 1 : t[i] = b[p + i - 1]
  <2>1. n + 1 \in Nat /\ p + (n + 1) - 1 = p + n /\ p + (n + 1) <= Len(b) + 1
    OBVIOUS
  <2> QED
    BY <2>1, PieceOf
<1> HIDE DEF s, t
<1>3. s[n] = "CR" /\ t[n] = "CR" /\ t[n + 1] = "LF"
  BY <1>1, <1>2
<1>4. s # << >> /\ t # << >>
  BY <1>1, <1>2, EmptyIsShort
<1>5. Canonize(s, before) = SubSeq(s, 1, n - 1) \o << "LF" >>
  BY <1>1, <1>3, <1>4 DEF Canonize, Last
<1>6. Canonize(t, other) = SubSeq(t, 1, n - 1) \o << "LF" >>
  <2>1. Last(t) = "LF" /\ Len(t) > 1 /\ Len(t) - 1 = n /\ Len(t) - 2 = n - 1
    BY <1>2, <1>3, <1>4 DEF Last
  <2> QED
    BY <1>3, <2>1 DEF Canonize
<1>7. SubSeq(s, 1, n - 1) = SubSeq(t, 1, n - 1)
  <2> DEFINE k == n - 1
             u == SubSeq(s, 1, k)
             v == SubSeq(t, 1, k)
  <2>1. k \in Nat /\ k < n
    OBVIOUS
  <2> HIDE DEF k
  <2>2. \A i \in 1 .. k : s[i] = t[i] /\ s[i] \in Bytes
    BY <1>1, <1>2, <2>1, SMTT(30)
  <2>3. /\ u \in Seq(Bytes) /\ Len(u) = k
        /\ \A i \in 1 .. k : u[i] = s[i]
    BY <2>1, <2>2, SubSeqProperties
  <2>4. /\ v \in Seq(Bytes) /\ Len(v) = k
        /\ \A i \in 1 .. k : v[i] = t[i]
    BY <2>1, <2>2, SubSeqProperties
  <2> HIDE DEF u, v
  <2>5. u = v
    BY <2>2, <2>3, <2>4, SeqEqual, SMTT(30)
  <2> QED
    BY <2>5 DEF u, v, k
<1> QED
  BY <1>5, <1>6, <1>7 DEF s, t

\* A line that is more than a newline does not become one.
LEMMA NotBare ==
  ASSUME NEW t \in Seq(Bytes), \A i \in 1 .. Len(t) - 1 : t[i] # "LF", t # << "LF" >>,
         NEW before, NEW other
  PROVE  Canonize(UpToNul(t), before) = Canonize(UpToNul(t), other)
<1> DEFINE u == UpToNul(t)
<1>1. u # << "LF" >>
  <2> SUFFICES ASSUME u = << "LF" >> PROVE FALSE
    OBVIOUS
  <2>1. PICK n \in Nat : NulAfter(t, n) /\ u = SubSeq(t, 1, n)
    BY UpToNulIs
  <2>2. n <= Len(t) /\ Len(t) \in Nat
    BY <2>1 DEF NulAfter
  <2>3. \A i \in 1 .. n : t[i] \in Bytes
    BY <2>2
  <2>4. Len(u) = n /\ (\A i \in 1 .. n : u[i] = t[i])
    BY <2>1, <2>3, SubSeqProperties
  <2>5. Len(u) = 1 /\ u[1] = "LF"
    OBVIOUS
  <2> HIDE DEF u
  <2>6. t[1] = "LF" /\ Len(t) >= 1
    BY <2>2, <2>4, <2>5
  <2>7. Len(t) = 1
    BY <2>2, <2>6
  <2> QED
    BY <2>6, <2>7
<1> HIDE DEF u
<1>2. Canonize(u, before) = Canonize(u, other)
  BY <1>1 DEF Canonize
<1> QED
  BY <1>2 DEF u

LEMMA PatternIsLine ==
  ASSUME NEW b \in Seq(Bytes), NEW p \in Starts(b), NEW n \in Nat, n > 0, Whole(b, p, n),
         NEW e \in Nat, EndsAt(b, p, e), p + n <= e + 1, ~ LoneReturn(SubSeq(b, p, e)),
         SubSeq(b, p, e) # << "LF" >>, NEW before, NEW other
  PROVE  Canonize(UpToNul(SubSeq(b, p, p + n - 1)), before)
           = Canonize(UpToNul(SubSeq(b, p, e)), other)
<1>1. Len(b) \in Nat /\ p \in Nat \ {0} /\ p >= 1 /\ e <= Len(b)
  BY DEF Starts, EndsAt
<1> DEFINE m == p + n - 1
           z == e - p + 1
           s == SubSeq(b, p, m)
           t == SubSeq(b, p, e)
<1>2. m \in Nat /\ m >= p /\ m <= e /\ p + n <= Len(b) + 1
  BY <1>1
<1>3. z \in Nat /\ n <= z /\ p + z - 1 = e /\ p + z <= Len(b) + 1 /\ (m < e => n < z)
  BY <1>1, <1>2
<1> HIDE DEF z
<1>4. s \in Seq(Bytes) /\ Len(s) = n /\ \A i \in 1 .. n : s[i] = b[p + i - 1]
  BY <1>1, <1>2, PieceOf
<1>5. t \in Seq(Bytes) /\ Len(t) = z /\ \A i \in 1 .. z : t[i] = b[p + i - 1]
  BY <1>1, <1>3, PieceOf
<1>6. \A i \in 1 .. z - 1 : t[i] # "LF"
  <2> TAKE i \in 1 .. z - 1
  <2> DEFINE k == p + i - 1
  <2>1. k \in p .. e - 1 /\ i \in 1 .. z
    BY <1>1, <1>3
  <2>2. t[i] = b[k]
    BY <1>5, <2>1
  <2> HIDE DEF k, t
  <2>3. b[k] # "LF"
    BY <2>1 DEF EndsAt
  <2> QED
    BY <2>2, <2>3
<1>7. t # << "LF" >> /\ ~ LoneReturn(t)
  OBVIOUS
<1> HIDE DEF s, t
<1>8. Canonize(UpToNul(t), before) = Canonize(UpToNul(t), other)
  BY <1>5, <1>6, <1>7, NotBare
<1>9. CASE m = e
  BY <1>8, <1>9 DEF s, t
<1>10. CASE \E i \in 1 .. n : s[i] = "NUL"
  <2>1. \A i \in 1 .. n : s[i] = t[i]
    <3> TAKE i \in 1 .. n
    <3>1. i \in 1 .. z
      BY <1>3
    <3> DEFINE k == p + i - 1
    <3>2. s[i] = b[k]
      BY <1>4
    <3>3. t[i] = b[k]
      BY <1>5, <3>1
    <3> QED
      BY <3>2, <3>3
  <2>2. UpToNul(s) = UpToNul(t)
    BY <1>3, <1>4, <1>5, <1>10, <2>1, WithNul
  <2> QED
    BY <1>8, <2>2 DEF s, t
<1>11. CASE m < e /\ \A i \in 1 .. n : s[i] # "NUL"
  <2>1. m \in p .. e - 1 /\ b[m] # "LF"
    BY <1>1, <1>2, <1>11 DEF EndsAt
  <2>2. b[m] # "NUL"
    <3>1. s[n] = b[m] /\ n \in 1 .. n
      BY <1>1, <1>4
    <3> QED
      BY <1>11, <3>1
  <2>3. b[m] = "CR"
    BY <1>1, <1>2, <1>11, <2>1, <2>2 DEF Whole
  <2>4. t[n] = "CR" /\ n \in DOMAIN t /\ n # Len(t)
    BY <1>1, <1>3, <1>5, <1>11, <2>3
  <2>5. t[n + 1] = "LF"
    BY <1>7, <2>4 DEF LoneReturn
  <2>6. b[m + 1] = "LF"
    <3>1. n + 1 \in 1 .. z /\ p + (n + 1) - 1 = m + 1
      BY <1>1, <1>3, <1>11
    <3> QED
      BY <1>5, <2>5, <3>1
  <2>7. m + 1 = e
    <3> DEFINE k == m + 1
    <3>1. k >= p /\ k <= e /\ k \in Nat /\ b[k] = "LF"
      BY <1>1, <1>2, <1>11, <2>6
    <3> HIDE DEF k
    <3>2. k \notin p .. e - 1
      BY <3>1 DEF EndsAt
    <3> QED
      BY <1>1, <3>1, <3>2 DEF k
  <2>8. p + n = e /\ p + n <= Len(b) /\ z = n + 1
    BY <1>1, <1>3, <2>7
  <2>9. b[p + n - 1] = "CR" /\ b[p + n] = "LF"
    BY <1>1, <2>3, <2>6, <2>7, <2>8
  <2>10. Canonize(s, before) = Canonize(t, other)
    <3>1. \A x, y : Canonize(SubSeq(b, p, p + n - 1), x) = Canonize(SubSeq(b, p, p + n), y)
      BY <1>1, <2>8, <2>9, SameNewline
    <3> QED
      BY <2>8, <3>1 DEF s, t
  <2>11. UpToNul(s) = s
    BY <1>4, <1>11, WithoutNul
  <2>12. UpToNul(t) = t
    <3>1. \A i \in 1 .. z : t[i] # "NUL"
      <4> TAKE i \in 1 .. z
      <4>1. CASE i = n + 1
        BY <2>5, <4>1
      <4>2. CASE i # n + 1
        <5>1. i \in 1 .. n
          BY <2>8, <4>2
        <5> QED
          BY <1>4, <1>5, <1>11, <5>1
      <4> QED
        BY <4>1, <4>2
    <3> QED
      BY <1>5, <3>1, WithoutNul
  <2> QED
    BY <2>10, <2>11, <2>12 DEF s, t
<1> QED
  BY <1>2, <1>9, <1>10, <1>11

\* The pattern of a tag is made from the line that the parser is in, up to its first
\* NUL if it has one, however long it is and whatever was read before it into the
\* same buffer (readSourceLine).
THEOREM WholeLinesMatched == Spec => []PatternOfLine
<1>1. ASSUME ReadInv, StringInv PROVE PatternOfLine
  <2> SUFFICES ASSUME mode \in {"chars", "lines"}, NEW s \in Starts(bytes),
                      s < vLine.next, vLine.next <= s + Len(LineFrom(bytes, s)),
                      ~ LoneReturn(LineFrom(bytes, s)), LineFrom(bytes, s) # << "LF" >>
               PROVE  vLine.text = Canonize(UpToNul(LineFrom(bytes, s)), "x")
    BY DEF PatternOfLine
  <2>1. bytes \in Seq(Bytes)
    BY <1>1 DEF ReadInv, TypeInv
  <2>2. PICK p \in Starts(bytes), n \in Nat \ {0} :
          Whole(bytes, p, n) /\ Piece(bytes, p, n, vLine)
    <3>1. vLine.next # 1
      BY <2>1 DEF Starts
    <3> QED
      BY <1>1, <3>1 DEF StringInv, InHand
  <2>3. PICK before \in BytesBefore :
          vLine.text = Canonize(UpToNul(SubSeq(bytes, p, p + n - 1)), before)
    BY <2>2 DEF Piece
  <2>4. s \in Nat /\ 1 <= s /\ s <= Len(bytes) + 1 /\ Len(bytes) \in Nat
    BY <2>1 DEF Starts
  <2>5. PICK e \in Nat : EndsAt(bytes, s, e) /\ LineFrom(bytes, s) = SubSeq(bytes, s, e)
    BY <2>1, <2>4, LineFromEnds
  <2>6. Len(LineFrom(bytes, s)) = e - s + 1
    <3> DEFINE z == e - s + 1
    <3>1. z \in Nat /\ s + z - 1 = e /\ s + z <= Len(bytes) + 1 /\ s \in Nat \ {0}
      BY <2>4, <2>5 DEF EndsAt
    <3> HIDE DEF z
    <3>2. Len(SubSeq(bytes, s, s + z - 1)) = z
      BY <2>1, <3>1, PieceOf
    <3> QED
      BY <2>5, <3>1, <3>2 DEF z
  <2>7. s < p + n /\ p + n <= e + 1
    BY <2>2, <2>4, <2>6 DEF Piece
  <2>8. s = p
    BY <2>1, <2>2, <2>3, <2>5, <2>7, SameStart
  <2> QED
    BY <2>1, <2>2, <2>3, <2>5, <2>7, <2>8, PatternIsLine
<1>2. Init => ReadInv /\ StringInv
  BY InitRead, InitString
<1>3. ReadInv /\ StringInv /\ [Next]_vars => ReadInv' /\ StringInv'
  BY NextReads, NextString
<1> QED
  BY <1>1, <1>2, <1>3, PTL DEF Spec
===============================================================================
