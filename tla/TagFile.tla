------------------------------- MODULE TagFile -------------------------------
(***************************************************************************)
(* The tag file of a run of ctags: opened for writing or for appending     *)
(* (openTagFile), written a line at a time (makeTagEntry), put back to     *)
(* where a file began when its parser asks for another pass                *)
(* (createTagsWithFallback), cut and sorted at the end (closeTagFile).     *)
(*                                                                         *)
(* Bounds: MaxFiles source files, MaxPasses passes over each, MaxTags tags *)
(* of a pass.  Retries says whether a parser may fail while the file is    *)
(* appended to, Sorts which options and builds are looked at.              *)
(***************************************************************************)
EXTENDS TagText

CONSTANTS TagLines,         \* the tags parsers make, a line each
          OldFiles,         \* what an existing tag file may hold
          MaxFiles, MaxPasses, MaxTags,
          Retries,          \* an appending run's parser may fail
          Sorts             \* the sort methods and builds: <<sorted, external>>

ASSUME TagFileAssumption ==
    /\ TagLines \subseteq WholeLines
    /\ \A line \in TagLines : Len(line) > 1 /\ ~IsPseudo(line)
    /\ \A bytes \in OldFiles : bytes \in Seq(Characters) /\ <<NL>> \notin Range(LinesOf(bytes))
    /\ MaxFiles \in Nat /\ MaxPasses \in Nat /\ MaxTags \in Nat
    /\ Sorts \subseteq SortMethods \X BOOLEAN

VARIABLES option,       \* Option.append, Option.sorted, the build's sort
          disk,         \* the bytes of the file, or NoFile
          position,     \* the offset of TagFile.fp
          numTags,      \* TagFile.numTags
          tagFilePosition, added,   \* createTagsWithFallback's copies
          resize,       \* makeTags's resize
          files, pass,  \* source files done, passes over the present one
          made,         \* the tags of the present pass
          accepted,     \* the set of tags of the passes that were their file's last
          before,       \* the file as the run found it
          pc

vars == <<option, disk, position, numTags, tagFilePosition, added, resize,
          files, pass, made, accepted, before, pc>>

\* A file is kept in a record: that there is none is a value of its own.
NoFile == [exists |-> FALSE, bytes |-> <<>>]
File(bytes) == [exists |-> TRUE, bytes |-> bytes]

Init ==
    /\ option \in [append : BOOLEAN, sort : Sorts]
    /\ disk \in {NoFile} \cup {File(bytes) : bytes \in OldFiles}
    /\ position = 0
    /\ numTags = [added |-> 0, prev |-> 0]
    /\ tagFilePosition = 0 /\ added = 0
    /\ resize = FALSE
    /\ files = 0 /\ pass = 0
    /\ made = <<>> /\ accepted = {}
    /\ before = disk
    /\ pc = "openTagFile"

sorted == option.sort[1]
externalSort == option.sort[2]

-----------------------------------------------------------------------------
(* isTagFile: an empty file, or one whose first line is a ctags line.      *)
isTagFile(bytes) == bytes # <<>> => bytes[1] # "#"

\* A mutant: the flag is left as it is.
keepSortedFlag(bytes) == bytes

(* updateSortedFlag rewrites the byte after the TAB of a TAG_FILE_SORTED    *)
(* line when it is '0' or '1'; the flag of a file sorted regardless of case *)
(* is left.                                                                 *)
updateSortedFlag(bytes) ==
    IF IsPseudo(bytes) /\ bytes[FlagAt] \in {Unsorted, Sorted}
    THEN [bytes EXCEPT ![FlagAt] = sorted]
    ELSE bytes

(* The bytes after line is written at an offset; in a file opened for       *)
(* appending it goes to the end wherever the offset is.                     *)
Written(bytes, offset, line) ==
    SubSeq(bytes, 1, offset) \o line \o SubSeq(bytes, offset + Len(line) + 1, Len(bytes))

WriteOffset == IF option.append /\ before.exists THEN Len(disk.bytes) ELSE position

write(line) ==
    /\ disk' = File(Written(disk.bytes, WriteOffset, line))
    /\ position' = WriteOffset + Len(line)
    /\ numTags' = [numTags EXCEPT !.added = @ + 1]

refuseTagFile ==
    /\ pc = "openTagFile"
    /\ disk.exists /\ ~isTagFile(disk.bytes)
    /\ pc' = "refused"
    /\ UNCHANGED <<option, disk, position, numTags, tagFilePosition, added,
                   resize, files, pass, made, accepted, before>>

(* Appending: the flag is updated, the lines are counted and the file is    *)
(* opened again with "a+", whose offset begins at 0.                        *)
appendTagFile ==
    /\ pc = "openTagFile"
    /\ disk.exists /\ isTagFile(disk.bytes)
    /\ option.append
    /\ disk' = File(updateSortedFlag(disk.bytes))
    /\ numTags' = [numTags EXCEPT !.prev = Len(LinesOf(disk.bytes))]
    /\ position' = 0
    /\ pc' = "nextFile"
    /\ UNCHANGED <<option, tagFilePosition, added, resize, files, pass, made,
                   accepted, before>>

createTagFile ==
    /\ pc = "openTagFile"
    /\ disk.exists => isTagFile(disk.bytes) /\ ~option.append
    /\ disk' = File(PseudoTag(sorted))
    /\ position' = Len(PseudoTag(sorted))
    /\ numTags' = [numTags EXCEPT !.added = @ + 1]
    /\ pc' = "nextFile"
    /\ UNCHANGED <<option, tagFilePosition, added, resize, files, pass, made,
                   accepted, before>>

-----------------------------------------------------------------------------
createTagsWithFallback ==
    /\ pc = "nextFile"
    /\ files < MaxFiles
    /\ tagFilePosition' = position
    /\ added' = numTags.added
    /\ pass' = 1
    /\ made' = <<>>
    /\ pc' = "createTagsForFile"
    /\ UNCHANGED <<option, disk, position, numTags, resize, files, accepted, before>>

makeTagEntry(line) ==
    /\ pc = "createTagsForFile"
    /\ Len(made) < MaxTags
    /\ write(line)
    /\ made' = Append(made, line)
    /\ UNCHANGED <<option, tagFilePosition, added, resize, files, pass, accepted,
                   before, pc>>

\* A mutant: the count is not put back.
retryCounting ==
    /\ pc = "createTagsForFile"
    /\ pass < MaxPasses
    /\ option.append /\ before.exists => Retries
    /\ position' = tagFilePosition
    /\ resize' = TRUE
    /\ pass' = pass + 1
    /\ made' = <<>>
    /\ UNCHANGED <<option, disk, numTags, tagFilePosition, added, files, accepted, before, pc>>

(* The parser returned TRUE: fsetpos, the count as it was, another pass.    *)
retry ==
    /\ pc = "createTagsForFile"
    /\ pass < MaxPasses
    /\ option.append /\ before.exists => Retries
    /\ position' = tagFilePosition
    /\ numTags' = [numTags EXCEPT !.added = added]
    /\ resize' = TRUE
    /\ pass' = pass + 1
    /\ made' = <<>>
    /\ UNCHANGED <<option, disk, tagFilePosition, added, files, accepted, before, pc>>

endFile ==
    /\ pc = "createTagsForFile"
    /\ accepted' = accepted \cup Range(made)
    /\ made' = <<>>
    /\ files' = files + 1
    /\ pass' = 0 /\ tagFilePosition' = 0 /\ added' = 0
    /\ pc' = "nextFile"
    /\ UNCHANGED <<option, disk, position, numTags, resize, before>>

-----------------------------------------------------------------------------
\* A mutant: the file is not cut.
closeUncut ==
    /\ pc = "nextFile"
    /\ UNCHANGED disk
    /\ position' = 0 /\ resize' = FALSE /\ files' = 0
    /\ pc' = "sortTagFile"
    /\ UNCHANGED <<option, numTags, tagFilePosition, added, pass, made, accepted, before>>

closeTagFile ==
    /\ pc = "nextFile"
    /\ disk' = IF resize /\ position < Len(disk.bytes)
               THEN File(SubSeq(disk.bytes, 1, position))
               ELSE disk
    /\ position' = 0 /\ resize' = FALSE /\ files' = 0
    /\ pc' = "sortTagFile"
    /\ UNCHANGED <<option, numTags, tagFilePosition, added, pass, made, accepted, before>>

(* Every line whose predecessor is not the same: writeSortedTags compares   *)
(* whole lines, "sort -u -f" compares them without regard to case.          *)
Same(s, t) == IF externalSort THEN Key(sorted, s) = Key(sorted, t) ELSE s = t

Distinct(lines) ==
    LET kept[i \in 0..Len(lines)] ==
            IF i = 0 THEN <<>>
            ELSE LET last == kept[i - 1]
                 IN  IF last # <<>> /\ Same(last[Len(last)], lines[i]) THEN last
                     ELSE Append(last, lines[i])
    IN  kept[Len(lines)]

(* internalSortTags reads as many lines as it counted; sort reads the file. *)
(* The blank lines that the former passes over are in no file of OldFiles.  *)
LinesToSort ==
    LET lines == LinesOf(disk.bytes)
        count == numTags.added + numTags.prev
    IN  IF externalSort \/ Len(lines) < count THEN lines ELSE SubSeq(lines, 1, count)

sortTagFile ==
    /\ pc = "sortTagFile"
    /\ \/ /\ numTags.added > 0 /\ sorted # Unsorted
          /\ \E lines \in Orders(sorted, LinesToSort) :
                disk' = File(Bytes(Distinct(lines)))
       \/ /\ numTags.added = 0 \/ sorted = Unsorted
          /\ UNCHANGED disk
    /\ pc' = "closed"
    /\ UNCHANGED <<option, position, numTags, tagFilePosition, added, resize, files,
                   pass, made, accepted, before>>

Next ==
    \/ refuseTagFile \/ appendTagFile \/ createTagFile
    \/ createTagsWithFallback
    \/ \E line \in TagLines : makeTagEntry(line)
    \/ retry \/ endFile
    \/ closeTagFile \/ sortTagFile

Spec == Init /\ [][Next]_vars

-----------------------------------------------------------------------------
(* Properties                                                              *)

Closed == pc = "closed"

Appends == option.append /\ before.exists

TagsIn(bytes) == {line \in Range(LinesOf(bytes)) : ~IsPseudo(line)}

(* The tags of the file between two source files, and those before the one  *)
(* that is being parsed.                                                    *)
BookTags ==
    TagsIn(IF pc = "createTagsForFile" /\ ~Appends
           THEN SubSeq(disk.bytes, 1, tagFilePosition)
           ELSE IF pc = "createTagsForFile"
           THEN SubSeq(disk.bytes, 1, Len(disk.bytes) - Len(Bytes(made)))
           ELSE IF pc = "nextFile" /\ ~Appends
           THEN SubSeq(disk.bytes, 1, position)
           ELSE disk.bytes)

(* What ctags leaves of a file: whole lines, of which the first may be the  *)
(* pseudo tag and no other is.                                              *)
CtagsFile(bytes) ==
    LET lines == LinesOf(bytes)
    IN  /\ lines \in Seq(WholeLines) /\ Bytes(lines) = bytes
        /\ \A i \in DOMAIN lines :
            IsPseudo(lines[i]) => i = 1 /\ \E flag \in SortMethods : lines[i] = PseudoTag(flag)

OldFilesAreTagFiles == \A bytes \in OldFiles : isTagFile(bytes) => CtagsFile(bytes)

AllTags == TagLines \cup UNION {TagsIn(bytes) : bytes \in OldFiles}

Book == INSTANCE TagBook WITH
    Tags <- AllTags,
    book <- BookTags,
    sources <- accepted,
    stage <- CASE pc = "openTagFile" -> "before"
               [] pc \in {"closed", "refused"} -> "done"
               [] OTHER -> "open"

(* The file is a TagBook: a pass that failed is never seen in it, and       *)
(* cutting and sorting lose and invent no tag (parse.c:640, entry.c:523).   *)
KeepsTagBook == Book!Spec

(* The lines counted are those that sorting will read: sortTagFile sorts as *)
(* many lines as there are (sort.c:174).                                    *)
CountsLines ==
    pc \in {"nextFile", "sortTagFile"} =>
        numTags.added + numTags.prev =
            Len(LinesOf(IF pc = "nextFile" /\ ~Appends
                        THEN SubSeq(disk.bytes, 1, position)
                        ELSE disk.bytes))

(* The flag tells the order of the lines, provided tags were added and the  *)
(* file appended to was not sorted regardless of case (entry.c:170).        *)
FlagTellsOrderOfNew ==
    Closed /\ numTags.added > 0
           /\ (Appends /\ before.bytes # <<>> => before.bytes[FlagAt] # FoldSorted)
        => InOrder(SortMethod(disk.bytes), LinesOf(disk.bytes))

(* Appending keeps the tags there are (ctags.1: tags generated "should be   *)
(* appended to those already present in the tag file").                     *)
AppendKeepsTags == Closed /\ Appends => TagsIn(before.bytes) \subseteq TagsIn(disk.bytes)
=============================================================================
