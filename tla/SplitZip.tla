------------------------------ MODULE SplitZip ------------------------------
(***************************************************************************)
(* Listfile archives (mvlc_listfile_zip.cc): SplitZipCreator on top of     *)
(* ZipCreator writes a listfile into one archive or into a series of       *)
(* numbered parts; SplitZipReader on top of ZipReader reads the series     *)
(* back, possibly while it is still being written.                         *)
(*                                                                         *)
(* Data is counted in units.  What an entry stores is a sequence of        *)
(* chunks, each the units it decompresses to: a ZIP entry stores one unit  *)
(* per chunk, LZ4 collects BlockUnits of them, with a header and an end    *)
(* mark that hold none.  Disk errors strike creating, closing and writing; *)
(* a call that throws may have stored a part of its data, and what the LZ4 *)
(* context had put out by then is gone.  A writer stops at the first       *)
(* exception, as the listfile writer thread does.                          *)
(***************************************************************************)
EXTENDS Integers, Sequences, FiniteSets, SequencesExt

CONSTANTS
    Setups,             \* [mode, type, overwrite, splitSize] to choose from
    StaleParts,         \* sets of part numbers an earlier run left behind
    BlockUnits,         \* units in an LZ4 block
    ReadAhead,          \* chunks the LZ4 reader fetches at once
    WriteSizes, ReadSizes, SeekPositions,
    MaxParts, MaxUnits, MaxFaults, MaxSeeks      \* bounds

None == -1
Magic == -1             \* units of the preamble
Config == -2
Preamble == <<Magic, Config>>
Stale == -3             \* a unit of an earlier run
FileUnit == -4          \* contents of a file that is no listfile
Damaged == -5           \* LZ4 data that misses what was put out before it
Files == 0..MaxParts    \* 0: <prefix>.zip, n: <prefix>_part<n>.zip

VARIABLES
    setup,
    files,              \* file system: Files -> [exists, closed, entries]
    archive,            \* ZipCreator: the open file or None
    entryOpen, entryType, bytesToFile,
    lz4Pending,         \*   units inside the LZ4 context
    partIndex, isSplitEntry,        \* SplitZipCreator
    wstate,             \* "new", "archive", "entry", "full" (the part is to be
                        \* closed), "write", "failed" or "closed"
    request,            \* units of the write() under way, 0: none
    written,            \* history: units of the write() calls that returned
    torn,               \* history: units of the write() that threw
    thrown,             \* history: a call of the creator threw
    faults,
    rstate,             \* "none", "open", "read", "seek" or "error"
    current,            \* SplitZipReader::currentArchiveName
    opened,             \* the archive as it was opened
    zipPos,             \* ZipReader: chunks consumed of the entry
    compressed,         \*   compressedView
    decompressed,       \*   decompressedView
    want, out,          \* the call under way: units to go and units found
    start, delivered,   \* history: where reading started and what it gave
    early,              \* history: a part of an earlier run was opened before the
                        \* writer came to that part
    seeks

fsVars == <<setup, files>>
creatorVars == <<archive, entryOpen, entryType, bytesToFile, lz4Pending,
                 partIndex, isSplitEntry>>
historyVars == <<written, torn, thrown>>
writerVars == <<creatorVars, wstate, request, historyVars, faults>>
entryVars == <<zipPos, compressed, decompressed>>
archiveVars == <<current, opened, entryVars>>
readerVars == <<rstate, archiveVars, want, out, start, delivered, early, seeks>>
vars == <<fsVars, writerVars, readerVars>>

Missing == [exists |-> FALSE, closed |-> FALSE, entries |-> <<>>]
Created == [exists |-> TRUE, closed |-> FALSE, entries |-> <<>>]
StalePart == [exists |-> TRUE, closed |-> TRUE,
              entries |-> <<[listfile |-> TRUE, type |-> "ZIP",
                             stored |-> <<<<Magic>>, <<Stale>>>>]>>]

Init ==
    /\ setup \in Setups
    /\ \E stale \in StaleParts :
            files = [f \in Files |-> IF f \in stale THEN StalePart ELSE Missing]
    /\ archive = None /\ entryOpen = FALSE /\ entryType = "ZIP"
    /\ bytesToFile = 0 /\ lz4Pending = <<>>
    /\ partIndex = 1 /\ isSplitEntry = FALSE
    /\ wstate = "new" /\ request = 0 /\ faults = 0
    /\ written = <<>> /\ torn = <<>> /\ thrown = FALSE
    /\ rstate = "none" /\ current = None /\ opened = Missing /\ early = FALSE
    /\ zipPos = 0 /\ compressed = <<>> /\ decompressed = <<>>
    /\ want = 0 /\ out = <<>> /\ start = 0 /\ delivered = <<>> /\ seeks = 0

-----------------------------------------------------------------------------
(* ZipCreator.  What the calls of one operation change is computed on a    *)
(* record c of the creator's state together with the files.                *)

Creator == [files |-> files, archive |-> archive, entryOpen |-> entryOpen,
            entryType |-> entryType, bytesToFile |-> bytesToFile,
            lz4Pending |-> lz4Pending, isSplitEntry |-> isSplitEntry,
            partIndex |-> partIndex]

\* The call changes the creator to c.
Becomes(c) ==
    /\ files' = c.files /\ archive' = c.archive /\ entryOpen' = c.entryOpen
    /\ entryType' = c.entryType /\ bytesToFile' = c.bytesToFile
    /\ lz4Pending' = c.lz4Pending /\ isSplitEntry' = c.isSplitEntry
    /\ partIndex' = c.partIndex

\* ZipCreator::createArchive() refuses a file that exists.
Refused(f) == ~setup.overwrite /\ files[f].exists

\* Opening for writing truncates.
createZipArchive(c, f) == [c EXCEPT !.files[f] = Created, !.archive = f]

\* The chunks are appended to the open entry, the last one of the archive.
Store(c, chunks) ==
    LET n == Len(c.files[c.archive].entries)
    IN  [c EXCEPT !.files[c.archive].entries[n].stored = @ \o chunks,
                  !.bytesToFile = @ + Len(chunks)]

openZipEntry(c, listfile, type) ==
    [c EXCEPT !.files[c.archive].entries =
                  Append(@, [listfile |-> listfile, type |-> type, stored |-> <<>>]),
              !.entryOpen = TRUE, !.entryType = type,
              !.bytesToFile = 0, !.lz4Pending = <<>>]

\* createZIPEntry(), createLZ4Entry(): the latter stores the frame header.
createEntry(c, listfile, type) ==
    LET fresh == openZipEntry(c, listfile, type)
    IN  IF type = "LZ4" THEN Store(fresh, <<<<>>>>) ELSE fresh

Blocks(units) ==
    [i \in 1..(Len(units) \div BlockUnits) |->
        SubSeq(units, (i - 1) * BlockUnits + 1, i * BlockUnits)]
Rest(units) == SubSeq(units, Len(units) - (Len(units) % BlockUnits) + 1, Len(units))

\* Mutant: a block that was started is dropped.
MutZipWrite(c, units) ==
    IF c.entryType = "ZIP" THEN Store(c, [i \in DOMAIN units |-> <<units[i]>>])
    ELSE [Store(c, Blocks(units)) EXCEPT !.lz4Pending = Rest(units)]

\* writeToCurrentEntry(): LZ4 keeps what does not fill a block.
zipWrite(c, units) ==
    IF c.entryType = "ZIP" THEN Store(c, [i \in DOMAIN units |-> <<units[i]>>])
    ELSE LET all == c.lz4Pending \o units
         IN  [Store(c, Blocks(all)) EXCEPT !.lz4Pending = Rest(all)]

\* writeToCurrentEntry() that throws.  The units are put out in pieces, as many as
\* the LZ4 context's buffer has room for, and all chunks of a piece at once:
\* when only k of them reach the file, LZ4F_compressUpdate() has taken the piece
\* already, and what follows is damaged, each block being linked to those before.
failedWrites(c, units) ==
    IF c.entryType = "ZIP"
    THEN {zipWrite(c, SubSeq(units, 1, k)) : k \in 0..(Len(units) - 1)}
    ELSE UNION {LET all    == c.lz4Pending \o SubSeq(units, 1, m)
                    blocks == Blocks(all)
                IN  IF blocks = <<>> THEN {[c EXCEPT !.lz4Pending = all]}
                    ELSE {[Store(c, SubSeq(blocks, 1, k) \o <<<<Damaged>>>>) EXCEPT
                              !.lz4Pending = IF Rest(all) = <<>> THEN <<>> ELSE <<Damaged>>] :
                            k \in 0..(Len(blocks) - 1)} : m \in 1..Len(units)}

\* createZIPEntry() or createLZ4Entry() that throws: without an entry, or before
\* the frame header is stored.
failedEntries(c, type) ==
    {c} \cup (IF type = "ZIP" THEN {}
              ELSE {Store(openZipEntry(c, TRUE, type), <<<<Damaged>>>>)})

\* closeCurrentEntry(): LZ4F_compressEnd() stores the rest and the end mark.
closeZipEntry(c) ==
    LET ended == IF c.entryType = "ZIP" THEN c
                 ELSE Store(c, IF c.lz4Pending = <<>> THEN <<<<>>>>
                               ELSE <<c.lz4Pending, <<>>>>)
    IN  [ended EXCEPT !.entryOpen = FALSE, !.lz4Pending = <<>>]

\* closeCurrentEntry() that throws: the rest is no longer in the LZ4 context, and
\* the entry counts as open.
failedCloseEntry(c) ==
    IF c.entryType = "ZIP" \/ c.lz4Pending = <<>> THEN c
    ELSE [Store(c, <<<<Damaged>>>>) EXCEPT !.lz4Pending = <<>>]

closeZipArchive(c) == [c EXCEPT !.files[c.archive].closed = TRUE, !.archive = None]

-----------------------------------------------------------------------------
(* SplitZipCreator.                                                        *)

FileOf(c) == IF setup.mode = "DontSplit" THEN 0 ELSE c.partIndex

\* Mutant: a further part starts without the preamble.
MutCreateListfileEntry(c) ==
    LET d == createEntry(c, TRUE, setup.type)
        e == IF c.partIndex > 1 THEN d ELSE zipWrite(d, Preamble)
    IN  [e EXCEPT !.isSplitEntry = setup.mode # "DontSplit"]

createListfileEntry(c) ==
    [zipWrite(createEntry(c, TRUE, setup.type), Preamble)
        EXCEPT !.isSplitEntry = setup.mode # "DontSplit"]

\* closeArchiveCallback: add_file_to_archive() leaves a file in the archive.
closeArchiveCallback(c) ==
    [closeZipEntry(zipWrite(createEntry(c, FALSE, "ZIP"), <<FileUnit>>))
        EXCEPT !.isSplitEntry = FALSE]

\* createListfileEntry() that throws: opening the entry or writing the preamble.
failedListfileEntries(c) ==
    failedEntries(c, setup.type) \cup failedWrites(createEntry(c, TRUE, setup.type), Preamble)

closeArchive(c) ==
    closeZipArchive(closeArchiveCallback(IF c.entryOpen THEN closeZipEntry(c) ELSE c))

\* closeArchive() that throws, while the entry is closed or later: the archive
\* stays open and has no directory.
failedCloseArchives(c) ==
    IF c.entryOpen THEN {failedCloseEntry(c), closeZipEntry(c)} ELSE {c}

Fault == faults < MaxFaults /\ faults' = faults + 1

NewUnits(n) == [i \in 1..n |-> Len(written) + i]

\* An exception leaves the creator as c, and reaches the caller of write(), if
\* there is one.
Throws(c) ==
    /\ Becomes(c) /\ wstate' = "failed" /\ request' = 0
    /\ torn' = NewUnits(request) /\ thrown' = TRUE /\ UNCHANGED written

Returns(c, place) ==
    /\ Becomes(c) /\ wstate' = place /\ UNCHANGED <<request, historyVars, faults>>

\* createArchive(), and createNextArchive() within a write().
createArchive ==
    /\ wstate = "new"
    /\ LET f == FileOf(Creator)
       IN  \/ ~Refused(f) /\ Returns(createZipArchive(Creator, f), "archive")
           \/ ((Refused(f) /\ UNCHANGED faults) \/ Fault) /\ Throws(Creator)
    /\ UNCHANGED <<setup, readerVars>>

\* createListfileEntry(), called by the application and within a write().
CreateListfileEntry ==
    /\ wstate = "archive"
    /\ \/ Returns(createListfileEntry(Creator), IF request = 0 THEN "entry" ELSE "write")
       \/ Fault /\ \E c \in failedListfileEntries(Creator) : Throws(c)
    /\ UNCHANGED <<setup, readerVars>>

\* Mutant: checked against what has been put in, not against the file.
MutNeedNewPart(c, old) ==
    /\ c.isSplitEntry
    /\ \/ setup.mode = "SplitBySize" /\ c.bytesToFile > setup.splitSize
       \/ setup.mode = "SplitByTime" /\ old

\* The size is that of the file, so that LZ4 data in the context is not counted.
\* The age of a part is the environment's choice.
NeedNewPart(c, old) ==
    /\ c.isSplitEntry
    /\ \/ setup.mode = "SplitBySize" /\ c.bytesToFile >= setup.splitSize
       \/ setup.mode = "SplitByTime" /\ old

\* SplitZipCreator::writeToCurrentEntry(): the part is changed first, or the units
\* are written at once.
writeToCurrentEntry(n) ==
    /\ wstate = "entry" /\ Len(written) + n <= MaxUnits
    /\ \E old \in BOOLEAN :
         /\ old => setup.mode = "SplitByTime"
         /\ LET split == NeedNewPart(Creator, old)
            IN  /\ split => partIndex < MaxParts
                /\ wstate' = IF split THEN "full" ELSE "write"
    /\ request' = n
    /\ UNCHANGED <<fsVars, creatorVars, historyVars, faults, readerVars>>

\* closeArchive() and the next part number; createArchive and CreateListfileEntry follow.
ClosePart ==
    /\ wstate = "full"
    /\ \/ Returns([closeArchive(Creator) EXCEPT !.partIndex = @ + 1], "new")
       \/ Fault /\ \E c \in failedCloseArchives(Creator) : Throws(c)
    /\ UNCHANGED <<setup, readerVars>>

\* ZipCreator::writeToCurrentEntry()
WriteUnits ==
    /\ wstate = "write"
    /\ \/ /\ Becomes(zipWrite(Creator, NewUnits(request)))
          /\ written' = written \o NewUnits(request)
          /\ wstate' = "entry" /\ request' = 0 /\ UNCHANGED <<torn, thrown, faults>>
       \/ Fault /\ \E c \in failedWrites(Creator, NewUnits(request)) : Throws(c)
    /\ UNCHANGED <<setup, readerVars>>

\* closeArchive(), by the application or ~SplitZipCreator(), where it is skipped
\* when no archive is open.  When it fails the archive has no directory.
CloseArchive ==
    /\ wstate \in {"archive", "entry", "failed"} /\ request = 0
    /\ \/ /\ Becomes(IF archive = None THEN Creator ELSE closeArchive(Creator))
          /\ UNCHANGED <<faults, thrown>>
       \/ /\ Fault /\ archive # None /\ thrown' = TRUE
          /\ \E c \in failedCloseArchives(Creator) : Becomes([c EXCEPT !.archive = None])
    /\ wstate' = "closed"
    /\ UNCHANGED <<setup, request, written, torn, readerVars>>

-----------------------------------------------------------------------------
(* ZipReader and SplitZipReader.                                           *)

Listfile(f) == SelectInSeq(files[f].entries, LAMBDA e : e.listfile)
Entry == opened.entries[SelectInSeq(opened.entries, LAMBDA e : e.listfile)]

\* openEntry() finds the entry, and with LZ4 a frame header.
Openable(f) ==
    /\ Listfile(f) # 0
    /\ LET e == files[f].entries[Listfile(f)]
       IN  e.type = "LZ4" => e.stored # <<>> /\ Head(e.stored) = <<>>

\* openEntry(): from the start, nothing fetched.  With LZ4 the first chunks are
\* fetched to take the frame header off.
OpenedEntry(e) ==
    IF e.type = "ZIP"
    THEN zipPos' = 0 /\ compressed' = <<>> /\ decompressed' = <<>>
    ELSE LET k == Min({ReadAhead, Len(e.stored)})
         IN  zipPos' = k /\ compressed' = SubSeq(e.stored, 2, k) /\ decompressed' = <<>>

OpenedArchive(f) == current' = f /\ opened' = files[f]

\* openArchive(), openFirstListfileEntry().  A file without directory cannot be opened.
Open ==
    /\ rstate = "none"
    /\ LET f == IF setup.mode = "DontSplit" THEN 0 ELSE 1
       IN  /\ files[f].exists /\ files[f].closed /\ ~(wstate = "new" /\ partIndex = 1)
           /\ Openable(f)
           /\ OpenedArchive(f) /\ OpenedEntry(files[f].entries[Listfile(f)])
    /\ rstate' = "open"
    /\ UNCHANGED <<fsVars, writerVars, want, out, start, delivered, early, seeks>>

read(n) ==
    /\ rstate = "open"
    /\ rstate' = "read" /\ want' = n /\ out' = <<>>
    /\ UNCHANGED <<fsVars, writerVars, archiveVars, start, delivered, early, seeks>>

\* seek(): from the first part on.
seek(pos) ==
    /\ rstate = "open" /\ seeks < MaxSeeks
    /\ LET f == IF current = 0 THEN 0 ELSE 1
       IN  OpenedArchive(f) /\ OpenedEntry(files[f].entries[Listfile(f)])
    /\ rstate' = "seek" /\ want' = pos /\ out' = <<>>
    /\ start' = pos /\ delivered' = <<>> /\ seeks' = seeks + 1 /\ early' = FALSE
    /\ UNCHANGED <<fsVars, writerVars>>

Reading == rstate \in {"read", "seek"} /\ want > 0 /\ files[current] = opened

\* The writer has truncated the archive that is being read: what is left of it no
\* longer fits its directory.
ReadOverwritten ==
    /\ rstate \in {"read", "seek"} /\ want > 0 /\ files[current] # opened
    /\ rstate' = "error" /\ want' = 0 /\ out' = <<>>
    /\ UNCHANGED <<fsVars, writerVars, archiveVars, start, delivered, early, seeks>>

Take(units) ==
    LET n == Min({want, Len(units)})
    IN  want' = want - n /\ out' = out \o SubSeq(units, 1, n)

\* readFromCurrentZipEntry() of a ZIP entry.
ReadZip ==
    /\ Reading /\ Entry.type = "ZIP" /\ zipPos < Len(Entry.stored)
    /\ LET n == Min({want, Len(Entry.stored) - zipPos})
       IN  /\ Take(FlattenSeq(SubSeq(Entry.stored, zipPos + 1, zipPos + n)))
           /\ zipPos' = zipPos + n
    /\ UNCHANGED <<fsVars, writerVars, rstate, current, opened, compressed,
                   decompressed, start, delivered, early, seeks>>

\* Mutant: what the call did not need is thrown away.
MutReadLZ4 ==
    /\ Reading /\ Entry.type = "LZ4"
    /\ decompressed # <<>> \/ compressed # <<>> \/ zipPos < Len(Entry.stored)
    /\ LET k       == Min({ReadAhead, Len(Entry.stored) - zipPos})
           refill  == decompressed = <<>> /\ compressed = <<>>
           fetched == IF refill THEN SubSeq(Entry.stored, zipPos + 1, zipPos + k)
                      ELSE compressed
           units   == IF decompressed = <<>> THEN Head(fetched) ELSE decompressed
       IN  /\ zipPos' = IF refill THEN zipPos + k ELSE zipPos
           /\ compressed' = IF decompressed = <<>> THEN Tail(fetched) ELSE fetched
           /\ decompressed' = <<>>
           /\ Take(units)
    /\ UNCHANGED <<fsVars, writerVars, rstate, current, opened, start, delivered, early,
                   seeks>>

\* One round of the loop for an LZ4 entry: fetch when nothing is left to
\* decompress, decompress when nothing is left to copy, copy.
ReadLZ4 ==
    /\ Reading /\ Entry.type = "LZ4"
    /\ decompressed # <<>> \/ compressed # <<>> \/ zipPos < Len(Entry.stored)
    /\ LET k       == Min({ReadAhead, Len(Entry.stored) - zipPos})
           refill  == decompressed = <<>> /\ compressed = <<>>
           fetched == IF refill THEN SubSeq(Entry.stored, zipPos + 1, zipPos + k)
                      ELSE compressed
           units   == IF decompressed = <<>> THEN Head(fetched) ELSE decompressed
       IN  /\ zipPos' = IF refill THEN zipPos + k ELSE zipPos
           /\ compressed' = IF decompressed = <<>> THEN Tail(fetched) ELSE fetched
           /\ decompressed' = SubSeq(units, Min({want, Len(units)}) + 1, Len(units))
           /\ Take(units)
    /\ UNCHANGED <<fsVars, writerVars, rstate, current, opened, start, delivered, early,
                   seeks>>

\* LZ4F_decompress() may notice that the data is damaged.
ReadDamaged ==
    /\ Reading /\ Entry.type = "LZ4" /\ decompressed = <<>>
    /\ LET next == compressed \o SubSeq(Entry.stored, zipPos + 1, Len(Entry.stored))
       IN  next # <<>> /\ Head(next) = <<Damaged>>
    /\ rstate' = "error" /\ want' = 0 /\ out' = <<>>
    /\ UNCHANGED <<fsVars, writerVars, archiveVars, start, delivered, early, seeks>>

EntryEnd == /\ Reading /\ zipPos = Len(Entry.stored)
            /\ compressed = <<>> /\ decompressed = <<>>

\* next_archive_name(): nothing follows an archive that is no part.
HasNext == current \in 1..(MaxParts - 1) /\ files[current + 1].exists

\* What is left of an entry that is opened and whose magic bytes are read, if there
\* are any; with LZ4, after the first chunk that holds data.
PastMagic(e) ==
    LET k == Min({ReadAhead, Len(e.stored)})
        i == SelectInSeq(e.stored, LAMBDA chunk : chunk # <<>>)
        n == Max({i, k})
    IN  IF i = 0 THEN zipPos' = Len(e.stored) /\ compressed' = <<>> /\ decompressed' = <<>>
        ELSE IF e.type = "ZIP"
        THEN zipPos' = 1 /\ compressed' = <<>> /\ decompressed' = <<>>
        ELSE zipPos' = n /\ compressed' = SubSeq(e.stored, i + 1, n)
             /\ decompressed' = Tail(e.stored[i])

\* readCurrentEntry() at the end of a part goes on with the next one, after its
\* magic bytes only: the rest of the preamble is delivered again.
ReadNextPart ==
    /\ rstate = "read" /\ EntryEnd /\ HasNext
    /\ files[current + 1].closed /\ Openable(current + 1)
    /\ OpenedArchive(current + 1)
    /\ PastMagic(files[current + 1].entries[Listfile(current + 1)])
    /\ early' = (early \/ (files[current + 1] = StalePart /\ wstate \notin {"failed", "closed"}))
    /\ UNCHANGED <<fsVars, writerVars, rstate, want, out, start, delivered, seeks>>

\* The next part is still being written, or its first entry was not: openArchive()
\* or openEntry() throws, or reading the magic bytes does.
ReadNextPartFails ==
    /\ rstate = "read" /\ EntryEnd /\ HasNext
    /\ ~(/\ files[current + 1].closed /\ Openable(current + 1)
         /\ LET e == files[current + 1].entries[Listfile(current + 1)]
            IN  Len(e.stored) > 1 => e.stored[2] # <<Damaged>>)
    /\ rstate' = "error"
    /\ UNCHANGED <<fsVars, writerVars, archiveVars, want, out, start, delivered, early,
                   seeks>>

ReadDone ==
    /\ rstate = "read" /\ (want = 0 \/ (EntryEnd /\ ~HasNext))
    /\ rstate' = "open" /\ want' = 0 /\ out' = <<>>
    /\ delivered' = delivered \o out
    /\ UNCHANGED <<fsVars, writerVars, archiveVars, start, early, seeks>>

\* seek() to a position past the first part: the same entry is read once more.
SeekAgain ==
    /\ rstate = "seek" /\ EntryEnd /\ out # <<>>
    /\ OpenedEntry(Entry) /\ out' = <<>>
    /\ UNCHANGED <<fsVars, writerVars, rstate, current, opened, want, start, delivered, early,
                   seeks>>

SeekDone ==
    /\ rstate = "seek" /\ want = 0
    /\ rstate' = "open" /\ out' = <<>>
    /\ UNCHANGED <<fsVars, writerVars, archiveVars, want, start, delivered, early, seeks>>

ReadStep == \/ ReadZip \/ ReadLZ4 \/ ReadDamaged \/ ReadOverwritten
            \/ ReadNextPart \/ ReadNextPartFails \/ ReadDone \/ SeekAgain \/ SeekDone

Next ==
    \/ createArchive \/ CreateListfileEntry \/ ClosePart \/ WriteUnits \/ CloseArchive
    \/ \E n \in WriteSizes : writeToCurrentEntry(n)
    \/ Open
    \/ \E n \in ReadSizes : read(n)
    \/ \E pos \in SeekPositions : seek(pos)
    \/ ReadStep

Spec == Init /\ [][Next]_vars

-----------------------------------------------------------------------------
(* Properties.                                                             *)

Content(f) == FlattenSeq(files[f].entries[Listfile(f)].stored)
IsData(u) == u > 0

\* The files of this run, in the order of their numbers.
RunFiles ==
    IF partIndex = 1 /\ (wstate = "new" \/ (wstate = "failed" /\ archive = None)) THEN <<>>
    ELSE IF setup.mode = "DontSplit" THEN <<0>>
    ELSE [i \in 1..partIndex |-> i]
RunParts == SelectSeq(RunFiles, LAMBDA f :
    files[f].exists /\ Listfile(f) # 0 /\ files[f] # StalePart)

\* The data in the parts of a run, taken in the order of their numbers, with what
\* the compressor holds, is the data of the writes, each unit once and in order,
\* however the run was split.  Only units of the write that failed may follow,
\* and only a call that threw loses data of earlier writes: less than one block,
\* which an LZ4 context had taken (ZipCreator::writeToCurrentEntry(),
\* closeCurrentEntry()).
RecordedOnce ==
    LET parts == [i \in DOMAIN RunParts |-> Content(RunParts[i])]
        data  == SelectSeq(FlattenSeq(parts) \o lz4Pending, IsData)
        lost  == IF thrown /\ setup.type = "LZ4" THEN BlockUnits - 1 ELSE 0
    IN  IsPrefix(data, written \o torn) /\ Len(data) + lost >= Len(written)

\* Each part a run has closed starts with the preamble, so that it can be
\* replayed by itself.  The last part may not when createListfileEntry() threw, and
\* then holds no data. (SplitZipCreator::createListfileEntry())
PartsReplayable ==
    \A i \in DOMAIN RunParts :
        LET f == RunParts[i]
        IN  files[f].closed =>
              \/ IsPrefix(Preamble, Content(f))
              \/ thrown /\ i = Len(RunParts) /\ \A k \in DOMAIN Content(f) : ~IsData(Content(f)[k])

\* A part outgrows the split size by less than one write (and, compressed, by the
\* last block and the end mark): splitting is neither missed nor delayed. (SplitZipCreator::writeToCurrentEntry())
PartBounded ==
    setup.mode = "SplitBySize" =>
        \A i \in DOMAIN RunParts :
            LET e == files[RunParts[i]].entries[Listfile(RunParts[i])]
                n == Max(WriteSizes)
            IN  IF e.type = "ZIP"
                THEN Len(e.stored) <= Max({setup.splitSize - 1, Len(Preamble)}) + n
                ELSE Len(e.stored) <= Max({setup.splitSize - 1, 1 + Len(Preamble) \div BlockUnits})
                                        + (n + BlockUnits - 1) \div BlockUnits + 2

\* Everything from the first part on; of the others without the magic bytes.
StreamFrom(first) ==
    LET from[f \in Files] ==
            IF ~files[f].exists \/ ~files[f].closed \/ Listfile(f) = 0 THEN <<>>
            ELSE (IF f > 1 /\ Content(f) # <<>> THEN Tail(Content(f)) ELSE Content(f))
                 \o (IF f \in 1..(MaxParts - 1) THEN from[f + 1] ELSE <<>>)
    IN  from[first]

\* What the read() calls give is the stream that starts in the first part, from
\* the position of the last seek() in that part on, gap-free across parts and
\* whatever the sizes asked for; a part an earlier run left behind comes after
\* all data of this one.  Except when the reader, while the listfile is being
\* written, goes on with such a part: between closeArchive() and createNextArchive()
\* it is the next one there is. (SplitZipReader::readCurrentEntry(),
\* ZipReader::readCurrentEntry())
ReadBack ==
    rstate \notin {"none", "seek"} /\ ~early =>
        LET first == IF current = 0 THEN 0 ELSE 1
            stream == StreamFrom(first)
        IN  start <= Len(Content(first)) =>
                IsPrefix(delivered \o out, SubSeq(stream, start + 1, Len(stream)))
=============================================================================
