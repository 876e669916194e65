-------------------------- MODULE ServerPartsProofs --------------------------
(***************************************************************************)
(* FilesAgreeWithRows holds for any number of imports, deletions and       *)
(* exports at a time, SchemaIsRecorded for any number of processes and of  *)
(* scripts, SignInStands for any number of calls and of tokens, and        *)
(* UploadsAreOwned for any number of keys, of requests and of imports.     *)
(***************************************************************************)
EXTENDS MediaLibrary, SchemaStart, TokenStore, SingleUpload, TLAPS

\* A recording's import is over, and so is that of a recording somebody deletes.
ImportedFirst ==
    /\ \A i \in recordings : importing[i] = "over"
    /\ \A d \in Removal : removing[d] # NoTask => importing[removing[d].of] = "over"

\* What an import has placed stays until the import goes on.
PlacedStays == \A i \in Import : importing[i] = "placed" => MediaOf(i) \in disk

AtExport == {e \in Export : exporting[e].at \in {"placed", "undo"}}

\* Unless two exports were at a recording, one that is at it is alone, it finds
\* its file when it adds the artifact, and there is no artifact before.
ExportsAlone ==
    \A e \in AtExport : exporting[e].of \notin clashed =>
        /\ exporting[e].of \notin artifactRows
        /\ \A x \in AtExport \ {e} : exporting[x].of # exporting[e].of
        /\ exporting[e].at = "placed" => Result(exporting[e].of) \in disk

MediaInv == RecordingsHaveMedia /\ MediaHasItsRecording /\ ImportedFirst /\ PlacedStays
ExportInv == ExportsHaveFiles /\ ExportsAlone
LibraryInv == LibraryTypeOK /\ MediaInv /\ ExportInv

\* Files of different kinds, and of different recordings, are different files.
LEMMA FilesDiffer ==
    ASSUME NEW i \in Import, NEW j \in Import
    PROVE  /\ MediaOf(i) # Part(j) /\ MediaOf(i) # Result(j) /\ Part(i) # Result(j)
           /\ MediaOf(i) = MediaOf(j) => i = j
           /\ Part(i) = Part(j) => i = j
           /\ Result(i) = Result(j) => i = j
           /\ \A d \in Removal : \A o : <<o, d>> \notin {MediaOf(i), Part(i), Result(i)}
  BY LibraryAssumption DEF MediaOf, Part, Result

\* A deletion that is under way is of a recording.
LEMMA RemovalsAreTyped ==
    ASSUME LibraryTypeOK, NEW d \in Removal
    PROVE  /\ removing[d] = NoTask \/ (removing[d].at \in RemovalAt /\ removing[d].of \in Import)
           /\ removing[d].at \in RemovalAt => removing[d] # NoTask
           /\ NoTask.at = "over" /\ "over" \notin RemovalAt
  BY DEF LibraryTypeOK, NoTask, RemovalAt

\* An empty library.
THEOREM InitLibrary == LibraryInit => LibraryInv
  <1> SUFFICES ASSUME LibraryInit PROVE LibraryInv
    OBVIOUS
  <1>1. LibraryTypeOK
    BY DEF LibraryInit, LibraryTypeOK, ImportAt, RemovalAt, ExportAt, NoTask
  <1>2. MediaInv
    BY DEF LibraryInit, MediaInv, RecordingsHaveMedia, MediaHasItsRecording, ImportedFirst,
           PlacedStays, NoTask
  <1>3. ExportInv
    BY DEF LibraryInit, ExportInv, ExportsHaveFiles, ExportsAlone, AtExport, NoTask
  <1> QED
    BY <1>1, <1>2, <1>3 DEF LibraryInv

\* Every step of an import keeps what is true of media.
LEMMA ImportKeepsMedia ==
    ASSUME LibraryTypeOK, MediaInv, NEW i \in Import,
           \/ CopiesAndHashes(i)
           \/ PlacesMedia(i)
           \/ ImportRejected(i)
           \/ AddsRecording(i)
           \/ AddingFails(i)
           \/ ImportKilled(i)
    PROVE  LibraryTypeOK' /\ MediaInv'
  <1>1. CASE CopiesAndHashes(i)
    <2>1. LibraryTypeOK'
      BY <1>1, FilesDiffer DEF CopiesAndHashes, ImportGoes, rowsOnly, MediaInv, LibraryTypeOK,
                               ImportAt, RemovalAt, NoTask, MediaOf, Part, Staged
    <2>2. RecordingsHaveMedia'
      <3> SUFFICES ASSUME NEW r \in recordings' \ residue'
                   PROVE  \/ MediaOf(r) \in disk'
                          \/ \E x \in Removal : /\ removing'[x].of = r
                                                 /\ removing'[x].at \in {"staged", "undo"}
                                                 /\ Staged(x)' \in disk'
        BY DEF RecordingsHaveMedia
      <3> QED
        BY <1>1, FilesDiffer, RemovalsAreTyped DEF CopiesAndHashes, ImportGoes, rowsOnly,
                                                   MediaInv, LibraryTypeOK, RecordingsHaveMedia,
                                                   Staged, NoTask, ImportedFirst
    <2>3. MediaHasItsRecording'
      BY <1>1, FilesDiffer, LibraryAssumption DEF CopiesAndHashes, ImportGoes, rowsOnly,
                                                  MediaInv, LibraryTypeOK, MediaHasItsRecording,
                                                  Staged, NoTask, MediaOf, Part
    <2>4. ImportedFirst' /\ PlacedStays'
      BY <1>1, FilesDiffer, RemovalsAreTyped DEF CopiesAndHashes, ImportGoes, rowsOnly,
                                                 MediaInv, LibraryTypeOK, ImportedFirst,
                                                 PlacedStays, Staged, NoTask
    <2> QED
      BY <2>1, <2>2, <2>3, <2>4 DEF MediaInv
  <1>2. CASE PlacesMedia(i)
    <2>1. LibraryTypeOK'
      BY <1>2, FilesDiffer DEF PlacesMedia, ImportGoes, rowsOnly, MediaInv, LibraryTypeOK,
                               ImportAt, RemovalAt, NoTask, MediaOf, Part, Staged
    <2>2. RecordingsHaveMedia'
      <3> SUFFICES ASSUME NEW r \in recordings' \ residue'
                   PROVE  \/ MediaOf(r) \in disk'
                          \/ \E x \in Removal : /\ removing'[x].of = r
                                                 /\ removing'[x].at \in {"staged", "undo"}
                                                 /\ Staged(x)' \in disk'
        BY DEF RecordingsHaveMedia
      <3> QED
        BY <1>2, FilesDiffer, RemovalsAreTyped DEF PlacesMedia, ImportGoes, rowsOnly, MediaInv,
                                                   LibraryTypeOK, RecordingsHaveMedia, Staged,
                                                   NoTask, ImportedFirst
    <2>3. MediaHasItsRecording'
      BY <1>2, FilesDiffer, LibraryAssumption DEF PlacesMedia, ImportGoes, rowsOnly, MediaInv,
                                                  LibraryTypeOK, MediaHasItsRecording, Staged,
                                                  NoTask, MediaOf, Part
    <2>4. ImportedFirst' /\ PlacedStays'
      BY <1>2, FilesDiffer, RemovalsAreTyped DEF PlacesMedia, ImportGoes, rowsOnly, MediaInv,
                                                 LibraryTypeOK, ImportedFirst, PlacedStays,
                                                 Staged, NoTask
    <2> QED
      BY <2>1, <2>2, <2>3, <2>4 DEF MediaInv
  <1>3. CASE ImportRejected(i)
    <2>1. LibraryTypeOK'
      BY <1>3, FilesDiffer DEF ImportRejected, ImportGoes, rowsOnly, MediaInv, LibraryTypeOK,
                               ImportAt, RemovalAt, NoTask, MediaOf, Part, Staged
    <2>2. RecordingsHaveMedia'
      <3> SUFFICES ASSUME NEW r \in recordings' \ residue'
                   PROVE  \/ MediaOf(r) \in disk'
                          \/ \E x \in Removal : /\ removing'[x].of = r
                                                 /\ removing'[x].at \in {"staged", "undo"}
                                                 /\ Staged(x)' \in disk'
        BY DEF RecordingsHaveMedia
      <3> QED
        BY <1>3, FilesDiffer, RemovalsAreTyped DEF ImportRejected, ImportGoes, rowsOnly,
                                                   MediaInv, LibraryTypeOK, RecordingsHaveMedia,
                                                   Staged, NoTask, ImportedFirst
    <2>3. MediaHasItsRecording'
      BY <1>3, FilesDiffer, LibraryAssumption DEF ImportRejected, ImportGoes, rowsOnly,
                                                  MediaInv, LibraryTypeOK, MediaHasItsRecording,
                                                  Staged, NoTask, MediaOf, Part
    <2>4. ImportedFirst' /\ PlacedStays'
      BY <1>3, FilesDiffer, RemovalsAreTyped DEF ImportRejected, ImportGoes, rowsOnly, MediaInv,
                                                 LibraryTypeOK, ImportedFirst, PlacedStays,
                                                 Staged, NoTask
    <2> QED
      BY <2>1, <2>2, <2>3, <2>4 DEF MediaInv
  <1>4. CASE AddsRecording(i)
    <2>1. LibraryTypeOK'
      BY <1>4, FilesDiffer DEF AddsRecording, ImportGoes, MediaInv, LibraryTypeOK, ImportAt,
                               RemovalAt, NoTask, MediaOf, Part, Staged
    <2>2. RecordingsHaveMedia'
      <3> SUFFICES ASSUME NEW r \in recordings' \ residue'
                   PROVE  \/ MediaOf(r) \in disk'
                          \/ \E x \in Removal : /\ removing'[x].of = r
                                                 /\ removing'[x].at \in {"staged", "undo"}
                                                 /\ Staged(x)' \in disk'
        BY DEF RecordingsHaveMedia
      <3> QED
        BY <1>4, FilesDiffer DEF AddsRecording, ImportGoes, MediaInv, PlacedStays
    <2>3. MediaHasItsRecording'
      BY <1>4, FilesDiffer, LibraryAssumption DEF AddsRecording, ImportGoes, MediaInv,
                                                  LibraryTypeOK, MediaHasItsRecording, Staged,
                                                  NoTask, MediaOf, Part
    <2>4. ImportedFirst' /\ PlacedStays'
      BY <1>4, FilesDiffer, RemovalsAreTyped DEF AddsRecording, ImportGoes, MediaInv,
                                                 LibraryTypeOK, ImportedFirst, PlacedStays,
                                                 Staged, NoTask
    <2> QED
      BY <2>1, <2>2, <2>3, <2>4 DEF MediaInv
  <1>5. CASE AddingFails(i)
    <2>1. LibraryTypeOK'
      BY <1>5, FilesDiffer DEF AddingFails, ImportGoes, rowsOnly, MediaInv, LibraryTypeOK,
                               ImportAt, RemovalAt, NoTask, MediaOf, Part, Staged
    <2>2. RecordingsHaveMedia'
      <3> SUFFICES ASSUME NEW r \in recordings' \ residue'
                   PROVE  \/ MediaOf(r) \in disk'
                          \/ \E x \in Removal : /\ removing'[x].of = r
                                                 /\ removing'[x].at \in {"staged", "undo"}
                                                 /\ Staged(x)' \in disk'
        BY DEF RecordingsHaveMedia
      <3>1. r \in recordings \ residue
        BY <1>5 DEF AddingFails, rowsOnly, LibraryTypeOK
      <3>2. CASE MediaOf(r) \in disk
        BY <1>5, <3>1, <3>2, FilesDiffer, RemovalsAreTyped DEF AddingFails, ImportGoes,
                                                               rowsOnly, MediaInv,
                                                               LibraryTypeOK, Staged, NoTask,
                                                               ImportedFirst
      <3>3. ASSUME NEW x \in Removal, removing[x].of = r, removing[x].at \in {"staged", "undo"},
                   Staged(x) \in disk
            PROVE  \/ MediaOf(r) \in disk'
                   \/ /\ removing'[x].of = r
                      /\ removing'[x].at \in {"staged", "undo"}
                      /\ Staged(x)' \in disk'
        BY <1>5, <3>1, <3>3, FilesDiffer, RemovalsAreTyped DEF AddingFails, ImportGoes,
                                                               rowsOnly, MediaInv,
                                                               LibraryTypeOK, Staged, NoTask,
                                                               ImportedFirst
      <3> QED
        BY <3>1, <3>2, <3>3 DEF MediaInv, RecordingsHaveMedia
    <2>3. MediaHasItsRecording'
      BY <1>5, FilesDiffer, LibraryAssumption DEF AddingFails, ImportGoes, rowsOnly, MediaInv,
                                                  LibraryTypeOK, MediaHasItsRecording, Staged,
                                                  NoTask, MediaOf, Part
    <2>4. ImportedFirst' /\ PlacedStays'
      BY <1>5, FilesDiffer, RemovalsAreTyped DEF AddingFails, ImportGoes, rowsOnly, MediaInv,
                                                 LibraryTypeOK, ImportedFirst, PlacedStays,
                                                 Staged, NoTask
    <2> QED
      BY <2>1, <2>2, <2>3, <2>4 DEF MediaInv
  <1>6. CASE ImportKilled(i)
    <2>1. LibraryTypeOK'
      BY <1>6, FilesDiffer DEF ImportKilled, ImportGoes, rowsOnly, MediaInv, LibraryTypeOK,
                               ImportAt, RemovalAt, NoTask, MediaOf, Part, Staged
    <2>2. RecordingsHaveMedia'
      <3> SUFFICES ASSUME NEW r \in recordings' \ residue'
                   PROVE  \/ MediaOf(r) \in disk'
                          \/ \E x \in Removal : /\ removing'[x].of = r
                                                 /\ removing'[x].at \in {"staged", "undo"}
                                                 /\ Staged(x)' \in disk'
        BY DEF RecordingsHaveMedia
      <3> QED
        BY <1>6, FilesDiffer, RemovalsAreTyped DEF ImportKilled, ImportGoes, rowsOnly, MediaInv,
                                                   LibraryTypeOK, RecordingsHaveMedia, Staged,
                                                   NoTask, ImportedFirst
    <2>3. MediaHasItsRecording'
      BY <1>6, FilesDiffer, LibraryAssumption DEF ImportKilled, ImportGoes, rowsOnly, MediaInv,
                                                  LibraryTypeOK, MediaHasItsRecording, Staged,
                                                  NoTask, MediaOf, Part
    <2>4. ImportedFirst' /\ PlacedStays'
      BY <1>6, FilesDiffer, RemovalsAreTyped DEF ImportKilled, ImportGoes, rowsOnly, MediaInv,
                                                 LibraryTypeOK, ImportedFirst, PlacedStays,
                                                 Staged, NoTask
    <2> QED
      BY <2>1, <2>2, <2>3, <2>4 DEF MediaInv
  <1> QED
    BY <1>1, <1>2, <1>3, <1>4, <1>5, <1>6

\* Every step of a deletion keeps it.
LEMMA RemovalKeepsMedia ==
    ASSUME LibraryTypeOK, MediaInv, NEW d \in Removal,
           \/ RemovalRefused(d)
           \/ StagesMedia(d)
           \/ CommitsRemoval(d)
           \/ FailsRemoval(d)
           \/ UnlinksStaged(d)
           \/ RestoresMedia(d)
           \/ RemovalKilled(d)
    PROVE  LibraryTypeOK' /\ MediaInv'
  <1>1. CASE RemovalRefused(d)
    <2>1. LibraryTypeOK'
      BY <1>1, FilesDiffer DEF RemovalRefused, RemovalEnds, rowsOnly, MediaInv, LibraryTypeOK,
                               ImportAt, RemovalAt, NoTask, MediaOf, Part, Staged
    <2>2. RecordingsHaveMedia'
      <3> SUFFICES ASSUME NEW r \in recordings' \ residue'
                   PROVE  \/ MediaOf(r) \in disk'
                          \/ \E x \in Removal : /\ removing'[x].of = r
                                                 /\ removing'[x].at \in {"staged", "undo"}
                                                 /\ Staged(x)' \in disk'
        BY DEF RecordingsHaveMedia
      <3> QED
        BY <1>1, FilesDiffer, RemovalsAreTyped DEF RemovalRefused, RemovalEnds, rowsOnly,
                                                   MediaInv, LibraryTypeOK, RecordingsHaveMedia,
                                                   Staged, NoTask, ImportedFirst
    <2>3. MediaHasItsRecording'
      BY <1>1, FilesDiffer, LibraryAssumption DEF RemovalRefused, RemovalEnds, rowsOnly,
                                                  MediaInv, LibraryTypeOK, MediaHasItsRecording,
                                                  Staged, NoTask, MediaOf, Part
    <2>4. ImportedFirst' /\ PlacedStays'
      BY <1>1, FilesDiffer, RemovalsAreTyped DEF RemovalRefused, RemovalEnds, rowsOnly,
                                                 MediaInv, LibraryTypeOK, ImportedFirst,
                                                 PlacedStays, Staged, NoTask
    <2> QED
      BY <2>1, <2>2, <2>3, <2>4 DEF MediaInv
  <1>2. CASE StagesMedia(d)
    <2>1. LibraryTypeOK'
      BY <1>2, FilesDiffer DEF StagesMedia, RemovalGoes, rowsOnly, MediaInv, LibraryTypeOK,
                               ImportAt, RemovalAt, NoTask, MediaOf, Part, Staged
    <2>2. RecordingsHaveMedia'
      <3> SUFFICES ASSUME NEW r \in recordings' \ residue'
                   PROVE  \/ MediaOf(r) \in disk'
                          \/ \E x \in Removal : /\ removing'[x].of = r
                                                 /\ removing'[x].at \in {"staged", "undo"}
                                                 /\ Staged(x)' \in disk'
        BY DEF RecordingsHaveMedia
      <3>1. r \in recordings \ residue
        BY <1>2 DEF StagesMedia, rowsOnly, LibraryTypeOK
      <3>2. CASE MediaOf(r) \in disk
        BY <1>2, <3>1, <3>2, FilesDiffer, RemovalsAreTyped DEF StagesMedia, RemovalGoes,
                                                               rowsOnly, MediaInv,
                                                               LibraryTypeOK, Staged, NoTask,
                                                               ImportedFirst
      <3>3. ASSUME NEW x \in Removal, removing[x].of = r, removing[x].at \in {"staged", "undo"},
                   Staged(x) \in disk
            PROVE  \/ MediaOf(r) \in disk'
                   \/ /\ removing'[x].of = r
                      /\ removing'[x].at \in {"staged", "undo"}
                      /\ Staged(x)' \in disk'
        BY <1>2, <3>1, <3>3, FilesDiffer, RemovalsAreTyped DEF StagesMedia, RemovalGoes,
                                                               rowsOnly, MediaInv,
                                                               LibraryTypeOK, Staged, NoTask,
                                                               ImportedFirst
      <3> QED
        BY <3>1, <3>2, <3>3 DEF MediaInv, RecordingsHaveMedia
    <2>3. MediaHasItsRecording'
      BY <1>2, FilesDiffer, LibraryAssumption DEF StagesMedia, RemovalGoes, rowsOnly, MediaInv,
                                                  LibraryTypeOK, MediaHasItsRecording, Staged,
                                                  NoTask, MediaOf, Part
    <2>4. ImportedFirst' /\ PlacedStays'
      BY <1>2, FilesDiffer, RemovalsAreTyped DEF StagesMedia, RemovalGoes, rowsOnly, MediaInv,
                                                 LibraryTypeOK, ImportedFirst, PlacedStays,
                                                 Staged, NoTask
    <2> QED
      BY <2>1, <2>2, <2>3, <2>4 DEF MediaInv
  <1>3. CASE CommitsRemoval(d)
    <2>1. LibraryTypeOK'
      BY <1>3, FilesDiffer DEF CommitsRemoval, RemovalGoes, MediaInv, LibraryTypeOK, ImportAt,
                               RemovalAt, NoTask, MediaOf, Part, Staged
    <2>2. RecordingsHaveMedia'
      <3> SUFFICES ASSUME NEW r \in recordings' \ residue'
                   PROVE  \/ MediaOf(r) \in disk'
                          \/ \E x \in Removal : /\ removing'[x].of = r
                                                 /\ removing'[x].at \in {"staged", "undo"}
                                                 /\ Staged(x)' \in disk'
        BY DEF RecordingsHaveMedia
      <3> QED
        BY <1>3, FilesDiffer, RemovalsAreTyped DEF CommitsRemoval, RemovalGoes, MediaInv,
                                                   LibraryTypeOK, RecordingsHaveMedia, Staged,
                                                   NoTask, ImportedFirst
    <2>3. MediaHasItsRecording'
      BY <1>3, FilesDiffer, LibraryAssumption DEF CommitsRemoval, RemovalGoes, MediaInv,
                                                  LibraryTypeOK, MediaHasItsRecording, Staged,
                                                  NoTask, MediaOf, Part
    <2>4. ImportedFirst' /\ PlacedStays'
      BY <1>3, FilesDiffer, RemovalsAreTyped DEF CommitsRemoval, RemovalGoes, MediaInv,
                                                 LibraryTypeOK, ImportedFirst, PlacedStays,
                                                 Staged, NoTask
    <2> QED
      BY <2>1, <2>2, <2>3, <2>4 DEF MediaInv
  <1>4. CASE FailsRemoval(d)
    <2>1. LibraryTypeOK'
      BY <1>4, FilesDiffer DEF FailsRemoval, RemovalGoes, rowsOnly, MediaInv, LibraryTypeOK,
                               ImportAt, RemovalAt, NoTask, MediaOf, Part, Staged
    <2>2. RecordingsHaveMedia'
      <3> SUFFICES ASSUME NEW r \in recordings' \ residue'
                   PROVE  \/ MediaOf(r) \in disk'
                          \/ \E x \in Removal : /\ removing'[x].of = r
                                                 /\ removing'[x].at \in {"staged", "undo"}
                                                 /\ Staged(x)' \in disk'
        BY DEF RecordingsHaveMedia
      <3>1. r \in recordings \ residue
        BY <1>4 DEF FailsRemoval, rowsOnly, LibraryTypeOK
      <3>2. CASE MediaOf(r) \in disk
        BY <1>4, <3>1, <3>2, FilesDiffer, RemovalsAreTyped DEF FailsRemoval, RemovalGoes,
                                                               rowsOnly, MediaInv,
                                                               LibraryTypeOK, Staged, NoTask,
                                                               ImportedFirst
      <3>3. ASSUME NEW x \in Removal, removing[x].of = r, removing[x].at \in {"staged", "undo"},
                   Staged(x) \in disk
            PROVE  \/ MediaOf(r) \in disk'
                   \/ /\ removing'[x].of = r
                      /\ removing'[x].at \in {"staged", "undo"}
                      /\ Staged(x)' \in disk'
        BY <1>4, <3>1, <3>3, FilesDiffer, RemovalsAreTyped DEF FailsRemoval, RemovalGoes,
                                                               rowsOnly, MediaInv,
                                                               LibraryTypeOK, Staged, NoTask,
                                                               ImportedFirst
      <3> QED
        BY <3>1, <3>2, <3>3 DEF MediaInv, RecordingsHaveMedia
    <2>3. MediaHasItsRecording'
      BY <1>4, FilesDiffer, LibraryAssumption DEF FailsRemoval, RemovalGoes, rowsOnly, MediaInv,
                                                  LibraryTypeOK, MediaHasItsRecording, Staged,
                                                  NoTask, MediaOf, Part
    <2>4. ImportedFirst' /\ PlacedStays'
      BY <1>4, FilesDiffer, RemovalsAreTyped DEF FailsRemoval, RemovalGoes, rowsOnly, MediaInv,
                                                 LibraryTypeOK, ImportedFirst, PlacedStays,
                                                 Staged, NoTask
    <2> QED
      BY <2>1, <2>2, <2>3, <2>4 DEF MediaInv
  <1>5. CASE UnlinksStaged(d)
    <2>1. LibraryTypeOK'
      BY <1>5, FilesDiffer DEF UnlinksStaged, RemovalEnds, rowsOnly, MediaInv, LibraryTypeOK,
                               ImportAt, RemovalAt, NoTask, MediaOf, Part, Staged
    <2>2. RecordingsHaveMedia'
      <3> SUFFICES ASSUME NEW r \in recordings' \ residue'
                   PROVE  \/ MediaOf(r) \in disk'
                          \/ \E x \in Removal : /\ removing'[x].of = r
                                                 /\ removing'[x].at \in {"staged", "undo"}
                                                 /\ Staged(x)' \in disk'
        BY DEF RecordingsHaveMedia
      <3>1. r \in recordings \ residue
        BY <1>5 DEF UnlinksStaged, rowsOnly, LibraryTypeOK
      <3>2. CASE MediaOf(r) \in disk
        BY <1>5, <3>1, <3>2, FilesDiffer, RemovalsAreTyped DEF UnlinksStaged, RemovalEnds,
                                                               rowsOnly, MediaInv,
                                                               LibraryTypeOK, Staged, NoTask,
                                                               ImportedFirst
      <3>3. ASSUME NEW x \in Removal, removing[x].of = r, removing[x].at \in {"staged", "undo"},
                   Staged(x) \in disk
            PROVE  \/ MediaOf(r) \in disk'
                   \/ /\ removing'[x].of = r
                      /\ removing'[x].at \in {"staged", "undo"}
                      /\ Staged(x)' \in disk'
        BY <1>5, <3>1, <3>3, FilesDiffer, RemovalsAreTyped DEF UnlinksStaged, RemovalEnds,
                                                               rowsOnly, MediaInv,
                                                               LibraryTypeOK, Staged, NoTask,
                                                               ImportedFirst
      <3> QED
        BY <3>1, <3>2, <3>3 DEF MediaInv, RecordingsHaveMedia
    <2>3. MediaHasItsRecording'
      BY <1>5, FilesDiffer, LibraryAssumption DEF UnlinksStaged, RemovalEnds, rowsOnly,
                                                  MediaInv, LibraryTypeOK, MediaHasItsRecording,
                                                  Staged, NoTask, MediaOf, Part
    <2>4. ImportedFirst' /\ PlacedStays'
      BY <1>5, FilesDiffer, RemovalsAreTyped DEF UnlinksStaged, RemovalEnds, rowsOnly, MediaInv,
                                                 LibraryTypeOK, ImportedFirst, PlacedStays,
                                                 Staged, NoTask
    <2> QED
      BY <2>1, <2>2, <2>3, <2>4 DEF MediaInv
  <1>6. CASE RestoresMedia(d)
    <2>1. LibraryTypeOK'
      BY <1>6, FilesDiffer DEF RestoresMedia, RemovalEnds, rowsOnly, MediaInv, LibraryTypeOK,
                               ImportAt, RemovalAt, NoTask, MediaOf, Part, Staged
    <2>2. RecordingsHaveMedia'
      <3> SUFFICES ASSUME NEW r \in recordings' \ residue'
                   PROVE  \/ MediaOf(r) \in disk'
                          \/ \E x \in Removal : /\ removing'[x].of = r
                                                 /\ removing'[x].at \in {"staged", "undo"}
                                                 /\ Staged(x)' \in disk'
        BY DEF RecordingsHaveMedia
      <3>1. r \in recordings \ residue
        BY <1>6 DEF RestoresMedia, rowsOnly, LibraryTypeOK
      <3>2. CASE MediaOf(r) \in disk
        BY <1>6, <3>1, <3>2, FilesDiffer, RemovalsAreTyped DEF RestoresMedia, RemovalEnds,
                                                               rowsOnly, MediaInv,
                                                               LibraryTypeOK, Staged, NoTask,
                                                               ImportedFirst
      <3>3. ASSUME NEW x \in Removal, removing[x].of = r, removing[x].at \in {"staged", "undo"},
                   Staged(x) \in disk
            PROVE  \/ MediaOf(r) \in disk'
                   \/ /\ removing'[x].of = r
                      /\ removing'[x].at \in {"staged", "undo"}
                      /\ Staged(x)' \in disk'
        BY <1>6, <3>1, <3>3, FilesDiffer, RemovalsAreTyped DEF RestoresMedia, RemovalEnds,
                                                               rowsOnly, MediaInv,
                                                               LibraryTypeOK, Staged, NoTask,
                                                               ImportedFirst
      <3> QED
        BY <3>1, <3>2, <3>3 DEF MediaInv, RecordingsHaveMedia
    <2>3. MediaHasItsRecording'
      BY <1>6, FilesDiffer, LibraryAssumption DEF RestoresMedia, RemovalEnds, rowsOnly,
                                                  MediaInv, LibraryTypeOK, MediaHasItsRecording,
                                                  Staged, NoTask, MediaOf, Part
    <2>4. ImportedFirst' /\ PlacedStays'
      BY <1>6, FilesDiffer, RemovalsAreTyped DEF RestoresMedia, RemovalEnds, rowsOnly, MediaInv,
                                                 LibraryTypeOK, ImportedFirst, PlacedStays,
                                                 Staged, NoTask
    <2> QED
      BY <2>1, <2>2, <2>3, <2>4 DEF MediaInv
  <1>7. CASE RemovalKilled(d)
    <2>1. LibraryTypeOK'
      BY <1>7, FilesDiffer DEF RemovalKilled, RemovalEnds, rowsOnly, MediaInv, LibraryTypeOK,
                               ImportAt, RemovalAt, NoTask, MediaOf, Part, Staged
    <2>2. RecordingsHaveMedia'
      <3> SUFFICES ASSUME NEW r \in recordings' \ residue'
                   PROVE  \/ MediaOf(r) \in disk'
                          \/ \E x \in Removal : /\ removing'[x].of = r
                                                 /\ removing'[x].at \in {"staged", "undo"}
                                                 /\ Staged(x)' \in disk'
        BY DEF RecordingsHaveMedia
      <3> QED
        BY <1>7, FilesDiffer, RemovalsAreTyped DEF RemovalKilled, RemovalEnds, rowsOnly,
                                                   MediaInv, LibraryTypeOK, RecordingsHaveMedia,
                                                   Staged, NoTask, ImportedFirst
    <2>3. MediaHasItsRecording'
      BY <1>7, FilesDiffer, LibraryAssumption DEF RemovalKilled, RemovalEnds, rowsOnly,
                                                  MediaInv, LibraryTypeOK, MediaHasItsRecording,
                                                  Staged, NoTask, MediaOf, Part
    <2>4. ImportedFirst' /\ PlacedStays'
      BY <1>7, FilesDiffer, RemovalsAreTyped DEF RemovalKilled, RemovalEnds, rowsOnly, MediaInv,
                                                 LibraryTypeOK, ImportedFirst, PlacedStays,
                                                 Staged, NoTask
    <2> QED
      BY <2>1, <2>2, <2>3, <2>4 DEF MediaInv
  <1> QED
    BY <1>1, <1>2, <1>3, <1>4, <1>5, <1>6, <1>7

\* What imports and deletions do leaves the files of exports alone.
LEMMA MediaStepsKeepExports ==
    ASSUME LibraryTypeOK, ExportInv, UNCHANGED <<exporting, clashed>>,
           artifactRows' \subseteq artifactRows,
           \A i \in Import : Result(i) \in disk => Result(i) \in disk'
    PROVE  ExportInv'
  <1>1. AtExport' = AtExport
    BY DEF AtExport
  <1>2. ExportsHaveFiles'
    BY DEF ExportInv, ExportsHaveFiles, LibraryTypeOK, Result
  <1>3. \A e \in AtExport : exporting[e].of \in Import
    BY DEF AtExport, LibraryTypeOK, NoTask
  <1>4. ExportsAlone'
    BY <1>1, <1>3 DEF ExportInv, ExportsAlone, Result
  <1> QED
    BY <1>2, <1>4 DEF ExportInv

\* So no step of an import,
LEMMA ImportKeepsExports ==
    ASSUME LibraryTypeOK, ExportInv, NEW i \in Import,
           \/ CopiesAndHashes(i)
           \/ PlacesMedia(i)
           \/ ImportRejected(i)
           \/ AddsRecording(i)
           \/ AddingFails(i)
           \/ ImportKilled(i)
    PROVE  ExportInv'
  BY FilesDiffer, MediaStepsKeepExports DEF CopiesAndHashes, PlacesMedia, ImportRejected,
                                            AddsRecording, AddingFails, ImportKilled,
                                            ImportGoes, rowsOnly

\* and no step of a deletion, changes what is true of exports.
LEMMA RemovalKeepsExports ==
    ASSUME LibraryTypeOK, ExportInv, NEW d \in Removal,
           \/ RemovalRefused(d)
           \/ StagesMedia(d)
           \/ CommitsRemoval(d)
           \/ FailsRemoval(d)
           \/ UnlinksStaged(d)
           \/ RestoresMedia(d)
           \/ RemovalKilled(d)
    PROVE  ExportInv'
  BY FilesDiffer, RemovalsAreTyped, MediaStepsKeepExports DEF RemovalRefused, StagesMedia,
                                                              CommitsRemoval, FailsRemoval,
                                                              UnlinksStaged, RestoresMedia,
                                                              RemovalKilled, RemovalGoes,
                                                              RemovalEnds, rowsOnly, Staged

\* What exports do leaves media alone.
LEMMA ExportStepsKeepMedia ==
    ASSUME LibraryTypeOK, MediaInv, UNCHANGED <<recordings, importing, removing, residue>>,
           NEW i \in Import, disk' \in {disk, disk \cup {Result(i)}, disk \ {Result(i)}}
    PROVE  MediaInv'
  <1>1. RecordingsHaveMedia'
    <2>1. \A r \in Import : MediaOf(r) \in disk => MediaOf(r) \in disk'
      BY FilesDiffer
    <2>2. \A x \in Removal : Staged(x)' = Staged(x) /\ (Staged(x) \in disk => Staged(x) \in disk')
      BY FilesDiffer DEF Staged
    <2>3. recordings \subseteq Import
      BY DEF LibraryTypeOK
    <2> QED
      BY <2>1, <2>2, <2>3 DEF MediaInv, RecordingsHaveMedia
  <1>2. MediaHasItsRecording'
    BY DEF MediaInv, MediaHasItsRecording, Result
  <1>3. ImportedFirst' /\ PlacedStays'
    BY FilesDiffer DEF MediaInv, ImportedFirst, PlacedStays, MediaOf
  <1> QED
    BY <1>1, <1>2, <1>3 DEF MediaInv

\* An export that is under way is of a recording.
LEMMA ExportsAreTyped ==
    ASSUME LibraryTypeOK, NEW e \in Export
    PROVE  /\ exporting[e] = NoTask \/ (exporting[e].at \in ExportAt /\ exporting[e].of \in Import)
           /\ exporting[e].at \in ExportAt => exporting[e] # NoTask
           /\ NoTask.at = "over" /\ "over" \notin ExportAt
  BY DEF LibraryTypeOK, NoTask, ExportAt

\* Every step of an export keeps what is true of exports.
LEMMA ExportKeepsExports ==
    ASSUME LibraryTypeOK, ExportInv, NEW e \in Export,
           \/ PlacesExport(e)
           \/ AddsArtifact(e)
           \/ AddingArtifactFails(e)
           \/ WithdrawsExport(e)
           \/ ExportRefused(e)
           \/ ExportKilled(e)
    PROVE  LibraryTypeOK' /\ ExportInv'
  <1>1. CASE PlacesExport(e)
    <2>1. LibraryTypeOK'
      BY <1>1, ExportsAreTyped DEF PlacesExport, ExportGoes, rowsOnly, LibraryTypeOK, ExportAt,
                                   NoTask, Result
    <2>2. ExportsHaveFiles'
      BY <1>1, ExportsAreTyped, FilesDiffer DEF PlacesExport, ExportGoes, rowsOnly,
                                                LibraryTypeOK, ExportInv, ExportsHaveFiles,
                                                ExportsAlone, AtExport, ExportAt
    <2>3. ExportsAlone'
      BY <1>1, ExportsAreTyped, FilesDiffer DEF PlacesExport, ExportGoes, rowsOnly,
                                                LibraryTypeOK, ExportInv, ExportsAlone,
                                                AtExport, ExportAt, Others
    <2> QED
      BY <2>1, <2>2, <2>3 DEF ExportInv
  <1>2. CASE AddsArtifact(e)
    <2>1. LibraryTypeOK'
      BY <1>2, ExportsAreTyped DEF AddsArtifact, ExportEnds, LibraryTypeOK, ExportAt, NoTask,
                                   Result
    <2>2. ExportsHaveFiles'
      BY <1>2, ExportsAreTyped, FilesDiffer DEF AddsArtifact, ExportEnds, LibraryTypeOK,
                                                ExportInv, ExportsHaveFiles, ExportsAlone,
                                                AtExport, ExportAt
    <2>3. ExportsAlone'
      BY <1>2, ExportsAreTyped, FilesDiffer DEF AddsArtifact, ExportEnds, LibraryTypeOK,
                                                ExportInv, ExportsAlone, AtExport, ExportAt,
                                                Others
    <2> QED
      BY <2>1, <2>2, <2>3 DEF ExportInv
  <1>3. CASE AddingArtifactFails(e)
    <2>1. LibraryTypeOK'
      BY <1>3, ExportsAreTyped DEF AddingArtifactFails, ExportGoes, rowsOnly, LibraryTypeOK,
                                   ExportAt, NoTask, Result
    <2>2. ExportsHaveFiles'
      BY <1>3, ExportsAreTyped, FilesDiffer DEF AddingArtifactFails, ExportGoes, rowsOnly,
                                                LibraryTypeOK, ExportInv, ExportsHaveFiles,
                                                ExportsAlone, AtExport, ExportAt
    <2>3. ExportsAlone'
      BY <1>3, ExportsAreTyped, FilesDiffer DEF AddingArtifactFails, ExportGoes, rowsOnly,
                                                LibraryTypeOK, ExportInv, ExportsAlone,
                                                AtExport, ExportAt, Others
    <2> QED
      BY <2>1, <2>2, <2>3 DEF ExportInv
  <1>4. CASE WithdrawsExport(e)
    <2>1. LibraryTypeOK'
      BY <1>4, ExportsAreTyped DEF WithdrawsExport, ExportEnds, rowsOnly, LibraryTypeOK,
                                   ExportAt, NoTask, Result
    <2>2. ExportsHaveFiles'
      BY <1>4, ExportsAreTyped, FilesDiffer DEF WithdrawsExport, ExportEnds, rowsOnly,
                                                LibraryTypeOK, ExportInv, ExportsHaveFiles,
                                                ExportsAlone, AtExport, ExportAt
    <2>3. ExportsAlone'
      BY <1>4, ExportsAreTyped, FilesDiffer DEF WithdrawsExport, ExportEnds, rowsOnly,
                                                LibraryTypeOK, ExportInv, ExportsAlone,
                                                AtExport, ExportAt, Others
    <2> QED
      BY <2>1, <2>2, <2>3 DEF ExportInv
  <1>5. CASE ExportRefused(e)
    <2>1. LibraryTypeOK'
      BY <1>5, ExportsAreTyped DEF ExportRefused, ExportEnds, rowsOnly, LibraryTypeOK, ExportAt,
                                   NoTask, Result
    <2>2. ExportsHaveFiles'
      BY <1>5, ExportsAreTyped, FilesDiffer DEF ExportRefused, ExportEnds, rowsOnly,
                                                LibraryTypeOK, ExportInv, ExportsHaveFiles,
                                                ExportsAlone, AtExport, ExportAt
    <2>3. ExportsAlone'
      BY <1>5, ExportsAreTyped, FilesDiffer DEF ExportRefused, ExportEnds, rowsOnly,
                                                LibraryTypeOK, ExportInv, ExportsAlone,
                                                AtExport, ExportAt, Others
    <2> QED
      BY <2>1, <2>2, <2>3 DEF ExportInv
  <1>6. CASE ExportKilled(e)
    <2>1. LibraryTypeOK'
      BY <1>6, ExportsAreTyped DEF ExportKilled, ExportEnds, rowsOnly, LibraryTypeOK, ExportAt,
                                   NoTask, Result
    <2>2. ExportsHaveFiles'
      BY <1>6, ExportsAreTyped, FilesDiffer DEF ExportKilled, ExportEnds, rowsOnly,
                                                LibraryTypeOK, ExportInv, ExportsHaveFiles,
                                                ExportsAlone, AtExport, ExportAt
    <2>3. ExportsAlone'
      BY <1>6, ExportsAreTyped, FilesDiffer DEF ExportKilled, ExportEnds, rowsOnly,
                                                LibraryTypeOK, ExportInv, ExportsAlone,
                                                AtExport, ExportAt, Others
    <2> QED
      BY <2>1, <2>2, <2>3 DEF ExportInv
  <1> QED
    BY <1>1, <1>2, <1>3, <1>4, <1>5, <1>6

\* So no step of an export changes what is true of media.
LEMMA ExportKeepsMedia ==
    ASSUME LibraryTypeOK, MediaInv, NEW e \in Export,
           \/ PlacesExport(e)
           \/ AddsArtifact(e)
           \/ AddingArtifactFails(e)
           \/ WithdrawsExport(e)
           \/ ExportRefused(e)
           \/ ExportKilled(e)
    PROVE  MediaInv'
  BY ExportsAreTyped, ExportStepsKeepMedia DEF PlacesExport, AddsArtifact, AddingArtifactFails,
                                               WithdrawsExport, ExportRefused, ExportKilled,
                                               ExportGoes, ExportEnds, rowsOnly, ExportAt

\* Whatever is called, fails or is killed, in whichever order, keeps LibraryInv.
THEOREM NextLibrary == LibraryInv /\ [LibraryNext]_libraryVars => LibraryInv'
  <1> SUFFICES ASSUME LibraryInv, [LibraryNext]_libraryVars PROVE LibraryInv'
    OBVIOUS
  <1>t. LibraryTypeOK /\ MediaInv /\ ExportInv
    BY DEF LibraryInv
  <1>1. ASSUME NEW i \in Import,
               \/ CopiesAndHashes(i) \/ PlacesMedia(i) \/ ImportRejected(i)
               \/ AddsRecording(i) \/ AddingFails(i) \/ ImportKilled(i)
        PROVE  LibraryInv'
    BY <1>t, <1>1, ImportKeepsMedia, ImportKeepsExports DEF LibraryInv
  <1>2. ASSUME NEW i \in Import, WritesAgain(i) PROVE LibraryInv'
    <2>1. LibraryTypeOK'
      BY <1>t, <1>2 DEF WritesAgain, rowsOnly, callsUnderWay, LibraryTypeOK, Result
    <2>2. MediaInv'
      BY <1>t, <1>2, ExportStepsKeepMedia DEF WritesAgain, rowsOnly, callsUnderWay
    <2>3. ExportInv'
      BY <1>t, <1>2, MediaStepsKeepExports DEF WritesAgain, rowsOnly, callsUnderWay
    <2> QED
      BY <2>1, <2>2, <2>3 DEF LibraryInv
  <1>3. ASSUME NEW d \in Removal,
               \/ RemovalRefused(d) \/ StagesMedia(d) \/ CommitsRemoval(d) \/ FailsRemoval(d)
               \/ UnlinksStaged(d) \/ RestoresMedia(d) \/ RemovalKilled(d)
        PROVE  LibraryInv'
    BY <1>t, <1>3, RemovalKeepsMedia, RemovalKeepsExports DEF LibraryInv
  <1>4. ASSUME NEW d \in Removal, NEW i \in Import, FindsRecording(d, i) PROVE LibraryInv'
    <2>1. LibraryTypeOK'
      BY <1>t, <1>4 DEF FindsRecording, rowsOnly, LibraryTypeOK, RemovalAt
    <2>2. ImportedFirst' /\ PlacedStays'
      BY <1>t, <1>4 DEF FindsRecording, rowsOnly, LibraryTypeOK, MediaInv, ImportedFirst,
                        PlacedStays
    <2>3. \A x \in Removal : removing[x].at \in RemovalAt =>
             x # d /\ removing'[x] = removing[x] /\ Staged(x)' = Staged(x)
      BY <1>t, <1>4, RemovalsAreTyped DEF FindsRecording, LibraryTypeOK, Staged
    <2>4. RecordingsHaveMedia'
      BY <1>t, <1>4, <2>3 DEF FindsRecording, rowsOnly, MediaInv, RecordingsHaveMedia, RemovalAt
    <2>5. MediaHasItsRecording'
      BY <1>t, <1>4, <2>3 DEF FindsRecording, rowsOnly, MediaInv, MediaHasItsRecording,
                              RemovalAt
    <2>6. ExportInv'
      BY <1>t, <1>4, MediaStepsKeepExports DEF FindsRecording, rowsOnly
    <2> QED
      BY <2>1, <2>2, <2>4, <2>5, <2>6 DEF LibraryInv, MediaInv
  <1>5. ASSUME NEW e \in Export,
               \/ PlacesExport(e) \/ AddsArtifact(e) \/ AddingArtifactFails(e)
               \/ WithdrawsExport(e) \/ ExportRefused(e) \/ ExportKilled(e)
        PROVE  LibraryInv'
    BY <1>t, <1>5, ExportKeepsMedia, ExportKeepsExports DEF LibraryInv
  <1>6. ASSUME NEW e \in Export, NEW i \in Import, WantsExport(e, i) PROVE LibraryInv'
    <2>1. LibraryTypeOK'
      BY <1>t, <1>6 DEF WantsExport, rowsOnly, LibraryTypeOK, ExportAt
    <2>2. MediaInv'
      BY <1>t, <1>6, ExportStepsKeepMedia DEF WantsExport, rowsOnly
    <2>3. AtExport' = AtExport /\ \A x \in AtExport : exporting'[x] = exporting[x]
      BY <1>t, <1>6, ExportsAreTyped DEF WantsExport, AtExport, LibraryTypeOK
    <2>4. ExportInv'
      BY <1>t, <1>6, <2>3 DEF WantsExport, rowsOnly, ExportInv, ExportsHaveFiles, ExportsAlone
    <2> QED
      BY <2>1, <2>2, <2>4 DEF LibraryInv
  <1>7. CASE UNCHANGED libraryVars
    <2>1. LibraryTypeOK'
      BY <1>t, <1>7 DEF libraryVars, LibraryTypeOK
    <2>2. MediaInv'
      BY <1>t, <1>7 DEF libraryVars, MediaInv, RecordingsHaveMedia, MediaHasItsRecording,
                        ImportedFirst, PlacedStays, Staged
    <2>3. ExportInv'
      BY <1>t, <1>7, MediaStepsKeepExports DEF libraryVars
    <2> QED
      BY <2>1, <2>2, <2>3 DEF LibraryInv
  <1> QED
    BY <1>1, <1>2, <1>3, <1>4, <1>5, <1>6, <1>7 DEF LibraryNext

\* FilesAgreeWithRows holds in every state, for any number of calls: whichever
\* step of an import, a deletion or an export fails or is the last one before
\* the process is killed.
THEOREM LibraryFilesAgree == LibrarySpec => [](LibraryTypeOK /\ FilesAgreeWithRows)
  <1>1. LibraryInv => LibraryTypeOK /\ FilesAgreeWithRows
    BY DEF LibraryInv, MediaInv, ExportInv, FilesAgreeWithRows
  <1> QED
    BY <1>1, InitLibrary, NextLibrary, PTL DEF LibrarySpec

-----------------------------------------------------------------------------
(* The schema.                                                             *)

\* On a database that was there before, the scripts that are left are those
\* that add columns, so that each of them runs once.
SchemaInv ==
    /\ SchemaTypeOK /\ version <= level
    /\ ~empty => /\ version = level /\ version >= 1
                 /\ \A p \in Process : starts[p].at = "migrates" => starts[p].next >= 2

\* With or without a database.
THEOREM InitSchema == SchemaInit => SchemaInv
  <1> SUFFICES ASSUME SchemaInit PROVE SchemaInv
    OBVIOUS
  <1>1. /\ version \in 0 .. Newest /\ level \in 0 .. Newest /\ version <= level
        /\ version # 0 => version = level /\ version >= 1
    BY NewestAssumption DEF SchemaInit
  <1>2. empty \in BOOLEAN /\ (~empty => version # 0)
    BY Zenon DEF SchemaInit
  <1>3. /\ starts \in [Process -> StartType]
        /\ \A p \in Process : starts[p].at # "migrates"
    BY NewestAssumption DEF SchemaInit, StartType, Down
  <1> QED
    BY <1>1, <1>2, <1>3 DEF SchemaInv, SchemaTypeOK

\* However the processes start, fail and are killed, they keep SchemaInv.
THEOREM NextSchema == SchemaInv /\ [SchemaNext]_schemaVars => SchemaInv'
  <1> SUFFICES ASSUME SchemaInv, [SchemaNext]_schemaVars PROVE SchemaInv'
    OBVIOUS
  <1>1. ASSUME NEW p \in Process, ReadsVersion(p) PROVE SchemaInv'
    BY <1>1, NewestAssumption DEF SchemaInv, SchemaTypeOK, StartType, ReadsVersion, Turn
  <1>2. ASSUME NEW p \in Process, RunsScript(p) PROVE SchemaInv'
    BY <1>2, NewestAssumption DEF SchemaInv, SchemaTypeOK, StartType, RunsScript, CanRun,
                                  AfterScript, Turn
  <1>3. ASSUME NEW p \in Process, ScriptFails(p) \/ IsUp(p) \/ EndsProcess(p) PROVE SchemaInv'
    BY <1>3, NewestAssumption DEF SchemaInv, SchemaTypeOK, StartType, ScriptFails, IsUp,
                                  EndsProcess, Turn, Down
  <1>4. CASE UNCHANGED schemaVars
    BY <1>4 DEF schemaVars, SchemaInv, SchemaTypeOK
  <1> QED
    BY <1>1, <1>2, <1>3, <1>4 DEF SchemaNext

\* SchemaIsRecorded holds for any number of processes and of scripts: a database
\* that was there keeps the version of its schema, and on a new one user_version
\* never claims too much.
THEOREM SchemaStaysRecorded == SchemaSpec => []SchemaIsRecorded
  <1>1. SchemaInv => SchemaIsRecorded
    BY DEF SchemaInv, SchemaIsRecorded
  <1> QED
    BY <1>1, InitSchema, NextSchema, PTL DEF SchemaSpec

-----------------------------------------------------------------------------
(* The tokens of the ChatGPT account.                                      *)

\* Unless something is excused, one refresh is under way at a time: it has the
\* token that is on file, which the provider accepts until it gives a new one.
OneRefreshes ==
    ~excused => \A c \in Call : Refreshing(c) =>
        /\ wanted /\ onFile # 0 /\ tokenCalls[c].old = onFile
        /\ \A d \in Call \ {c} : ~Refreshing(d)
        /\ tokenCalls[c].at = "asks" => onFile \in accepted
        /\ tokenCalls[c].at = "answered" =>
              NewRefreshToken(tokenCalls[c].old, tokenCalls[c].new) \in accepted
        /\ tokenCalls[c].at # "refused"

TokensInv == TokensTypeOK /\ OneRefreshes /\ SignInStands

\* Nobody has signed in.
THEOREM InitTokens == TokensInit => TokensInv
  <1> SUFFICES ASSUME TokensInit PROVE TokensInv
    OBVIOUS
  <1>1. TokensTypeOK
    <2>1. onFile \in {0} \cup Issue /\ accepted \subseteq Issue /\ issued \in 0 .. MaxTokens
      BY TokensAssumption DEF TokensInit, NoCall
    <2>2. accessExpired \in BOOLEAN /\ wanted \in BOOLEAN /\ excused \in BOOLEAN
      BY DEF TokensInit, NoCall
    <2> QED
      BY <2>1, <2>2 DEF TokensInit, TokensTypeOK, NoCall
  <1>2. OneRefreshes
    BY DEF TokensInit, NoCall, OneRefreshes, Refreshing
  <1>3. SignInStands
    BY DEF TokensInit, SignInStands, NoCall
  <1> QED
    BY <1>1, <1>2, <1>3 DEF TokensInv

\* Every answer, refusal and interruption, and what the user does, keeps it.
THEOREM NextTokens == TokensInv /\ [TokensNext]_tokenVars => TokensInv'
  <1> SUFFICES ASSUME TokensInv, [TokensNext]_tokenVars PROVE TokensInv'
    OBVIOUS
  <1> USE TokensAssumption
  <1>t. TokensTypeOK /\ OneRefreshes /\ SignInStands
    BY DEF TokensInv
  <1>1. ASSUME NEW c \in Call, SignsIn(c) PROVE TokensInv'
    <2>1. TokensTypeOK'
      BY <1>1, <1>t DEF SignsIn, file, provider, sinceThen, CallGoes, TokensTypeOK, Issue
    <2>2. OneRefreshes'
      BY <1>1, <1>t DEF SignsIn, file, provider, sinceThen, CallGoes, TokensTypeOK,
                        OneRefreshes, SignInStands, Refreshing, RefreshUnderWay, NewRefreshToken
    <2>3. SignInStands'
      BY <1>1, <1>t DEF SignsIn, file, provider, sinceThen, CallGoes, TokensTypeOK,
                        OneRefreshes, SignInStands, Refreshing, RefreshUnderWay, NewRefreshToken
    <2> QED
      BY <2>1, <2>2, <2>3 DEF TokensInv
  <1>2. ASSUME NEW c \in Call, IsGranted(c) PROVE TokensInv'
    <2>1. TokensTypeOK'
      BY <1>2, <1>t DEF IsGranted, file, sinceThen, CallGoes, TokensTypeOK, Issue
    <2>2. OneRefreshes'
      BY <1>2, <1>t DEF IsGranted, file, sinceThen, CallGoes, TokensTypeOK, OneRefreshes,
                        SignInStands, Refreshing, RefreshUnderWay, NewRefreshToken
    <2>3. SignInStands'
      BY <1>2, <1>t DEF IsGranted, file, sinceThen, CallGoes, TokensTypeOK, OneRefreshes,
                        SignInStands, Refreshing, RefreshUnderWay, NewRefreshToken
    <2> QED
      BY <2>1, <2>2, <2>3 DEF TokensInv
  <1>3. ASSUME NEW c \in Call, SavesSignIn(c) PROVE TokensInv'
    <2>1. TokensTypeOK'
      BY <1>3, <1>t DEF SavesSignIn, provider, CallEnds, TokensTypeOK, Issue, NoCall
    <2>2. OneRefreshes'
      BY <1>3, <1>t DEF SavesSignIn, provider, CallEnds, TokensTypeOK, OneRefreshes,
                        SignInStands, Refreshing, RefreshUnderWay, NewRefreshToken, NoCall
    <2>3. SignInStands'
      <3>1. onFile' = tokenCalls[c].new /\ accepted' = accepted
        BY <1>3 DEF SavesSignIn, provider
      <3>2. wanted' /\ (~excused' => tokenCalls[c].new \in accepted)
        BY <1>3, Zenon DEF SavesSignIn
      <3>3. 0 \notin accepted
        BY <1>t DEF TokensTypeOK, Issue
      <3> QED
        BY <3>1, <3>2, <3>3 DEF SignInStands
    <2> QED
      BY <2>1, <2>2, <2>3 DEF TokensInv
  <1>4. ASSUME NEW c \in Call, FindsExpired(c) PROVE TokensInv'
    <2>1. TokensTypeOK'
      BY <1>4, <1>t DEF FindsExpired, file, provider, sinceThen, CallGoes, TokensTypeOK, Issue
    <2>2. OneRefreshes'
      BY <1>4, <1>t DEF FindsExpired, file, provider, sinceThen, CallGoes, TokensTypeOK,
                        OneRefreshes, SignInStands, Refreshing, RefreshUnderWay, NewRefreshToken
    <2>3. SignInStands'
      BY <1>4, <1>t DEF FindsExpired, file, provider, sinceThen, CallGoes, TokensTypeOK,
                        OneRefreshes, SignInStands, Refreshing, RefreshUnderWay, NewRefreshToken
    <2> QED
      BY <2>1, <2>2, <2>3 DEF TokensInv
  <1>5. ASSUME NEW c \in Call, LoadsAgain(c) PROVE TokensInv'
    <2>1. TokensTypeOK'
      <3>1. excused' \in BOOLEAN
        BY <1>5, <1>t, Zenon DEF LoadsAgain, TokensTypeOK
      <3>2. UNCHANGED <<onFile, accessExpired, accepted, issued, wanted>>
        BY <1>5 DEF LoadsAgain, file, provider
      <3>3. \/ tokenCalls' = [tokenCalls EXCEPT ![c] = NoCall]
            \/ tokenCalls' = [tokenCalls EXCEPT ![c] = [at |-> "asks", old |-> onFile, new |-> 0]]
        BY <1>5 DEF LoadsAgain, CallEnds, CallGoes, NoCall
      <3> QED
        BY <1>t, <3>1, <3>2, <3>3 DEF TokensTypeOK, NoCall
    <2>2. OneRefreshes'
      BY <1>5, <1>t DEF LoadsAgain, file, provider, CallGoes, CallEnds, TokensTypeOK,
                        OneRefreshes, SignInStands, Refreshing, RefreshUnderWay,
                        NewRefreshToken, NoCall
    <2>3. SignInStands'
      BY <1>5, <1>t DEF LoadsAgain, file, provider, CallGoes, CallEnds, TokensTypeOK,
                        OneRefreshes, SignInStands, Refreshing, RefreshUnderWay,
                        NewRefreshToken, NoCall
    <2> QED
      BY <2>1, <2>2, <2>3 DEF TokensInv
  <1>6. ASSUME NEW c \in Call, Rotates(c) PROVE TokensInv'
    <2>1. TokensTypeOK'
      <3>0. issued' \in Issue
        BY <1>6, <1>t DEF Rotates, TokensTypeOK, Issue
      <3>1. accepted' \subseteq Issue
        BY <1>6, <1>t, <3>0 DEF Rotates, TokensTypeOK
      <3>2. tokenCalls' = [tokenCalls EXCEPT ![c] =
                             [at |-> "answered", old |-> tokenCalls[c].old, new |-> issued']]
        BY <1>6 DEF Rotates, CallGoes
      <3>3. tokenCalls[c].old \in {0} \cup Issue
        BY <1>t DEF TokensTypeOK
      <3> QED
        BY <1>6, <1>t, <3>0, <3>1, <3>2, <3>3 DEF Rotates, file, sinceThen, TokensTypeOK, Issue
    <2>2. OneRefreshes'
      BY <1>6, <1>t DEF Rotates, NewRefreshToken, file, sinceThen, CallGoes, TokensTypeOK,
                        OneRefreshes, SignInStands, Refreshing, RefreshUnderWay
    <2>3. SignInStands'
      BY <1>6, <1>t DEF Rotates, NewRefreshToken, file, sinceThen, CallGoes, TokensTypeOK,
                        OneRefreshes, SignInStands, Refreshing, RefreshUnderWay
    <2> QED
      BY <2>1, <2>2, <2>3 DEF TokensInv
  <1>7. ASSUME NEW c \in Call, Renews(c) PROVE TokensInv'
    <2>1. TokensTypeOK'
      BY <1>7, <1>t DEF Renews, NewRefreshToken, file, provider, sinceThen, CallGoes,
                        TokensTypeOK, Issue
    <2>2. OneRefreshes'
      BY <1>7, <1>t DEF Renews, NewRefreshToken, file, provider, sinceThen, CallGoes,
                        TokensTypeOK, OneRefreshes, SignInStands, Refreshing, RefreshUnderWay
    <2>3. SignInStands'
      BY <1>7, <1>t DEF Renews, NewRefreshToken, file, provider, sinceThen, CallGoes,
                        TokensTypeOK, OneRefreshes, SignInStands, Refreshing, RefreshUnderWay
    <2> QED
      BY <2>1, <2>2, <2>3 DEF TokensInv
  <1>8. ASSUME NEW c \in Call, Refuses(c) PROVE TokensInv'
    <2>1. TokensTypeOK'
      BY <1>8, <1>t DEF Refuses, file, provider, sinceThen, CallGoes, TokensTypeOK, Issue
    <2>2. OneRefreshes'
      BY <1>8, <1>t DEF Refuses, file, provider, sinceThen, CallGoes, TokensTypeOK,
                        OneRefreshes, SignInStands, Refreshing, RefreshUnderWay, NewRefreshToken
    <2>3. SignInStands'
      BY <1>8, <1>t DEF Refuses, file, provider, sinceThen, CallGoes, TokensTypeOK,
                        OneRefreshes, SignInStands, Refreshing, RefreshUnderWay, NewRefreshToken
    <2> QED
      BY <2>1, <2>2, <2>3 DEF TokensInv
  <1>9. ASSUME NEW c \in Call, SavesRefreshed(c) PROVE TokensInv'
    <2>1. TokensTypeOK'
      BY <1>9, <1>t DEF SavesRefreshed, NewRefreshToken, provider, sinceThen, CallEnds,
                        TokensTypeOK, Issue, NoCall
    <2>2. OneRefreshes'
      BY <1>9, <1>t DEF SavesRefreshed, NewRefreshToken, provider, sinceThen, CallEnds,
                        TokensTypeOK, OneRefreshes, SignInStands, Refreshing, RefreshUnderWay,
                        NoCall
    <2>3. SignInStands'
      BY <1>9, <1>t DEF SavesRefreshed, NewRefreshToken, provider, sinceThen, CallEnds,
                        TokensTypeOK, OneRefreshes, SignInStands, Refreshing, RefreshUnderWay,
                        NoCall
    <2> QED
      BY <2>1, <2>2, <2>3 DEF TokensInv
  <1>10. ASSUME NEW c \in Call, ClearsTokens(c) PROVE TokensInv'
    <2>1. TokensTypeOK'
      BY <1>10, <1>t DEF ClearsTokens, ClearsFile, file, provider, sinceThen, CallEnds,
                         TokensTypeOK, Issue, NoCall
    <2>2. OneRefreshes'
      BY <1>10, <1>t DEF ClearsTokens, ClearsFile, file, provider, sinceThen, CallEnds,
                         TokensTypeOK, OneRefreshes, SignInStands, Refreshing, RefreshUnderWay,
                         NewRefreshToken, NoCall
    <2>3. SignInStands'
      BY <1>10, <1>t DEF ClearsTokens, ClearsFile, file, provider, sinceThen, CallEnds,
                         TokensTypeOK, OneRefreshes, SignInStands, Refreshing, RefreshUnderWay,
                         NewRefreshToken, NoCall
    <2> QED
      BY <2>1, <2>2, <2>3 DEF TokensInv
  <1>11. ASSUME NEW c \in Call, BreaksOff(c) PROVE TokensInv'
    <2>1. TokensTypeOK'
      BY <1>11, <1>t DEF BreaksOff, file, provider, CallEnds, TokensTypeOK, Issue, NoCall
    <2>2. OneRefreshes'
      BY <1>11, <1>t DEF BreaksOff, file, provider, CallEnds, TokensTypeOK, OneRefreshes,
                         SignInStands, Refreshing, RefreshUnderWay, NewRefreshToken, NoCall
    <2>3. SignInStands'
      BY <1>11, <1>t DEF BreaksOff, file, provider, CallEnds, TokensTypeOK, OneRefreshes,
                         SignInStands, Refreshing, RefreshUnderWay, NewRefreshToken, NoCall
    <2> QED
      BY <2>1, <2>2, <2>3 DEF TokensInv
  <1>12. CASE LogsOut
    <2>1. TokensTypeOK'
      BY <1>12, <1>t DEF LogsOut, ClearsFile, file, provider, TokensTypeOK, Issue
    <2>2. OneRefreshes'
      BY <1>12, <1>t DEF LogsOut, ClearsFile, file, provider, TokensTypeOK, OneRefreshes,
                         SignInStands, Refreshing, RefreshUnderWay, NewRefreshToken
    <2>3. SignInStands'
      BY <1>12, <1>t DEF LogsOut, ClearsFile, file, provider, TokensTypeOK, OneRefreshes,
                         SignInStands, Refreshing, RefreshUnderWay, NewRefreshToken
    <2> QED
      BY <2>1, <2>2, <2>3 DEF TokensInv
  <1>13. CASE Expires
    <2>1. TokensTypeOK'
      BY <1>13, <1>t DEF Expires, provider, sinceThen, TokensTypeOK, Issue
    <2>2. OneRefreshes'
      BY <1>13, <1>t DEF Expires, provider, sinceThen, TokensTypeOK, OneRefreshes, SignInStands,
                         Refreshing, RefreshUnderWay, NewRefreshToken
    <2>3. SignInStands'
      BY <1>13, <1>t DEF Expires, provider, sinceThen, TokensTypeOK, OneRefreshes, SignInStands,
                         Refreshing, RefreshUnderWay, NewRefreshToken
    <2> QED
      BY <2>1, <2>2, <2>3 DEF TokensInv
  <1>14. CASE Revokes
    <2>1. TokensTypeOK'
      BY <1>14, <1>t DEF Revokes, file, TokensTypeOK, Issue
    <2>2. OneRefreshes'
      BY <1>14, <1>t DEF Revokes, file, TokensTypeOK, OneRefreshes, SignInStands, Refreshing,
                         RefreshUnderWay, NewRefreshToken
    <2>3. SignInStands'
      BY <1>14, <1>t DEF Revokes, file, TokensTypeOK, OneRefreshes, SignInStands, Refreshing,
                         RefreshUnderWay, NewRefreshToken
    <2> QED
      BY <2>1, <2>2, <2>3 DEF TokensInv
  <1>15. CASE UNCHANGED tokenVars
    <2>1. TokensTypeOK'
      BY <1>15, <1>t DEF tokenVars, TokensTypeOK, Issue
    <2>2. OneRefreshes'
      BY <1>15, <1>t DEF tokenVars, TokensTypeOK, OneRefreshes, SignInStands, Refreshing,
                         RefreshUnderWay, NewRefreshToken
    <2>3. SignInStands'
      BY <1>15, <1>t DEF tokenVars, TokensTypeOK, OneRefreshes, SignInStands, Refreshing,
                         RefreshUnderWay, NewRefreshToken
    <2> QED
      BY <2>1, <2>2, <2>3 DEF TokensInv
  <1> QED
    BY <1>1, <1>2, <1>3, <1>4, <1>5, <1>6, <1>7, <1>8, <1>9, <1>10, <1>11, <1>12, <1>13, <1>14,
       <1>15
       DEF TokensNext

\* SignInStands holds in every state, for any number of calls: only the named
\* encounters and losses take a sign-in away or bring it back.
THEOREM SignInsStand == TokensSpec => [](TokensTypeOK /\ SignInStands)
  <1>1. TokensInv => TokensTypeOK /\ SignInStands
    BY DEF TokensInv
  <1> QED
    BY <1>1, InitTokens, NextTokens, PTL DEF TokensSpec

-----------------------------------------------------------------------------
(* Uploads in one request.                                                 *)

Holds(a) == asked[a].at \in Locked
InUse(a) == asked[a].at \in Locked \cup {"wait"}

\* The recording that is in the library is the last one that was imported.
LastIsPresent == present \in {0, Len(by)}

\* A claim that is completed is of the recording its key uploaded, and what was
\* confirmed is what it says.
CompletedClaims ==
    \A k \in Key :
        /\ claims[k].state = "completed" => claims[k].rec \in DOMAIN by /\ by[claims[k].rec] = k
        /\ answers[k] # 0 => claims[k].state = "completed" /\ claims[k].rec = answers[k]

\* One request at a time is under upload_lock.
OneHolds == \A a, b \in Asker : Holds(a) /\ Holds(b) => a = b

\* Until the request that imported a recording completes it, only the notebook's
\* own user imports it again.
CompletesItsOwn ==
    \A a \in Asker : asked[a].at = "complete" =>
        /\ asked[a].rec \in DOMAIN by /\ by[asked[a].rec] = asked[a].key
        /\ \A m \in DOMAIN by : m > asked[a].rec => by[m] = "local"

\* Unless the claim of a key got old, one request works on it, and it is there.
ClaimsAreHeld ==
    \A a \in Asker : InUse(a) /\ asked[a].key \notin overtaken =>
        /\ claims[asked[a].key].state \in {"receiving", "importing"}
        /\ ~claims[asked[a].key].old
        /\ \A b \in Asker \ {a} : InUse(b) => asked[b].key # asked[a].key

UploadInv ==
    /\ SingleTypeOK /\ LastIsPresent /\ CompletedClaims /\ OneHolds
    /\ CompletesItsOwn /\ ClaimsAreHeld /\ ImportsAreOwned

\* A request that is under way has a key of its own.
LEMMA RequestsAreTyped ==
    ASSUME SingleTypeOK, NEW a \in Asker, asked[a].at # "idle"
    PROVE  /\ asked[a].key \in Key /\ asked[a].rec \in {0} \cup Copy
           /\ asked[a].at \in Locked \cup {"verify", "reclaim", "wait"}
  BY DEF SingleTypeOK, AskedType, NoRequest

\* Where a request goes to, and that the others stay where they are.
LEMMA RequestGoesOn ==
    ASSUME SingleTypeOK, NEW a \in Asker, asked[a].at # "idle",
           NEW at \in Locked \cup {"verify", "reclaim", "wait"}, RequestGoes(a, at)
    PROVE  /\ asked' \in [Asker -> AskedType]
           /\ asked'[a] = [at |-> at, key |-> asked[a].key, rec |-> asked[a].rec]
           /\ \A b \in Asker \ {a} : asked'[b] = asked[b]
  <1>1. asked[a] \in [at : Locked \cup {"verify", "reclaim", "wait"}, key : Key,
                      rec : {0} \cup Copy]
    BY DEF SingleTypeOK, AskedType, NoRequest
  <1>2. [asked[a] EXCEPT !.at = at] = [at |-> at, key |-> asked[a].key, rec |-> asked[a].rec]
    BY <1>1
  <1> QED
    BY <1>1, <1>2 DEF SingleTypeOK, AskedType, RequestGoes

\* A request that is over leaves its asker idle.
LEMMA RequestIsOver ==
    ASSUME SingleTypeOK, NEW a \in Asker, RequestEnds(a)
    PROVE  /\ asked' \in [Asker -> AskedType]
           /\ asked'[a] = NoRequest
           /\ \A b \in Asker \ {a} : asked'[b] = asked[b]
  BY DEF SingleTypeOK, AskedType, RequestEnds

\* Nothing is claimed, asked or imported yet.
THEOREM InitSingle == SingleInit => UploadInv
  <1> SUFFICES ASSUME SingleInit PROVE UploadInv
    OBVIOUS
  <1>1. SingleTypeOK
    BY KeyAssumption DEF SingleInit, SingleTypeOK, ClaimType, NoClaim, AskedType
  <1>2. LastIsPresent /\ CompletedClaims /\ ImportsAreOwned
    BY DEF SingleInit, LastIsPresent, CompletedClaims, ImportsAreOwned, NoClaim
  <1>3. OneHolds /\ CompletesItsOwn /\ ClaimsAreHeld
    BY DEF SingleInit, OneHolds, CompletesItsOwn, ClaimsAreHeld, Holds, InUse, Locked, NoRequest
  <1> QED
    BY <1>1, <1>2, <1>3 DEF UploadInv

\* The rows of remote_uploads that are written or deleted.
LEMMA NewClaimsAreTyped == FreshClaim \in ClaimType /\ NoClaim \in ClaimType
  BY DEF FreshClaim, NoClaim, ClaimType

\* Every step of a request is well typed.
LEMMA StepsAreTyped ==
    ASSUME SingleTypeOK, CompletesItsOwn, NEW a \in Asker,
           \/ \E k \in Key : ClaimsUpload(a, k)
           \/ Verifies(a) \/ Reclaims(a) \/ TakesLock(a) \/ ReceivesBody(a) \/ FindsDuplicate(a)
           \/ MarksImporting(a) \/ ImportsMedia(a) \/ CompletesUpload(a) \/ FindsNoClaim(a)
           \/ UploadFails(a) \/ ReleasesUpload(a)
    PROVE  SingleTypeOK'
  <1> USE KeyAssumption
  <1>1. CASE \E k \in Key : ClaimsUpload(a, k)
    <2> PICK k \in Key : ClaimsUpload(a, k)
      BY <1>1
    <2>1. claims' \in [Key -> ClaimType]
      BY NewClaimsAreTyped DEF ClaimsUpload, Sets, SingleTypeOK
    <2>2. asked' \in [Asker -> AskedType]
      BY DEF ClaimsUpload, SingleTypeOK, AskedType
    <2>3. answers' \in [Key -> {0} \cup Copy]
      BY DEF ClaimsUpload, SingleTypeOK, ClaimType
    <2> QED
      BY <2>1, <2>2, <2>3 DEF ClaimsUpload, Library, SingleTypeOK
  <1>2. CASE Verifies(a) \/ TakesLock(a) \/ ReceivesBody(a) \/ FindsDuplicate(a) \/ FindsNoClaim(a)
    <2>1. \/ RequestEnds(a)
          \/ \E at \in Locked \cup {"reclaim"} : RequestGoes(a, at) /\ asked[a].at # "idle"
      BY <1>2 DEF Verifies, TakesLock, ReceivesBody, FindsDuplicate, FindsNoClaim, Locked
    <2>2. asked' \in [Asker -> AskedType]
      BY <2>1, RequestGoesOn, RequestIsOver
    <2> QED
      BY <1>2, <2>2 DEF Verifies, TakesLock, ReceivesBody, FindsDuplicate, FindsNoClaim,
                        Library, histories, SingleTypeOK
  <1>3. CASE Reclaims(a)
    <2>1. asked' \in [Asker -> AskedType]
      BY <1>3, RequestGoesOn, RequestIsOver DEF Reclaims
    <2>2. claims' \in [Key -> ClaimType]
      BY <1>3, NewClaimsAreTyped DEF Reclaims, Sets, SingleTypeOK
    <2> QED
      BY <1>3, <2>1, <2>2 DEF Reclaims, Library, histories, SingleTypeOK
  <1>4. CASE MarksImporting(a)
    <2>1. asked' \in [Asker -> AskedType]
      BY <1>4, RequestGoesOn DEF MarksImporting, Locked
    <2>2. claims' \in [Key -> ClaimType]
      BY <1>4 DEF MarksImporting, SingleTypeOK, ClaimType
    <2> QED
      BY <1>4, <2>1, <2>2 DEF MarksImporting, Library, histories, SingleTypeOK
  <1>5. CASE ImportsMedia(a)
    <2>1. asked[a].key \in Key
      BY <1>5, RequestsAreTyped DEF ImportsMedia
    <2>2. /\ by' \in Seq(Key \cup {"local"}) /\ Len(by') <= MaxMedia
          /\ present' \in {0} \cup Copy
      BY <1>5, <2>1 DEF ImportsMedia, Imports, SingleTypeOK, Copy
    <2>3. [at |-> "complete", key |-> asked[a].key, rec |-> present'] \in AskedType
      BY <2>1, <2>2 DEF AskedType, Locked
    <2>4. asked' \in [Asker -> AskedType]
      BY <1>5, <2>3 DEF ImportsMedia, SingleTypeOK
    <2> QED
      BY <1>5, <2>2, <2>4 DEF ImportsMedia, histories, SingleTypeOK
  <1>6. CASE CompletesUpload(a)
    <2>1. asked[a].key \in Key /\ asked[a].rec \in {0} \cup Copy
      BY <1>6, RequestsAreTyped DEF CompletesUpload
    <2>2. claims' \in [Key -> ClaimType] /\ answers' \in [Key -> {0} \cup Copy]
      BY <1>6, <2>1 DEF CompletesUpload, Sets, SingleTypeOK, ClaimType
    <2> QED
      BY <1>6, <2>2, RequestIsOver DEF CompletesUpload, Library, SingleTypeOK
  <1>7. CASE UploadFails(a)
    <2>1. asked' \in [Asker -> AskedType]
      BY <1>7, RequestGoesOn DEF UploadFails, Locked
    <2>2. unfinished' \subseteq Copy
      <3>1. asked[a].at = "complete" => asked[a].rec \in DOMAIN by
        BY DEF CompletesItsOwn
      <3>2. DOMAIN by \subseteq Copy
        BY DEF SingleTypeOK, Copy
      <3> QED
        BY <1>7, <3>1, <3>2 DEF UploadFails, SingleTypeOK
    <2> QED
      BY <1>7, <2>1, <2>2 DEF UploadFails, Library, SingleTypeOK
  <1>8. CASE ReleasesUpload(a)
    <2>1. claims' \in [Key -> ClaimType]
      BY <1>8, NewClaimsAreTyped DEF ReleasesUpload, Sets, AfterRelease, SingleTypeOK
    <2> QED
      BY <1>8, <2>1, RequestIsOver DEF ReleasesUpload, Library, histories, SingleTypeOK
  <1> QED
    BY <1>1, <1>2, <1>3, <1>4, <1>5, <1>6, <1>7, <1>8

\* Every step of every request, and everything between them, keeps UploadInv.
THEOREM NextSingle == UploadInv /\ [SingleNext]_uploadVars => UploadInv'
  <1> SUFFICES ASSUME UploadInv, [SingleNext]_uploadVars PROVE UploadInv'
    OBVIOUS
  <1> USE KeyAssumption
  <1>t. /\ SingleTypeOK /\ LastIsPresent /\ CompletedClaims /\ OneHolds
        /\ CompletesItsOwn /\ ClaimsAreHeld /\ ImportsAreOwned
    BY DEF UploadInv
  <1>1. ASSUME NEW a \in Asker, NEW k \in Key, ClaimsUpload(a, k) PROVE UploadInv'
    <2>1. SingleTypeOK'
      BY <1>1, <1>t, StepsAreTyped
    <2>2. LastIsPresent' /\ CompletedClaims'
      BY <1>1, <1>t, RequestsAreTyped DEF ClaimsUpload, FreshClaim, Sets, Library, SingleTypeOK,
                                          LastIsPresent, CompletedClaims, CompletesItsOwn
    <2>3. OneHolds'
      BY <1>1, <1>t DEF ClaimsUpload, FreshClaim, Sets, Library, SingleTypeOK, OneHolds, Holds,
                        Locked, NoRequest
    <2>4. CompletesItsOwn'
      BY <1>1, <1>t, RequestsAreTyped DEF ClaimsUpload, FreshClaim, Sets, Library, SingleTypeOK,
                                          CompletesItsOwn, Copy, NoRequest
    <2>5. ClaimsAreHeld'
      BY <1>1, <1>t, RequestsAreTyped DEF ClaimsUpload, FreshClaim, Sets, Library, SingleTypeOK,
                                          ClaimsAreHeld, InUse, Locked, NoRequest
    <2>6. ImportsAreOwned'
      BY <1>1, <1>t, RequestsAreTyped DEF ClaimsUpload, FreshClaim, Sets, Library, SingleTypeOK,
                                          ImportsAreOwned, LastIsPresent, NoRequest
    <2> QED
      BY <2>1, <2>2, <2>3, <2>4, <2>5, <2>6 DEF UploadInv
  <1>2. ASSUME NEW a \in Asker, Verifies(a) PROVE UploadInv'
    <2>0. \A b \in Asker : asked'[b] = asked[b] \/ (b = a /\ asked'[b].at \in {"idle", "reclaim"})
      <3>1. asked[a].at # "idle" /\ (RequestEnds(a) \/ RequestGoes(a, "reclaim"))
        BY <1>2 DEF Verifies
      <3>2. CASE RequestEnds(a)
        BY <1>t, <3>2, RequestIsOver DEF NoRequest
      <3>3. CASE RequestGoes(a, "reclaim")
        <4>1. "reclaim" \in Locked \cup {"verify", "reclaim", "wait"}
          OBVIOUS
        <4>2. /\ asked'[a] = [at |-> "reclaim", key |-> asked[a].key, rec |-> asked[a].rec]
              /\ \A b \in Asker \ {a} : asked'[b] = asked[b]
          BY <1>t, <3>1, <3>3, <4>1, RequestGoesOn
        <4> QED
          BY <4>2
      <3> QED
        BY <3>1, <3>2, <3>3
    <2>1. SingleTypeOK'
      BY <1>2, <1>t, StepsAreTyped
    <2>2. LastIsPresent' /\ CompletedClaims'
      BY <1>2, <1>t, RequestsAreTyped DEF Verifies, RequestGoes, RequestEnds, Library,
                                          histories, SingleTypeOK, LastIsPresent,
                                          CompletedClaims, CompletesItsOwn
    <2>3. OneHolds'
      BY <1>t, <2>0 DEF OneHolds, Holds, Locked
    <2>4. CompletesItsOwn'
      BY <1>2, <1>t, <2>0 DEF Verifies, Library, CompletesItsOwn
    <2>5. ClaimsAreHeld'
      BY <1>2, <1>t, <2>0 DEF Verifies, histories, ClaimsAreHeld, InUse, Locked
    <2>6. ImportsAreOwned'
      BY <1>2, <1>t, RequestsAreTyped DEF Verifies, RequestGoes, RequestEnds, Library,
                                          histories, SingleTypeOK, ImportsAreOwned,
                                          LastIsPresent, NoRequest
    <2> QED
      BY <2>1, <2>2, <2>3, <2>4, <2>5, <2>6 DEF UploadInv
  <1>3. ASSUME NEW a \in Asker, Reclaims(a) PROVE UploadInv'
    <2>a. asked[a].key \in Key
      BY <1>3, <1>t, RequestsAreTyped DEF Reclaims
    <2>0. \A b \in Asker :
             \/ asked'[b] = asked[b]
             \/ b = a /\ asked'[b].at = "idle"
             \/ /\ b = a /\ asked'[b].at = "wait" /\ asked'[b].key = asked[a].key
                /\ claims[asked[a].key].old
                /\ claims' = [claims EXCEPT ![asked[a].key] = FreshClaim]
      <3>1. CASE RequestEnds(a)
        BY <1>t, <3>1, RequestIsOver DEF NoRequest
      <3>2. CASE /\ RequestGoes(a, "wait") /\ claims[asked[a].key].old
                 /\ Sets(asked[a].key, FreshClaim)
        <4>1. asked[a].at # "idle"
          BY <1>3 DEF Reclaims
        <4>2. "wait" \in Locked \cup {"verify", "reclaim", "wait"}
          OBVIOUS
        <4>3. /\ asked'[a] = [at |-> "wait", key |-> asked[a].key, rec |-> asked[a].rec]
              /\ \A b \in Asker \ {a} : asked'[b] = asked[b]
          BY <1>t, <3>2, <4>1, <4>2, RequestGoesOn
        <4> QED
          BY <3>2, <4>3 DEF Sets
      <3> QED
        BY <1>3, <3>1, <3>2 DEF Reclaims
    <2>1. SingleTypeOK'
      BY <1>3, <1>t, StepsAreTyped
    <2>2. LastIsPresent' /\ CompletedClaims'
      BY <1>3, <1>t, RequestsAreTyped DEF Reclaims, FreshClaim, RequestGoes, RequestEnds, Sets,
                                          Library, histories, SingleTypeOK, LastIsPresent,
                                          CompletedClaims, CompletesItsOwn
    <2>3. OneHolds'
      BY <1>t, <2>0 DEF OneHolds, Holds, Locked
    <2>4. CompletesItsOwn'
      BY <1>3, <1>t, <2>0 DEF Reclaims, Library, CompletesItsOwn
    <2>5. ClaimsAreHeld'
      <3>1. CASE RequestEnds(a) /\ claims' = claims
        <4>1. \A b \in Asker : asked'[b] = asked[b] \/ asked'[b].at = "idle"
          BY <1>t, <3>1, RequestIsOver DEF NoRequest
        <4> QED
          BY <1>3, <1>t, <3>1, <4>1 DEF Reclaims, histories, ClaimsAreHeld, InUse, Locked
      <3>2. CASE claims[asked[a].key].old /\ claims' = [claims EXCEPT ![asked[a].key] = FreshClaim]
        <4>1. \A b \in Asker : InUse(b) /\ asked[b].key = asked[a].key => asked[b].key \in overtaken
          BY <1>t, <3>2 DEF ClaimsAreHeld
        <4>2. /\ claims'[asked[a].key] = FreshClaim
              /\ \A k \in Key \ {asked[a].key} : claims'[k] = claims[k]
          BY <1>t, <2>a, <3>2 DEF SingleTypeOK
        <4>3. overtaken' = overtaken
          BY <1>3 DEF Reclaims, histories
        <4> SUFFICES ASSUME NEW b \in Asker, InUse(b)', asked'[b].key \notin overtaken
                     PROVE  /\ claims'[asked'[b].key].state \in {"receiving", "importing"}
                            /\ ~claims'[asked'[b].key].old
                            /\ \A c \in Asker \ {b} : InUse(c)' => asked'[c].key # asked'[b].key
          BY <4>3 DEF ClaimsAreHeld
        <4>4. \A c \in Asker \ {a} : InUse(c)' => InUse(c) /\ asked'[c] = asked[c]
          BY <2>0 DEF InUse
        <4>5. InUse(a)' => asked'[a].key = asked[a].key
          BY <2>0 DEF InUse, Locked
        <4>6. CASE b = a
          BY <4>1, <4>2, <4>4, <4>5, <4>6 DEF FreshClaim
        <4>7. CASE b # a
          <5>1. asked[b].key \in Key /\ asked[b].key # asked[a].key
            BY <1>t, <4>1, <4>4, <4>7, RequestsAreTyped DEF InUse, Locked
          <5> QED
            BY <1>t, <4>2, <4>4, <4>5, <4>7, <5>1 DEF ClaimsAreHeld
        <4> QED
          BY <4>6, <4>7
      <3> QED
        BY <1>3, <3>1, <3>2 DEF Reclaims, Sets
    <2>6. ImportsAreOwned'
      BY <1>3, <1>t, RequestsAreTyped DEF Reclaims, FreshClaim, RequestGoes, RequestEnds, Sets,
                                          Library, histories, SingleTypeOK, ImportsAreOwned,
                                          LastIsPresent, NoRequest
    <2> QED
      BY <2>1, <2>2, <2>3, <2>4, <2>5, <2>6 DEF UploadInv
  <1>4. ASSUME NEW a \in Asker, TakesLock(a) PROVE UploadInv'
    <2>1. SingleTypeOK'
      BY <1>4, <1>t, StepsAreTyped
    <2>2. LastIsPresent' /\ CompletedClaims'
      BY <1>4, <1>t, RequestsAreTyped DEF TakesLock, RequestGoes, Library, histories,
                                          SingleTypeOK, LastIsPresent, CompletedClaims,
                                          CompletesItsOwn
    <2>3. OneHolds'
      BY <1>4, <1>t DEF TakesLock, RequestGoes, Library, histories, SingleTypeOK, OneHolds,
                        Holds, Locked, NoRequest
    <2>4. CompletesItsOwn'
      BY <1>4, <1>t, RequestsAreTyped DEF TakesLock, RequestGoes, Library, histories,
                                          SingleTypeOK, CompletesItsOwn, Copy, NoRequest
    <2>5. ClaimsAreHeld'
      BY <1>4, <1>t, RequestsAreTyped DEF TakesLock, RequestGoes, Library, histories,
                                          SingleTypeOK, ClaimsAreHeld, InUse, Locked, NoRequest
    <2>6. ImportsAreOwned'
      BY <1>4, <1>t, RequestsAreTyped DEF TakesLock, RequestGoes, Library, histories,
                                          SingleTypeOK, ImportsAreOwned, LastIsPresent,
                                          NoRequest
    <2> QED
      BY <2>1, <2>2, <2>3, <2>4, <2>5, <2>6 DEF UploadInv
  <1>5. ASSUME NEW a \in Asker, ReceivesBody(a) PROVE UploadInv'
    <2>1. SingleTypeOK'
      BY <1>5, <1>t, StepsAreTyped
    <2>2. LastIsPresent' /\ CompletedClaims'
      BY <1>5, <1>t, RequestsAreTyped DEF ReceivesBody, RequestGoes, Library, histories,
                                          SingleTypeOK, LastIsPresent, CompletedClaims,
                                          CompletesItsOwn
    <2>3. OneHolds'
      BY <1>5, <1>t DEF ReceivesBody, RequestGoes, Library, histories, SingleTypeOK, OneHolds,
                        Holds, Locked, NoRequest
    <2>4. CompletesItsOwn'
      BY <1>5, <1>t, RequestsAreTyped DEF ReceivesBody, RequestGoes, Library, histories,
                                          SingleTypeOK, CompletesItsOwn, Copy, NoRequest
    <2>5. ClaimsAreHeld'
      BY <1>5, <1>t, RequestsAreTyped DEF ReceivesBody, RequestGoes, Library, histories,
                                          SingleTypeOK, ClaimsAreHeld, InUse, Locked, NoRequest
    <2>6. ImportsAreOwned'
      BY <1>5, <1>t, RequestsAreTyped DEF ReceivesBody, RequestGoes, Library, histories,
                                          SingleTypeOK, ImportsAreOwned, LastIsPresent,
                                          NoRequest
    <2> QED
      BY <2>1, <2>2, <2>3, <2>4, <2>5, <2>6 DEF UploadInv
  <1>6. ASSUME NEW a \in Asker, FindsDuplicate(a) PROVE UploadInv'
    <2>1. SingleTypeOK'
      BY <1>6, <1>t, StepsAreTyped
    <2>2. LastIsPresent' /\ CompletedClaims'
      BY <1>6, <1>t, RequestsAreTyped DEF FindsDuplicate, RequestGoes, Library, histories,
                                          SingleTypeOK, LastIsPresent, CompletedClaims,
                                          CompletesItsOwn
    <2>3. OneHolds'
      BY <1>6, <1>t DEF FindsDuplicate, RequestGoes, Library, histories, SingleTypeOK, OneHolds,
                        Holds, Locked, NoRequest
    <2>4. CompletesItsOwn'
      BY <1>6, <1>t, RequestsAreTyped DEF FindsDuplicate, RequestGoes, Library, histories,
                                          SingleTypeOK, CompletesItsOwn, Copy, NoRequest
    <2>5. ClaimsAreHeld'
      BY <1>6, <1>t, RequestsAreTyped DEF FindsDuplicate, RequestGoes, Library, histories,
                                          SingleTypeOK, ClaimsAreHeld, InUse, Locked, NoRequest
    <2>6. ImportsAreOwned'
      BY <1>6, <1>t, RequestsAreTyped DEF FindsDuplicate, RequestGoes, Library, histories,
                                          SingleTypeOK, ImportsAreOwned, LastIsPresent,
                                          NoRequest
    <2> QED
      BY <2>1, <2>2, <2>3, <2>4, <2>5, <2>6 DEF UploadInv
  <1>7. ASSUME NEW a \in Asker, MarksImporting(a) PROVE UploadInv'
    <2>1. SingleTypeOK'
      BY <1>7, <1>t, StepsAreTyped
    <2>2. LastIsPresent' /\ CompletedClaims'
      BY <1>7, <1>t, RequestsAreTyped DEF MarksImporting, RequestGoes, Library, histories,
                                          SingleTypeOK, LastIsPresent, CompletedClaims,
                                          CompletesItsOwn
    <2>3. OneHolds'
      BY <1>7, <1>t DEF MarksImporting, RequestGoes, Library, histories, SingleTypeOK, OneHolds,
                        Holds, Locked, NoRequest
    <2>4. CompletesItsOwn'
      BY <1>7, <1>t, RequestsAreTyped DEF MarksImporting, RequestGoes, Library, histories,
                                          SingleTypeOK, CompletesItsOwn, Copy, NoRequest
    <2>5. ClaimsAreHeld'
      BY <1>7, <1>t, RequestsAreTyped DEF MarksImporting, RequestGoes, Library, histories,
                                          SingleTypeOK, ClaimsAreHeld, InUse, Locked, NoRequest
    <2>6. ImportsAreOwned'
      BY <1>7, <1>t, RequestsAreTyped DEF MarksImporting, RequestGoes, Library, histories,
                                          SingleTypeOK, ImportsAreOwned, LastIsPresent,
                                          NoRequest
    <2> QED
      BY <2>1, <2>2, <2>3, <2>4, <2>5, <2>6 DEF UploadInv
  <1>8. ASSUME NEW a \in Asker, ImportsMedia(a) PROVE UploadInv'
    <2>1. SingleTypeOK'
      BY <1>8, <1>t, StepsAreTyped
    <2>2. LastIsPresent' /\ CompletedClaims'
      BY <1>8, <1>t, RequestsAreTyped DEF ImportsMedia, Imports, histories, SingleTypeOK,
                                          LastIsPresent, CompletedClaims, CompletesItsOwn
    <2>3. OneHolds'
      BY <1>8, <1>t DEF ImportsMedia, Imports, histories, SingleTypeOK, OneHolds, Holds, Locked,
                        NoRequest
    <2>4. CompletesItsOwn'
      <3>1. /\ asked'[a] = [at |-> "complete", key |-> asked[a].key, rec |-> Len(by) + 1]
            /\ \A b \in Asker \ {a} : asked'[b] = asked[b]
        BY <1>8, <1>t DEF ImportsMedia, Imports, SingleTypeOK
      <3>2. \A b \in Asker \ {a} : asked[b].at # "complete"
        BY <1>8, <1>t DEF ImportsMedia, OneHolds, Holds, Locked
      <3>3. by' = Append(by, asked[a].key) /\ by \in Seq(Key \cup {"local"}) /\ asked[a].key \in Key
        BY <1>8, <1>t, RequestsAreTyped DEF ImportsMedia, Imports, SingleTypeOK
      <3>4. DOMAIN by' = 1 .. Len(by) + 1 /\ by'[Len(by) + 1] = asked[a].key
        BY <3>3
      <3>5. Len(by) + 1 \in DOMAIN by' /\ \A m \in DOMAIN by' : ~(m > Len(by) + 1)
        BY <3>3, <3>4
      <3>6. asked'[a].rec = Len(by) + 1 /\ asked'[a].key = asked[a].key
        BY <3>1
      <3> SUFFICES ASSUME NEW b \in Asker, asked'[b].at = "complete"
                   PROVE  /\ asked'[b].rec \in DOMAIN by' /\ by'[asked'[b].rec] = asked'[b].key
                          /\ \A m \in DOMAIN by' : ~(m > asked'[b].rec)
        BY DEF CompletesItsOwn
      <3>7. b = a
        BY <3>1, <3>2
      <3> QED
        BY <3>4, <3>5, <3>6, <3>7
    <2>5. ClaimsAreHeld'
      BY <1>8, <1>t, RequestsAreTyped DEF ImportsMedia, Imports, histories, SingleTypeOK,
                                          ClaimsAreHeld, InUse, Locked, NoRequest
    <2>6. ImportsAreOwned'
      BY <1>8, <1>t, RequestsAreTyped DEF ImportsMedia, Imports, histories, SingleTypeOK,
                                          ImportsAreOwned, LastIsPresent, NoRequest
    <2> QED
      BY <2>1, <2>2, <2>3, <2>4, <2>5, <2>6 DEF UploadInv
  <1>9. ASSUME NEW a \in Asker, CompletesUpload(a) PROVE UploadInv'
    <2>1. SingleTypeOK'
      BY <1>9, <1>t, StepsAreTyped
    <2>2. LastIsPresent' /\ CompletedClaims'
      BY <1>9, <1>t, RequestsAreTyped DEF CompletesUpload, RequestEnds, Sets, Library,
                                          SingleTypeOK, LastIsPresent, CompletedClaims,
                                          CompletesItsOwn
    <2>3. OneHolds'
      BY <1>9, <1>t DEF CompletesUpload, RequestEnds, Sets, Library, SingleTypeOK, OneHolds,
                        Holds, Locked, NoRequest
    <2>4. CompletesItsOwn'
      BY <1>9, <1>t, RequestsAreTyped DEF CompletesUpload, RequestEnds, Sets, Library,
                                          SingleTypeOK, CompletesItsOwn, Copy, NoRequest
    <2>5. ClaimsAreHeld'
      BY <1>9, <1>t, RequestsAreTyped DEF CompletesUpload, RequestEnds, Sets, Library,
                                          SingleTypeOK, ClaimsAreHeld, InUse, Locked, NoRequest
    <2>6. ImportsAreOwned'
      <3> DEFINE k == asked[a].key
                 n == asked[a].rec
      <3>0. k \in Key /\ n \in DOMAIN by /\ by[n] = k
        BY <1>9, <1>t, RequestsAreTyped DEF CompletesUpload, CompletesItsOwn
      <3>1. claims'[k].state = "completed" /\ claims'[k].rec = n
        BY <1>9, <1>t, <3>0 DEF CompletesUpload, Sets, SingleTypeOK
      <3>2. \A o \in Key \ {k} : claims'[o] = claims[o]
        BY <1>9, <1>t, <3>0 DEF CompletesUpload, Sets, SingleTypeOK
      <3>3. \A b \in Asker \ {a} : asked'[b] = asked[b]
        BY <1>9, <1>t, RequestIsOver DEF CompletesUpload
      <3>4. \A m \in DOMAIN by : m = present /\ by[m] = k => m = n
        <4> SUFFICES ASSUME NEW m \in DOMAIN by, m = present, by[m] = k PROVE m = n
          OBVIOUS
        <4>1. m = Len(by) /\ n <= m /\ m \in Nat /\ n \in Nat
          BY <1>t, <3>0 DEF LastIsPresent, SingleTypeOK
        <4>2. ~(m > n)
          BY <1>9, <1>t, <3>0 DEF CompletesUpload, CompletesItsOwn
        <4> QED
          BY <4>1, <4>2
      <3>5. by' = by /\ present' = present /\ overtaken' = overtaken /\ unfinished' = unfinished
        BY <1>9 DEF CompletesUpload, Library
      <3>6. \A m \in DOMAIN by : by[m] \in Key \cup {"local"}
        BY <1>t DEF SingleTypeOK
      <3> SUFFICES ASSUME NEW m \in DOMAIN by, by[m] # "local", m \notin unfinished,
                          by[m] \notin overtaken, m = present
                   PROVE  \/ claims'[by[m]].state = "completed" /\ claims'[by[m]].rec = m
                          \/ \E b \in Asker : asked'[b].at = "complete" /\ asked'[b].rec = m
        BY <3>5 DEF ImportsAreOwned
      <3>7. CASE by[m] = k
        BY <3>1, <3>4, <3>7
      <3>8. CASE by[m] # k
        <4>1. m # n
          BY <3>0, <3>8
        <4> QED
          BY <1>t, <3>2, <3>3, <3>6, <3>8, <4>1 DEF ImportsAreOwned
      <3> QED
        BY <3>7, <3>8
    <2> QED
      BY <2>1, <2>2, <2>3, <2>4, <2>5, <2>6 DEF UploadInv
  <1>10. ASSUME NEW a \in Asker, FindsNoClaim(a) PROVE UploadInv'
    <2>1. SingleTypeOK'
      BY <1>10, <1>t, StepsAreTyped
    <2>2. LastIsPresent' /\ CompletedClaims'
      BY <1>10, <1>t, RequestsAreTyped DEF FindsNoClaim, RequestGoes, Library, histories,
                                           SingleTypeOK, LastIsPresent, CompletedClaims,
                                           CompletesItsOwn
    <2>3. OneHolds'
      BY <1>10, <1>t DEF FindsNoClaim, RequestGoes, Library, histories, SingleTypeOK, OneHolds,
                         Holds, Locked, NoRequest
    <2>4. CompletesItsOwn'
      BY <1>10, <1>t, RequestsAreTyped DEF FindsNoClaim, RequestGoes, Library, histories,
                                           SingleTypeOK, CompletesItsOwn, Copy, NoRequest
    <2>5. ClaimsAreHeld'
      BY <1>10, <1>t, RequestsAreTyped DEF FindsNoClaim, RequestGoes, Library, histories,
                                           SingleTypeOK, ClaimsAreHeld, InUse, Locked, NoRequest
    <2>6. ImportsAreOwned'
      <3> DEFINE n == asked[a].rec
      <3>0. asked[a].key \in Key /\ n \in DOMAIN by /\ by[n] = asked[a].key
        BY <1>10, <1>t, RequestsAreTyped DEF FindsNoClaim, CompletesItsOwn
      <3>1. by[n] \in overtaken
        BY <1>10, <1>t, <3>0 DEF FindsNoClaim, ClaimsAreHeld, InUse, Locked
      <3>2. \A b \in Asker \ {a} : asked'[b] = asked[b]
        BY <1>10, <1>t, RequestGoesOn DEF FindsNoClaim, Locked
      <3> QED
        BY <1>10, <1>t, <3>1, <3>2 DEF FindsNoClaim, Library, histories, ImportsAreOwned
    <2> QED
      BY <2>1, <2>2, <2>3, <2>4, <2>5, <2>6 DEF UploadInv
  <1>11. ASSUME NEW a \in Asker, UploadFails(a) PROVE UploadInv'
    <2>1. SingleTypeOK'
      BY <1>11, <1>t, StepsAreTyped
    <2>2. LastIsPresent' /\ CompletedClaims'
      BY <1>11, <1>t, RequestsAreTyped DEF UploadFails, RequestGoes, Library, SingleTypeOK,
                                           LastIsPresent, CompletedClaims, CompletesItsOwn
    <2>3. OneHolds'
      BY <1>11, <1>t DEF UploadFails, RequestGoes, Library, SingleTypeOK, OneHolds, Holds,
                         Locked, NoRequest
    <2>4. CompletesItsOwn'
      BY <1>11, <1>t, RequestsAreTyped DEF UploadFails, RequestGoes, Library, SingleTypeOK,
                                           CompletesItsOwn, Copy, NoRequest
    <2>5. ClaimsAreHeld'
      BY <1>11, <1>t, RequestsAreTyped DEF UploadFails, RequestGoes, Library, SingleTypeOK,
                                           ClaimsAreHeld, InUse, Locked, NoRequest
    <2>6. ImportsAreOwned'
      BY <1>11, <1>t, RequestsAreTyped DEF UploadFails, RequestGoes, Library, SingleTypeOK,
                                           ImportsAreOwned, LastIsPresent, NoRequest
    <2> QED
      BY <2>1, <2>2, <2>3, <2>4, <2>5, <2>6 DEF UploadInv
  <1>12. ASSUME NEW a \in Asker, ReleasesUpload(a) PROVE UploadInv'
    <2>1. SingleTypeOK'
      BY <1>12, <1>t, StepsAreTyped
    <2>2. LastIsPresent' /\ CompletedClaims'
      BY <1>12, <1>t, RequestsAreTyped DEF ReleasesUpload, AfterRelease, NoClaim, RequestEnds,
                                           Sets, Library, histories, SingleTypeOK,
                                           LastIsPresent, CompletedClaims, CompletesItsOwn
    <2>3. OneHolds'
      BY <1>12, <1>t DEF ReleasesUpload, AfterRelease, NoClaim, RequestEnds, Sets, Library,
                         histories, SingleTypeOK, OneHolds, Holds, Locked, NoRequest
    <2>4. CompletesItsOwn'
      BY <1>12, <1>t, RequestsAreTyped DEF ReleasesUpload, AfterRelease, NoClaim, RequestEnds,
                                           Sets, Library, histories, SingleTypeOK,
                                           CompletesItsOwn, Copy, NoRequest
    <2>5. ClaimsAreHeld'
      BY <1>12, <1>t, RequestsAreTyped DEF ReleasesUpload, AfterRelease, NoClaim, RequestEnds,
                                           Sets, Library, histories, SingleTypeOK,
                                           ClaimsAreHeld, InUse, Locked, NoRequest
    <2>6. ImportsAreOwned'
      BY <1>12, <1>t, RequestsAreTyped DEF ReleasesUpload, AfterRelease, NoClaim, RequestEnds,
                                           Sets, Library, histories, SingleTypeOK,
                                           ImportsAreOwned, LastIsPresent, NoRequest
    <2> QED
      BY <2>1, <2>2, <2>3, <2>4, <2>5, <2>6 DEF UploadInv
  <1>13. ASSUME NEW k \in Key, ClaimGetsOld(k) PROVE UploadInv'
    <2>1. SingleTypeOK'
      BY <1>13, <1>t DEF ClaimGetsOld, Library, SingleTypeOK, ClaimType, AskedType, Locked, Copy
    <2>2. LastIsPresent' /\ CompletedClaims'
      BY <1>13, <1>t, RequestsAreTyped DEF ClaimGetsOld, Library, SingleTypeOK, LastIsPresent,
                                           CompletedClaims, CompletesItsOwn
    <2>3. OneHolds'
      BY <1>13, <1>t DEF ClaimGetsOld, Library, SingleTypeOK, OneHolds, Holds, Locked, NoRequest
    <2>4. CompletesItsOwn'
      BY <1>13, <1>t, RequestsAreTyped DEF ClaimGetsOld, Library, SingleTypeOK, CompletesItsOwn,
                                           Copy, NoRequest
    <2>5. ClaimsAreHeld'
      BY <1>13, <1>t, RequestsAreTyped DEF ClaimGetsOld, Library, SingleTypeOK, ClaimsAreHeld,
                                           InUse, Locked, NoRequest
    <2>6. ImportsAreOwned'
      BY <1>13, <1>t, RequestsAreTyped DEF ClaimGetsOld, Library, SingleTypeOK, ImportsAreOwned,
                                           LastIsPresent, NoRequest
    <2> QED
      BY <2>1, <2>2, <2>3, <2>4, <2>5, <2>6 DEF UploadInv
  <1>14. CASE LocalImport
    <2>1. SingleTypeOK'
      BY <1>14, <1>t DEF LocalImport, Imports, histories, SingleTypeOK, ClaimType, AskedType,
                         Locked, Copy
    <2>2. LastIsPresent' /\ CompletedClaims'
      BY <1>14, <1>t, RequestsAreTyped DEF LocalImport, Imports, histories, SingleTypeOK,
                                           LastIsPresent, CompletedClaims, CompletesItsOwn
    <2>3. OneHolds'
      BY <1>14, <1>t DEF LocalImport, Imports, histories, SingleTypeOK, OneHolds, Holds, Locked,
                         NoRequest
    <2>4. CompletesItsOwn'
      BY <1>14, <1>t, RequestsAreTyped DEF LocalImport, Imports, histories, SingleTypeOK,
                                           CompletesItsOwn, Copy, NoRequest
    <2>5. ClaimsAreHeld'
      BY <1>14, <1>t, RequestsAreTyped DEF LocalImport, Imports, histories, SingleTypeOK,
                                           ClaimsAreHeld, InUse, Locked, NoRequest
    <2>6. ImportsAreOwned'
      BY <1>14, <1>t, RequestsAreTyped DEF LocalImport, Imports, histories, SingleTypeOK,
                                           ImportsAreOwned, LastIsPresent, NoRequest
    <2> QED
      BY <2>1, <2>2, <2>3, <2>4, <2>5, <2>6 DEF UploadInv
  <1>15. CASE LocalDelete
    <2>1. SingleTypeOK'
      BY <1>15, <1>t DEF LocalDelete, histories, SingleTypeOK, ClaimType, AskedType, Locked,
                         Copy
    <2>2. LastIsPresent' /\ CompletedClaims'
      BY <1>15, <1>t, RequestsAreTyped DEF LocalDelete, histories, SingleTypeOK, LastIsPresent,
                                           CompletedClaims, CompletesItsOwn
    <2>3. OneHolds'
      BY <1>15, <1>t DEF LocalDelete, histories, SingleTypeOK, OneHolds, Holds, Locked,
                         NoRequest
    <2>4. CompletesItsOwn'
      BY <1>15, <1>t, RequestsAreTyped DEF LocalDelete, histories, SingleTypeOK,
                                           CompletesItsOwn, Copy, NoRequest
    <2>5. ClaimsAreHeld'
      BY <1>15, <1>t, RequestsAreTyped DEF LocalDelete, histories, SingleTypeOK, ClaimsAreHeld,
                                           InUse, Locked, NoRequest
    <2>6. ImportsAreOwned'
      BY <1>15, <1>t, RequestsAreTyped DEF LocalDelete, histories, SingleTypeOK,
                                           ImportsAreOwned, LastIsPresent, NoRequest
    <2> QED
      BY <2>1, <2>2, <2>3, <2>4, <2>5, <2>6 DEF UploadInv
  <1>16. CASE GatewayDies
    <2>1. SingleTypeOK'
      <3>1. asked' \in [Asker -> AskedType]
        BY <1>16 DEF GatewayDies, AskedType
      <3>2. \A b \in Asker : asked[b].at = "complete" => asked[b].rec \in DOMAIN by
        BY <1>t DEF CompletesItsOwn
      <3>3. DOMAIN by \subseteq Copy
        BY <1>t DEF SingleTypeOK, Copy
      <3>4. unfinished' \subseteq Copy
        BY <1>16, <1>t, <3>2, <3>3 DEF GatewayDies, SingleTypeOK
      <3> QED
        BY <1>16, <1>t, <3>1, <3>4 DEF GatewayDies, Library, SingleTypeOK
    <2>2. LastIsPresent' /\ CompletedClaims'
      BY <1>16, <1>t, RequestsAreTyped DEF GatewayDies, NoRequest, Library, SingleTypeOK,
                                           LastIsPresent, CompletedClaims, CompletesItsOwn
    <2>3. OneHolds'
      BY <1>16, <1>t DEF GatewayDies, NoRequest, Library, SingleTypeOK, OneHolds, Holds, Locked,
                         NoRequest
    <2>4. CompletesItsOwn'
      BY <1>16, <1>t, RequestsAreTyped DEF GatewayDies, NoRequest, Library, SingleTypeOK,
                                           CompletesItsOwn, Copy, NoRequest
    <2>5. ClaimsAreHeld'
      BY <1>16, <1>t, RequestsAreTyped DEF GatewayDies, NoRequest, Library, SingleTypeOK,
                                           ClaimsAreHeld, InUse, Locked, NoRequest
    <2>6. ImportsAreOwned'
      BY <1>16, <1>t, RequestsAreTyped DEF GatewayDies, NoRequest, Library, SingleTypeOK,
                                           ImportsAreOwned, LastIsPresent, NoRequest
    <2> QED
      BY <2>1, <2>2, <2>3, <2>4, <2>5, <2>6 DEF UploadInv
  <1>17. CASE UNCHANGED uploadVars
    <2>1. SingleTypeOK'
      BY <1>17, <1>t DEF uploadVars, SingleTypeOK, ClaimType, AskedType, Locked, Copy
    <2>2. LastIsPresent' /\ CompletedClaims'
      BY <1>17, <1>t, RequestsAreTyped DEF uploadVars, SingleTypeOK, LastIsPresent,
                                           CompletedClaims, CompletesItsOwn
    <2>3. OneHolds'
      BY <1>17, <1>t DEF uploadVars, SingleTypeOK, OneHolds, Holds, Locked, NoRequest
    <2>4. CompletesItsOwn'
      BY <1>17, <1>t, RequestsAreTyped DEF uploadVars, SingleTypeOK, CompletesItsOwn, Copy,
                                           NoRequest
    <2>5. ClaimsAreHeld'
      BY <1>17, <1>t, RequestsAreTyped DEF uploadVars, SingleTypeOK, ClaimsAreHeld, InUse,
                                           Locked, NoRequest
    <2>6. ImportsAreOwned'
      BY <1>17, <1>t, RequestsAreTyped DEF uploadVars, SingleTypeOK, ImportsAreOwned,
                                           LastIsPresent, NoRequest
    <2> QED
      BY <2>1, <2>2, <2>3, <2>4, <2>5, <2>6 DEF UploadInv
  <1> QED
    BY <1>1, <1>2, <1>3, <1>4, <1>5, <1>6, <1>7, <1>8, <1>9, <1>10, <1>11, <1>12,
       <1>13, <1>14, <1>15, <1>16, <1>17
       DEF SingleNext

\* UploadsAreOwned holds in every state, for any number of keys, requests and
\* imports.
THEOREM SingleUploadsAreOwned == SingleSpec => [](SingleTypeOK /\ UploadsAreOwned)
  <1>1. UploadInv => SingleTypeOK /\ UploadsAreOwned
    BY DEF UploadInv, CompletedClaims, UploadsAreOwned, OwnersUploadedIt, AnswersStand
  <1> QED
    BY <1>1, InitSingle, NextSingle, PTL DEF SingleSpec
=============================================================================
