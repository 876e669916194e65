---------------------------- MODULE MediaLibrary ----------------------------
(***************************************************************************)
(* Files and rows of the library (media.py, exporters.py, and              *)
(* delete_recording and add_artifact in repository.py): imports, deletions *)
(* and exports change the file system and the database one after the       *)
(* other, in the threads of the API, the gateway and the command line.     *)
(*                                                                         *)
(* A recording is named by the import that makes it, which takes a new id. *)
(* All imports bring the same bytes, which is when they meet; all exports  *)
(* are of one format, and each recording has one transcript.  Jobs are in  *)
(* JobQueue: here a deletion may find an active one or not.                *)
(***************************************************************************)
EXTENDS FiniteSets

CONSTANTS Import, Removal, Export   \* the calls

ASSUME LibraryAssumption ==
    0 \notin Import /\ Removal \cap {"part", "media", "export"} = {}

VARIABLES recordings,  \* the rows of recordings
          artifactRows, \* the recordings whose transcript has an artifact's row
          disk,        \* the files: <<recording, name>>
          importing,   \* [Import -> where import_stream is]
          removing,    \* [Removal -> where delete_recording is, and of what]
          exporting,   \* [Export -> where export is, and of what]
          residue,     \* history: recordings at which a call was cut off or late
          clashed      \* history: recordings that two exports were at

libraryVars == <<recordings, artifactRows, disk, importing, removing, exporting, residue, clashed>>
rowsOnly == <<recordings, artifactRows>>
callsUnderWay == <<importing, removing, exporting>>

\* A staged file is named after the deletion that staged it.
MediaOf(i) == <<i, "media">>
Part(i)    == <<i, "part">>
Result(i)  == <<i, "export">>
Staged(d)  == <<removing[d].of, d>>

NoTask == [at |-> "over", of |-> 0]

ImportAt == {"new", "copied", "placed", "over"}
RemovalAt == {"found", "staged", "undo", "unlink"}
ExportAt == {"wanted", "placed", "undo"}

LibraryTypeOK ==
    /\ recordings \subseteq Import /\ artifactRows \subseteq Import
    /\ disk \subseteq Import \X ({"part", "media", "export"} \cup Removal)
    /\ importing \in [Import -> ImportAt]
    /\ removing \in [Removal -> {NoTask} \cup [at : RemovalAt, of : Import]]
    /\ exporting \in [Export -> {NoTask} \cup [at : ExportAt, of : Import]]
    /\ residue \subseteq Import /\ clashed \subseteq Import

LibraryInit ==
    /\ recordings = {} /\ artifactRows = {} /\ disk = {}
    /\ importing = [i \in Import |-> "new"]
    /\ removing = [d \in Removal |-> NoTask] /\ exporting = [e \in Export |-> NoTask]
    /\ residue = {} /\ clashed = {}

\* The write lock of SQLite, which only delete_recording keeps for longer.
DatabaseFree == \A d \in Removal : removing[d].at # "staged"

-----------------------------------------------------------------------------
(* import_stream.                                                          *)

ImportGoes(i, at) == importing' = [importing EXCEPT ![i] = at] /\ UNCHANGED <<removing, exporting>>

CopiesAndHashes(i) ==
    /\ importing[i] = "new" /\ ImportGoes(i, "copied")
    /\ disk' = disk \cup {Part(i)}
    /\ UNCHANGED <<rowsOnly, residue, clashed>>

\* No recording has the hash, the container is one of the extension's, and
\* os.replace
PlacesMedia(i) ==
    /\ importing[i] = "copied" /\ recordings = {} /\ ImportGoes(i, "placed")
    /\ disk' = (disk \ {Part(i)}) \cup {MediaOf(i)}
    /\ UNCHANGED <<rowsOnly, residue, clashed>>

\* A duplicate that is known, media that cannot be decoded, or a file error
ImportRejected(i) ==
    /\ importing[i] = "copied" /\ ImportGoes(i, "over")
    /\ disk' = disk \ {Part(i)}
    /\ UNCHANGED <<rowsOnly, residue, clashed>>

\* add_recording: the hash is unique
AddsRecording(i) ==
    /\ importing[i] = "placed" /\ DatabaseFree /\ recordings = {}
    /\ recordings' = recordings \cup {i} /\ ImportGoes(i, "over")
    /\ UNCHANGED <<artifactRows, disk, residue, clashed>>

AddingFails(i) ==
    /\ importing[i] = "placed" /\ ImportGoes(i, "over")
    /\ disk' = disk \ {MediaOf(i)}
    /\ UNCHANGED <<rowsOnly, residue, clashed>>

-----------------------------------------------------------------------------
(* delete_recording.                                                       *)

RemovalGoes(d, at) ==
    removing' = [removing EXCEPT ![d].at = at] /\ UNCHANGED <<importing, exporting>>
RemovalEnds(d) ==
    removing' = [removing EXCEPT ![d] = NoTask] /\ UNCHANGED <<importing, exporting>>

FindsRecording(d, i) ==
    /\ removing[d].at = "over" /\ i \in recordings
    /\ removing' = [removing EXCEPT ![d] = [at |-> "found", of |-> i]]
    /\ UNCHANGED <<rowsOnly, disk, importing, exporting, residue, clashed>>

\* The database is busy, a job is active, or the file cannot be renamed.
RemovalRefused(d) ==
    /\ removing[d].at = "found" /\ RemovalEnds(d)
    /\ UNCHANGED <<rowsOnly, disk, residue, clashed>>

\* BEGIN IMMEDIATE, no active job, stage_media
StagesMedia(d) ==
    /\ removing[d].at = "found" /\ DatabaseFree /\ RemovalGoes(d, "staged")
    /\ disk' = IF MediaOf(removing[d].of) \in disk
               THEN (disk \ {MediaOf(removing[d].of)}) \cup {Staged(d)} ELSE disk
    /\ UNCHANGED <<rowsOnly, residue, clashed>>

\* The artifacts go with the transcripts; their files stay.  Since stage_media
\* another deletion may have put the media back.
CommitsRemoval(d) ==
    /\ removing[d].at = "staged" /\ RemovalGoes(d, "unlink")
    /\ recordings' = recordings \ {removing[d].of}
    /\ artifactRows' = artifactRows \ {removing[d].of}
    /\ residue' = IF MediaOf(removing[d].of) \in disk
                  THEN residue \cup {removing[d].of} ELSE residue
    /\ UNCHANGED <<disk, clashed>>

FailsRemoval(d) ==
    /\ removing[d].at = "staged" /\ RemovalGoes(d, "undo")
    /\ UNCHANGED <<rowsOnly, disk, residue, clashed>>

UnlinksStaged(d) ==
    /\ removing[d].at = "unlink" /\ RemovalEnds(d)
    /\ disk' = disk \ {Staged(d)}
    /\ UNCHANGED <<rowsOnly, residue, clashed>>

\* Mutant of RestoresMedia: a deletion that fails leaves the file as it is.
RestoresNothing(d) ==
    /\ removing[d].at = "undo" /\ RemovalEnds(d)
    /\ UNCHANGED <<rowsOnly, disk, residue, clashed>>

\* Since the rollback another deletion may have removed the row.
RestoresMedia(d) ==
    /\ removing[d].at = "undo" /\ RemovalEnds(d)
    /\ disk' = IF Staged(d) \in disk
               THEN (disk \ {Staged(d)}) \cup {MediaOf(removing[d].of)} ELSE disk
    /\ residue' = IF Staged(d) \in disk /\ removing[d].of \notin recordings
                  THEN residue \cup {removing[d].of} ELSE residue
    /\ UNCHANGED <<rowsOnly, clashed>>

-----------------------------------------------------------------------------
(* export, and ensure_transcript_source, which writes a lost file again.   *)

ExportGoes(e, at) ==
    exporting' = [exporting EXCEPT ![e].at = at] /\ UNCHANGED <<importing, removing>>
ExportEnds(e) ==
    exporting' = [exporting EXCEPT ![e] = NoTask] /\ UNCHANGED <<importing, removing>>

\* The command line does not look for an artifact before, the API does.
WantsExport(e, i) ==
    /\ exporting[e].at = "over" /\ i \in recordings
    /\ exporting' = [exporting EXCEPT ![e] = [at |-> "wanted", of |-> i]]
    /\ UNCHANGED <<rowsOnly, disk, importing, removing, residue, clashed>>

Others(e) == {x \in Export \ {e} : exporting[x].of = exporting[e].of
                                   /\ exporting[x].at \in {"placed", "undo"}}

PlacesExport(e) ==
    /\ exporting[e].at = "wanted" /\ ExportGoes(e, "placed")
    /\ disk' = disk \cup {Result(exporting[e].of)}
    /\ clashed' = IF Others(e) # {} \/ exporting[e].of \in artifactRows
                  THEN clashed \cup {exporting[e].of} ELSE clashed
    /\ UNCHANGED <<rowsOnly, residue>>

\* add_artifact: the path is unique, and the transcript must exist.
AddsArtifact(e) ==
    /\ exporting[e].at = "placed" /\ DatabaseFree
    /\ exporting[e].of \in recordings \ artifactRows
    /\ artifactRows' = artifactRows \cup {exporting[e].of} /\ ExportEnds(e)
    /\ UNCHANGED <<recordings, disk, residue, clashed>>

\* The artifact exists, the transcript does not, or the database is busy.
AddingArtifactFails(e) ==
    /\ exporting[e].at = "placed" /\ ExportGoes(e, "undo")
    /\ UNCHANGED <<rowsOnly, disk, residue, clashed>>

WithdrawsExport(e) ==
    /\ exporting[e].at = "undo" /\ ExportEnds(e)
    /\ disk' = disk \ {Result(exporting[e].of)}
    /\ UNCHANGED <<rowsOnly, residue, clashed>>

ExportRefused(e) ==
    /\ exporting[e].at = "wanted" /\ ExportEnds(e)
    /\ UNCHANGED <<rowsOnly, disk, residue, clashed>>

WritesAgain(i) ==
    /\ i \in artifactRows /\ Result(i) \notin disk
    /\ disk' = disk \cup {Result(i)}
    /\ UNCHANGED <<rowsOnly, callsUnderWay, residue, clashed>>

-----------------------------------------------------------------------------
(* The process is killed; SQLite rolls back what it had not committed.     *)

ImportKilled(i) ==
    /\ importing[i] \notin {"new", "over"} /\ ImportGoes(i, "over")
    /\ residue' = residue \cup {i}
    /\ UNCHANGED <<rowsOnly, disk, clashed>>

RemovalKilled(d) ==
    /\ removing[d].at \in {"staged", "undo", "unlink"} /\ RemovalEnds(d)
    /\ residue' = residue \cup {removing[d].of}
    /\ UNCHANGED <<rowsOnly, disk, clashed>>

ExportKilled(e) ==
    /\ exporting[e].at \in {"placed", "undo"} /\ ExportEnds(e)
    /\ UNCHANGED <<rowsOnly, disk, residue, clashed>>

LibraryNext ==
    \/ \E i \in Import : \/ CopiesAndHashes(i) \/ PlacesMedia(i)
                         \/ ImportRejected(i) \/ AddsRecording(i) \/ AddingFails(i)
                         \/ ImportKilled(i) \/ WritesAgain(i)
    \/ \E d \in Removal : \/ RemovalRefused(d) \/ StagesMedia(d)
                          \/ CommitsRemoval(d) \/ FailsRemoval(d) \/ UnlinksStaged(d)
                          \/ RestoresMedia(d) \/ RemovalKilled(d)
                          \/ \E i \in Import : FindsRecording(d, i)
    \/ \E e \in Export : \/ PlacesExport(e) \/ AddsArtifact(e) \/ AddingArtifactFails(e)
                         \/ WithdrawsExport(e) \/ ExportRefused(e)
                         \/ ExportKilled(e)
                         \/ \E i \in Import : WantsExport(e, i)

LibrarySpec == LibraryInit /\ [][LibraryNext]_libraryVars

-----------------------------------------------------------------------------
(* Properties.                                                             *)

\* A recording in the library has its file, at its path or, while a deletion is
\* under way or being undone, under the staged name.  Only a call that was
\* killed half way is excepted, as the documentation says.
RecordingsHaveMedia ==
    \A i \in recordings \ residue :
        \/ MediaOf(i) \in disk
        \/ \E d \in Removal : /\ removing[d].of = i /\ removing[d].at \in {"staged", "undo"}
                              /\ Staged(d) \in disk

\* A file of media belongs to a recording, or somebody is about to add the
\* recording or to remove the file; except after a call that was killed, and
\* after a deletion that failed and put the file back only when another deletion
\* had already looked for it: the file is put back outside the transaction.
MediaHasItsRecording ==
    \A f \in disk : f[2] # "export" /\ f[1] \notin residue =>
        \/ f[2] = "part" /\ importing[f[1]] = "copied"
        \/ f[2] = "media" /\ (f[1] \in recordings \/ importing[f[1]] = "placed")
        \/ f[2] \in Removal /\ removing[f[2]].of = f[1]
              /\ removing[f[2]].at \in {"staged", "undo", "unlink"}

\* An export that is listed has its file, unless two exports of the format
\* were at it and the cleanup of one removed the file of the other.
ExportsHaveFiles == \A i \in artifactRows \ clashed : Result(i) \in disk

\* Whichever step of whichever call fails, files and rows agree.
FilesAgreeWithRows == RecordingsHaveMedia /\ MediaHasItsRecording /\ ExportsHaveFiles
=============================================================================
