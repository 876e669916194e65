-------------------------- MODULE ResumableUpload --------------------------
(***************************************************************************)
(* Resumable uploads of the remote gateway: the rows of                    *)
(* remote_resumable_sessions and _chunks, the staged files, the in-memory  *)
(* set resumable_busy, the finalization tasks, the collector, and restarts *)
(* of the process.                                                         *)
(*                                                                         *)
(* Whoever does something to a session holds its entry in resumable_busy:  *)
(* a PATCH, a finalization task, a replayed finalize ("close"), a DELETE,  *)
(* a request that found the session over ("visit"), the collector ("gc").  *)
(* holder[u] says who, and how far it is: an entry is held across awaits   *)
(* and threads, so every store transaction and every file operation is a   *)
(* step.  Code that runs on the event loop without an await is one step    *)
(* unless a thread or a crash can tell.                                    *)
(*                                                                         *)
(* Abstracted: bytes (a session has Chunks chunks; offset counts committed *)
(* ones), identities, metadata, disk space, the format checks of requests. *)
(* Every database call made for a request may fail where the code handles  *)
(* the failure; the ones inside an exception handler succeed.  A request   *)
(* whose session is not overdue when owned_session looks runs before the   *)
(* session becomes overdue: the clock may pass right after.                *)
(***************************************************************************)
EXTENDS Naturals, FiniteSets

CONSTANTS Session,      \* upload ids, one for each intention of a client
          Chunks,       \* total_bytes, in chunks
          Enqueued,     \* the sessions with enqueue = true
          Mismatched,   \* the sessions whose bytes are not the announced ones
          Fragile,      \* the sessions whose staged chunks somebody may lose
          ActiveLimit,  \* RESUMABLE_ACTIVE_GLOBAL
          PoolLimit     \* 1 + RESUMABLE_FINALIZATION_PENDING

ASSUME SessionAssumption ==
    /\ IsFiniteSet(Session)
    /\ Enqueued \subseteq Session
    /\ Mismatched \subseteq Session
    /\ Fragile \subseteq Session
ASSUME LimitAssumption ==
    /\ Chunks \in Nat \ {0}
    /\ ActiveLimit \in Nat \ {0}
    /\ PoolLimit \in Nat \ {0}

VARIABLES row,       \* remote_resumable_sessions
          expired,   \* the sessions with expires_at <= now
          files,     \* what is in incoming/<upload_id>
          imports,   \* how often MediaLibrary.import_stream committed
          claim,     \* remote_jobs, under the key of the session
          live,      \* reusable jobs of the recording
          holder,    \* resumable_busy, and where its owner is
          deleting,  \* DELETE requests that wait for the task
          phase,     \* of the gateway process
          todo       \* the rows that start-up has still to look at

store == <<row, expired, files, imports, claim, live>>
process == <<holder, deleting, phase, todo>>
vars == <<row, expired, files, imports, claim, live, holder, deleting, phase, todo>>

Reserving == {"uploading", "assembling", "importing"}
Terminal  == {"completed", "aborted", "expired"}
NoRow     == {"none", "forgotten"}
State     == Reserving \cup Terminal \cup NoRow

Temp      == 0                \* the .part file of a PATCH
Committed == 1 .. Chunks      \* 00000000.chunk, ...
Media     == Chunks + 1       \* assembled.part, assembled.<ext>
File      == 0 .. Chunks + 1

Row == [state     : State,
        offset    : 0 .. Chunks,
        recording : BOOLEAN,                          \* recording_id IS NOT NULL
        error     : {"none", "unknown", "pending"},   \* error_code, as far as it matters
        cleaned   : BOOLEAN]                          \* cleanup_completed_at IS NOT NULL

NewRow == [state |-> "uploading", offset |-> 0, recording |-> FALSE,
           error |-> "none", cleaned |-> FALSE]

Actor == {"nobody", "patch", "task", "close", "delete", "visit", "gc"}
Place == {"idle", "receive", "commit", "late", "queued", "assemble", "check",
          "promote", "import", "record", "claim", "enqueue", "settle",
          "complete", "verify", "purge", "mark", "forget"}

Nobody == [who |-> "nobody", at |-> "idle"]

UploadTypeOK ==
    /\ row \in [Session -> Row]
    /\ expired \subseteq Session
    /\ files \in [Session -> SUBSET File]
    /\ imports \in [Session -> Nat]
    /\ claim \in [Session -> {"none", "creating", "completed"}]
    /\ live \in [Session -> Nat]
    /\ holder \in [Session -> [who : Actor, at : Place]]
    /\ deleting \subseteq Session
    /\ phase \in {"down", "boot", "up"}
    /\ todo \subseteq Session

Init == /\ row = [u \in Session |-> [NewRow EXCEPT !.state = "none"]]
        /\ expired = {}
        /\ files = [u \in Session |-> {}]
        /\ imports = [u \in Session |-> 0]
        /\ claim = [u \in Session |-> "none"]
        /\ live = [u \in Session |-> 0]
        /\ holder = [u \in Session |-> Nobody]
        /\ deleting = {}
        /\ phase = "down"
        /\ todo = {}

-----------------------------------------------------------------------------
(* Helpers.                                                                *)

Serving == phase = "up"
At(u, who, at) == holder[u].who = who /\ holder[u].at = at

\* session_operation: the entry can be taken
Free(u) == holder[u] = Nobody

Take(u, who, at) == holder' = [holder EXCEPT ![u] = [who |-> who, at |-> at]]
Go(u, at)        == holder' = [holder EXCEPT ![u].at = at]
Release(u)       == holder' = [holder EXCEPT ![u] = Nobody]

\* resumable_transition: the row has the expected state, or nothing happens
Transition(u, previous, state, error) ==
    row' = IF row[u].state = previous
           THEN [row EXCEPT ![u].state = state, ![u].error = error]
           ELSE row

Tasks   == {u \in Session : holder[u].who = "task"}
Overdue == {u \in expired : row[u].state = "uploading"}

\* the first statement of resumable_init
Swept == [u \in Session |-> IF u \in Overdue
                            THEN [row[u] EXCEPT !.state = "expired", !.error = "none"]
                            ELSE row[u]]

\* Mutant of Active: an import gives its place back before it is decided.
ActiveForgettingImports(table) ==
    {u \in Session : table[u].state \in {"uploading", "assembling"}}

Active(table) == {u \in Session : table[u].state \in Reserving}

-----------------------------------------------------------------------------
(* Time, and the world outside.                                            *)

\* expires_at is fixed when the session is created
Expire(u) ==
    /\ row[u].state \notin NoRow /\ u \notin expired
    /\ expired' = expired \cup {u}
    /\ UNCHANGED <<row, files, imports, claim, live, process>>

\* A staged chunk is lost or damaged.
ChunkIsLost(u) ==
    /\ u \in Fragile
    /\ \E c \in files[u] \cap Committed :
          files' = [files EXCEPT ![u] = @ \ {c}]
    /\ UNCHANGED <<row, expired, imports, claim, live, process>>

\* The worker fails or cancels a job: it is not reusable any more.
JobEnds(u) ==
    /\ live[u] > 0
    /\ live' = [live EXCEPT ![u] = @ - 1]
    /\ UNCHANGED <<row, expired, files, imports, claim, process>>

-----------------------------------------------------------------------------
(* init_resumable.                                                         *)

\* A new row; it is aborted at once when its directory cannot be made.
InitSession(u) ==
    /\ Serving /\ row[u].state = "none"
    /\ Cardinality(Active(Swept)) < ActiveLimit
    /\ \E state \in {"uploading", "aborted"} :
          row' = [Swept EXCEPT ![u] = [NewRow EXCEPT !.state = state]]
    /\ UNCHANGED <<expired, files, imports, claim, live, process>>

\* A replay finds its row, and has expired the overdue sessions, held or not.
InitReplay ==
    /\ Serving /\ Overdue # {}
    /\ row' = Swept
    /\ UNCHANGED <<expired, files, imports, claim, live, process>>

-----------------------------------------------------------------------------
(* owned_session and collect_resumable: sessions that are over.            *)

\* Mutant of TakeOverdue: an assembly is left to its task.
TakeOverdueUpload(u, who) ==
    /\ Serving /\ Free(u)
    /\ u \in expired /\ row[u].state = "uploading"
    /\ Transition(u, row[u].state, "expired", "none")
    /\ Take(u, who, "purge")
    /\ UNCHANGED <<expired, files, imports, claim, live, deleting, phase, todo>>

\* A request or the collector takes an overdue session and expires it.
TakeOverdue(u, who) ==
    /\ Serving /\ Free(u)
    /\ u \in expired /\ row[u].state \in {"uploading", "assembling"}
    /\ Transition(u, row[u].state, "expired", "none")
    /\ Take(u, who, "purge")
    /\ UNCHANGED <<expired, files, imports, claim, live, deleting, phase, todo>>

\* A request that finds a session over cleans it, if that is still to be done.
VisitTerminal(u) ==
    /\ Serving /\ Free(u)
    /\ row[u].state \in {"aborted", "expired"} /\ ~row[u].cleaned
    /\ Take(u, "visit", "purge")
    /\ UNCHANGED <<store, deleting, phase, todo>>

\* The collector cleans every session that is over, in every cycle.
CollectTerminal(u) ==
    /\ Serving /\ Free(u)
    /\ row[u].state \in Terminal
    /\ Take(u, "gc", "purge")
    /\ UNCHANGED <<store, deleting, phase, todo>>

\* one thread: one session after the other
CollectorIsFree == \A u \in Session : holder[u].who # "gc"

Visit(u)   == TakeOverdue(u, "visit") \/ VisitTerminal(u)
Collect(u) == CollectorIsFree /\ (TakeOverdue(u, "gc") \/ CollectTerminal(u))

-----------------------------------------------------------------------------
(* cleanup_session, whoever calls it: _purge_staging, then the mark.       *)

\* An error leaves the rest of the files, and the row unmarked.
Purge(u, rest) ==
    /\ holder[u].at = "purge"
    /\ files' = [files EXCEPT ![u] = rest]
    /\ IF rest = {} THEN Go(u, "mark") ELSE Release(u)
    /\ UNCHANGED <<row, expired, imports, claim, live, deleting, phase, todo>>

PurgeAll(u)  == Purge(u, {})
PurgeSome(u) == \E rest \in (SUBSET files[u]) \ {{}} : Purge(u, rest)

\* resumable_cleaned; the collector forgets what has been over for a week
Mark(u) ==
    /\ holder[u].at = "mark"
    /\ row' = [row EXCEPT ![u].cleaned = TRUE]
    /\ \/ Release(u)
       \/ holder[u].who = "gc" /\ u \in expired /\ Go(u, "forget")
    /\ UNCHANGED <<expired, files, imports, claim, live, deleting, phase, todo>>

\* resumable_forget
Forget(u) ==
    /\ holder[u].at = "forget"
    /\ IF row[u].cleaned /\ row[u].state \in Terminal
       THEN row' = [row EXCEPT ![u].state = "forgotten"]
       ELSE UNCHANGED row
    /\ Release(u)
    /\ UNCHANGED <<expired, files, imports, claim, live, deleting, phase, todo>>

Cleanup(u) == PurgeAll(u) \/ PurgeSome(u) \/ Mark(u) \/ Forget(u)

-----------------------------------------------------------------------------
(* patch_resumable.                                                        *)

PatchStarts(u) ==
    /\ Serving /\ Free(u) /\ u \notin expired
    /\ row[u].state = "uploading" /\ row[u].offset < Chunks
    /\ files' = [files EXCEPT ![u] = @ \cup {Temp}]
    /\ Take(u, "patch", "receive")
    /\ UNCHANGED <<row, expired, imports, claim, live, deleting, phase, todo>>

\* timeout, lost connection, wrong size or hash, full disk
PatchFails(u) ==
    /\ At(u, "patch", "receive")
    /\ files' = [files EXCEPT ![u] = @ \ {Temp}]
    /\ Release(u)
    /\ UNCHANGED <<row, expired, imports, claim, live, deleting, phase, todo>>

\* os.replace to the place of the next chunk; then the clock is read
PatchReceives(u) ==
    /\ At(u, "patch", "receive")
    /\ files' = [files EXCEPT ![u] = (@ \ {Temp}) \cup {row[u].offset + 1}]
    /\ Go(u, IF u \in expired THEN "late" ELSE "commit")
    /\ UNCHANGED <<row, expired, imports, claim, live, deleting, phase, todo>>

\* resumable_commit_chunk
PatchCommits(u) ==
    /\ At(u, "patch", "commit")
    /\ row[u].state = "uploading"
    /\ row' = [row EXCEPT ![u].offset = @ + 1]
    /\ Release(u)
    /\ UNCHANGED <<expired, files, imports, claim, live, deleting, phase, todo>>

\* Mutant of PatchRejected: the entry is not given back on an error.
PatchRejectedKeepingEntry(u) ==
    /\ At(u, "patch", "commit")
    /\ Go(u, "late")
    /\ UNCHANGED <<store, deleting, phase, todo>>

\* 409 session_changed, or the transaction fails: the file stays
PatchRejected(u) ==
    /\ At(u, "patch", "commit") \/ At(u, "patch", "late")
    /\ Release(u)
    /\ UNCHANGED <<store, deleting, phase, todo>>

Patch(u) == \/ PatchStarts(u) \/ PatchFails(u) \/ PatchReceives(u)
            \/ PatchCommits(u) \/ PatchRejected(u)

-----------------------------------------------------------------------------
(* finalize_resumable.                                                     *)

CanFinalize(u) ==
    /\ Serving /\ Free(u) /\ u \notin expired
    /\ row[u].state = "uploading" /\ row[u].offset = Chunks
    /\ Cardinality(Tasks) < PoolLimit

FinalizeAccepts(u) ==
    /\ CanFinalize(u)
    /\ Transition(u, "uploading", "assembling", "none")
    /\ Take(u, "task", "queued")
    /\ UNCHANGED <<expired, files, imports, claim, live, deleting, phase, todo>>

\* The row is moved, but reading it back fails: no task, the entry is free.
FinalizeLosesTask(u) ==
    /\ CanFinalize(u)
    /\ Transition(u, "uploading", "assembling", "none")
    /\ UNCHANGED <<expired, files, imports, claim, live, process>>

\* A replayed finalize resumes the queueing and the completion.
CloseStarts(u) ==
    /\ Serving /\ Free(u)
    /\ \/ row[u].state = "completed"
       \/ row[u].state = "importing" /\ row[u].recording
    /\ Take(u, "close", IF u \in Enqueued THEN "claim" ELSE "complete")
    /\ UNCHANGED <<store, deleting, phase, todo>>

Finalize(u) == FinalizeAccepts(u) \/ FinalizeLosesTask(u) \/ CloseStarts(u)

-----------------------------------------------------------------------------
(* finish_resumable: the finalization task.                                *)

\* finalization_slot: one task at a time; a cancelled session is left alone
TaskEnters(u) ==
    /\ At(u, "task", "queued")
    /\ \A v \in Tasks : holder[v].at = "queued"
    /\ IF row[u].state = "assembling" THEN Go(u, "assemble") ELSE Release(u)
    /\ UNCHANGED <<store, deleting, phase, todo>>

\* assemble_resumable, up to the comparison of the hashes
TaskAssembles(u) ==
    /\ At(u, "task", "assemble")
    /\ Committed \subseteq files[u]
    /\ files' = [files EXCEPT ![u] = @ \cup {Media}]
    /\ IF u \in Mismatched
       THEN Transition(u, "assembling", "aborted", "none") /\ Go(u, "purge")
       ELSE UNCHANGED row /\ Go(u, "check")
    /\ UNCHANGED <<expired, imports, claim, live, deleting, phase, todo>>

\* an I/O error, or a chunk that is not what the manifest says
TaskFails(u) ==
    /\ holder[u].at \in {"assemble", "check", "promote"}
    /\ Transition(u, "assembling", "aborted", "none")
    /\ IF row[u].state = "assembling" THEN Go(u, "purge") ELSE Release(u)
    /\ UNCHANGED <<expired, files, imports, claim, live, deleting, phase, todo>>

TaskChecksExpiry(u) ==
    /\ At(u, "task", "check")
    /\ IF u \in expired
       THEN Transition(u, "assembling", "expired", "none")
       ELSE UNCHANGED row
    /\ Go(u, "promote")
    /\ UNCHANGED <<expired, files, imports, claim, live, deleting, phase, todo>>

\* the durable mark that precedes the import
TaskPromotes(u) ==
    /\ At(u, "task", "promote")
    /\ Transition(u, "assembling", "importing", "none")
    /\ Go(u, IF row[u].state = "assembling" THEN "import" ELSE "purge")
    /\ UNCHANGED <<expired, files, imports, claim, live, deleting, phase, todo>>

TaskImports(u) ==
    /\ At(u, "task", "import")
    /\ imports' = [imports EXCEPT ![u] = @ + 1]
    /\ Go(u, "record")
    /\ UNCHANGED <<row, expired, files, claim, live, deleting, phase, todo>>

\* duplicate, invalid, unsupported or too large: raised before the commit
TaskIsRejected(u) ==
    /\ At(u, "task", "import")
    /\ Transition(u, "importing", "aborted", "none")
    /\ Go(u, "purge")
    /\ UNCHANGED <<expired, files, imports, claim, live, deleting, phase, todo>>

\* any other exception: before the commit or after it
TaskLosesImport(u) ==
    /\ At(u, "task", "import")
    /\ imports' \in {imports, [imports EXCEPT ![u] = @ + 1]}
    /\ Transition(u, "importing", "importing", "unknown")
    /\ Release(u)
    /\ UNCHANGED <<expired, files, claim, live, deleting, phase, todo>>

TaskRecords(u) ==
    /\ At(u, "task", "record")
    /\ row' = [row EXCEPT ![u].recording = TRUE, ![u].error = "none"]
    /\ Go(u, IF u \in Enqueued THEN "claim" ELSE "complete")
    /\ UNCHANGED <<expired, files, imports, claim, live, deleting, phase, todo>>

Task(u) == \/ TaskEnters(u) \/ TaskAssembles(u) \/ TaskFails(u)
           \/ TaskChecksExpiry(u) \/ TaskPromotes(u) \/ TaskImports(u)
           \/ TaskIsRejected(u) \/ TaskLosesImport(u) \/ TaskRecords(u)

-----------------------------------------------------------------------------
(* _create_job, then the completion: the task, or a replayed finalize.     *)

\* claim_job; a claim that was completed needs no second job
JobIsClaimed(u) ==
    /\ holder[u].at = "claim"
    /\ IF claim[u] = "completed"
       THEN UNCHANGED claim /\ Go(u, "complete")
       ELSE claim' = [claim EXCEPT ![u] = "creating"] /\ Go(u, "enqueue")
    /\ UNCHANGED <<row, expired, files, imports, live, deleting, phase, todo>>

\* Mutant of JobIsEnqueued: a job that is there already is not looked for.
EnqueueAlways(u) ==
    /\ holder[u].at = "enqueue"
    /\ live' = [live EXCEPT ![u] = @ + 1]
    /\ Go(u, "settle")
    /\ UNCHANGED <<row, expired, files, imports, claim, deleting, phase, todo>>

\* a pending, running or succeeded job of the recording is used again
JobIsEnqueued(u) ==
    /\ holder[u].at = "enqueue"
    /\ live' = IF live[u] > 0 THEN live ELSE [live EXCEPT ![u] = @ + 1]
    /\ Go(u, "settle")
    /\ UNCHANGED <<row, expired, files, imports, claim, deleting, phase, todo>>

\* complete_job
JobIsSettled(u) ==
    /\ holder[u].at = "settle"
    /\ claim' = [claim EXCEPT ![u] = "completed"]
    /\ Go(u, "complete")
    /\ UNCHANGED <<row, expired, files, imports, live, deleting, phase, todo>>

\* No model, no recording, no job any more, or a failed transaction:
\* release_job; the task says so in the row, a request in its answer.
QueueingFails(u) ==
    /\ holder[u].at \in {"claim", "enqueue", "settle", "complete"}
    /\ claim' = IF claim[u] = "creating" /\ holder[u].at # "claim"
                THEN [claim EXCEPT ![u] = "none"] ELSE claim
    /\ IF holder[u].who = "task"
       THEN Transition(u, "importing", "importing", "pending")
       ELSE UNCHANGED row
    /\ Release(u)
    /\ UNCHANGED <<expired, files, imports, live, deleting, phase, todo>>

Complete(u) ==
    /\ holder[u].at = "complete"
    /\ Transition(u, row[u].state, "completed", "none")
    /\ Go(u, "purge")
    /\ UNCHANGED <<expired, files, imports, claim, live, deleting, phase, todo>>

Queueing(u) == \/ JobIsClaimed(u) \/ JobIsEnqueued(u) \/ JobIsSettled(u)
               \/ QueueingFails(u) \/ Complete(u)

-----------------------------------------------------------------------------
(* delete_resumable.                                                       *)

DeleteUploading(u) ==
    /\ Serving /\ Free(u) /\ u \notin expired
    /\ row[u].state = "uploading"
    /\ Transition(u, "uploading", "aborted", "none")
    /\ Take(u, "delete", "purge")
    /\ UNCHANGED <<expired, files, imports, claim, live, deleting, phase, todo>>

\* The row is moved while the task works; then the task is waited for.
DeleteAssembling(u) ==
    /\ Serving /\ u \notin expired
    /\ row[u].state = "assembling"
    /\ Transition(u, "assembling", "aborted", "none")
    /\ deleting' = deleting \cup {u}
    /\ UNCHANGED <<expired, files, imports, claim, live, holder, phase, todo>>

DeleteContinues(u) ==
    /\ u \in deleting /\ Free(u)
    /\ Take(u, "delete", "purge")
    /\ deleting' = deleting \ {u}
    /\ UNCHANGED <<store, phase, todo>>

\* the client goes away, or somebody else cleans already
DeleteGivesUp(u) ==
    /\ u \in deleting
    /\ deleting' = deleting \ {u}
    /\ UNCHANGED <<store, holder, phase, todo>>

Delete(u) == \/ DeleteUploading(u) \/ DeleteAssembling(u)
             \/ DeleteContinues(u) \/ DeleteGivesUp(u)

-----------------------------------------------------------------------------
(* The process: crash, start, and the reconciliation of every row before   *)
(* the first request (lifespan, collect_resumable(startup=True)).          *)

Crash ==
    /\ phase # "down"
    /\ phase' = "down"
    /\ holder' = [u \in Session |-> Nobody]
    /\ deleting' = {}
    /\ todo' = {}
    /\ UNCHANGED store

Start ==
    /\ phase = "down"
    /\ phase' = "boot"
    /\ todo' = {u \in Session : row[u].state \notin NoRow}
    /\ UNCHANGED <<store, holder, deleting>>

\* Mutant of BootImporting: an interrupted import is simply tried again.
BootRetriesImport(u) ==
    /\ row[u].state = "importing"
    /\ Transition(u, "importing", "uploading", "none")
    /\ UNCHANGED holder

\* Mutant of BootImporting: nothing is said of the interruption.
BootKeepsSilent(u) == row[u].state = "importing" /\ UNCHANGED <<row, holder>>

\* an interrupted import is never tried again
BootImporting(u) ==
    /\ row[u].state = "importing"
    /\ Transition(u, "importing", "importing",
                  IF row[u].recording THEN "pending" ELSE "unknown")
    /\ UNCHANGED holder

BootOver(u) ==
    /\ \/ row[u].state \in Terminal /\ UNCHANGED row
       \/ /\ u \in expired /\ row[u].state \in {"uploading", "assembling"}
          /\ Transition(u, row[u].state, "expired", "none")
    /\ Take(u, "gc", "purge")

\* an interrupted assembly may be finalized again
BootUploading(u) ==
    /\ u \notin expired /\ row[u].state \in {"uploading", "assembling"}
    /\ Transition(u, row[u].state, "uploading", "none")
    /\ Take(u, "gc", "verify")

Boot(u) ==
    /\ phase = "boot" /\ CollectorIsFree
    /\ u \in todo
    /\ todo' = todo \ {u}
    /\ BootImporting(u) \/ BootOver(u) \/ BootUploading(u)
    /\ UNCHANGED <<expired, files, imports, claim, live, deleting, phase>>

\* Mutant of Manifest: the last committed chunk is missed.
ShortManifest(u) == 1 .. (row[u].offset - 1)

\* resumable_chunks
Manifest(u) == 1 .. row[u].offset

\* The committed chunks are there: everything else is removed.
BootVerifies(u) ==
    /\ holder[u].at = "verify"
    /\ Manifest(u) \subseteq files[u]
    /\ files' = [files EXCEPT ![u] = Manifest(u)]
    /\ Release(u)
    /\ UNCHANGED <<row, expired, imports, claim, live, deleting, phase, todo>>

\* staging_corrupt
BootFindsDamage(u) ==
    /\ holder[u].at = "verify"
    /\ ~(Manifest(u) \subseteq files[u])
    /\ Transition(u, "uploading", "aborted", "none")
    /\ Go(u, "purge")
    /\ UNCHANGED <<expired, files, imports, claim, live, deleting, phase, todo>>

\* an I/O error: the session is left as it is
BootSkips(u) ==
    /\ holder[u].at = "verify"
    /\ Release(u)
    /\ UNCHANGED <<store, deleting, phase, todo>>

BootEnds ==
    /\ phase = "boot" /\ todo = {} /\ CollectorIsFree
    /\ phase' = "up"
    /\ UNCHANGED <<store, holder, deleting, todo>>

Reconcile(u) == Boot(u) \/ BootVerifies(u) \/ BootFindsDamage(u) \/ BootSkips(u)

-----------------------------------------------------------------------------
Next ==
    \/ InitReplay \/ Crash \/ Start \/ BootEnds
    \/ \E u \in Session :
          \/ Expire(u) \/ ChunkIsLost(u) \/ JobEnds(u)
          \/ InitSession(u) \/ Visit(u) \/ Collect(u) \/ Cleanup(u)
          \/ Patch(u) \/ Finalize(u) \/ Task(u) \/ Queueing(u)
          \/ Delete(u) \/ Reconcile(u)

Spec == Init /\ [][Next]_vars

-----------------------------------------------------------------------------
(* Safety.                                                                 *)

\* What a client learns of its session is true, final, and the media is in
\* the library at most once: across retries of finalize, a DELETE or the end
\* of the day that race the assembly, and a crash between any two steps.
Says(r) ==
    CASE r.state = "completed"                          -> "yes"
      [] r.state \in {"aborted", "expired"}              -> "no"
      [] r.state = "importing" /\ r.error = "unknown"    -> "unknown"
      [] r.state = "forgotten"                          -> "forgotten"
      [] OTHER                                          -> "pending"
told == [u \in Session |-> Says(row[u])]

Promise == INSTANCE UploadPromise WITH copies <- imports
Delivery == Promise!Spec

\* A chunk that was acknowledged is still staged when the session is resumed
\* or assembled: nobody cleans a session that may go on, a restart included.
AcknowledgedIsStaged ==
    \A u \in Session \ Fragile :
        row[u].state \in {"uploading", "assembling"}
            => 1 .. row[u].offset \subseteq files[u]

\* The mark that a session was cleaned is true, for ever: no request that was
\* under way, and no assembly, puts a file back.
CleanedIsEmpty == \A u \in Session : row[u].cleaned => files[u] = {}

\* The staged files and the rows agree: what was acknowledged is there, and
\* what was cleaned is gone (_purge_staging, _receive_resumable_chunk).
StagingAgrees == AcknowledgedIsStaged /\ CleanedIsEmpty

\* A completed session with enqueue = true has its claim on a job settled, and
\* retries and crashes between the two databases never make it two jobs.
QueuedOnce ==
    \A u \in Session : /\ live[u] <= 1
                       /\ u \in Enqueued /\ row[u].state = "completed"
                             => claim[u] = "completed"

\* A client that polls an import while nobody works on it is told so:
\* "unknown" when it may have happened, else that a finalize may resume it.
NobodyPollsInVain ==
    \A u \in Session :
        Serving /\ row[u].state = "importing" /\ holder[u].who \notin {"task", "close"}
            => row[u].error = IF row[u].recording THEN "pending" ELSE "unknown"

\* Whatever crashes or is retried between the databases of gateway and library, an
\* import is settled once, or the client is told what is left to do.
ImportsAreSettled == QueuedOnce /\ NobodyPollsInVain

\* Sessions that hold disk space for their bytes are within the limit,
\* undecided imports included.
WithinLimit ==
    Cardinality({u \in Session : row[u].state \in Reserving}) <= ActiveLimit

-----------------------------------------------------------------------------
(* Fairness.  Threads and tasks that hold an entry run on; a request body  *)
(* ends (_receive_resumable_chunk has a timeout); the semaphore is served  *)
(* in order; the day passes; the collector looks at every session in every *)
(* cycle, meets it free sometimes, and can remove its files if it tries    *)
(* often enough.  A client owes nothing: no fairness of what it asks for.  *)

Fairness ==
    /\ WF_vars(BootEnds)
    /\ \A u \in Session :
          /\ WF_vars(Expire(u))
          /\ WF_vars(PatchFails(u) \/ PatchReceives(u))
          /\ WF_vars(PatchCommits(u) \/ PatchRejected(u))
          /\ SF_vars(TaskEnters(u))
          /\ WF_vars(TaskAssembles(u) \/ TaskFails(u))
          /\ WF_vars(TaskChecksExpiry(u) \/ TaskPromotes(u))
          /\ WF_vars(TaskImports(u) \/ TaskIsRejected(u) \/ TaskLosesImport(u))
          /\ WF_vars(TaskRecords(u))
          /\ WF_vars(Queueing(u))
          /\ WF_vars(Cleanup(u))
          /\ SF_vars(PurgeAll(u))
          /\ SF_vars(Collect(u))
          /\ WF_vars(Reconcile(u))

FairSpec == Spec /\ Fairness

(* Liveness, once the process stays up.                                    *)

StaysUp == <>[](phase = "up")

\* An accepted finalize is decided, even if its task was lost.
AcceptedIsDecided ==
    StaysUp => \A u \in Session :
        row[u].state = "assembling" ~> row[u].state # "assembling"

\* The staged bytes of a session that is over are removed in the end.
StagingIsReleased ==
    StaysUp => \A u \in Session :
        row[u].state \in Terminal ~> row[u].cleaned

\* Nobody keeps the entry of a session in resumable_busy: no request is
\* answered 409 session_busy for ever.
HoldersLetGo ==
    StaysUp => \A u \in Session : holder[u] # Nobody ~> holder[u] = Nobody

\* What a session holds is given back: its entry and, once it is over, its
\* staged bytes (session_operation, collect_resumable).
SessionsLetGo == StagingIsReleased /\ HoldersLetGo
=============================================================================
