------------------------ MODULE ResumableUploadProofs ------------------------
(***************************************************************************)
(* What the runs check of resumable uploads on two sessions, for every     *)
(* number of sessions and chunks and every limit: the types, the staged    *)
(* files, the single job, the answers to a client that polls, the limit,   *)
(* and that the gateway implements UploadPromise.                          *)
(*                                                                         *)
(* Nearly every step is about one session.  Good(u) collects what such a   *)
(* step owes: it leaves the other sessions alone (Only), keeps the types   *)
(* and the invariant of u, makes a move that the promise allows (Promised) *)
(* and takes no new place (Shrinks).  One lemma for each part of the code  *)
(* shows it, and GoodStepKeeps draws the conclusions once.                 *)
(***************************************************************************)
EXTENDS ResumableClient, FiniteSetTheorems, TLAPS

Early == {"queued", "assemble", "check", "promote"}     \* of the task
Close == {"claim", "enqueue", "settle", "complete"}     \* from the recording on
Gone  == Terminal \cup {"forgotten"}

\* What the row says of the import, the job and the files.
RowOK(u) ==
    /\ imports[u] \in {0, 1} /\ live[u] \in {0, 1}
    /\ row[u].state \in {"none", "uploading", "assembling", "aborted", "expired"} => imports[u] = 0
    /\ row[u].recording => imports[u] = 1 /\ row[u].error # "unknown"
    /\ row[u].state = "completed" => row[u].recording
    /\ row[u].state = "completed" /\ u \in Enqueued => claim[u] = "completed"
    /\ row[u].cleaned => row[u].state \in Gone /\ files[u] = {}
    /\ u \notin Fragile /\ row[u].state \in {"uploading", "assembling"}
          => 1 .. row[u].offset \subseteq files[u]

\* What whoever holds the entry relies on, at each of its places.
PlaceOK(u) ==
    /\ holder[u].at = "idle" <=> holder[u].who = "nobody"
    /\ holder[u].at \in {"receive", "commit", "late"} =>
          holder[u].who = "patch" /\ row[u].state \in {"uploading", "expired"} /\ ~row[u].cleaned
    /\ holder[u].at \in {"receive", "commit"} => row[u].offset < Chunks
    /\ holder[u].at = "commit" /\ u \notin Fragile => row[u].offset + 1 \in files[u]
    /\ holder[u].at \in Early =>
          /\ holder[u].who = "task" /\ ~row[u].cleaned
          /\ row[u].state \in {"assembling", "aborted", "expired"}
    /\ holder[u].at \in {"import", "record"} =>
          holder[u].who = "task" /\ row[u].state = "importing" /\ row[u].error = "none"
    /\ holder[u].at = "import" => imports[u] = 0
    /\ holder[u].at = "record" => imports[u] = 1
    /\ holder[u].at \in Close =>
          /\ holder[u].who \in {"task", "close"} /\ row[u].recording
          /\ row[u].state \in {"importing", "completed"}
    /\ holder[u].at = "complete" /\ u \in Enqueued => claim[u] = "completed"
    /\ holder[u].at \in {"purge", "mark", "forget"} => row[u].state \in Gone
    /\ holder[u].at = "mark" => files[u] = {}
    /\ holder[u].at \in {"verify", "forget"} => holder[u].who = "gc"
    /\ holder[u].at = "verify" => row[u].state = "uploading"

\* Before the first request only the reconciliation works; a DELETE waits for a
\* session that is over; an import that no task works on says so, from the time
\* the reconciliation has seen it.
PhaseOK(u) ==
    /\ phase # "up" => holder[u].who \in {"nobody", "gc"} /\ u \notin deleting
    /\ holder[u].at = "verify" => phase = "boot"
    /\ u \in deleting => row[u].state \in Gone
    /\ phase = "up" \/ (phase = "boot" /\ u \notin todo) =>
          (row[u].state = "importing" /\ holder[u].who # "task"
             => row[u].error = IF row[u].recording THEN "pending" ELSE "unknown")

SessionOK(u) == RowOK(u) /\ PlaceOK(u) /\ PhaseOK(u)

IInv == UploadTypeOK /\ WithinLimit /\ \A u \in Session : SessionOK(u)

-----------------------------------------------------------------------------
Only(u) ==
    /\ \A v \in Session \ {u} :
          /\ row'[v] = row[v] /\ files'[v] = files[v] /\ imports'[v] = imports[v]
          /\ claim'[v] = claim[v] /\ live'[v] = live[v] /\ holder'[v] = holder[v]
          /\ (v \in deleting' <=> v \in deleting) /\ (v \in todo' <=> v \in todo)
    /\ phase' = phase

\* Nothing, Store, Confirm, Refuse, Doubt, Forget.
Promised(u) ==
    LET said == Says(row[u])
        says == Says(row'[u])
    IN  \/ says = said /\ imports'[u] = imports[u]
        \/ said = "pending" /\ imports[u] = 0 /\ imports'[u] = 1 /\ says \in {"pending", "unknown"}
        \/ said = "pending" /\ imports[u] = 1 /\ imports'[u] = 1 /\ says = "yes"
        \/ said = "pending" /\ imports[u] = 0 /\ imports'[u] = 0 /\ says = "no"
        \/ said = "pending" /\ imports'[u] = imports[u] /\ says = "unknown"
        \/ said \in {"yes", "no"} /\ imports'[u] = imports[u] /\ says = "forgotten"

Shrinks(u) == row'[u].state \in Reserving => row[u].state \in Reserving

Good(u) == Only(u) /\ UploadTypeOK' /\ SessionOK(u)' /\ Promised(u) /\ Shrinks(u)

-----------------------------------------------------------------------------
(* A row, or the files, of one session are replaced.                       *)

USE DEF Serving, At, Free, Nobody, Take, Go, Release, Terminal, NoRow, Reserving,
        Early, Close, Gone, store, process

\* resumable_transition moves the row to the new state or leaves it.
LEMMA TransitionMoves ==
    ASSUME row \in [Session -> Row], NEW u \in Session, NEW previous, NEW state \in State,
           NEW error \in {"none", "unknown", "pending"}, Transition(u, previous, state, error)
    PROVE  /\ row' \in [Session -> Row]
           /\ \A v \in Session \ {u} : row'[v] = row[v]
           /\ row'[u] = IF row[u].state = previous
                        THEN [row[u] EXCEPT !.state = state, !.error = error] ELSE row[u]
  <1> DEFINE r == [row[u] EXCEPT !.state = state, !.error = error]
  <1>1. r \in Row
    BY DEF Row
  <1>2. CASE row[u].state = previous
    <2>1. row' = [row EXCEPT ![u] = r]
      BY <1>2 DEF Transition
    <2> QED
      BY <1>1, <1>2, <2>1
  <1>3. CASE row[u].state # previous
    BY <1>3 DEF Transition
  <1> QED
    BY <1>2, <1>3

\* Any other update puts a row in the place of a row.
LEMMA RowChanges ==
    ASSUME row \in [Session -> Row], NEW u \in Session, NEW r \in Row, row' = [row EXCEPT ![u] = r]
    PROVE  row' \in [Session -> Row] /\ row'[u] = r /\ \A v \in Session \ {u} : row'[v] = row[v]
  OBVIOUS

\* So it is with the staged files of a session.
LEMMA FilesChange ==
    ASSUME files \in [Session -> SUBSET File], NEW u \in Session, NEW f \in SUBSET File,
           files' = [files EXCEPT ![u] = f]
    PROVE  /\ files' \in [Session -> SUBSET File] /\ files'[u] = f
           /\ \A v \in Session \ {u} : files'[v] = files[v]
  OBVIOUS

\* The part, the assembled media and the next chunk are files of a session.
LEMMA FilesAreNamed ==
    Temp \in File /\ Media \in File /\ \A k \in 0 .. Chunks : k < Chunks => k + 1 \in File
  BY LimitAssumption DEF Temp, Media, File

-----------------------------------------------------------------------------
(* What each part of the code does to one session.                         *)

\* The day of a session passes, a staged chunk is lost, a job ends.
LEMMA TimeIsGood ==
    ASSUME IInv, NEW u \in Session, Expire(u) \/ ChunkIsLost(u) \/ JobEnds(u)
    PROVE  Good(u)
  <1>t. SessionOK(u) /\ UploadTypeOK
    BY DEF IInv
  <1>1. CASE Expire(u)
    <2>1. Only(u) /\ UploadTypeOK'
      BY <1>1, <1>t DEF Expire, Only, UploadTypeOK, Actor, Place
    <2>2. SessionOK(u)'
      BY <1>1, <1>t, LimitAssumption DEF Expire, UploadTypeOK, Row, State, SessionOK, RowOK,
         PlaceOK, PhaseOK
    <2>3. Promised(u) /\ Shrinks(u)
      BY <1>1, <1>t DEF Expire, UploadTypeOK, Row, SessionOK, RowOK, PlaceOK, Promised,
         Shrinks, Says
    <2> QED
      BY <2>1, <2>2, <2>3 DEF Good
  <1>2. CASE ChunkIsLost(u)
    <2>1. Only(u) /\ UploadTypeOK'
      BY <1>2, <1>t DEF ChunkIsLost, Committed, Only, UploadTypeOK, Actor, Place
    <2>2. SessionOK(u)'
      BY <1>2, <1>t, LimitAssumption DEF ChunkIsLost, Committed, UploadTypeOK, Row, State,
         SessionOK, RowOK, PlaceOK, PhaseOK
    <2>3. Promised(u) /\ Shrinks(u)
      BY <1>2, <1>t DEF ChunkIsLost, Committed, UploadTypeOK, Row, SessionOK, RowOK, PlaceOK,
         Promised, Shrinks, Says
    <2> QED
      BY <2>1, <2>2, <2>3 DEF Good
  <1>3. CASE JobEnds(u)
    <2>1. Only(u) /\ UploadTypeOK'
      BY <1>3, <1>t DEF JobEnds, Only, UploadTypeOK, Actor, Place
    <2>2. SessionOK(u)'
      BY <1>3, <1>t, LimitAssumption DEF JobEnds, UploadTypeOK, Row, State, SessionOK, RowOK,
         PlaceOK, PhaseOK
    <2>3. Promised(u) /\ Shrinks(u)
      BY <1>3, <1>t DEF JobEnds, UploadTypeOK, Row, SessionOK, RowOK, PlaceOK, Promised,
         Shrinks, Says
    <2> QED
      BY <2>1, <2>2, <2>3 DEF Good
  <1> QED
    BY <1>1, <1>2, <1>3

\* owned_session and collect_resumable take a session that is over.
LEMMA VisitIsGood ==
    ASSUME IInv, NEW u \in Session, Visit(u) \/ Collect(u)
    PROVE  Good(u)
  <1>t. SessionOK(u) /\ UploadTypeOK
    BY DEF IInv
  <1>1. ASSUME NEW who \in {"visit", "gc"}, TakeOverdue(u, who) PROVE Good(u)
    <2>1. row' \in [Session -> Row] /\ \A v \in Session \ {u} : row'[v] = row[v]
      BY <1>1, <1>t, TransitionMoves DEF TakeOverdue, UploadTypeOK, Row, State
    <2>2. Only(u) /\ UploadTypeOK'
      BY <1>1, <1>t, <2>1 DEF TakeOverdue, Transition, Only, UploadTypeOK, Actor, Place
    <2>3. SessionOK(u)'
      BY <1>1, <1>t, LimitAssumption DEF TakeOverdue, Transition, UploadTypeOK, Row, State,
         SessionOK, RowOK, PlaceOK, PhaseOK
    <2>4. Promised(u) /\ Shrinks(u)
      BY <1>1, <1>t DEF TakeOverdue, Transition, UploadTypeOK, Row, SessionOK, RowOK, PlaceOK,
         Promised, Shrinks, Says
    <2> QED
      BY <2>2, <2>3, <2>4 DEF Good
  <1>2. CASE VisitTerminal(u)
    <2>1. Only(u) /\ UploadTypeOK'
      BY <1>2, <1>t DEF VisitTerminal, Only, UploadTypeOK, Actor, Place
    <2>2. SessionOK(u)'
      BY <1>2, <1>t, LimitAssumption DEF VisitTerminal, UploadTypeOK, Row, State, SessionOK,
         RowOK, PlaceOK, PhaseOK
    <2>3. Promised(u) /\ Shrinks(u)
      BY <1>2, <1>t DEF VisitTerminal, UploadTypeOK, Row, SessionOK, RowOK, PlaceOK, Promised,
         Shrinks, Says
    <2> QED
      BY <2>1, <2>2, <2>3 DEF Good
  <1>3. CASE CollectTerminal(u)
    <2>1. Only(u) /\ UploadTypeOK'
      BY <1>3, <1>t DEF CollectTerminal, Only, UploadTypeOK, Actor, Place
    <2>2. SessionOK(u)'
      BY <1>3, <1>t, LimitAssumption DEF CollectTerminal, UploadTypeOK, Row, State, SessionOK,
         RowOK, PlaceOK, PhaseOK
    <2>3. Promised(u) /\ Shrinks(u)
      BY <1>3, <1>t DEF CollectTerminal, UploadTypeOK, Row, SessionOK, RowOK, PlaceOK,
         Promised, Shrinks, Says
    <2> QED
      BY <2>1, <2>2, <2>3 DEF Good
  <1> QED
    BY <1>1, <1>2, <1>3 DEF Visit, Collect

\* cleanup_session purges, marks and forgets only what is over.
LEMMA CleanupIsGood ==
    ASSUME IInv, NEW u \in Session, Cleanup(u)
    PROVE  Good(u)
  <1>t. SessionOK(u) /\ UploadTypeOK
    BY DEF IInv
  <1>1. CASE PurgeAll(u)
    <2>1. files' \in [Session -> SUBSET File] /\ \A v \in Session \ {u} : files'[v] = files[v]
      BY <1>1, <1>t DEF PurgeAll, Purge, UploadTypeOK
    <2>2. /\ holder' \in [Session -> [who : Actor, at : Place]]
         /\ \A v \in Session \ {u} : holder'[v] = holder[v]
      <3>1. Release(u) \/ Go(u, "mark")
        BY <1>1 DEF PurgeAll, Purge
      <3> QED
        BY <1>t, <3>1 DEF UploadTypeOK, Actor, Place
    <2>3. Only(u) /\ UploadTypeOK'
      BY <1>1, <1>t, <2>1, <2>2 DEF PurgeAll, Purge, Only, UploadTypeOK, Actor, Place
    <2>4. SessionOK(u)'
      BY <1>1, <1>t, LimitAssumption DEF PurgeAll, Purge, UploadTypeOK, Row, State, SessionOK,
         RowOK, PlaceOK, PhaseOK
    <2>5. Promised(u) /\ Shrinks(u)
      BY <1>1, <1>t DEF PurgeAll, Purge, UploadTypeOK, Row, SessionOK, RowOK, PlaceOK,
         Promised, Shrinks, Says
    <2> QED
      BY <2>3, <2>4, <2>5 DEF Good
  <1>2. CASE PurgeSome(u)
    <2>1. files' \in [Session -> SUBSET File] /\ \A v \in Session \ {u} : files'[v] = files[v]
      BY <1>2, <1>t DEF PurgeSome, Purge, UploadTypeOK
    <2>2. /\ holder' \in [Session -> [who : Actor, at : Place]]
         /\ \A v \in Session \ {u} : holder'[v] = holder[v]
      <3>1. Release(u) \/ Go(u, "mark")
        BY <1>2 DEF PurgeSome, Purge
      <3> QED
        BY <1>t, <3>1 DEF UploadTypeOK, Actor, Place
    <2>3. Only(u) /\ UploadTypeOK'
      BY <1>2, <1>t, <2>1, <2>2 DEF PurgeSome, Purge, Only, UploadTypeOK, Actor, Place
    <2>4. SessionOK(u)'
      BY <1>2, <1>t, LimitAssumption DEF PurgeSome, Purge, UploadTypeOK, Row, State, SessionOK,
         RowOK, PlaceOK, PhaseOK
    <2>5. Promised(u) /\ Shrinks(u)
      BY <1>2, <1>t DEF PurgeSome, Purge, UploadTypeOK, Row, SessionOK, RowOK, PlaceOK,
         Promised, Shrinks, Says
    <2> QED
      BY <2>3, <2>4, <2>5 DEF Good
  <1>3. CASE Mark(u)
    <2> DEFINE r == [row[u] EXCEPT !.cleaned = TRUE]
    <2>1. row' \in [Session -> Row] /\ \A v \in Session \ {u} : row'[v] = row[v]
      <3>1. row[u] \in Row
        BY <1>t DEF UploadTypeOK
      <3>2. r \in Row
        BY <1>3, <1>t, <3>1 DEF Row
      <3>3. row' = [row EXCEPT ![u] = r]
        BY <1>3, <1>t DEF Mark, UploadTypeOK
      <3> QED
        BY <1>t, <3>2, <3>3, RowChanges DEF UploadTypeOK
    <2>2. /\ holder' \in [Session -> [who : Actor, at : Place]]
         /\ \A v \in Session \ {u} : holder'[v] = holder[v]
      <3>1. Release(u) \/ Go(u, "forget")
        BY <1>3 DEF Mark
      <3> QED
        BY <1>t, <3>1 DEF UploadTypeOK, Actor, Place
    <2>3. Only(u) /\ UploadTypeOK'
      BY <1>3, <1>t, <2>1, <2>2 DEF Mark, Only, UploadTypeOK, Actor, Place
    <2>4. SessionOK(u)'
      BY <1>3, <1>t, LimitAssumption DEF Mark, UploadTypeOK, Row, State, SessionOK, RowOK,
         PlaceOK, PhaseOK
    <2>5. Promised(u) /\ Shrinks(u)
      BY <1>3, <1>t DEF Mark, UploadTypeOK, Row, SessionOK, RowOK, PlaceOK, Promised, Shrinks,
         Says
    <2> QED
      BY <2>3, <2>4, <2>5 DEF Good
  <1>4. CASE Forget(u)
    <2>1. row' \in [Session -> Row] /\ \A v \in Session \ {u} : row'[v] = row[v]
      <3> DEFINE r == [row[u] EXCEPT !.state = "forgotten"]
      <3>1. r \in Row
        BY <1>t DEF UploadTypeOK, Row, State
      <3>2. row' = row \/ row' = [row EXCEPT ![u] = r]
        BY <1>4, <1>t DEF Forget, UploadTypeOK
      <3> QED
        BY <1>t, <3>1, <3>2, RowChanges DEF UploadTypeOK
    <2>2. Only(u) /\ UploadTypeOK'
      BY <1>4, <1>t, <2>1 DEF Forget, Only, UploadTypeOK, Actor, Place
    <2>3. SessionOK(u)'
      <3>1. row[u].state \in Gone /\ holder'[u] = Nobody
        BY <1>4, <1>t DEF Forget, UploadTypeOK, SessionOK, PlaceOK
      <3>2. RowOK(u)'
        BY <1>4, <1>t DEF Forget, UploadTypeOK, Row, SessionOK, RowOK
      <3>3. row'[u].state \in Gone /\ phase' = phase /\ deleting' = deleting
        BY <1>4, <1>t, <3>1 DEF Forget, UploadTypeOK, Row
      <3>4. PlaceOK(u)' /\ PhaseOK(u)'
        BY <1>t, <3>1, <3>3 DEF SessionOK, PlaceOK, PhaseOK
      <3> QED
        BY <3>2, <3>4 DEF SessionOK
    <2>4. Promised(u) /\ Shrinks(u)
      BY <1>4, <1>t DEF Forget, UploadTypeOK, Row, SessionOK, RowOK, PlaceOK, Promised,
         Shrinks, Says
    <2> QED
      BY <2>2, <2>3, <2>4 DEF Good
  <1> QED
    BY <1>1, <1>2, <1>3, <1>4 DEF Cleanup

\* A PATCH acknowledges the chunk that it has staged, and none after the end.
LEMMA PatchIsGood ==
    ASSUME IInv, NEW u \in Session, Patch(u)
    PROVE  Good(u)
  <1>t. SessionOK(u) /\ UploadTypeOK
    BY DEF IInv
  <1>1. CASE PatchStarts(u)
    <2> DEFINE f == files[u] \cup {Temp}
    <2>1. /\ files' \in [Session -> SUBSET File] /\ files'[u] = f
         /\ \A v \in Session \ {u} : files'[v] = files[v]
      <3>1. row[u].offset \in 0 .. Chunks /\ files[u] \in SUBSET File
        BY <1>t DEF UploadTypeOK, Row
      <3>2. f \in SUBSET File
        BY <1>1, <1>t, <3>1, FilesAreNamed DEF PatchStarts
      <3>3. files' = [files EXCEPT ![u] = f]
        BY <1>1 DEF PatchStarts
      <3> QED
        BY <1>t, <3>2, <3>3, FilesChange DEF UploadTypeOK
    <2>2. Only(u) /\ UploadTypeOK'
      BY <1>1, <1>t, <2>1 DEF PatchStarts, Temp, Only, UploadTypeOK, Actor, Place
    <2>3. SessionOK(u)'
      BY <1>1, <1>t, LimitAssumption DEF PatchStarts, Temp, UploadTypeOK, Row, State,
         SessionOK, RowOK, PlaceOK, PhaseOK
    <2>4. Promised(u) /\ Shrinks(u)
      BY <1>1, <1>t DEF PatchStarts, Temp, UploadTypeOK, Row, SessionOK, RowOK, PlaceOK,
         Promised, Shrinks, Says
    <2> QED
      BY <2>2, <2>3, <2>4 DEF Good
  <1>2. CASE PatchFails(u)
    <2>1. Only(u) /\ UploadTypeOK'
      BY <1>2, <1>t DEF PatchFails, Temp, Only, UploadTypeOK, Actor, Place
    <2>2. SessionOK(u)'
      BY <1>2, <1>t, LimitAssumption DEF PatchFails, Temp, UploadTypeOK, Row, State, SessionOK,
         RowOK, PlaceOK, PhaseOK
    <2>3. Promised(u) /\ Shrinks(u)
      BY <1>2, <1>t DEF PatchFails, Temp, UploadTypeOK, Row, SessionOK, RowOK, PlaceOK,
         Promised, Shrinks, Says
    <2> QED
      BY <2>1, <2>2, <2>3 DEF Good
  <1>3. CASE PatchReceives(u)
    <2> DEFINE f == (files[u] \ {Temp}) \cup {row[u].offset + 1}
    <2>1. /\ files' \in [Session -> SUBSET File] /\ files'[u] = f
         /\ \A v \in Session \ {u} : files'[v] = files[v]
      <3>1. row[u].offset \in 0 .. Chunks /\ files[u] \in SUBSET File
        BY <1>t DEF UploadTypeOK, Row
      <3>2. f \in SUBSET File
        BY <1>3, <1>t, <3>1, FilesAreNamed DEF PatchReceives, SessionOK, PlaceOK
      <3>3. files' = [files EXCEPT ![u] = f]
        BY <1>3 DEF PatchReceives
      <3> QED
        BY <1>t, <3>2, <3>3, FilesChange DEF UploadTypeOK
    <2>2. Only(u) /\ UploadTypeOK'
      BY <1>3, <1>t, <2>1 DEF PatchReceives, Temp, Only, UploadTypeOK, Actor, Place
    <2>3. SessionOK(u)'
      BY <1>3, <1>t, LimitAssumption DEF PatchReceives, Temp, UploadTypeOK, Row, State,
         SessionOK, RowOK, PlaceOK, PhaseOK
    <2>4. Promised(u) /\ Shrinks(u)
      BY <1>3, <1>t DEF PatchReceives, Temp, UploadTypeOK, Row, SessionOK, RowOK, PlaceOK,
         Promised, Shrinks, Says
    <2> QED
      BY <2>2, <2>3, <2>4 DEF Good
  <1>4. CASE PatchCommits(u)
    <2> DEFINE r == [row[u] EXCEPT !.offset = @ + 1]
    <2>1. row' \in [Session -> Row] /\ \A v \in Session \ {u} : row'[v] = row[v]
      <3>1. row[u] \in Row
        BY <1>t DEF UploadTypeOK
      <3>2. r \in Row
        BY <1>4, <1>t, <3>1, LimitAssumption DEF Row, PatchCommits, SessionOK, PlaceOK
      <3>3. row' = [row EXCEPT ![u] = r]
        BY <1>4, <1>t DEF PatchCommits, UploadTypeOK
      <3> QED
        BY <1>t, <3>2, <3>3, RowChanges DEF UploadTypeOK
    <2>2. Only(u) /\ UploadTypeOK'
      BY <1>4, <1>t, <2>1 DEF PatchCommits, Only, UploadTypeOK, Actor, Place
    <2>3. SessionOK(u)'
      BY <1>4, <1>t, LimitAssumption DEF PatchCommits, UploadTypeOK, Row, State, SessionOK,
         RowOK, PlaceOK, PhaseOK
    <2>4. Promised(u) /\ Shrinks(u)
      BY <1>4, <1>t DEF PatchCommits, UploadTypeOK, Row, SessionOK, RowOK, PlaceOK, Promised,
         Shrinks, Says
    <2> QED
      BY <2>2, <2>3, <2>4 DEF Good
  <1>5. CASE PatchRejected(u)
    <2>1. Only(u) /\ UploadTypeOK'
      BY <1>5, <1>t DEF PatchRejected, Only, UploadTypeOK, Actor, Place
    <2>2. SessionOK(u)'
      BY <1>5, <1>t, LimitAssumption DEF PatchRejected, UploadTypeOK, Row, State, SessionOK,
         RowOK, PlaceOK, PhaseOK
    <2>3. Promised(u) /\ Shrinks(u)
      BY <1>5, <1>t DEF PatchRejected, UploadTypeOK, Row, SessionOK, RowOK, PlaceOK, Promised,
         Shrinks, Says
    <2> QED
      BY <2>1, <2>2, <2>3 DEF Good
  <1> QED
    BY <1>1, <1>2, <1>3, <1>4, <1>5 DEF Patch

\* finalize_resumable hands the session to a task, or to a replayed request.
LEMMA FinalizeIsGood ==
    ASSUME IInv, NEW u \in Session, Finalize(u)
    PROVE  Good(u)
  <1>t. SessionOK(u) /\ UploadTypeOK
    BY DEF IInv
  <1>1. CASE FinalizeAccepts(u)
    <2>1. row' \in [Session -> Row] /\ \A v \in Session \ {u} : row'[v] = row[v]
      BY <1>1, <1>t, TransitionMoves DEF FinalizeAccepts, CanFinalize, UploadTypeOK, Row, State
    <2>2. Only(u) /\ UploadTypeOK'
      BY <1>1, <1>t, <2>1 DEF FinalizeAccepts, Transition, CanFinalize, Only, UploadTypeOK,
         Actor, Place
    <2>3. SessionOK(u)'
      BY <1>1, <1>t, LimitAssumption DEF FinalizeAccepts, Transition, CanFinalize,
         UploadTypeOK, Row, State, SessionOK, RowOK, PlaceOK, PhaseOK
    <2>4. Promised(u) /\ Shrinks(u)
      BY <1>1, <1>t DEF FinalizeAccepts, Transition, CanFinalize, UploadTypeOK, Row, SessionOK,
         RowOK, PlaceOK, Promised, Shrinks, Says
    <2> QED
      BY <2>2, <2>3, <2>4 DEF Good
  <1>2. CASE FinalizeLosesTask(u)
    <2>1. row' \in [Session -> Row] /\ \A v \in Session \ {u} : row'[v] = row[v]
      BY <1>2, <1>t, TransitionMoves DEF FinalizeLosesTask, CanFinalize, UploadTypeOK, Row,
         State
    <2>2. Only(u) /\ UploadTypeOK'
      BY <1>2, <1>t, <2>1 DEF FinalizeLosesTask, Transition, CanFinalize, Only, UploadTypeOK,
         Actor, Place
    <2>3. SessionOK(u)'
      BY <1>2, <1>t, LimitAssumption DEF FinalizeLosesTask, Transition, CanFinalize,
         UploadTypeOK, Row, State, SessionOK, RowOK, PlaceOK, PhaseOK
    <2>4. Promised(u) /\ Shrinks(u)
      BY <1>2, <1>t DEF FinalizeLosesTask, Transition, CanFinalize, UploadTypeOK, Row,
         SessionOK, RowOK, PlaceOK, Promised, Shrinks, Says
    <2> QED
      BY <2>2, <2>3, <2>4 DEF Good
  <1>3. CASE CloseStarts(u)
    <2>1. Only(u) /\ UploadTypeOK'
      BY <1>3, <1>t DEF CloseStarts, Only, UploadTypeOK, Actor, Place
    <2>2. SessionOK(u)'
      BY <1>3, <1>t, LimitAssumption DEF CloseStarts, UploadTypeOK, Row, State, SessionOK,
         RowOK, PlaceOK, PhaseOK
    <2>3. Promised(u) /\ Shrinks(u)
      BY <1>3, <1>t DEF CloseStarts, UploadTypeOK, Row, SessionOK, RowOK, PlaceOK, Promised,
         Shrinks, Says
    <2> QED
      BY <2>1, <2>2, <2>3 DEF Good
  <1> QED
    BY <1>1, <1>2, <1>3 DEF Finalize

\* finish_resumable imports what it promoted, once, and says what it cannot tell.
LEMMA TaskIsGood ==
    ASSUME IInv, NEW u \in Session, Task(u)
    PROVE  Good(u)
  <1>t. SessionOK(u) /\ UploadTypeOK
    BY DEF IInv
  <1>1. CASE TaskEnters(u)
    <2>1. Only(u) /\ UploadTypeOK'
      BY <1>1, <1>t DEF TaskEnters, Only, UploadTypeOK, Actor, Place
    <2>2. SessionOK(u)'
      BY <1>1, <1>t, LimitAssumption DEF TaskEnters, UploadTypeOK, Row, State, SessionOK,
         RowOK, PlaceOK, PhaseOK
    <2>3. Promised(u) /\ Shrinks(u)
      BY <1>1, <1>t DEF TaskEnters, UploadTypeOK, Row, SessionOK, RowOK, PlaceOK, Promised,
         Shrinks, Says
    <2> QED
      BY <2>1, <2>2, <2>3 DEF Good
  <1>2. CASE TaskAssembles(u)
    <2>1. row' \in [Session -> Row] /\ \A v \in Session \ {u} : row'[v] = row[v]
      BY <1>2, <1>t, TransitionMoves DEF TaskAssembles, Committed, Media, UploadTypeOK, Row,
         State
    <2> DEFINE f == files[u] \cup {Media}
    <2>2. /\ files' \in [Session -> SUBSET File] /\ files'[u] = f
         /\ \A v \in Session \ {u} : files'[v] = files[v]
      <3>1. row[u].offset \in 0 .. Chunks /\ files[u] \in SUBSET File
        BY <1>t DEF UploadTypeOK, Row
      <3>2. f \in SUBSET File
        BY <1>2, <1>t, <3>1, FilesAreNamed DEF TaskAssembles
      <3>3. files' = [files EXCEPT ![u] = f]
        BY <1>2 DEF TaskAssembles
      <3> QED
        BY <1>t, <3>2, <3>3, FilesChange DEF UploadTypeOK
    <2>3. /\ holder' \in [Session -> [who : Actor, at : Place]]
         /\ \A v \in Session \ {u} : holder'[v] = holder[v]
      <3>1. Go(u, "check") \/ Go(u, "purge")
        BY <1>2 DEF TaskAssembles
      <3> QED
        BY <1>t, <3>1 DEF UploadTypeOK, Actor, Place
    <2>4. Only(u) /\ UploadTypeOK'
      BY <1>2, <1>t, <2>1, <2>2, <2>3 DEF TaskAssembles, Transition, Committed, Media, Only,
         UploadTypeOK, Actor, Place
    <2>5. SessionOK(u)'
      BY <1>2, <1>t, <2>2, LimitAssumption DEF TaskAssembles, Transition, Committed, Media,
         UploadTypeOK, Row, State, SessionOK, RowOK, PlaceOK, PhaseOK
    <2>6. Promised(u) /\ Shrinks(u)
      BY <1>2, <1>t DEF TaskAssembles, Transition, Committed, Media, UploadTypeOK, Row,
         SessionOK, RowOK, PlaceOK, Promised, Shrinks, Says
    <2> QED
      BY <2>4, <2>5, <2>6 DEF Good
  <1>3. CASE TaskFails(u)
    <2>1. row' \in [Session -> Row] /\ \A v \in Session \ {u} : row'[v] = row[v]
      BY <1>3, <1>t, TransitionMoves DEF TaskFails, UploadTypeOK, Row, State
    <2>2. Only(u) /\ UploadTypeOK'
      BY <1>3, <1>t, <2>1 DEF TaskFails, Transition, Only, UploadTypeOK, Actor, Place
    <2>3. SessionOK(u)'
      BY <1>3, <1>t, LimitAssumption DEF TaskFails, Transition, UploadTypeOK, Row, State,
         SessionOK, RowOK, PlaceOK, PhaseOK
    <2>4. Promised(u) /\ Shrinks(u)
      BY <1>3, <1>t DEF TaskFails, Transition, UploadTypeOK, Row, SessionOK, RowOK, PlaceOK,
         Promised, Shrinks, Says
    <2> QED
      BY <2>2, <2>3, <2>4 DEF Good
  <1>4. CASE TaskChecksExpiry(u)
    <2>1. row' \in [Session -> Row] /\ \A v \in Session \ {u} : row'[v] = row[v]
      BY <1>4, <1>t, TransitionMoves DEF TaskChecksExpiry, UploadTypeOK, Row, State
    <2>2. Only(u) /\ UploadTypeOK'
      BY <1>4, <1>t, <2>1 DEF TaskChecksExpiry, Transition, Only, UploadTypeOK, Actor, Place
    <2>3. SessionOK(u)'
      BY <1>4, <1>t, LimitAssumption DEF TaskChecksExpiry, Transition, UploadTypeOK, Row,
         State, SessionOK, RowOK, PlaceOK, PhaseOK
    <2>4. Promised(u) /\ Shrinks(u)
      BY <1>4, <1>t DEF TaskChecksExpiry, Transition, UploadTypeOK, Row, SessionOK, RowOK,
         PlaceOK, Promised, Shrinks, Says
    <2> QED
      BY <2>2, <2>3, <2>4 DEF Good
  <1>5. CASE TaskPromotes(u)
    <2>1. row' \in [Session -> Row] /\ \A v \in Session \ {u} : row'[v] = row[v]
      BY <1>5, <1>t, TransitionMoves DEF TaskPromotes, UploadTypeOK, Row, State
    <2>2. Only(u) /\ UploadTypeOK'
      BY <1>5, <1>t, <2>1 DEF TaskPromotes, Transition, Only, UploadTypeOK, Actor, Place
    <2>3. SessionOK(u)'
      BY <1>5, <1>t, LimitAssumption DEF TaskPromotes, Transition, UploadTypeOK, Row, State,
         SessionOK, RowOK, PlaceOK, PhaseOK
    <2>4. Promised(u) /\ Shrinks(u)
      BY <1>5, <1>t DEF TaskPromotes, Transition, UploadTypeOK, Row, SessionOK, RowOK, PlaceOK,
         Promised, Shrinks, Says
    <2> QED
      BY <2>2, <2>3, <2>4 DEF Good
  <1>6. CASE TaskImports(u)
    <2>1. Only(u) /\ UploadTypeOK'
      BY <1>6, <1>t DEF TaskImports, Only, UploadTypeOK, Actor, Place
    <2>2. SessionOK(u)'
      BY <1>6, <1>t, LimitAssumption DEF TaskImports, UploadTypeOK, Row, State, SessionOK,
         RowOK, PlaceOK, PhaseOK
    <2>3. Promised(u) /\ Shrinks(u)
      BY <1>6, <1>t DEF TaskImports, UploadTypeOK, Row, SessionOK, RowOK, PlaceOK, Promised,
         Shrinks, Says
    <2> QED
      BY <2>1, <2>2, <2>3 DEF Good
  <1>7. CASE TaskIsRejected(u)
    <2>1. row' \in [Session -> Row] /\ \A v \in Session \ {u} : row'[v] = row[v]
      BY <1>7, <1>t, TransitionMoves DEF TaskIsRejected, UploadTypeOK, Row, State
    <2>2. Only(u) /\ UploadTypeOK'
      BY <1>7, <1>t, <2>1 DEF TaskIsRejected, Transition, Only, UploadTypeOK, Actor, Place
    <2>3. SessionOK(u)'
      BY <1>7, <1>t, LimitAssumption DEF TaskIsRejected, Transition, UploadTypeOK, Row, State,
         SessionOK, RowOK, PlaceOK, PhaseOK
    <2>4. Promised(u) /\ Shrinks(u)
      BY <1>7, <1>t DEF TaskIsRejected, Transition, UploadTypeOK, Row, SessionOK, RowOK,
         PlaceOK, Promised, Shrinks, Says
    <2> QED
      BY <2>2, <2>3, <2>4 DEF Good
  <1>8. CASE TaskLosesImport(u)
    <2>1. row' \in [Session -> Row] /\ \A v \in Session \ {u} : row'[v] = row[v]
      BY <1>8, <1>t, TransitionMoves DEF TaskLosesImport, UploadTypeOK, Row, State
    <2>2. Only(u) /\ UploadTypeOK'
      BY <1>8, <1>t, <2>1 DEF TaskLosesImport, Transition, Only, UploadTypeOK, Actor, Place
    <2>3. SessionOK(u)'
      BY <1>8, <1>t, LimitAssumption DEF TaskLosesImport, Transition, UploadTypeOK, Row, State,
         SessionOK, RowOK, PlaceOK, PhaseOK
    <2>4. Promised(u) /\ Shrinks(u)
      BY <1>8, <1>t DEF TaskLosesImport, Transition, UploadTypeOK, Row, SessionOK, RowOK,
         PlaceOK, Promised, Shrinks, Says
    <2> QED
      BY <2>2, <2>3, <2>4 DEF Good
  <1>9. CASE TaskRecords(u)
    <2> DEFINE r == [row[u] EXCEPT !.recording = TRUE, !.error = "none"]
    <2>1. row' \in [Session -> Row] /\ \A v \in Session \ {u} : row'[v] = row[v]
      <3>1. row[u] \in Row
        BY <1>t DEF UploadTypeOK
      <3>2. r \in Row
        BY <1>9, <1>t, <3>1 DEF Row
      <3>3. row' = [row EXCEPT ![u] = r]
        BY <1>9, <1>t DEF TaskRecords, UploadTypeOK
      <3> QED
        BY <1>t, <3>2, <3>3, RowChanges DEF UploadTypeOK
    <2>2. Only(u) /\ UploadTypeOK'
      BY <1>9, <1>t, <2>1 DEF TaskRecords, Only, UploadTypeOK, Actor, Place
    <2>3. SessionOK(u)'
      BY <1>9, <1>t, LimitAssumption DEF TaskRecords, UploadTypeOK, Row, State, SessionOK,
         RowOK, PlaceOK, PhaseOK
    <2>4. Promised(u) /\ Shrinks(u)
      BY <1>9, <1>t DEF TaskRecords, UploadTypeOK, Row, SessionOK, RowOK, PlaceOK, Promised,
         Shrinks, Says
    <2> QED
      BY <2>2, <2>3, <2>4 DEF Good
  <1> QED
    BY <1>1, <1>2, <1>3, <1>4, <1>5, <1>6, <1>7, <1>8, <1>9 DEF Task

\* _create_job settles one job before the session is completed.
LEMMA QueueingIsGood ==
    ASSUME IInv, NEW u \in Session, Queueing(u)
    PROVE  Good(u)
  <1>t. SessionOK(u) /\ UploadTypeOK
    BY DEF IInv
  <1>1. CASE JobIsClaimed(u)
    <2>1. /\ claim' \in [Session -> {"none", "creating", "completed"}]
         /\ \A v \in Session \ {u} : claim'[v] = claim[v]
      BY <1>1, <1>t DEF JobIsClaimed, UploadTypeOK
    <2>2. Only(u) /\ UploadTypeOK'
      BY <1>1, <1>t, <2>1 DEF JobIsClaimed, Only, UploadTypeOK, Actor, Place
    <2>3. SessionOK(u)'
      BY <1>1, <1>t, LimitAssumption DEF JobIsClaimed, UploadTypeOK, Row, State, SessionOK,
         RowOK, PlaceOK, PhaseOK
    <2>4. Promised(u) /\ Shrinks(u)
      BY <1>1, <1>t DEF JobIsClaimed, UploadTypeOK, Row, SessionOK, RowOK, PlaceOK, Promised,
         Shrinks, Says
    <2> QED
      BY <2>2, <2>3, <2>4 DEF Good
  <1>2. CASE JobIsEnqueued(u)
    <2>1. Only(u) /\ UploadTypeOK'
      BY <1>2, <1>t DEF JobIsEnqueued, Only, UploadTypeOK, Actor, Place
    <2>2. SessionOK(u)'
      BY <1>2, <1>t, LimitAssumption DEF JobIsEnqueued, UploadTypeOK, Row, State, SessionOK,
         RowOK, PlaceOK, PhaseOK
    <2>3. Promised(u) /\ Shrinks(u)
      BY <1>2, <1>t DEF JobIsEnqueued, UploadTypeOK, Row, SessionOK, RowOK, PlaceOK, Promised,
         Shrinks, Says
    <2> QED
      BY <2>1, <2>2, <2>3 DEF Good
  <1>3. CASE JobIsSettled(u)
    <2>1. Only(u) /\ UploadTypeOK'
      BY <1>3, <1>t DEF JobIsSettled, Only, UploadTypeOK, Actor, Place
    <2>2. SessionOK(u)'
      BY <1>3, <1>t, LimitAssumption DEF JobIsSettled, UploadTypeOK, Row, State, SessionOK,
         RowOK, PlaceOK, PhaseOK
    <2>3. Promised(u) /\ Shrinks(u)
      BY <1>3, <1>t DEF JobIsSettled, UploadTypeOK, Row, SessionOK, RowOK, PlaceOK, Promised,
         Shrinks, Says
    <2> QED
      BY <2>1, <2>2, <2>3 DEF Good
  <1>4. CASE QueueingFails(u)
    <2>1. row' \in [Session -> Row] /\ \A v \in Session \ {u} : row'[v] = row[v]
      BY <1>4, <1>t, TransitionMoves DEF QueueingFails, UploadTypeOK, Row, State
    <2>2. Only(u) /\ UploadTypeOK'
      BY <1>4, <1>t, <2>1 DEF QueueingFails, Transition, Only, UploadTypeOK, Actor, Place
    <2>3. SessionOK(u)'
      BY <1>4, <1>t, LimitAssumption DEF QueueingFails, Transition, UploadTypeOK, Row, State,
         SessionOK, RowOK, PlaceOK, PhaseOK
    <2>4. Promised(u) /\ Shrinks(u)
      BY <1>4, <1>t DEF QueueingFails, Transition, UploadTypeOK, Row, SessionOK, RowOK,
         PlaceOK, Promised, Shrinks, Says
    <2> QED
      BY <2>2, <2>3, <2>4 DEF Good
  <1>5. CASE Complete(u)
    <2>1. row' \in [Session -> Row] /\ \A v \in Session \ {u} : row'[v] = row[v]
      BY <1>5, <1>t, TransitionMoves DEF Complete, UploadTypeOK, Row, State
    <2>2. Only(u) /\ UploadTypeOK'
      BY <1>5, <1>t, <2>1 DEF Complete, Transition, Only, UploadTypeOK, Actor, Place
    <2>3. SessionOK(u)'
      BY <1>5, <1>t, LimitAssumption DEF Complete, Transition, UploadTypeOK, Row, State,
         SessionOK, RowOK, PlaceOK, PhaseOK
    <2>4. Promised(u) /\ Shrinks(u)
      BY <1>5, <1>t DEF Complete, Transition, UploadTypeOK, Row, SessionOK, RowOK, PlaceOK,
         Promised, Shrinks, Says
    <2> QED
      BY <2>2, <2>3, <2>4 DEF Good
  <1> QED
    BY <1>1, <1>2, <1>3, <1>4, <1>5 DEF Queueing

\* A DELETE ends what is not imported, and cleans after the task.
LEMMA DeleteIsGood ==
    ASSUME IInv, NEW u \in Session, Delete(u)
    PROVE  Good(u)
  <1>t. SessionOK(u) /\ UploadTypeOK
    BY DEF IInv
  <1>1. CASE DeleteUploading(u)
    <2>1. row' \in [Session -> Row] /\ \A v \in Session \ {u} : row'[v] = row[v]
      BY <1>1, <1>t, TransitionMoves DEF DeleteUploading, UploadTypeOK, Row, State
    <2>2. Only(u) /\ UploadTypeOK'
      BY <1>1, <1>t, <2>1 DEF DeleteUploading, Transition, Only, UploadTypeOK, Actor, Place
    <2>3. SessionOK(u)'
      BY <1>1, <1>t, LimitAssumption DEF DeleteUploading, Transition, UploadTypeOK, Row, State,
         SessionOK, RowOK, PlaceOK, PhaseOK
    <2>4. Promised(u) /\ Shrinks(u)
      BY <1>1, <1>t DEF DeleteUploading, Transition, UploadTypeOK, Row, SessionOK, RowOK,
         PlaceOK, Promised, Shrinks, Says
    <2> QED
      BY <2>2, <2>3, <2>4 DEF Good
  <1>2. CASE DeleteAssembling(u)
    <2>1. row' \in [Session -> Row] /\ \A v \in Session \ {u} : row'[v] = row[v]
      BY <1>2, <1>t, TransitionMoves DEF DeleteAssembling, UploadTypeOK, Row, State
    <2>2. Only(u) /\ UploadTypeOK'
      BY <1>2, <1>t, <2>1 DEF DeleteAssembling, Transition, Only, UploadTypeOK, Actor, Place
    <2>3. SessionOK(u)'
      BY <1>2, <1>t, LimitAssumption DEF DeleteAssembling, Transition, UploadTypeOK, Row,
         State, SessionOK, RowOK, PlaceOK, PhaseOK
    <2>4. Promised(u) /\ Shrinks(u)
      BY <1>2, <1>t DEF DeleteAssembling, Transition, UploadTypeOK, Row, SessionOK, RowOK,
         PlaceOK, Promised, Shrinks, Says
    <2> QED
      BY <2>2, <2>3, <2>4 DEF Good
  <1>3. CASE DeleteContinues(u)
    <2>1. Only(u) /\ UploadTypeOK'
      BY <1>3, <1>t DEF DeleteContinues, Only, UploadTypeOK, Actor, Place
    <2>2. SessionOK(u)'
      BY <1>3, <1>t, LimitAssumption DEF DeleteContinues, UploadTypeOK, Row, State, SessionOK,
         RowOK, PlaceOK, PhaseOK
    <2>3. Promised(u) /\ Shrinks(u)
      BY <1>3, <1>t DEF DeleteContinues, UploadTypeOK, Row, SessionOK, RowOK, PlaceOK,
         Promised, Shrinks, Says
    <2> QED
      BY <2>1, <2>2, <2>3 DEF Good
  <1>4. CASE DeleteGivesUp(u)
    <2>1. Only(u) /\ UploadTypeOK'
      BY <1>4, <1>t DEF DeleteGivesUp, Only, UploadTypeOK, Actor, Place
    <2>2. SessionOK(u)'
      BY <1>4, <1>t, LimitAssumption DEF DeleteGivesUp, UploadTypeOK, Row, State, SessionOK,
         RowOK, PlaceOK, PhaseOK
    <2>3. Promised(u) /\ Shrinks(u)
      BY <1>4, <1>t DEF DeleteGivesUp, UploadTypeOK, Row, SessionOK, RowOK, PlaceOK, Promised,
         Shrinks, Says
    <2> QED
      BY <2>1, <2>2, <2>3 DEF Good
  <1> QED
    BY <1>1, <1>2, <1>3, <1>4 DEF Delete

\* The reconciliation resumes, ends or marks what a crash has left.
LEMMA ReconcileIsGood ==
    ASSUME IInv, NEW u \in Session, Reconcile(u)
    PROVE  Good(u)
  <1>t. SessionOK(u) /\ UploadTypeOK
    BY DEF IInv
  <1>1. CASE Boot(u)
    <2>1. row' \in [Session -> Row] /\ \A v \in Session \ {u} : row'[v] = row[v]
      BY <1>1, <1>t, TransitionMoves DEF Boot, BootImporting, BootOver, BootUploading,
         CollectorIsFree, UploadTypeOK, Row, State
    <2>2. Only(u) /\ UploadTypeOK'
      BY <1>1, <1>t, <2>1 DEF Boot, BootImporting, Transition, BootOver, BootUploading,
         CollectorIsFree, Only, UploadTypeOK, Actor, Place
    <2>3. SessionOK(u)'
      BY <1>1, <1>t, LimitAssumption DEF Boot, BootImporting, Transition, BootOver,
         BootUploading, CollectorIsFree, UploadTypeOK, Row, State, SessionOK, RowOK, PlaceOK,
            PhaseOK
    <2>4. Promised(u) /\ Shrinks(u)
      BY <1>1, <1>t DEF Boot, BootImporting, Transition, BootOver, BootUploading,
         CollectorIsFree, UploadTypeOK, Row, SessionOK, RowOK, PlaceOK, Promised, Shrinks, Says
    <2> QED
      BY <2>2, <2>3, <2>4 DEF Good
  <1>2. CASE BootVerifies(u)
    <2>1. Only(u) /\ UploadTypeOK'
      BY <1>2, <1>t DEF BootVerifies, Manifest, Only, UploadTypeOK, Actor, Place
    <2>2. SessionOK(u)'
      BY <1>2, <1>t, LimitAssumption DEF BootVerifies, Manifest, UploadTypeOK, Row, State,
         SessionOK, RowOK, PlaceOK, PhaseOK
    <2>3. Promised(u) /\ Shrinks(u)
      BY <1>2, <1>t DEF BootVerifies, Manifest, UploadTypeOK, Row, SessionOK, RowOK, PlaceOK,
         Promised, Shrinks, Says
    <2> QED
      BY <2>1, <2>2, <2>3 DEF Good
  <1>3. CASE BootFindsDamage(u)
    <2>1. row' \in [Session -> Row] /\ \A v \in Session \ {u} : row'[v] = row[v]
      BY <1>3, <1>t, TransitionMoves DEF BootFindsDamage, Manifest, UploadTypeOK, Row, State
    <2>2. Only(u) /\ UploadTypeOK'
      BY <1>3, <1>t, <2>1 DEF BootFindsDamage, Transition, Manifest, Only, UploadTypeOK, Actor,
         Place
    <2>3. SessionOK(u)'
      BY <1>3, <1>t, LimitAssumption DEF BootFindsDamage, Transition, Manifest, UploadTypeOK,
         Row, State, SessionOK, RowOK, PlaceOK, PhaseOK
    <2>4. Promised(u) /\ Shrinks(u)
      BY <1>3, <1>t DEF BootFindsDamage, Transition, Manifest, UploadTypeOK, Row, SessionOK,
         RowOK, PlaceOK, Promised, Shrinks, Says
    <2> QED
      BY <2>2, <2>3, <2>4 DEF Good
  <1>4. CASE BootSkips(u)
    <2>1. Only(u) /\ UploadTypeOK'
      BY <1>4, <1>t DEF BootSkips, Only, UploadTypeOK, Actor, Place
    <2>2. SessionOK(u)'
      BY <1>4, <1>t, LimitAssumption DEF BootSkips, UploadTypeOK, Row, State, SessionOK, RowOK,
         PlaceOK, PhaseOK
    <2>3. Promised(u) /\ Shrinks(u)
      BY <1>4, <1>t DEF BootSkips, UploadTypeOK, Row, SessionOK, RowOK, PlaceOK, Promised,
         Shrinks, Says
    <2> QED
      BY <2>1, <2>2, <2>3 DEF Good
  <1> QED
    BY <1>1, <1>2, <1>3, <1>4 DEF Reconcile

-----------------------------------------------------------------------------
(* From one session to all of them.                                        *)

\* The promise seen through the rows: what it means to take a step of it.
Kept == [Promise!Next]_<<imports, told>>

\* What is said is a function of the rows.
LEMMA ToldIsSaid ==
    /\ told = [u \in Session |-> Says(row[u])]
    /\ told' = [u \in Session |-> Says(row'[u])]
  BY DEF told

\* A good step of one session is a step of the promise, or none.
LEMMA GoodStepIsPromised ==
    ASSUME IInv, NEW u \in Session, Good(u)
    PROVE  Kept
  <1>1. Promised(u) /\ imports \in [Session -> Nat] /\ imports' \in [Session -> Nat]
    BY DEF Good, IInv, UploadTypeOK
  <1>2. \A v \in Session \ {u} : told'[v] = told[v] /\ imports'[v] = imports[v]
    BY ToldIsSaid DEF Good, Only
  <1>3. told[u] = Says(row[u]) /\ told'[u] = Says(row'[u])
    BY ToldIsSaid
  <1>4. told' = [told EXCEPT ![u] = Says(row'[u])]
    BY <1>2, ToldIsSaid
  <1>5. imports' = [imports EXCEPT ![u] = imports'[u]]
    BY <1>1, <1>2
  <1>6. CASE Says(row'[u]) = Says(row[u]) /\ imports'[u] = imports[u]
    <2>1. imports' = imports
      BY <1>1, <1>2, <1>6
    <2>2. told' = told
      BY <1>2, <1>3, <1>6, ToldIsSaid
    <2> QED
      BY <2>1, <2>2 DEF Kept
  <1>7. CASE Says(row[u]) = "pending" /\ imports[u] = 0 /\ imports'[u] = 1
             /\ Says(row'[u]) \in {"pending", "unknown"}
    <2>1. told' \in {told, [told EXCEPT ![u] = "unknown"]}
      <3>1. CASE Says(row'[u]) = "unknown"
        BY <1>4, <3>1
      <3>2. CASE Says(row'[u]) = "pending"
        <4>1. told' = told
          BY <1>2, <1>3, <1>7, <3>2, ToldIsSaid
        <4> QED
          BY <4>1
      <3> QED
        BY <1>7, <3>1, <3>2
    <2> QED
      BY <1>3, <1>5, <1>7, <2>1 DEF Kept, Promise!Next, Promise!Store
  <1>8. CASE Says(row[u]) = "pending" /\ imports[u] = 1 /\ imports'[u] = 1
             /\ Says(row'[u]) = "yes"
    <2>1. imports' = imports
      BY <1>1, <1>2, <1>8
    <2> QED
      BY <1>3, <1>4, <1>8, <2>1 DEF Kept, Promise!Next, Promise!Confirm
  <1>9. CASE Says(row[u]) = "pending" /\ imports[u] = 0 /\ imports'[u] = 0
             /\ Says(row'[u]) = "no"
    <2>1. imports' = imports
      BY <1>1, <1>2, <1>9
    <2>2. told' = [v \in Session |-> IF v \in {u} THEN "no" ELSE told[v]]
      BY <1>2, <1>3, <1>9, ToldIsSaid
    <2>3. Promise!Refuse({u})
      BY <1>3, <1>9, <2>1, <2>2 DEF Promise!Refuse
    <2> QED
      BY <2>3 DEF Kept, Promise!Next
  <1>10. CASE Says(row[u]) = "pending" /\ imports'[u] = imports[u] /\ Says(row'[u]) = "unknown"
    <2>1. imports' = imports
      BY <1>1, <1>2, <1>10
    <2> QED
      BY <1>3, <1>4, <1>10, <2>1 DEF Kept, Promise!Next, Promise!Doubt
  <1>11. CASE Says(row[u]) \in {"yes", "no"} /\ imports'[u] = imports[u]
              /\ Says(row'[u]) = "forgotten"
    <2>1. imports' = imports
      BY <1>1, <1>2, <1>11
    <2> QED
      BY <1>3, <1>4, <1>11, <2>1 DEF Kept, Promise!Next, Promise!Forget
  <1> QED
    BY <1>1, <1>6, <1>7, <1>8, <1>9, <1>10, <1>11 DEF Promised

\* Where no session starts to hold space, the limit stays respected.
LEMMA LimitStays ==
    ASSUME WithinLimit, \A u \in Session : Shrinks(u)
    PROVE  WithinLimit'
  <1> DEFINE A == {u \in Session : row[u].state \in Reserving}
             B == {u \in Session : row'[u].state \in Reserving}
  <1>1. IsFiniteSet(A)
    BY SessionAssumption, FS_Subset
  <1>2. B \subseteq A
    BY DEF Shrinks
  <1>3. Cardinality(B) <= Cardinality(A) /\ Cardinality(A) \in Nat /\ Cardinality(B) \in Nat
    BY <1>1, <1>2, FS_Subset, FS_CardinalityType
  <1> QED
    BY <1>3, LimitAssumption DEF WithinLimit

\* A good step keeps the invariant and the promise.
LEMMA GoodStepKeeps ==
    ASSUME IInv, NEW u \in Session, Good(u)
    PROVE  IInv' /\ Kept
  <1>1. ASSUME NEW v \in Session PROVE SessionOK(v)'
    <2>1. CASE v = u
      BY <2>1 DEF Good
    <2>2. CASE v # u
      BY <2>2 DEF Good, Only, IInv, SessionOK, RowOK, PlaceOK, PhaseOK
    <2> QED
      BY <2>1, <2>2
  <1>2. \A v \in Session : Shrinks(v)
    BY DEF Good, Only, Shrinks
  <1>3. WithinLimit'
    BY <1>2, LimitStays DEF IInv
  <1> QED
    BY <1>1, <1>3, GoodStepIsPromised DEF IInv, Good

-----------------------------------------------------------------------------
(* The steps that concern several sessions: an init expires the overdue    *)
(* ones, and a crash, a start and its end concern them all.                *)

\* The first statement of resumable_init: what it expires was not imported.
LEMMA SweptIsTyped ==
    ASSUME UploadTypeOK
    PROVE  /\ Swept \in [Session -> Row]
           /\ \A u \in Session \ Overdue : Swept[u] = row[u]
           /\ \A u \in Overdue : u \in Session /\ row[u].state = "uploading"
                 /\ Swept[u] = [row[u] EXCEPT !.state = "expired", !.error = "none"]
  <1>1. \A u \in Session : row[u] \in Row
    BY DEF UploadTypeOK
  <1>2. \A u \in Session : [row[u] EXCEPT !.state = "expired", !.error = "none"] \in Row
    BY <1>1 DEF Row, State
  <1>3. Overdue \subseteq Session /\ \A u \in Overdue : row[u].state = "uploading"
    BY DEF Overdue, UploadTypeOK
  <1> QED
    BY <1>1, <1>2, <1>3 DEF Swept

\* A session whose row is swept, or is left, is as the invariant has it.
LEMMA SweptIsOK ==
    ASSUME IInv, Serving, NEW u \in Session, row'[u] = Swept[u],
           UNCHANGED <<expired, files, imports, claim, live, process>>
    PROVE  SessionOK(u)' /\ Shrinks(u)
           /\ Says(Swept[u]) = (IF u \in Overdue THEN "no" ELSE Says(row[u]))
           /\ (u \in Overdue => Says(row[u]) = "pending" /\ imports[u] = 0)
  <1>1. SessionOK(u) /\ UploadTypeOK /\ row[u] \in Row
    BY DEF IInv, UploadTypeOK
  <1>2. CASE u \notin Overdue
    <2>1. row'[u] = row[u] /\ Swept[u] = row[u]
      BY <1>1, <1>2, SweptIsTyped
    <2>2. SessionOK(u)'
      BY <1>1, <2>1 DEF SessionOK, RowOK, PlaceOK, PhaseOK
    <2>3. Shrinks(u)
      BY <2>1 DEF Shrinks
    <2> QED
      BY <1>2, <2>1, <2>2, <2>3
  <1>3. CASE u \in Overdue
    <2>1. row[u].state = "uploading" /\ row'[u] = [row[u] EXCEPT !.state = "expired", !.error = "none"]
      BY <1>1, <1>3, SweptIsTyped
    <2>4. row'[u].state = "expired" /\ row'[u].offset = row[u].offset
          /\ row'[u].recording = row[u].recording /\ row'[u].error = "none"
          /\ row'[u].cleaned = row[u].cleaned
      BY <1>1, <2>1 DEF Row
    <2>5. RowOK(u)'
      BY <1>1, <2>1, <2>4 DEF SessionOK, RowOK
    <2>6. PlaceOK(u)' /\ PhaseOK(u)'
      BY <1>1, <2>1, <2>4 DEF SessionOK, PlaceOK, PhaseOK
    <2>2. SessionOK(u)'
      BY <2>5, <2>6 DEF SessionOK
    <2>3. Says(row'[u]) = "no" /\ Says(row[u]) = "pending" /\ imports[u] = 0
      BY <1>1, <2>1 DEF Says, SessionOK, RowOK, Row
    <2> QED
      BY <1>3, <2>1, <2>2, <2>3 DEF Shrinks
  <1> QED
    BY <1>2, <1>3

\* A replayed init changes only what is overdue, and refuses it.
LEMMA InitReplayKeeps == ASSUME IInv, InitReplay PROVE IInv' /\ Kept
  <1>1. Serving /\ row' = Swept /\ UNCHANGED <<expired, files, imports, claim, live, process>>
    BY DEF InitReplay
  <1>2. UploadTypeOK'
    BY <1>1, SweptIsTyped DEF IInv, UploadTypeOK
  <1>3. \A u \in Session : SessionOK(u)' /\ Shrinks(u)
    BY <1>1, SweptIsOK
  <1>4. WithinLimit'
    BY <1>3, LimitStays DEF IInv
  <1>o. Overdue \in SUBSET Session
    BY SweptIsTyped DEF IInv
  <1>s. ASSUME NEW u \in Session
        PROVE  /\ Says(row'[u]) = (IF u \in Overdue THEN "no" ELSE Says(row[u]))
               /\ u \in Overdue => Says(row[u]) = "pending" /\ imports[u] = 0
    <2>1. row'[u] = Swept[u]
      BY <1>1
    <2> QED
      BY <1>1, <2>1, SweptIsOK
  <1>5. told' = [u \in Session |-> IF u \in Overdue THEN "no" ELSE told[u]]
    BY <1>s, ToldIsSaid
  <1>6. \A u \in Overdue : told[u] = "pending" /\ imports[u] = 0
    BY <1>o, <1>s, ToldIsSaid
  <1>7. Promise!Refuse(Overdue)
    BY <1>1, <1>5, <1>6, <1>o DEF Promise!Refuse
  <1> QED
    BY <1>2, <1>3, <1>4, <1>o, <1>7 DEF IInv, Kept, Promise!Next

\* A new row is a row, whatever the state it starts in.
LEMMA NewRowIsTyped ==
    ASSUME NEW s \in State
    PROVE  LET r == [NewRow EXCEPT !.state = s] IN
           /\ r \in Row /\ r.state = s /\ r.offset = 0 /\ r.error = "none"
           /\ ~r.recording /\ ~r.cleaned
  <1>1. NewRow \in Row
    BY LimitAssumption DEF NewRow, Row, State
  <1>2. [NewRow EXCEPT !.state = s] \in Row
    BY <1>1 DEF Row
  <1> QED
    BY <1>2 DEF NewRow

\* A new session takes a place that is free; the others are swept.
LEMMA InitSessionKeeps ==
    ASSUME IInv, NEW u \in Session, InitSession(u)
    PROVE  IInv' /\ Kept
  <1> PICK s \in {"uploading", "aborted"} : row' = [Swept EXCEPT ![u] = [NewRow EXCEPT !.state = s]]
    BY DEF InitSession
  <1> DEFINE r == [NewRow EXCEPT !.state = s]
  <1>1. r \in Row /\ r.state = s /\ r.offset = 0 /\ r.error = "none" /\ ~r.recording /\ ~r.cleaned
    BY NewRowIsTyped DEF State
  <1>2. UNCHANGED <<expired, files, imports, claim, live, process>> /\ row[u].state = "none"
        /\ phase = "up" /\ Cardinality(Active(Swept)) < ActiveLimit
    BY DEF InitSession
  <1>3. row' \in [Session -> Row] /\ row'[u] = r /\ \A v \in Session \ {u} : row'[v] = Swept[v]
    BY <1>1, SweptIsTyped DEF IInv
  <1>4. UploadTypeOK'
    BY <1>2, <1>3 DEF IInv, UploadTypeOK
  <1>5. SessionOK(u) /\ u \notin Overdue
    BY <1>2, SweptIsTyped DEF IInv
  <1>6. SessionOK(u)'
    <2>1. imports[u] = 0 /\ holder[u].at = "idle" /\ holder[u].who = "nobody" /\ u \notin deleting
      BY <1>2, <1>5 DEF SessionOK, RowOK, PlaceOK, PhaseOK, IInv, UploadTypeOK, Actor, Place
    <2>2. RowOK(u)'
      BY <1>1, <1>2, <1>3, <1>5, <2>1 DEF SessionOK, RowOK
    <2>3. PlaceOK(u)' /\ PhaseOK(u)'
      BY <1>1, <1>2, <1>3, <2>1 DEF PlaceOK, PhaseOK
    <2> QED
      BY <2>2, <2>3 DEF SessionOK
  <1>7. \A v \in Session \ {u} : SessionOK(v)'
    BY <1>2, <1>3, SweptIsOK
  <1>8. WithinLimit'
    <2> DEFINE A == {v \in Session : Swept[v].state \in Reserving}
               B == {v \in Session : row'[v].state \in Reserving}
    <2>1. A = Active(Swept) /\ IsFiniteSet(A) /\ Cardinality(A) \in Nat
      BY SessionAssumption, FS_Subset, FS_CardinalityType DEF Active
    <2>c. Cardinality(A) < ActiveLimit
      BY <1>2, <2>1
    <2> HIDE DEF A, B
    <2>2. IsFiniteSet(A \cup {u}) /\ Cardinality(A \cup {u}) <= Cardinality(A) + 1
          /\ Cardinality(A \cup {u}) \in Nat
      <3>1. IsFiniteSet(A \cup {u})
            /\ Cardinality(A \cup {u}) = IF u \in A THEN Cardinality(A) ELSE Cardinality(A) + 1
        BY <2>1, FS_AddElement
      <3> QED
        BY <2>1, <3>1, FS_CardinalityType
    <2>3. B \subseteq A \cup {u}
      BY <1>3 DEF A, B
    <2>4. Cardinality(B) <= Cardinality(A \cup {u}) /\ Cardinality(B) \in Nat
      BY <2>2, <2>3, FS_Subset, FS_CardinalityType
    <2>5. Cardinality(B) <= ActiveLimit
      BY <2>1, <2>2, <2>4, <2>c, LimitAssumption
    <2> QED
      BY <2>5 DEF WithinLimit, B
  <1>9. Says(row[u]) = "pending" /\ imports[u] = 0
        /\ Says(r) = IF s = "aborted" THEN "no" ELSE "pending"
    BY <1>1, <1>2, <1>5 DEF Says, SessionOK, RowOK
  <1> DEFINE S == IF s = "aborted" THEN Overdue \cup {u} ELSE Overdue
  <1>10. ASSUME NEW v \in Session
         PROVE  /\ Says(row'[v]) = (IF v \in S THEN "no" ELSE Says(row[v]))
                /\ v \in S => Says(row[v]) = "pending" /\ imports[v] = 0
    <2>1. CASE v = u
      BY <1>3, <1>5, <1>9, <2>1
    <2>2. CASE v # u
      <3>1. row'[v] = Swept[v]
        BY <1>3, <2>2
      <3>2. v \in S <=> v \in Overdue
        BY <2>2
      <3> QED
        BY <1>2, <3>1, <3>2, SweptIsOK
    <2> QED
      BY <2>1, <2>2
  <1>11. S \in SUBSET Session
    BY SweptIsTyped DEF IInv
  <1>12. told' = [v \in Session |-> IF v \in S THEN "no" ELSE told[v]]
    BY <1>10, ToldIsSaid
  <1>13. Promise!Refuse(S)
    BY <1>2, <1>10, <1>11, <1>12, ToldIsSaid DEF Promise!Refuse
  <1> QED
    BY <1>4, <1>6, <1>7, <1>8, <1>11, <1>13 DEF IInv, Kept, Promise!Next

\* A crash forgets who worked on what; it changes nothing that is stored, and
\* the start asks nothing of a row but that it be looked at.
LEMMA RestartKeeps ==
    ASSUME IInv, Crash \/ Start \/ BootEnds
    PROVE  IInv' /\ Kept
  <1>1. UNCHANGED store /\ UploadTypeOK'
    BY DEF Crash, Start, BootEnds, IInv, UploadTypeOK, Actor, Place
  <1>2. Kept /\ WithinLimit' /\ \A u \in Session : Shrinks(u)
    <2>1. told' = told
      BY <1>1, ToldIsSaid
    <2> QED
      BY <1>1, <2>1 DEF Kept, WithinLimit, IInv, Shrinks
  <1>3. ASSUME NEW u \in Session PROVE SessionOK(u)'
    <2>1. RowOK(u)'
      BY <1>1 DEF IInv, SessionOK, RowOK
    <2>2. CASE Crash
      BY <1>1, <2>1, <2>2 DEF Crash, SessionOK, PlaceOK, PhaseOK
    <2>3. CASE Start
      BY <1>1, <2>1, <2>3 DEF Start, IInv, SessionOK, PlaceOK, PhaseOK
    <2>4. CASE BootEnds
      BY <1>1, <2>1, <2>4 DEF BootEnds, CollectorIsFree, IInv, SessionOK, PlaceOK, PhaseOK
    <2> QED
      BY <2>2, <2>3, <2>4
  <1> QED
    BY <1>1, <1>2, <1>3 DEF IInv

-----------------------------------------------------------------------------
(* The theorems.                                                           *)

\* Before any session there is nothing to be inconsistent.
THEOREM InitUploads == Init => IInv /\ Promise!Init
  <1> SUFFICES ASSUME Init PROVE IInv /\ Promise!Init
    OBVIOUS
  <1>1. [NewRow EXCEPT !.state = "none"] \in Row
        /\ [NewRow EXCEPT !.state = "none"].state = "none"
        /\ ~[NewRow EXCEPT !.state = "none"].recording
        /\ ~[NewRow EXCEPT !.state = "none"].cleaned
    BY NewRowIsTyped DEF State
  <1>2. UploadTypeOK
    BY <1>1 DEF Init, UploadTypeOK, Actor, Place
  <1>3. WithinLimit
    <2>1. {u \in Session : row[u].state \in Reserving} = {}
      BY <1>1 DEF Init
    <2> QED
      BY <2>1, FS_EmptySet, LimitAssumption DEF WithinLimit
  <1>4. ASSUME NEW u \in Session PROVE SessionOK(u)
    BY <1>1 DEF Init, SessionOK, RowOK, PlaceOK, PhaseOK
  <1>5. told = [u \in Session |-> "pending"]
    BY <1>1 DEF Init, told, Says
  <1> QED
    BY <1>2, <1>3, <1>4, <1>5 DEF IInv, Init, Promise!Init

\* Every step of the gateway, the world and its crashes keeps the invariant and
\* is a step of the promise, or none.
THEOREM NextUploads == IInv /\ [Next]_vars => IInv' /\ Kept
  <1> SUFFICES ASSUME IInv, [Next]_vars PROVE IInv' /\ Kept
    OBVIOUS
  <1>1. CASE InitReplay
    BY <1>1, InitReplayKeeps
  <1>2. CASE Crash \/ Start \/ BootEnds
    BY <1>2, RestartKeeps
  <1>3. ASSUME NEW u \in Session, InitSession(u) PROVE IInv' /\ Kept
    BY <1>3, InitSessionKeeps
  <1>4. ASSUME NEW u \in Session,
               \/ Expire(u) \/ ChunkIsLost(u) \/ JobEnds(u)
               \/ Visit(u) \/ Collect(u) \/ Cleanup(u)
               \/ Patch(u) \/ Finalize(u) \/ Task(u) \/ Queueing(u)
               \/ Delete(u) \/ Reconcile(u)
        PROVE  IInv' /\ Kept
    <2>1. Good(u)
      BY <1>4, TimeIsGood, VisitIsGood, CleanupIsGood, PatchIsGood, FinalizeIsGood,
         TaskIsGood, QueueingIsGood, DeleteIsGood, ReconcileIsGood
    <2> QED
      BY <2>1, GoodStepKeeps
  <1>5. CASE UNCHANGED vars
    <2>1. IInv'
      BY <1>5 DEF vars, IInv, UploadTypeOK, WithinLimit, SessionOK, RowOK, PlaceOK, PhaseOK
    <2>2. told' = told /\ imports' = imports
      BY <1>5, ToldIsSaid DEF vars
    <2> QED
      BY <2>1, <2>2 DEF Kept
  <1> QED
    BY <1>1, <1>2, <1>3, <1>4, <1>5 DEF Next

\* The inductive invariant holds of every gateway.
THEOREM UploadInvariant == Spec => []IInv
  BY InitUploads, NextUploads, PTL DEF Spec

\* The gateway implements the promise to its clients: the media is imported at
\* most once, what a client is told is true and is never taken back.
THEOREM DeliveryHolds == Spec => Delivery
  <1>1. Init => Promise!Init
    BY InitUploads
  <1>2. IInv /\ [Next]_vars => [Promise!Next]_<<imports, told>>
    BY NextUploads DEF Kept
  <1> QED
    BY <1>1, <1>2, UploadInvariant, PTL DEF Spec, Delivery, Promise!Spec

\* Rows, files and entries are of their types.
THEOREM UploadsAreTyped == Spec => []UploadTypeOK
  BY UploadInvariant, PTL DEF IInv

\* What was acknowledged is staged, and what was cleaned is gone.
THEOREM StagingStaysTrue == Spec => []StagingAgrees
  <1>1. IInv => StagingAgrees
    BY DEF IInv, SessionOK, RowOK, StagingAgrees, AcknowledgedIsStaged, CleanedIsEmpty
  <1> QED
    BY <1>1, UploadInvariant, PTL

\* One job at most, and a completed session has its claim settled.
THEOREM QueuedOnceOnly == Spec => []QueuedOnce
  <1>1. IInv => QueuedOnce
    BY DEF IInv, SessionOK, RowOK, QueuedOnce
  <1> QED
    BY <1>1, UploadInvariant, PTL

\* An import that nobody works on says so.
THEOREM PollsAreAnswered == Spec => []NobodyPollsInVain
  <1>1. IInv => NobodyPollsInVain
    BY DEF IInv, SessionOK, PhaseOK, NobodyPollsInVain, UploadTypeOK, Row, Actor
  <1> QED
    BY <1>1, UploadInvariant, PTL

\* Imports are settled once, or the client is told.
THEOREM ImportsStaySettled == Spec => []ImportsAreSettled
  BY QueuedOnceOnly, PollsAreAnswered, PTL DEF ImportsAreSettled

\* The sessions that hold space are within the limit, whatever expires meanwhile.
THEOREM LimitHolds == Spec => []WithinLimit
  BY UploadInvariant, PTL DEF IInv

-----------------------------------------------------------------------------
(* The pages as clients of the gateway.                                    *)

Stage == {"init", "ask", "patch", "sent", "finalize", "poll", "track", "halted", "stopped"}

\* The page's part of the invariant, which needs that of the gateway: a session
\* that knows its recording has it imported, and is completed over a settled claim.
ClientIInv == IInv /\ step \in [Session -> Stage] /\ TrackingIsJustified

\* Whatever a page or the gateway beside it does is a step of the gateway, or none.
LEMMA ClientStepIsServed ==
    ASSUME IInv, [ClientNext]_cvars
    PROVE  [Next]_vars
  <1>1. CASE Gateway
    <2>1. CASE Crash \/ Start \/ BootEnds
      BY <2>1 DEF Next
    <2>2. ASSUME NEW u \in Session,
                 \/ Expire(u) \/ ChunkIsLost(u) \/ JobEnds(u)
                 \/ Collect(u) \/ Cleanup(u) \/ Task(u) \/ Queueing(u) \/ Reconcile(u)
                 \/ PatchFails(u) \/ PatchReceives(u) \/ PatchCommits(u) \/ PatchRejected(u)
                 \/ Delete(u)
          PROVE  Next
      BY <2>2 DEF Next, Patch
    <2> QED
      BY <1>1, <2>1, <2>2 DEF Gateway
  <1>2. ASSUME NEW u \in Session, Client(u)
        PROVE  [Next]_vars
    <2>1. CASE ClientInits(u)
      BY <2>1 DEF ClientInits, Next
    <2>2. CASE ClientReplays(u)
      <3>1. Serving /\ row' = Swept /\ UNCHANGED <<expired, files, imports, claim, live, process>>
        BY <2>2 DEF ClientReplays, Requests
      <3>2. CASE Overdue = {}
        <4>1. Swept = row
          BY <3>2 DEF Swept, IInv, UploadTypeOK
        <4> QED
          BY <3>1, <4>1 DEF vars
      <3>3. CASE Overdue # {}
        BY <3>1, <3>3 DEF InitReplay, Next
      <3> QED
        BY <3>2, <3>3
    <2>3. CASE Ask(u)
      BY <2>3 DEF Ask, AskUploading, AskWorking, AskCompleted, AskUnknown, AskOver, AskOverdue,
                  AskForgotten, Visit, Next
    <2>4. CASE ClientSends(u)
      BY <2>4 DEF ClientSends, Patch, Next
    <2>5. CASE ClientFinalizes(u)
      BY <2>5 DEF ClientFinalizes, Finalize, Next
    <2>6. CASE \/ ClientIsAnswered(u) \/ ClientCannotSend(u) \/ ClientCannotFinalize(u)
               \/ ClientLosesGateway(u) \/ ClientResumes(u) \/ ClientHalts(u)
      BY <2>6 DEF ClientIsAnswered, ClientCannotSend, ClientCannotFinalize, ClientLosesGateway,
                  ClientResumes, ClientHalts
    <2> QED
      BY <1>2, <2>1, <2>2, <2>3, <2>4, <2>5, <2>6 DEF Client
  <1>3. CASE UNCHANGED cvars \/ \E u \in Session : Library(u)
    BY <1>3 DEF cvars, Library, LibraryQueues, LibraryDeletes
  <1> QED
    BY <1>1, <1>2, <1>3 DEF ClientNext

\* What entered the library stays there: the promise never counts down.
LEMMA ImportsStay ==
    ASSUME Kept, NEW u \in Session, imports[u] = 1
    PROVE  imports'[u] = 1
  <1>1. CASE \E v \in Session : Promise!Store(v)
    BY <1>1 DEF Promise!Store
  <1>2. CASE imports' = imports
    BY <1>2
  <1> QED
    BY <1>1, <1>2 DEF Kept, Promise!Next, Promise!Confirm, Promise!Refuse, Promise!Doubt,
                      Promise!Forget

\* A settled claim stays settled: _create_job finds it, and release_job gives
\* back only a claim that is still being created.
LEMMA SettledClaimsStay ==
    ASSUME UploadTypeOK, [Next]_vars, NEW u \in Session, claim[u] = "completed"
    PROVE  claim'[u] = "completed"
  <1>1. claim \in [Session -> {"none", "creating", "completed"}]
    BY DEF UploadTypeOK
  <1>2. ASSUME NEW v \in Session, Queueing(v)
        PROVE  claim'[u] = "completed"
    BY <1>1, <1>2 DEF Queueing, JobIsClaimed, JobIsEnqueued, JobIsSettled, QueueingFails, Complete
  <1>3. ASSUME NEW v \in Session,
               \/ Expire(v) \/ ChunkIsLost(v) \/ JobEnds(v) \/ InitSession(v)
               \/ Visit(v) \/ Collect(v) \/ Cleanup(v)
        PROVE  claim' = claim
    BY <1>3 DEF Expire, ChunkIsLost, JobEnds, InitSession, Visit, Collect, TakeOverdue,
                VisitTerminal, CollectTerminal, Cleanup, PurgeAll, PurgeSome, Purge, Mark, Forget
  <1>4. ASSUME NEW v \in Session, Patch(v) \/ Finalize(v) \/ Task(v)
        PROVE  claim' = claim
    BY <1>4 DEF Patch, PatchStarts, PatchFails, PatchReceives, PatchCommits, PatchRejected,
                Finalize, FinalizeAccepts, FinalizeLosesTask, CloseStarts,
                Task, TaskEnters, TaskAssembles, TaskFails, TaskChecksExpiry, TaskPromotes,
                TaskImports, TaskIsRejected, TaskLosesImport, TaskRecords
  <1>5. ASSUME NEW v \in Session, Delete(v) \/ Reconcile(v)
        PROVE  claim' = claim
    BY <1>5 DEF Delete, DeleteUploading, DeleteAssembling, DeleteContinues, DeleteGivesUp,
                Reconcile, Boot, BootVerifies, BootFindsDamage, BootSkips
  <1>6. CASE InitReplay \/ Crash \/ Start \/ BootEnds \/ UNCHANGED vars
    BY <1>6 DEF InitReplay, Crash, Start, BootEnds, vars
  <1> QED
    BY <1>2, <1>3, <1>4, <1>5, <1>6 DEF Next

\* A session that knows its recording never loses it: only a new row has none.
LEMMA RecordingsStay ==
    ASSUME UploadTypeOK, [Next]_vars, NEW u \in Session, row[u].recording, row[u].state # "none"
    PROVE  row'[u].recording
  <1>1. row \in [Session -> Row] /\ row[u] \in Row
    BY DEF UploadTypeOK
  <1>2. Swept[u].recording
    <2>1. CASE u \in Overdue
      <3>1. Swept[u] = [row[u] EXCEPT !.state = "expired", !.error = "none"]
        BY <2>1, SweptIsTyped
      <3> QED
        BY <1>1, <3>1 DEF Row
    <2>2. CASE u \notin Overdue
      BY <2>2, SweptIsTyped
    <2> QED
      BY <2>1, <2>2
  <1>3. ASSUME NEW v \in Session, NEW from, NEW to \in State,
               NEW error \in {"none", "unknown", "pending"}, Transition(v, from, to, error)
        PROVE  row'[u].recording
    <2>1. PICK r : r = [row[v] EXCEPT !.state = to, !.error = error]
      OBVIOUS
    <2>2. r.recording = row[v].recording
      BY <1>1, <2>1 DEF Row
    <2>3. row' = [row EXCEPT ![v] = r] \/ row' = row
      BY <1>3, <2>1 DEF Transition
    <2> QED
      BY <1>1, <2>2, <2>3
  <1>4. ASSUME NEW v \in Session, NEW r \in Row, r.recording, row' = [row EXCEPT ![v] = r]
        PROVE  row'[u].recording
    BY <1>1, <1>4
  <1>5. CASE InitReplay \/ Crash \/ Start \/ BootEnds \/ UNCHANGED vars
    BY <1>2, <1>5 DEF InitReplay, Crash, Start, BootEnds, vars
  <1>6. ASSUME NEW v \in Session, Expire(v) \/ ChunkIsLost(v) \/ JobEnds(v)
        PROVE  row'[u].recording
    BY <1>6 DEF Expire, ChunkIsLost, JobEnds
  <1>7. ASSUME NEW v \in Session, InitSession(v)
        PROVE  row'[u].recording
    <2>1. v # u /\ Swept \in [Session -> Row]
      BY <1>7, SweptIsTyped DEF InitSession
    <2> QED
      BY <1>2, <1>7, <2>1 DEF InitSession
  <1>8. ASSUME NEW v \in Session, Visit(v) \/ Collect(v)
        PROVE  row'[u].recording
    BY <1>3, <1>8 DEF Visit, Collect, TakeOverdue, VisitTerminal, CollectTerminal, State
  <1>9. ASSUME NEW v \in Session, Cleanup(v)
        PROVE  row'[u].recording
    BY <1>1, <1>9 DEF Cleanup, PurgeAll, PurgeSome, Purge, Mark, Forget, Row
  <1>10. ASSUME NEW v \in Session, Patch(v) \/ Finalize(v)
        PROVE  row'[u].recording
    <2>1. CASE PatchCommits(v)
      BY <1>1, <2>1 DEF PatchCommits, Row
    <2> QED
      BY <1>3, <1>10, <2>1 DEF Patch, PatchStarts, PatchFails, PatchReceives, PatchRejected,
             Finalize, FinalizeAccepts, FinalizeLosesTask, CloseStarts, State
  <1>11. ASSUME NEW v \in Session, Task(v)
        PROVE  row'[u].recording
    <2>1. CASE TaskRecords(v)
      BY <1>1, <2>1 DEF TaskRecords, Row
    <2> QED
      BY <1>3, <1>11, <2>1 DEF Task, TaskEnters, TaskAssembles, TaskFails, TaskChecksExpiry,
             TaskPromotes, TaskImports, TaskIsRejected, TaskLosesImport, State
  <1>12. ASSUME NEW v \in Session, Queueing(v)
        PROVE  row'[u].recording
    BY <1>3, <1>12 DEF Queueing, JobIsClaimed, JobIsEnqueued, JobIsSettled, QueueingFails,
                       Complete, State
  <1>13. ASSUME NEW v \in Session, Delete(v) \/ Reconcile(v)
        PROVE  row'[u].recording
    BY <1>3, <1>13 DEF Delete, DeleteUploading, DeleteAssembling, DeleteContinues, DeleteGivesUp,
           Reconcile, Boot, BootImporting, BootOver, BootUploading, BootVerifies, BootFindsDamage,
           BootSkips, State
  <1> QED
    BY <1>5, <1>6, <1>7, <1>8, <1>9, <1>10, <1>11, <1>12, <1>13 DEF Next

\* What a page may follow: its own recording in the library, and a claim that is
\* settled as soon as the session is not importing any more.
Followable(u) == /\ imports[u] = 1 /\ row[u].recording
                 /\ row[u].state = "importing" \/ claim[u] = "completed"

\* It stays so: an import that was recorded can only be completed, which needs
\* the claim, and a settled claim stays.
LEMMA FollowableStays ==
    ASSUME IInv, IInv', Kept, [Next]_vars, NEW u \in Session, Followable(u)
    PROVE  Followable(u)'
  <1>1. UploadTypeOK /\ RowOK(u) /\ RowOK(u)' /\ row'[u] \in Row
    BY DEF IInv, SessionOK, UploadTypeOK
  <1>2. imports'[u] = 1 /\ row'[u].recording
    BY <1>1, ImportsStay, RecordingsStay DEF Followable, RowOK
  <1>3. CASE claim[u] = "completed"
    BY <1>1, <1>2, <1>3, SettledClaimsStay DEF Followable
  <1>4. CASE row[u].state = "importing"
    <2>1. Says(row[u]) = "pending"
      BY <1>1, <1>4 DEF Says, RowOK, Followable
    <2>2. told[u] = "pending" /\ told'[u] = Says(row'[u]) /\ told \in [Session -> {Says(row[v]) : v \in Session}]
      BY <2>1, ToldIsSaid
    <2>3. told'[u] \in {"pending", "yes", "unknown"}
      <3>1. CASE \E S \in SUBSET Session : Promise!Refuse(S)
        <4>1. PICK S \in SUBSET Session : Promise!Refuse(S)
          BY <3>1
        <4>2. u \notin S
          BY <4>1 DEF Promise!Refuse, Followable
        <4> QED
          BY <2>2, <4>1, <4>2 DEF Promise!Refuse
      <3>2. ASSUME NEW v \in Session, Promise!Store(v) \/ Promise!Confirm(v) \/ Promise!Doubt(v)
            PROVE  told'[u] \in {"pending", "yes", "unknown"}
        BY <2>2, <3>2 DEF Promise!Store, Promise!Confirm, Promise!Doubt
      <3>3. ASSUME NEW v \in Session, Promise!Forget(v)
            PROVE  told'[u] \in {"pending", "yes", "unknown"}
        BY <2>2, <3>3 DEF Promise!Forget
      <3> QED
        BY <2>2, <3>1, <3>2, <3>3 DEF Kept, Promise!Next
    <2> QED
      <3>1. row'[u].state \in State /\ row'[u].error \in {"none", "unknown", "pending"}
        BY <1>1 DEF Row
      <3>2. row'[u].state \notin {"none", "uploading", "assembling", "aborted", "expired"}
        BY <1>1, <1>2 DEF RowOK
      <3>3. row'[u].state # "forgotten"
        BY <2>2, <2>3 DEF Says
      <3>4. row'[u].state \in {"importing", "completed"}
        BY <3>1, <3>2, <3>3 DEF State
      <3>5. row'[u].state = "completed" => claim'[u] = "completed"
        BY <1>1, PageAssumption DEF RowOK
      <3> QED
        BY <1>2, <3>4, <3>5 DEF Followable
  <1> QED
    BY <1>3, <1>4 DEF Followable

\* A page begins to follow a job only on an answer that names it.
LEMMA TracksOnlyNamedJobs ==
    ASSUME ClientIInv, [ClientNext]_cvars
    PROVE  /\ step' \in [Session -> Stage]
           /\ \A u \in Session : Follows(u)' => Follows(u) \/
                 (row[u].recording /\ row[u].state \in {"importing", "completed"})
  <1>1. step \in [Session -> Stage] /\ IInv
    BY DEF ClientIInv
  <1>2. CASE Gateway \/ UNCHANGED cvars \/ \E u \in Session : Library(u)
    BY <1>1, <1>2 DEF Gateway, Library, LibraryQueues, LibraryDeletes, cvars, Follows
  <1>3. ASSUME NEW u \in Session, Client(u)
        PROVE  \E s \in Stage : Goes(u, s) /\
                  (s \in {"track", "halted"} => Follows(u) \/
                     (row[u].recording /\ row[u].state \in {"importing", "completed"}))
    <2> USE DEF Stage
    <2>1. CASE ClientInits(u) \/ ClientReplays(u)
      BY <2>1 DEF ClientInits, ClientReplays
    <2>2. CASE AskUploading(u) \/ AskUnknown(u) \/ AskForgotten(u)
      BY <2>2 DEF AskUploading, AskUnknown, AskForgotten
    <2>3. CASE AskWorking(u)
      <3>1. row[u].recording => row[u].state # "assembling"
        BY <1>1 DEF IInv, SessionOK, RowOK
      <3> QED
        BY <2>3, <3>1 DEF AskWorking, NamesJob
    <2>4. CASE AskCompleted(u)
      BY <2>4 DEF AskCompleted, NamesJob
    <2>5. CASE AskOver(u) \/ AskOverdue(u)
      BY <2>5 DEF AskOver, AskOverdue, IsGone
    <2>6. CASE ClientSends(u) \/ ClientIsAnswered(u) \/ ClientCannotSend(u)
      BY <2>6 DEF ClientSends, ClientIsAnswered, ClientCannotSend
    <2>7. CASE ClientFinalizes(u) \/ ClientCannotFinalize(u) \/ ClientLosesGateway(u)
      BY <2>7 DEF ClientFinalizes, ClientCannotFinalize, ClientLosesGateway
    <2>8. CASE ClientResumes(u) \/ ClientHalts(u)
      BY <2>8 DEF ClientResumes, ClientHalts, Follows
    <2> QED
      BY <1>3, <2>1, <2>2, <2>3, <2>4, <2>5, <2>6, <2>7, <2>8 DEF Client, Ask
  <1>4. ASSUME NEW u \in Session, Client(u)
        PROVE  /\ step' \in [Session -> Stage]
               /\ \A v \in Session : Follows(v)' => Follows(v) \/
                     (row[v].recording /\ row[v].state \in {"importing", "completed"})
    <2>1. PICK s \in Stage : Goes(u, s) /\
                  (s \in {"track", "halted"} => Follows(u) \/
                     (row[u].recording /\ row[u].state \in {"importing", "completed"}))
      BY <1>3, <1>4
    <2> QED
      BY <1>1, <2>1 DEF Goes, Follows
  <1> QED
    BY <1>2, <1>4 DEF ClientNext

\* Every step of pages and gateway keeps the invariant, and is one of the gateway.
LEMMA ClientStepKeeps ==
    ClientIInv /\ [ClientNext]_cvars => ClientIInv' /\ [Next]_vars
  <1> SUFFICES ASSUME ClientIInv, [ClientNext]_cvars PROVE ClientIInv' /\ [Next]_vars
    OBVIOUS
  <1>1. IInv /\ [Next]_vars
    BY ClientStepIsServed DEF ClientIInv
  <1>2. IInv' /\ Kept
    BY <1>1, NextUploads
  <1>3. ASSUME NEW u \in Session, Follows(u)'
        PROVE  Followable(u)'
    <2>1. Followable(u)
      <3>1. CASE Follows(u)
        BY <3>1 DEF ClientIInv, TrackingIsJustified, Followable
      <3>2. CASE row[u].recording /\ row[u].state \in {"importing", "completed"}
        BY <1>1, <3>2, PageAssumption DEF IInv, SessionOK, RowOK, Followable
      <3> QED
        BY <1>3, <3>1, <3>2, TracksOnlyNamedJobs
    <2> QED
      BY <1>1, <1>2, <2>1, FollowableStays
  <1>4. TrackingIsJustified'
    BY <1>3 DEF TrackingIsJustified, Followable
  <1> QED
    BY <1>1, <1>2, <1>4, TracksOnlyNamedJobs DEF ClientIInv

\* Pages begin with an untouched gateway.
LEMMA ClientStarts == ClientInit => ClientIInv
  <1>1. ASSUME ClientInit, NEW u \in Session PROVE ~Follows(u)
    BY <1>1 DEF ClientInit, Follows
  <1> QED
    BY <1>1, InitUploads DEF ClientInit, Stage, ClientIInv, TrackingIsJustified

\* The invariant of pages and gateway.
THEOREM ClientInvariant == ClientSpec => []ClientIInv
  BY ClientStarts, ClientStepKeeps, PTL DEF ClientSpec

\* The gateway keeps its specification while the pages use it in their order:
\* whatever was proved of it holds for their users.
THEOREM PagesUseTheGateway == ClientSpec => Spec
  <1>1. ClientInit => Init
    BY DEF ClientInit
  <1> QED
    BY <1>1, ClientStepKeeps, ClientInvariant, PTL DEF ClientSpec, Spec

\* A page follows a job only of an upload that is in the library once, as its
\* session says, and the session leaves "importing" only over a settled claim,
\* whatever was retried, lost, restarted, or queued and deleted beside it.
THEOREM TrackingStaysJustified == ClientSpec => []TrackingIsJustified
  BY ClientInvariant, PTL DEF ClientIInv
=============================================================================
