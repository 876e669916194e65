-------------------------- MODULE ResumableClient --------------------------
(***************************************************************************)
(* The remote web page (remote_web/app.js, RemoteController) as the client *)
(* of the gateway: one page for each session.  The page creates the        *)
(* session, asks for its state, sends the next chunk, finalizes, polls     *)
(* while the gateway assembles and imports, and follows a job from the     *)
(* first answer that names one.  That need not be the answer "completed":  *)
(* the gateway names a job of the recording whatever became of the claim.  *)
(*                                                                         *)
(* step[u] is where the page is.  A request and the part of its handler    *)
(* that runs before the first await are one step; a PATCH goes on in the   *)
(* gateway while the page waits, or after it lost the connection.  A       *)
(* request whose answer is lost is handled before the page goes on.  The   *)
(* page never cancels a session (another client of the same user may), and *)
(* it finalizes only a session that it saw "uploading" with all its bytes. *)
(***************************************************************************)
EXTENDS ResumableUpload

CONSTANT JobChecks    \* answers "completed" without a job before the page gives up

ASSUME PageAssumption == Enqueued = Session /\ JobChecks \in Nat    \* api.js init: enqueue = true

VARIABLES step,   \* where drive, state, resume and track of the page are: "init",
                  \* "ask", "patch", "sent", "finalize", "poll" or "stopped"; with a
                  \* job_id in its intent, "track" or, the loop over, "halted"
          checks, \* noJobChecks
          gone,   \* the sessions whose page was answered 410
          jobs    \* the sessions whose recording has a job, of whatever status

pages == <<checks, gone, jobs>>
cvars == <<vars, step, pages>>

ClientInit == /\ Init
              /\ step = [u \in Session |-> "init"]
              /\ checks = [u \in Session |-> 0]
              /\ gone = {} /\ jobs = {}

Goes(u, s)  == step' = [step EXCEPT ![u] = s]
IsGone(u)   == gone' = gone \cup {u} /\ Goes(u, "stopped") /\ UNCHANGED <<checks, jobs>>
Requests(u, s) == Serving /\ step[u] = s

(* start: the key of the intention is kept until there is an upload_id.    *)

ClientInits(u) ==
    /\ Requests(u, "init")
    /\ InitSession(u)
    /\ Goes(u, "ask") \/ Goes(u, "init") \/ Goes(u, "stopped")
    /\ UNCHANGED pages

\* the answer of the first request was lost; the replay finds the row
ClientReplays(u) ==
    /\ Requests(u, "init") /\ row[u].state # "none"
    /\ row' = Swept
    /\ Goes(u, "ask")
    /\ UNCHANGED <<expired, files, imports, claim, live, process, pages>>

(* api.status, as drive and resume act on its answer.                      *)

Asking(u) == Requests(u, "ask") \/ Requests(u, "poll")
IsOverdue(u) == u \in expired /\ row[u].state \in {"uploading", "assembling"}

AskUploading(u) ==
    /\ Asking(u) /\ ~IsOverdue(u) /\ row[u].state = "uploading"
    /\ Goes(u, IF row[u].offset < Chunks THEN "patch" ELSE "finalize")
    /\ UNCHANGED <<vars, pages>>

\* session_payload: the answer names a job
NamesJob(u) == row[u].recording /\ u \in Enqueued /\ u \in jobs

\* Mutant of AskWorking: an import is as good as a job.
AskImporting(u) ==
    /\ Asking(u) /\ ~IsOverdue(u)
    /\ row[u].state \in {"assembling", "importing"} /\ row[u].error # "unknown"
    /\ Goes(u, IF row[u].state = "importing" THEN "track" ELSE "poll")
    /\ UNCHANGED <<vars, pages>>

\* a job_id is stored in every state; with one, resume tracks
AskWorking(u) ==
    /\ Asking(u) /\ ~IsOverdue(u)
    /\ row[u].state \in {"assembling", "importing"} /\ row[u].error # "unknown"
    /\ Goes(u, IF NamesJob(u) THEN "track" ELSE "poll")
    /\ UNCHANGED <<vars, pages>>

\* without a job the page asks some more times, over all its resumes
AskCompleted(u) ==
    /\ Asking(u) /\ row[u].state = "completed"
    /\ IF NamesJob(u) THEN Goes(u, "track") /\ UNCHANGED checks
       ELSE IF checks[u] < JobChecks
       THEN Goes(u, "poll") /\ checks' = [checks EXCEPT ![u] = @ + 1]
       ELSE Goes(u, "stopped") /\ UNCHANGED checks
    /\ UNCHANGED <<vars, gone, jobs>>

\* 409 import_outcome_unknown
AskUnknown(u) ==
    /\ Asking(u) /\ row[u].state = "importing" /\ row[u].error = "unknown"
    /\ Goes(u, "stopped")
    /\ UNCHANGED <<vars, pages>>

\* 410: the session was found over, or is found overdue now
AskOver(u) ==
    /\ Asking(u)
    /\ row[u].state \in {"aborted", "expired"} \/ (IsOverdue(u) /\ ~Free(u))
    /\ IsGone(u)
    /\ UNCHANGED vars

AskOverdue(u) ==
    /\ Asking(u)
    /\ TakeOverdue(u, "visit")
    /\ IsGone(u)

\* 404
AskForgotten(u) ==
    /\ Asking(u) /\ row[u].state = "forgotten"
    /\ Goes(u, "stopped")
    /\ UNCHANGED <<vars, pages>>

Ask(u) == \/ AskUploading(u) \/ AskWorking(u) \/ AskCompleted(u)
          \/ AskUnknown(u) \/ AskOver(u) \/ AskOverdue(u) \/ AskForgotten(u)

(* api.patch.                                                              *)

ClientSends(u) ==
    /\ Requests(u, "patch")
    /\ PatchStarts(u)
    /\ Goes(u, "sent")
    /\ UNCHANGED pages

\* 409, or no answer: ask again; another error ends the loop
ClientIsAnswered(u) ==
    /\ step[u] = "sent"
    /\ Goes(u, "ask") \/ (holder[u].who # "patch" /\ Goes(u, "stopped"))
    /\ UNCHANGED <<vars, pages>>

ClientCannotSend(u) ==
    /\ Requests(u, "patch")
    /\ ~(Free(u) /\ u \notin expired /\ row[u].state = "uploading")
    /\ Goes(u, "ask") \/ Goes(u, "stopped")
    /\ UNCHANGED <<vars, pages>>

(* api.finalize.                                                           *)

ClientFinalizes(u) ==
    /\ Requests(u, "finalize")
    /\ \/ FinalizeAccepts(u) /\ (Goes(u, "poll") \/ Goes(u, "ask"))
       \/ FinalizeLosesTask(u) /\ Goes(u, "stopped")
    /\ UNCHANGED pages

\* 503 finalization_busy is asked again, every other refusal ends the loop
ClientCannotFinalize(u) ==
    /\ Requests(u, "finalize")
    /\ ~CanFinalize(u)
    /\ Goes(u, "ask") \/ Goes(u, "stopped")
    /\ UNCHANGED <<vars, pages>>

(* The connection is lost; the user, or the browser when the page is shown *)
(* again, resumes.                                                         *)

ClientLosesGateway(u) ==
    /\ ~Serving /\ step[u] \in {"ask", "poll", "patch", "finalize"}
    /\ Goes(u, "stopped")
    /\ UNCHANGED <<vars, pages>>

ClientResumes(u) ==
    /\ \/ step[u] = "stopped" /\ row[u].state # "none" /\ Goes(u, "ask")
       \/ step[u] = "halted" /\ Goes(u, "track")
    /\ UNCHANGED <<vars, pages>>

(* track: the loop ends with the transcript, a job that failed, no answer, *)
(* or 404: until complete_job nobody owns the job, and the one named last  *)
(* may never be the user's.                                                *)

ClientHalts(u) ==
    /\ step[u] = "track"
    /\ Goes(u, "halted")
    /\ UNCHANGED <<vars, pages>>

Client(u) == \/ ClientInits(u) \/ ClientReplays(u) \/ Ask(u)
             \/ ClientSends(u) \/ ClientIsAnswered(u) \/ ClientCannotSend(u)
             \/ ClientFinalizes(u) \/ ClientCannotFinalize(u)
             \/ ClientLosesGateway(u) \/ ClientResumes(u) \/ ClientHalts(u)

-----------------------------------------------------------------------------
(* The gateway, and a second client of the same user, which may delete the *)
(* session at any time.                                                    *)

Gateway ==
    /\ \/ Crash \/ Start \/ BootEnds
       \/ \E u \in Session :
             \/ Expire(u) \/ ChunkIsLost(u) \/ JobEnds(u)
             \/ Collect(u) \/ Cleanup(u) \/ Task(u) \/ Queueing(u) \/ Reconcile(u)
             \/ PatchFails(u) \/ PatchReceives(u) \/ PatchCommits(u) \/ PatchRejected(u)
             \/ Delete(u)
    /\ jobs' = jobs \cup {u \in Session : live'[u] > live[u]}
    /\ UNCHANGED <<step, checks, gone>>

(* The user of the notebook queues the recording, too, or deletes it with  *)
(* its jobs, none of which is pending or running then.  live counts the    *)
(* gateway's jobs only; the ones deleted ended before (JobEnds).           *)

LibraryQueues(u) ==
    /\ imports[u] > 0
    /\ jobs' = jobs \cup {u}
    /\ UNCHANGED <<vars, step, checks, gone>>

LibraryDeletes(u) ==
    /\ live[u] = 0
    /\ jobs' = jobs \ {u}
    /\ UNCHANGED <<vars, step, checks, gone>>

Library(u) == LibraryQueues(u) \/ LibraryDeletes(u)

ClientNext == Gateway \/ \E u \in Session : Client(u) \/ Library(u)

\* The page stays open: it asks, and waits for its answers.
ClientSpec == /\ ClientInit /\ [][ClientNext]_cvars
              /\ Fairness
              /\ \A u \in Session : /\ WF_cvars(Ask(u))
                                    /\ WF_cvars(ClientIsAnswered(u))

-----------------------------------------------------------------------------
\* A page follows a job only of an upload that is in the library, once, and whose
\* recording its session knows; and if the job was not settled for its user
\* (complete_job), then the session is still importing, so that a finalize can
\* settle it: it was not called completed, nor forgotten, over an open claim.
Follows(u) == step[u] \in {"track", "halted"}
TrackingIsJustified ==
    \A u \in Session :
        Follows(u) => /\ imports[u] = 1 /\ row[u].recording
                      /\ row[u].state = "importing" \/ claim[u] = "completed"

\* A page that polls stops polling in the end, unless the session waits for a
\* finalize that resumes its queueing.
PollingEndsOrIsResumable ==
    StaysUp => \A u \in Session :
        step[u] = "poll" ~> \/ step[u] # "poll"
                            \/ row[u].state = "importing" /\ row[u].error = "pending"

\* A page that polls an assembly or an import gets to its end.
PollingEnds ==
    StaysUp => \A u \in Session : step[u] = "poll" ~> step[u] # "poll"

\* A session that was answered 410 is over: its media is not in the library.
GoneIsOver == \A u \in gone : imports[u] = 0
=============================================================================
