------------------------------ MODULE JobPage ------------------------------
(***************************************************************************)
(* The list of jobs in the local web page (web/app.js, web/async_state.js, *)
(* web/api.js) and the event stream that the server keeps for each active  *)
(* job (stream_job_events in api.py).                                      *)
(*                                                                         *)
(* A job is the history of its states at the server; its n-th event was    *)
(* committed with its n-th state.  What the page holds of a job is a row:  *)
(* the cursor it claims (last_event_sequence) and the state it shows,      *)
(* which the server read a moment later.  Answers arrive in any order.     *)
(***************************************************************************)
EXTENDS Integers, Sequences, FiniteSets

CONSTANTS Job,
          MaxStates,    \* bound: states in the history of a job
          MaxRequests,  \* bound: requests in flight when the user begins another one
          MaxFaults     \* bound: failed requests, broken streams and reloads

ASSUME JobAssumption == MaxStates \in Nat /\ MaxFaults \in Nat

VARIABLES hist,      \* the states a job went through, at the server
          gone,      \* the jobs deleted with their recording
          requests,  \* requests in flight, with their answers
          rows,      \* state.jobs
          track,     \* JobEventTracker.jobs
          stream,    \* activeStreams, with the EventSource and the server's generator
          told,      \* a toast says that the list could not be refreshed
          lapses     \* how many of the MaxFaults have happened

jobVars == <<hist, gone, requests, rows, track, stream, told, lapses>>
atServer == <<hist, gone>>
atPage == <<rows, track, stream, told>>

All == "all"
Active(x) == x \in {"pending", "running"}
Terminal(x) == x \in {"succeeded", "stopped"}   \* stopped: failed or cancelled

Absent == [seq |-> 0, ver |-> 0]
Unknown == [known |-> FALSE, active |-> FALSE, gen |-> 0, seq |-> 0]
Closed == [at |-> "closed", gen |-> 0, after |-> 0, cursor |-> 0, upto |-> 0,
           wire |-> <<>>]

Greater(a, b) == IF a > b THEN a ELSE b
Latest(j) == Len(hist[j])
Exists(j) == Latest(j) > 0 /\ j \notin gone
Status(j, row) == hist[j][row.ver]
Working(j, row) == row # Absent /\ Active(Status(j, row))

-----------------------------------------------------------------------------
(* JobEventTracker.                                                        *)

Seeded(t, seq) == [t EXCEPT !.known = TRUE, !.seq = Greater(@, seq)]

Stopped(t) == [t EXCEPT !.active = FALSE, !.gen = @ + 1]

\* isCurrent.  A generation is counted anew for a job that had been cleared.
Current(j, gen) == track[j].active /\ track[j].gen = gen

\* accept: the event is newer than all that is known
Accepts(j, gen, seq) == Current(j, gen) /\ seq > track[j].seq

-----------------------------------------------------------------------------
(* connectActiveJobs, for one job with row r, tracker t and stream s.      *)

Connected(j, r, t, s) ==
    LET live == s.at # "closed"
        seen == IF r = Absent THEN Unknown ELSE Seeded(t, r.seq)
    IN  IF Working(j, r) /\ ~live
        THEN LET begun == [seen EXCEPT !.active = TRUE, !.gen = @ + 1]
             IN  [t |-> begun, s |-> [Closed EXCEPT !.at = "connecting", !.gen = begun.gen,
                                                    !.after = begun.seq]]
        ELSE IF live /\ ~Working(j, r)
        THEN [t |-> IF r = Absent THEN Unknown ELSE Stopped(seen), s |-> Closed]
        ELSE [t |-> seen, s |-> s]

\* rows, trackers and streams after connectActiveJobs for the rows rs
Connects(rs, ts, ss) ==
    /\ rows' = rs
    /\ track' = [j \in Job |-> Connected(j, rs[j], ts[j], ss[j]).t]
    /\ stream' = [j \in Job |-> Connected(j, rs[j], ts[j], ss[j]).s]
    /\ told' = FALSE

\* Mutant of Replaced: the answer is taken whatever is known already.
ReplacedAnyway(j, row) == row

\* replaceJob: an answer older than the events already seen is left
Replaced(j, row) ==
    IF rows[j] # Absent /\ row.seq < track[j].seq THEN rows[j] ELSE row

-----------------------------------------------------------------------------
JobInit ==
    /\ hist = [j \in Job |-> <<>>] /\ gone = {}
    /\ requests = {}
    /\ rows = [j \in Job |-> Absent]
    /\ track = [j \in Job |-> Unknown]
    /\ stream = [j \in Job |-> Closed]
    /\ told = FALSE /\ lapses = 0

Lapse == lapses < MaxFaults /\ lapses' = lapses + 1
NoLapse == UNCHANGED lapses

-----------------------------------------------------------------------------
(* What the worker commits: a state and its event.                         *)

\* the last state that the bound leaves room for is an end
Commits(j, x) ==
    /\ Latest(j) + (IF Terminal(x) THEN 1 ELSE 2) <= MaxStates
    /\ hist' = [hist EXCEPT ![j] = Append(@, x)]

Work(j) ==
    /\ Exists(j)
    /\ \/ hist[j][Latest(j)] = "pending" /\ Commits(j, "running")
       \/ /\ hist[j][Latest(j)] = "running"
          /\ \E x \in {"running", "succeeded", "stopped"} : Commits(j, x)
    /\ UNCHANGED <<gone, requests, lapses>> /\ UNCHANGED atPage

-----------------------------------------------------------------------------
(* Requests.  A job's answer is its cursor, read first, and its state.     *)

Request(kind, j, gen) ==
    [kind |-> kind, j |-> j, gen |-> gen, at |-> "sent", rows |-> [k \in Job |-> Absent]]

\* the requests the user has begun
Begun == {r \in requests : r.kind \notin {"terminal", "transcripts"}}
Room(rs) == Cardinality(rs) < MaxRequests

Asks(kind, j) ==
    /\ Room(Begun)
    /\ requests' = requests \cup {Request(kind, j, 0)}
    /\ NoLapse /\ UNCHANGED atServer /\ UNCHANGED atPage

\* loadAll: the load before is aborted
LoadAll ==
    /\ Room({r \in Begun : r.kind # "load"})
    /\ requests' = {r \in requests : r.kind # "load"} \cup {Request("load", All, 0)}
    /\ NoLapse /\ UNCHANGED atServer /\ UNCHANGED atPage

Refresh == Asks("refresh", All)
CreateJob(j) == Latest(j) = 0 /\ Asks("create", j)

\* what the card of a job offers (jobCard)
Offered(j) == IF rows[j] = Absent THEN {}
              ELSE IF Active(Status(j, rows[j])) THEN {"cancel"}
              ELSE IF Status(j, rows[j]) = "stopped" THEN {"retry"} ELSE {}

CancelJob(j) == "cancel" \in Offered(j) /\ Asks("cancel", j)
RetryJob(j) == "retry" \in Offered(j) /\ Asks("retry", j)
DeleteRecording(j) == rows[j] # Absent /\ Asks("delete", j)

Moves(r, s) == requests' = (requests \ {r}) \cup {s}

\* what a request does to the job before its answer is made
Acts(r) ==
    /\ r.at = "sent" /\ r.kind \in {"create", "cancel", "retry", "delete"}
    /\ \/ /\ r.kind = "create" /\ Latest(r.j) = 0
          /\ Commits(r.j, "pending") /\ UNCHANGED gone
          /\ Moves(r, [r EXCEPT !.at = "acted"])
       \/ /\ r.kind = "cancel" /\ Exists(r.j)
          /\ \/ hist[r.j][Latest(r.j)] = "pending" /\ Commits(r.j, "stopped")
             \/ hist[r.j][Latest(r.j)] = "running" /\ Commits(r.j, "running")
          /\ UNCHANGED gone /\ Moves(r, [r EXCEPT !.at = "acted"])
       \/ /\ r.kind = "retry" /\ Exists(r.j)
          /\ hist[r.j][Latest(r.j)] = "stopped"
          /\ Commits(r.j, "pending")
          /\ UNCHANGED gone /\ Moves(r, [r EXCEPT !.at = "acted"])
       \/ /\ r.kind = "delete" /\ Exists(r.j) /\ Terminal(hist[r.j][Latest(r.j)])
          /\ gone' = gone \cup {r.j} /\ UNCHANGED hist
          /\ Moves(r, [r EXCEPT !.at = "answered"])
       \/ /\ Moves(r, [r EXCEPT !.at = "failed"])   \* refused
          /\ UNCHANGED atServer
    /\ NoLapse /\ UNCHANGED atPage

Reads(r) == \/ r.at = "sent" /\ r.kind \in {"load", "refresh", "terminal"}
            \/ r.at = "acted"

Asked(r, j) == r.j \in {j, All}

\* Mutant of Counts: the state is read before the cursor.
CountsLast(r) ==
    /\ Reads(r)
    /\ Moves(r, [r EXCEPT !.at = IF r.j = All \/ Exists(r.j) THEN "counted" ELSE "failed",
                          !.rows = [j \in Job |-> IF Asked(r, j) /\ Exists(j)
                                                  THEN [seq |-> 0, ver |-> Latest(j)]
                                                  ELSE Absent]])
    /\ NoLapse /\ UNCHANGED atServer /\ UNCHANGED atPage

Counts(r) ==
    /\ Reads(r)
    /\ Moves(r, [r EXCEPT !.at = IF r.j = All \/ Exists(r.j) THEN "counted" ELSE "failed",
                          !.rows = [j \in Job |-> IF Asked(r, j) /\ Exists(j)
                                                  THEN [seq |-> Latest(j), ver |-> 0]
                                                  ELSE Absent]])
    /\ NoLapse /\ UNCHANGED atServer /\ UNCHANGED atPage

\* the second read, of what the first one left; a job that has been deleted
\* meanwhile is answered as it was
Snapshots(r) ==
    /\ r.at = "counted"
    /\ Moves(r, [r EXCEPT !.at = "answered",
                  !.rows = [j \in Job |->
                     IF @[j] = Absent THEN Absent
                     ELSE LET now == IF j \in gone THEN Greater(@[j].seq, @[j].ver) ELSE Latest(j)
                          IN  IF @[j].ver = 0 THEN [@[j] EXCEPT !.ver = now]
                              ELSE [@[j] EXCEPT !.seq = now]]])
    /\ NoLapse /\ UNCHANGED atServer /\ UNCHANGED atPage

RequestFails(r) ==
    /\ Lapse /\ r.at \notin {"answered", "failed"}
    /\ Moves(r, [r EXCEPT !.at = "failed"])
    /\ UNCHANGED atServer /\ UNCHANGED atPage

-----------------------------------------------------------------------------
(* Answers.                                                                *)

Done(r) == requests' = requests \ {r} /\ NoLapse /\ UNCHANGED atServer

\* replaceJobSnapshot: jobs that are not in the list are forgotten
Snapshot(answer) ==
    LET rs == [j \in Job |-> IF answer[j] = Absent THEN Absent ELSE Replaced(j, answer[j])]
        ts == [j \in Job |-> IF rs[j] = Absent THEN Unknown ELSE track[j]]
    IN  Connects(rs, ts, stream)

LoadAnswered(r) ==
    /\ r.kind = "load" /\ r.at = "answered" /\ Done(r)
    /\ Snapshot(r.rows)

\* When only the jobs could not be loaded, the list is empty.

LoadFailed(r) ==
    /\ r.kind = "load" /\ r.at = "failed" /\ Done(r)
    /\ \/ UNCHANGED atPage
       \/ Snapshot([j \in Job |-> Absent])

\* the button "refresh" takes the list as it comes, then asks for transcripts
RefreshAnswered(r) ==
    /\ r.kind = "refresh" /\ r.at = "answered"
    /\ rows' = r.rows
    /\ Moves(r, Request("listed", All, 0))
    /\ NoLapse /\ UNCHANGED atServer /\ UNCHANGED <<track, stream, told>>

RefreshEnds(r) ==
    /\ r.kind = "listed" /\ r.at \in {"sent", "failed"} /\ Done(r)
    /\ IF r.at = "sent" THEN Connects(rows, track, stream)
       ELSE told' = TRUE /\ UNCHANGED <<rows, track, stream>>

\* cancelJob, retryJob, confirm-enqueue
JobAnswered(r) ==
    /\ r.kind \in {"create", "cancel", "retry"} /\ r.at = "answered" /\ Done(r)
    /\ Connects([rows EXCEPT ![r.j] = Replaced(r.j, r.rows[r.j])],
                [track EXCEPT ![r.j] = Seeded(@, Replaced(r.j, r.rows[r.j]).seq)], stream)

Deleted(r) ==
    /\ r.kind = "delete" /\ r.at = "answered" /\ Done(r)
    /\ Connects([rows EXCEPT ![r.j] = Absent], track, stream)

Refused(r) ==
    /\ r.kind \in {"refresh", "create", "cancel", "retry", "delete"} /\ r.at = "failed"
    /\ Done(r) /\ UNCHANGED atPage

\* The end of updateJobFromEvent: the stream is closed, the others looked after.
Closes(j, rs, ts) ==
    Connects(rs, [ts EXCEPT ![j] = Stopped(@)], [stream EXCEPT ![j] = Closed])

TerminalAnswered(r) ==
    /\ r.kind = "terminal" /\ r.at \in {"answered", "failed"}
    /\ IF ~Current(r.j, r.gen) THEN Done(r) /\ UNCHANGED atPage
       ELSE IF r.at = "failed" THEN Done(r) /\ Closes(r.j, rows, track)
       ELSE LET row == Replaced(r.j, r.rows[r.j])
            IN  /\ rows' = [rows EXCEPT ![r.j] = row]
                /\ track' = [track EXCEPT ![r.j] = Seeded(@, row.seq)]
                /\ Moves(r, Request("transcripts", r.j, r.gen))
                /\ NoLapse /\ UNCHANGED atServer /\ UNCHANGED <<stream, told>>

TranscriptsAnswered(r) ==
    /\ r.kind = "transcripts" /\ r.at \in {"sent", "failed"} /\ Done(r)
    /\ IF Current(r.j, r.gen) THEN Closes(r.j, rows, track) ELSE UNCHANGED atPage

Answers(r) == \/ LoadAnswered(r) \/ LoadFailed(r) \/ RefreshAnswered(r) \/ RefreshEnds(r)
              \/ JobAnswered(r) \/ Deleted(r) \/ Refused(r)
              \/ TerminalAnswered(r) \/ TranscriptsAnswered(r)

-----------------------------------------------------------------------------
(* The event stream of one job.                                            *)

Streams(j, s) ==
    /\ stream' = [stream EXCEPT ![j] = s]
    /\ NoLapse /\ UNCHANGED atServer /\ UNCHANGED <<requests, rows, track, told>>

\* The request of the EventSource, with the cursor of the snapshot or the last
\* event it got, whichever is greater (after); a deleted job is answered 404, for good.
StreamOpens(j) ==
    /\ stream[j].at = "connecting"
    /\ Streams(j, IF Exists(j)
                  THEN [stream[j] EXCEPT !.at = "poll", !.cursor = stream[j].after]
                  ELSE [stream[j] EXCEPT !.at = "dead"])

\* A query that finds nothing is left out: it is followed by the next one, or by
\* the end (see Looks).
Polls(j) ==
    /\ stream[j].at = "poll" /\ (Exists(j) => Latest(j) > stream[j].cursor)
    /\ Streams(j, IF Exists(j) THEN [stream[j] EXCEPT !.at = "row", !.upto = Latest(j)]
                  ELSE [stream[j] EXCEPT !.at = "ended"])

\* the events found, each with the state of the row as it is by now
Sends(s, upto, ver) ==
    [s EXCEPT !.cursor = upto,
              !.wire = @ \o [i \in 1..(upto - s.cursor) |-> [seq |-> s.cursor + i, ver |-> ver]]]

SendsBatch(j) ==
    /\ stream[j].at = "row"
    /\ Streams(j, IF Exists(j)
                  THEN [Sends(stream[j], stream[j].upto, Latest(j)) EXCEPT !.at = "poll"]
                  ELSE [stream[j] EXCEPT !.at = "ended"])

\* A query found nothing, and now, maybe some events later, the job is over.
Looks(j) ==
    /\ stream[j].at = "poll" /\ Exists(j) /\ Terminal(hist[j][Latest(j)])
    /\ Streams(j, [stream[j] EXCEPT !.at = "confirm", !.upto = Latest(j)])

\* the last query, and the end
Confirms(j) ==
    /\ stream[j].at = "confirm"
    /\ Streams(j, IF Exists(j)
                  THEN [Sends(stream[j], Latest(j), stream[j].upto) EXCEPT !.at = "ended"]
                  ELSE [stream[j] EXCEPT !.at = "ended"])

\* The EventSource connects again after an end, from the last event it got.
StreamEnds(j) ==
    /\ stream[j].at = "ended" /\ stream[j].wire = <<>>
    /\ Streams(j, [stream[j] EXCEPT !.at = "connecting"])

StreamBreaks(j) ==
    /\ Lapse /\ stream[j].at \notin {"closed", "dead", "connecting"}
    /\ stream' = [stream EXCEPT ![j].at = "connecting", ![j].wire = <<>>]
    /\ UNCHANGED atServer /\ UNCHANGED <<requests, rows, track, told>>

\* updateJobFromEvent, up to its first await
EventArrives(j) ==
    /\ stream[j].wire # <<>>
    /\ LET e == Head(stream[j].wire)
       IN  /\ stream' = [stream EXCEPT ![j].wire = Tail(@), ![j].after = e.seq]
           /\ IF Accepts(j, stream[j].gen, e.seq)
              THEN /\ track' = [track EXCEPT ![j].seq = e.seq]
                   /\ rows' = IF rows[j] = Absent THEN rows ELSE [rows EXCEPT ![j] = e]
                   /\ requests' = IF rows[j] # Absent /\ Terminal(Status(j, e))
                                  THEN requests \cup {Request("terminal", j, stream[j].gen)}
                                  ELSE requests
              ELSE UNCHANGED <<track, rows, requests>>
    /\ NoLapse /\ UNCHANGED atServer /\ UNCHANGED told

StreamServes(j) == \/ StreamOpens(j) \/ Polls(j) \/ SendsBatch(j) \/ Looks(j)
                   \/ Confirms(j) \/ StreamEnds(j)

-----------------------------------------------------------------------------
\* The page is loaded again: start.
PageReload ==
    /\ Lapse
    /\ requests' = {Request("load", All, 0)}
    /\ rows' = [j \in Job |-> Absent] /\ track' = [j \in Job |-> Unknown]
    /\ stream' = [j \in Job |-> Closed] /\ told' = FALSE
    /\ UNCHANGED atServer

Serves(r) == Acts(r) \/ Counts(r) \/ Snapshots(r) \/ Answers(r)

JobNext ==
    \/ LoadAll \/ Refresh \/ PageReload
    \/ \E j \in Job : \/ CreateJob(j) \/ CancelJob(j) \/ RetryJob(j) \/ DeleteRecording(j)
                      \/ Work(j) \/ StreamServes(j) \/ StreamBreaks(j) \/ EventArrives(j)
    \/ \E r \in requests : Serves(r) \/ RequestFails(r)

\* The server answers and the browser delivers.
JobFairness ==
    /\ \A j \in Job : WF_jobVars(StreamServes(j)) /\ WF_jobVars(EventArrives(j))
    /\ WF_jobVars(\E r \in requests : r.kind \in {"terminal", "transcripts"} /\ Serves(r))
    /\ WF_jobVars(\E r \in requests : r.kind = "listed" /\ Serves(r))

JobSpec == JobInit /\ [][JobNext]_jobVars /\ JobFairness

-----------------------------------------------------------------------------
(* Properties.                                                             *)

JobTypeOK ==
    /\ \A j \in Job : /\ Latest(j) <= MaxStates
                      /\ rows[j].seq \in 0..Latest(j) /\ rows[j].ver \in 0..Latest(j)
                      /\ track[j].seq \in 0..Latest(j)
    /\ gone \subseteq Job /\ told \in BOOLEAN /\ lapses \in 0..MaxFaults

\* The list of "refresh" was taken as it came, and connectActiveJobs is still to
\* follow or, with a failed second request, never does.
Unreconciled == told \/ \E r \in requests \cup requests' : r.kind = "listed"

\* Late answers and repeated events never take a row back, except around the
\* button "refresh".
RowsNeverGoBack ==
    [][\/ Unreconciled
       \/ \A j \in Job : rows'[j] # Absent => rows'[j].seq >= rows[j].seq]_jobVars

Finished(j) == Exists(j) /\ Terminal(hist[j][Latest(j)])

\* The row was taken behind the events that had been seen, by a late answer to
\* "refresh".
Behind(j) == rows[j].seq < track[j].seq

\* A job that is over is shown as such, whatever was lost or overtaken.
FinishedIsShown ==
    \A j \in Job : Finished(j) /\ Working(j, rows[j])
                      ~> ~Working(j, rows[j]) \/ ~Finished(j) \/ Behind(j) \/ told
=============================================================================
