# Verification of Local Transcriber

Local Transcriber is a local application: a library of lesson recordings, a
persistent queue of transcription jobs in SQLite, a worker that runs a speech
engine over them, a loopback HTTP API with a web page, and a temporary gateway
through which a phone or tablet on the same Tailnet uploads recordings. The
repository also carries the page script of the design tool with which its web
page is worked on (`.agents/skills/impeccable/scripts/live-browser*.js`,
installed by docs/PHASE_TOOLING_MCP_AND_SKILLS_2026-10-25.md); its helper, a
local server, is not part of the repository. This directory holds TLA+ models
of the parts that keep state several actors share, TLC configurations that
check them on small instances, and theorems about them that TLAPS proves for
every size.

Paths below are those of the repository; the package is
`src/local_transcriber/`.

## 1. Inventory

| Component | State it keeps | Operations | Who interacts with it, and what is hard |
|---|---|---|---|
| Job queue (`repository.py`) | rows of `transcription_jobs`, `transcripts`, `recordings`, `job_events` | `add_job`, `claim_next_job`, `renew_lease`, `update_claimed_job`, `complete_transcription`, `fail_claimed_job`, `finish_claimed_cancel`, `request_job_cancel`, `retry_job`, `delete_recording` | every process that opens the database; each operation is one `BEGIN IMMEDIATE` transaction, but decides with a clock read before it waited for the lock |
| Queue worker, heartbeat (`queueing.py`, `transcription.py`) | the run in progress, the `lost` event of the heartbeat | `run_once`, `process_claimed_job`, `_renew` | a worker thread, a heartbeat thread, users; lost leases, cancellation, crashes, a busy database |
| Synchronous command (`transcription.py`) | its own job | `transcribe` | runs without worker or lease on the same table |
| Worker controller, process lock (`api.py`) | retry count, fatal error, lock file | `_run`, `stop`, `acquire`, `release` | bounded retries; the CLI worker takes no lock |
| Schema (`database.py`) | `user_version` and the tables | `initialize` | processes that start together |
| Job events (`api.py`, `web/async_state.js`) | event sequence, cursor, client state | stream, poll, reconnect, dedupe | a terminal event against the row, retry after the end |
| Media library (`media.py`) | files, staged files, rows | `import_stream`, `delete_recording` | a crash between file system and database, duplicate imports |
| Exporters (`exporters.py`) | export files and their rows | `export` | two exports of one format |
| Gateway uploads (`remote_gateway.py`) | sessions, chunks, claims, staging files | init, PATCH, finalize, delete, GC, import, recovery | crash between import and record, expiry, retries, pool limits |
| Gateway jobs and limits (`remote_gateway.py`) | idempotency claims, rate windows | `_create_job`, `acquire` | two databases, retries, eviction |
| Remote session (`remote_session.py`) | lock, metadata and sentinel files, gateway process, Serve mapping | start, stop, status | two sessions, crash before the PID is saved, PID reuse |
| ChatGPT sign-in (`chatgpt_auth.py`) | token file | exchange, refresh, logout | rotating refresh tokens used twice |
| Local web page, jobs (`web/app.js`, `web/async_state.js`, `web/api.js`) | rows of the job list, trackers with cursors, streams | load, start, cancel, retry, delete, stream events | answers in any order, broken streams, reload |
| Local web page, library (`web/app.js`) | list of recordings, search results, delete dialog | load, upload, delete, search | a load that crosses a change, answers of older searches |
| Local web page, reader (`web/app.js`) | context, summary panel, exports | open, summarise, export | answers of a transcript that is no longer open |
| Remote web page (`remote_web/app.js`) | the step of an upload | create, send, finalize, poll | lost answers, a gateway that restarts |
| Design tool, sessions (`live-browser.js`, `live-browser-session.js`) | session, cache, handled ids, timers, previews | Go, cycle, accept, discard, resume, recover | agent, hot reload, event stream and user act at any time |
| Design tool, targets, edits, chat (`live-browser.js`) | what each tab acts on; staged edits and the freeze; lock, timer and dictation | claim, renew, Go; type, save, apply, decide; steer | several tabs, lost and late events, reload |
| Summaries, clients, models, CLI, configuration | little or none | request and answer | not stateful enough to model |

What makes each part correct:

* queue: a queued job can always be claimed; a transcript exists exactly for a
  succeeded job; a lease belongs to a run; a waiting or running job keeps its
  recording; a job that waits or runs is settled in the end;
* worker: only the lease holder ends a run while the lease lasts, a late result
  is refused, a cancelled run is not published, a crashed one is recovered;
* schema: however processes start, the recorded version is that of the tables;
* uploads: bytes are imported at most once, reservations are returned exactly
  once, an acknowledged chunk is never lost before the session ends;
* gateway jobs: at most one job for an idempotency key;
* remote session: only the process and the mapping of the own session are
  touched, and nothing is left behind that no stop can find;
* media and exports: a row always has its file, and a file its row, except in
  named crash windows;
* tokens: a fresh sign-in is never erased by a stale failure, a logout lasts;
* pages: a row never goes back to an older state and ends where its job ended;
  nothing of another transcript is shown; the library is listed as it is; a design session that is over stays
  over, one that is generated is shown, and no bar, freeze or lock lasts without
  a reason.

PROJECT.json lists each hazard with its line, and the properties that cover it.

## 2. The modules

| Module | Extends | Models |
|---|---|---|
| `JobLifecycle` | | what the queue promises about each job: `_ALLOWED_TRANSITIONS`, bounded attempts, one publication, no publication of a doomed run |
| `JobQueue` | | the tables and the repository operations on them |
| `TranscriptionWorker` | `JobQueue` | workers, heartbeats, users and time over those tables |
| `SyncTranscribe` | `TranscriptionWorker` | the synchronous command beside them |
| `UploadPromise` | | what a resumable upload promises its client: one copy at most, true and final answers |
| `ResumableUpload` | | sessions, staged files, the finalization task, the collector, restarts |
| `ResumableClient` | `ResumableUpload` | the remote page that drives a session |
| `SingleUpload` | | an upload in one request: claim, import, completion, release, replay |
| `MediaLibrary` | | imports, deletions and exports over files and rows |
| `SchemaStart` | | processes that start together and migrate the database |
| `TokenStore` | | the ChatGPT tokens in their file: signing in, refreshing, logging out |
| `RemoteSession` | | `remote-session start` and `stop` over journal, lock, gateway process and Serve mapping |
| `JobPage` | | the job list of the local page and its event streams |
| `ReaderPage` | | opening, summarising and exporting a transcript |
| `LibraryPage` | | the list of the library under loads, uploads and deletions, and its search |
| `LiveSession` | | a design session: Go, generation, cycling, accept, discard, resume |
| `LiveRecovery` | | what is done about a session after it was settled |
| `LivePreview` | | compiled component previews: manifest, import, mount, retry |
| `LiveTargets` | | elements the agent asks the tabs to work on |
| `LiveEdits` | | copy edits: type, save, apply, repair |
| `LiveChat` | | the steer chat with its lock, hint, timeout and dictation |
| `MCWorker`, `MCSyncTranscribe`, `MCResumableClient`, `MCRemoteSession`, `MCJobPage`, `MCLiveSession`, `MCSchema` | one of the above | instances for TLC |
| `MCServer` | `ResumableUpload`, `SingleUpload`, `MediaLibrary`, `SchemaStart`, `TokenStore` | one instance for five independent parts |
| `MCPages` | `ReaderPage`, `LibraryPage`, `LiveTargets`, `LiveEdits`, `LivePreview`, `LiveChat` | one instance for six independent parts |
| `MCDesign` | `LiveSession`, `LiveRecovery` | a session while it lasts, or what comes after it |
| `TranscriptionWorkerProofs` | `SyncTranscribe` | theorems about the queue, its workers and the synchronous command |
| `LifecycleProofs` | `TranscriptionWorkerProofs` | the queue implements `JobLifecycle` |
| `ResumableUploadProofs` | `ResumableClient` | theorems about resumable uploads and the page that uses them |
| `RemoteSessionProofs` | `RemoteSession` | theorems about it |
| `ServerPartsProofs` | `MediaLibrary`, `SchemaStart`, `TokenStore`, `SingleUpload` | theorems about these |
| `JobPageProofs` | `JobPage` | theorems about the job list |
| `PageProofs` | `ReaderPage`, `LibraryPage`, `LiveChat`, `LiveEdits`, `LivePreview`, `LiveTargets` | theorems about parts of the two pages |
| `DesignProofs` | `LiveSession`, `LiveRecovery` | theorems about design sessions and their recovery |

In `MCServer`, `MCPages` and `MCDesign` a variable `part` says which part a
behaviour is about; the variables of the others keep their first value. The parts
share no state in the models, so this checks each of them by itself and saves
configurations.

### Queue and workers

`jobs[j]` is the row of a job: status (with `absent` before `add_job` and
`deleted` after `delete_recording`), `worker` (`worker_id`), `lease`, `attempts`
(`attempt_count`) and `cancel` (`cancel_requested_at IS NOT NULL`). `published`
holds the jobs that have a transcript, `recordings` the recordings that exist.
Jobs are numbers, and the order of the numbers is that of `created_at, id`.

A lease is kept as the time *left* of it, so that a run of the model may last
for ever with finitely many states: `Tick` takes one from every lease. The code
samples `now` before its transaction waits for the write lock, so each
operation chooses an `age` of at most `MaxAge` ticks by which its clock is late.
`lease_expires_at > now` is then `lease + age > 0`, and a lease that starts at
the sampled time has `LeaseTime - age` left. `MaxAge` stands for `busy_timeout`.

A worker is a record in `work`: `pc` names the next database access of
`process_claimed_job` (the table at the head of the module), `job` and `attempt`
the claim, `lost` the event the heartbeat sets. Between two accesses anything
may happen. `HeartbeatRenew` is the second thread. `Crash` is the end of the
process at any point. `DatabaseBusy` is `sqlite3.OperationalError`: inside the
`try` it is one more engine error, in the handlers it leaves `run_once` and the
controller calls that again. `EngineFails` covers a missing recording, file or
model and an exception of the engine. `ReadBack` is the read of
`_finish_claimed` after its commit, with the assertion that may end the thread
(`pc = "dead"`).

The synchronous command is a record in `calls`. Its `add_job` leaves a pending
job as `enqueue` does, so a worker may claim it first; `update_job_status`
starts it with neither worker nor lease, which is what recovery takes for an
expired run; it publishes without an owner.

`TranscriptionWorker!ImplementsLifecycle` is the refinement: the row of a job,
seen through `lifeOfJobs`, takes only steps of `JobLifecycle`. A claim
transaction recovers all expired jobs and claims one, so one step may move
several jobs, and a job that was running may end up running with one more
attempt.

### Resumable uploads

One element of `Session` is one upload id, made for one intention of a client.

| Model | Code |
|---|---|
| `row[u]` | the row of `remote_resumable_sessions`: `state` (with `none` before init and `forgotten` after `resumable_forget`), `offset` (in chunks), whether it has a `recording_id`, its `error_code`, `cleanup_completed_at` |
| `expired` | the sessions whose `expires_at` has passed |
| `files[u]` | `incoming/<upload_id>`: the `.part` of a PATCH, the committed chunks, the assembled media |
| `imports[u]` | how often `MediaLibrary.import_stream` committed the media of the session |
| `claim[u]`, `live[u]` | the row of `remote_jobs` under the key of the session, and the jobs of the recording that `_create_job` would use again |
| `holder[u]` | the entry of the session in `resumable_busy`: which request, task or collector holds it, and how far it is |
| `deleting` | DELETE requests that wait for the finalization task |
| `phase`, `todo` | the process, and the rows that the reconciliation at start-up has still to see |

The gateway is an asyncio program with threads for what blocks. Code that runs
on the event loop without an `await` is one step; every transaction and every
file operation behind `asyncio.to_thread` is a step of its own, and the entry
in `resumable_busy` is held across them. What a request read before it took the
entry may be stale, but each decision is taken again: by the row read under the
entry (`patch_resumable`), or by the `WHERE state = ?` of
`resumable_transition`. So a handler's step begins where it takes the entry, on
the row of that moment. `DELETE` of an assembling session moves the row without
the entry, which is why the task compares states at each transition.

Left out are bytes, hashes, identities, the disk-space preflight, and the gate
that answers 503 after a database error of the collector. `Mismatched` are the
sessions whose assembled hash differs, `Fragile` those whose staged chunks
somebody may remove. Deletion of the recording while it is queued is one of the
ways in which `QueueingFails`. Database calls inside an exception handler are
taken to succeed; the others may fail where the code handles the failure.

`Delivery` is the refinement: `imports` and what the state tells a client
implement `UploadPromise`. The client is never told "no" of media that was
stored or will be, "yes" only of media that was, and neither is revised.

`ResumableClient` puts the page in the place of the free requests: `step[u]` is
the place of `RemoteController` (create, ask, send, finalize, poll, follow the
job, stopped; or the loop that followed a job is over), and every answer may be
lost. `checks[u]` is `noJobChecks`; the page asks a completed session without a
job five times, the instance twice. `jobs` has the sessions whose recording has a
job, by the gateway or by the user of the notebook, who may delete it: the
gateway names the newest one to the page in every state of the session
(`NamesJob`), and the page follows from the first answer that names one. Hashing,
the lease between tabs and what the page shows of the job are left out.

### Remote session

| Model | Code |
|---|---|
| `cmd[c]` | an invocation of the program: the place in `start`, `_stop_state` or the foreground loop, the session it works on, why it is in `_stop_state` (a stop, a stale journal found by `start`, a rollback), `force` |
| `journal`, `tmp` | `session.json` (session and phase), and a `session.json.*.tmp` that a failed or interrupted `save_session` left |
| `gateway[s]`, `reused` | the process that `start` spawned for `s`, and the sessions whose PID has since been given to a stranger |
| `mapping` | the target of the HTTPS port in Tailscale Serve: free, a session's, another client's |
| `moved` | ghost: another client changed the mapping after the last look of a command |

Every write of the journal, spawn, signal and Serve command is a step; a read
that only decides whether to go on belongs to the step after it. Each step may
fail where the code handles a failure (`...Fails`), with its effect or without
where the effect is outside the program, and a command may be killed at any
place: the lock goes with it, the gateway lives on. Only `start` and `stop` take
the lock (`Holds`); the foreground loop does not.

All sessions use the default ports, so the target of a mapping tells "a
session's" but not which; the code compares the same. Funnel and foreign
handlers are one value, `Other`. An exited process is gone at once (on POSIX the
child of a command that still runs would be a zombie with a live PID; the
launcher is for Windows). The check of identity and the first signal, which
follow each other directly, are one step; so are `Popen` and the assignment of
its result. `status` only reads.

### Uploads in one request

| Model | Code |
|---|---|
| `claims[k]` | the row of `remote_uploads` under an `Idempotency-Key`: state, whether it was claimed `STALE_CLAIM_SECONDS` ago, its recording |
| `asked[a]` | a request: verifying, reclaiming, waiting for `upload_lock`, then body, duplicate check, `mark_importing`, import, `complete_upload`, `release_upload` |
| `present`, `by` | the recording with these bytes in the library, and who imported which |
| `answers[k]` | the recording the client was last told |
| `overtaken`, `unfinished` | history: the two exceptions of the property |

All requests upload the same bytes, since requests with different bytes do not
meet. A claim may get old at any time. A crash drops every request and keeps
both databases; the notebook's own user imports and deletes in between.

### Media library and exports

| Model | Code |
|---|---|
| `recordings`, `artifactRows` | the rows of `recordings` and `exported_artifacts` |
| `disk` | the files: the `.part` of an import, the media, the `.deleting` file of each deletion, the export |
| `importing[i]` | `import_stream`: copied, placed (after `os.replace`), over |
| `removing[d]` | `delete_recording`: found, staged (the file renamed, the transaction open), committed but not unlinked, or rolled back but not restored |
| `exporting[e]` | `export`: wanted, placed, cleaning up after a failed insert |
| `residue`, `clashed` | history: recordings at which a call was killed or restored too late; recordings two exports of one format were at |

`delete_recording` is the only call that keeps the write lock over a file
operation, so its steps until the commit exclude the other writers
(`DatabaseFree`), not the readers and not the file operations of others.

### Start of the database

`version` is `user_version`, `level` the last script whose tables and columns are
there, `starts[p]` the script that comes next for a process. `initialize` reads
the version once; each script is a transaction that sets it. The first script is
`IF NOT EXISTS` throughout and can always run again; the others add columns and
fail where these exist.

### ChatGPT tokens

| Model | Code |
|---|---|
| `onFile`, `accessExpired` | `chatgpt_tokens.json`: its refresh token, as the number of its issue, and `is_expired` of the access token |
| `tokenCalls[c]` | a call: `exchange_code` before and after the provider's answer; `get_valid_token` that has found the token expired, then `refresh_access_token` with the token it has loaded, waiting, answered or refused |
| `accepted`, `issued` | the provider: it rotates a refresh token, or renews the access without a new one, and refuses what it no longer accepts |
| `wanted`, `excused` | history: the user's last word, and the exceptions of the property since then |

Load, save and clear are single steps, as `save` replaces the file at once. The
calls run in threads of the API and in the command line, without a lock: the file
may change between any two steps of a refresh. Every call may break off, by a lost
answer, a failed save or a killed process.

### Job list

A job is the sequence of the states it has had at the server; its n-th event was
committed with its n-th state. The page's row of it is what it shows and the
cursor it claims. Requests (the list, a start, a cancellation, a retry, the row
after a terminal event, the transcripts) are sent, served and answered in any
order, as `api.js` gives no order; `stream_job_events` looks at events and row in
two reads, and stops when it has seen the end; a stream may break and begins
again at the cursor of the tracker. `JobFairness`: what was asked is served and
delivered, and a stream that is up goes on. The user owes nothing.

### Reader

`opens` is the generation of `readerRequest`, `context` what is open, `panel` the
summary's panel, `asks` the requests under way with the generation they were made
in. An aborted request is one whose answer finds that it was superseded.

### Library

`library[r]` is what the database has of a recording, `listed[r]` how often
`state.recordings` has it (a load and the answer of an upload may both bring it),
`reads` the calls of `loadAll` under way and what the server told them,
`changing[r]` the upload or deletion this page has under way, before or after the
server did it. `newestLoad` and `newestSearch` are the generations of
`loadRequest` and `searchRequest`; `ready` is the button that uploads, which every
rendering of the subjects enables. `crossed` and `stale` are history: what the
property excuses. The page deletes no recording whose upload it still waits for.

### Design sessions

`LiveSession` has the state of one tab as a record `page` (state of the bar,
current session, variants arrived and shown, pending accept or discard, the
observer, the scout of a start, the stream), the cache in `localStorage`
(`stored`, `handled`), requests, events and reads of the source in flight, and
what the helper and the document hold. A session replaces the picked element, or
inserts beside it (`Inserts`): the scaffold of an insert has no original to put its
wrapper in place of, so a read of the source cannot place it (`Placeable`). What a
handler does up to its next await
or timer is one step; the helper, the agent, the source file and hot reload are
external. `LiveRecovery` is about the time after: timers and watchers that make
the document right, by hand or by a reload. `LivePreview` is about component
previews: each injection, import and mount is a call of its own that continues,
after its await, with what is current then.

`LiveTargets` has the tabs of a page and the helper's lease for each request;
`LiveEdits` the editor, the dock with the staged edits, and the freeze while the
agent works; `LiveChat` the lock of the chat, its timer, the hint that a message
waits, and the dictation. There the state of the page is changed by the flow of a
session, which stops the voice (`Moves`), by a restore at any moment (`Restores`)
and by dismissing the card of a failed mount (`PutsCardAway`), which do not. The
header of each module names what it leaves out.

## 3. What the runs check

| Run | Instance | Question |
|---|---|---|
| `worker_safety` | 2 jobs of one recording, 2 workers, 2 attempts, lease 1, clock late by up to 1 | tables consistent (`RowsAgree`), leases respected, publication fenced, lifecycle implemented |
| `sync_safety` | 1 job of 3 attempts, 2 workers, 1 caller, lease 2, clock late by up to 1 | the same beside the synchronous command |
| `worker_live` | 2 jobs, 1 worker, lease 2, no deletion | every waiting or running job is settled |
| `server_parts` | 2 resumable sessions of 2 chunks, one damaged and mismatched, 1 active session, 2 places in the pool; 2 keys, 2 requests, 2 imports of the bytes; 2 imports, 2 deletions, 1 export at a time; 2 starting processes, 4 scripts; 2 calls, 4 issues of tokens | promises kept, acknowledged chunks staged, cleaned sessions empty, one job and no silent import (`ImportsAreSettled`), limit respected; uploads owned; files agree with rows; version recorded; a sign-in stands (`SignInStands`) |
| `client_safety` | 1 session of 2 chunks and its page | a followed job is of an upload in the library, once, whose claim is settled or can be (`TrackingIsJustified`); polling ends, or a finalize resumes it; an accepted finalize is decided; staging is released and no entry is held for ever |
| `client_polls` | the same | expected violation: the page polls for ever |
| `session_safety` | 2 commands, 2 sessions, any failure and crash | whatever exists is in the journal; strangers' processes and mappings are spared; repeated stops recover |
| `job_page` | 1 job of up to 4 states, the last an end; 1 request and 1 fault beside the streams | rows never go back; a job that is over is shown as over |
| `live_safety` | 2 sessions of 2 variants, one an insert on a JSX target, 1 fault; 2 settled sessions, 2 configurations, 1 untimely refresh | a reload finds the current session and never a settled one; cycling has something to show; only what is over is written off; recovery spares new work, ends, and does not give up |
| `live_shown` | one Go, of an element (2 faults) or an insert (1 fault), 2 variants, 1 retry of a read | a finished generation is shown, or its absence explained |
| `page_parts` | 2 transcripts, 3 opens, 2 summaries or exports; 2 recordings, 1 query, 2 loads or searches together; 2 tabs, 2 targets; 1 edited row, 1 trouble; 1 draft of 2 variants, 2 wrappers, 1 mishap; 2 steers | nothing foreign is shown, buttons come back; the library is listed as it is and no cleared search is shown (`LibraryIsShown`); tabs agree on targets; nothing typed is lost, a freeze has a reason; waiting has a reason; the chat agrees with itself |
| `schema_start` | 2 processes, 4 scripts | expected violation: the version is behind the schema |

Why the bounds are enough. Two workers are needed for one to take what another
lost, and the theorems of section 5 cover any number. Two jobs are needed for a
claim that recovers one job and takes another. Two attempts let a job be
recovered once and exhausted the second time, three let a job be retried in
between. A lease of one tick with a clock late by one tick already allows a
lease that is born expired, a recovery with a clock older than the lease, and a
renewal that shortens it. Workers are interchangeable (symmetry) in the safety
runs; the liveness run uses none.

For uploads, sessions meet only in the limits, the semaphore of the task, the
single collector and the statement of `init_resumable` that expires all overdue
rows; two sessions and an active limit of one make each of these bind, since a
session that is cleaned up or queued no longer counts as active. Two chunks
distinguish the first, the last and a missing chunk. Crashes, restarts and
expiry are unbounded in number. Two requests of one key, or of two keys with the
same bytes, are what an old claim and a duplicate need; the second import of the
bytes is one after a deletion. Two deletions are needed for one to restore what
the other looked for; a second export at the same time is left to the theorem of `ServerPartsProofs`, while
one after the other happens in the run. Two calls meet in every way in which the
token file can be read before and written after another call; four tokens are a
sign-in, two rotations, and one that comes after an exception. Failures, kills and crashes of these
parts are unbounded.

For the pages, the bounds count what nobody can bound (faults, untimely
refreshes, requests under way) and leave free what a handler does about them. One
job is enough, as rows of different jobs share only the list they come in. A
fault may be a lost stream, a failed request or a reload; one of them, at any
moment, already reaches each fallback of the page, and `live_shown` has two for
the element that is replaced. `live_shown` is about one Go: with a second session, a
late read of the first takes away the wait for the element of the second, as there
is one such wait for all (live-browser.js:5302). Two sessions in `live_safety` let something of the first arrive while the second is current. At the
reader, opening and starting share a bound of four, and the theorem holds for all.
Two variants are needed for a remembered one to be more than those that have
arrived; two loads for a late one. Where a theorem of section 5 holds for any
number of sessions, variants, loads or rows, the run's bounds matter only for the
discovery of counterexamples and for the mutants. `WaitingHasAReason` speaks of a
page that has begun one session, so one draft is all it needs (section 4).

Fairness of `worker_live`. `WF(WorkerStep(w))`: a worker thread that can step
does so, which a running process and a database lock that is released justify.
`SF(EngineDone(w))`: the engine reports a finite recording and gets to its end
if it is given the chance again and again; progress events alone do not keep it
from ending. `WF(TimePasses)`. No fairness is assumed of users, failures or
heartbeats. The result rests on the controller loop going on: after its bounded
retries it ends, and then nothing is settled until a restart. Deletion is left
out of this run because a dead worker thread (the observation in section 4) would stop it.

Fairness of the upload runs. A thread or task that holds an entry runs on (`WF`
of its next step); a PATCH body ends, because `_receive_resumable_chunk` bounds
it in time; the day passes. `SF(TaskEnters(u))`: the semaphore serves tasks in
order. `SF(Collect(u))`: the collector looks at every session in every cycle and
finds it free if it is free again and again. `SF(PurgeAll(u))`: removing the
files succeeds in the end. Requests are under no fairness in `FairSpec`, since a
client owes nothing; `ClientSpec` adds that the open page asks and gets its
answers. The results are about a process that stays up (`StaysUp`), which is not
assumed of it. With two sessions the single collector could be kept from one of
them by a client that replays a failing finalize exactly whenever it comes
round; `client_safety` therefore has one.

For the remote session, two commands are what the lock and the unlocked
foreground loop need, two sessions let one follow the other. The theorems hold
for any number of both. Fairness of `session_safety`: a command that holds the
lock runs on (`WF` of its own steps, failures of a stop not counted), as each of
its waits has a deadline; a foreground command
is ended in the end (`WF(WatchEnds)`), and the user repeats `stop --force`
(`SF`), which is what the documentation asks of him. `CompleteIsRecovered` is
about the case that the cause is resolved, as the documentation has it: from
some time on stops do not fail and are not killed, no other client keeps the
port, and no stranger has the PID. It says nothing of a journal that is still
"prepared" (a crash before the PID was saved), which the code leaves to the user.

Fairness of the pages. In `job_page` the server serves what was asked and the
browser delivers it; a stream that is up goes on. In `live_shown` the browser
delivers events, opens a broken stream again (`EventSource` does), sends what was
posted, and reads of the source get on. User, agent and hot reload owe nothing:
`GenerationIsShown` excuses a page that has told the user what is wrong, whose
stream is closed, or that waits for its element to come back (`Explained`). Of an
insert it says only that the wrapper, once it is in the page, is shown, unless the
page already counts all its variants as arrived (section 4, `InsertIsShown`).

Deadlock is checked in the runs of queue, uploads' client and remote session and
cannot occur there, as time, or another client of Serve, can always go on. It is
not checked in `server_parts`, `job_page`, `live_safety`, `live_shown`,
`page_parts` and `schema_start`: calls, users and agents whose number is bounded
stop in the end. The expected violations stop at their first counterexample.

## 4. Findings

* `schema_start`. docs/PHASE_02_MEDIA_LIBRARY.md says that migrations write
  `user_version` only when they are complete and are idempotent once it is
  registered. `initialize` reads the version before any transaction. When the
  API, the gateway or a command start together on an empty database, one that
  read 0 may run the first script after another one has finished all of them.
  That script is `IF NOT EXISTS` and sets `user_version` back to 1. The next
  script then fails with "duplicate column name"; the version stays behind the
  schema, and every later start fails in the same way. `SchemaIsRecorded` shows
  that a database which was there before keeps its version, and that the version
  never claims more than there is.
* `client_polls`. docs/PHASE_08J_STAGE4_REMOTE_WEB_PLAN.md has the page poll
  `assembling` and `importing` until the session is completed. When the queueing
  failed after the import, or a restart came between, the session stays
  `importing` (`queue_unavailable`, `completion_pending`) until another finalize;
  the page sends none from there and looks at no such `error_code`: it polls for
  ever. `client_safety` shows that this is the only such case.

### Observations

What follows was met while modelling and is not the subject of a run. Where a
property is named, its module states it, and the code does not keep it.

Queue, uploads and remote session:

* `OnlyLeaseOwnerFinishes` (`SyncTranscribe`). README.md:109 says that only the
  owner of the valid lease may persist progress or publish. `transcribe` sets its
  job running without a lease; a worker's claim recovers it as expired and leases
  it; the command then publishes (or fails) the job over that lease. No second
  transcript results: `sync_safety` shows that the tables stay consistent.
* `NoSilentWorkerDeath` (`TranscriptionWorker`). README.md says that permanent
  failures end the controller with a recorded error. After `_finish_claimed` has
  committed, a user may delete the recording before the row is read back; the
  assertion then leaves `run_once`, and `_WorkerController._run` handles only
  `sqlite3.OperationalError`, so the thread ends with no error recorded.
* `GoneIsOver` (`ResumableClient`). docs/REMOTE_ACCESS_NEXT_IMPLEMENTATIONS.md has
  410 for a session that is over. `owned_session` answers 410 for an overdue
  session whose entry is held, without moving the row; the task that holds it may
  have passed its own check of the time, and imports.
* The page follows a job that it may not be able to see. `session_payload` names
  the newest job of the recording in every state of the session, also one that
  `complete_job` has not yet given to the user or that the user of the notebook
  queued; `state` stores it and `resume` follows it from then on. `/jobs/{id}`
  answers 404 for such a job, the loop ends with an error, and a retry follows the
  same job again. The session is then never asked for again, so an import that
  waits for a finalize (`client_polls`) waits for another client.
* `ForegroundStopsItsOwn` (`RemoteSession`). A foreground `start` ends with
  `stop`, which takes whatever journal it finds. If its own session was stopped
  by another command and a new one started before the next poll, or while a
  stranger has the old PID, it ends the new session.
* The documentation of `remote_session.py` says that no process is terminated by
  its PID alone; the second signal of a forced stop, five seconds after the
  check, is (`OnlyForceHitsStrangers` names this exception). When a stop has
  disabled the mapping but cannot end the gateway, the journal stays "active".
* A claim of a single upload that is older than `STALE_CLAIM_SECONDS` is taken
  again while its first request may still wait for the lock. When that request
  fails it deletes the claim of the second, whose import then answers 409 and is
  owned by nobody (`overtaken`). After a crash between import and completion the
  retry is answered 409 for ever, as docs/KNOWN_ISSUES.md says (`unfinished`).

Library:

* `cli export` does not look for an artifact first. Exporting a format a second
  time replaces the file, the insert fails, and the cleanup removes the file
  while the row of the first export stays; two exports through the API at once
  likewise (`clashed`). Deleting a recording leaves its exports on disk.
* A deletion that failed puts the file back after its rollback. If another
  deletion of the recording looked for the file in between, the file stays
  without a row (part of `residue`).
* Of two refreshes with one rotating token the loser's 400 or 401 clears the
  tokens that the winner has saved; a refresh under way undoes a logout, or
  replaces the tokens of a new sign-in. A logout is answered "logged_out" although
  `clear` only warns when it cannot remove the file (all `excused` in
  `TokenStore`).

Job list and reader:

* The button that reloads the jobs takes the list without asking whether it is
  the newest, so a stale answer shows a finished job as running for ever
  (`Behind` excuses it). A confirmation of several jobs carries their earlier
  states; a failed second request of a load leaves rows without streams; a load
  of which only the jobs failed empties the list.
* The error of a superseded summary is shown on the panel of the transcript that
  is open now, and stops its timer; a failed opening leaves buttons disabled; a
  late `loadSummary` enables the button during a generation; of two exports at
  once the older listing may win.
* A load of the library that crosses an upload or a deletion may show a recording
  twice, one that is gone, or leave the new one out, until the next load. An
  upload during a search leaves "N resultado(s) para ..." above the whole library.
  The answer to a deletion closes whatever confirmation is open by then. Rendering
  the subjects enables the button of an upload that is under way.

Design sessions (`LiveSession`, `LiveRecovery`, `LivePreview`):

* After a broken stream, with the JSX target unmounted, the page waits for ever
  beside variants that are mounted. A `connected` during the capture of an
  annotated Go sends a checkpoint before the generate request; the helper does
  not know the session, and the page clears it. A generate request that fails is
  dropped silently. An unrelated `error` sets PICKING and keeps the session.
  The answers to accept and discard mark whatever session is current.
* The window that `OnlyOverIsWrittenOff` excuses as unknown to the helper is that
  one: the comment at live-browser.js:8855 has the generate request go out before
  any checkpoint, but a reconnect during the capture of the annotations restores
  the session from the cache, and its checkpoint overtakes the request.
* `WaitingHasAReason` is about a page that has begun one session. With two it
  fails: when the read of the first session's manifest ends after the second one
  is mounted, the page turns back to the first; the second's outstanding mounts
  then put up and take away the one card there is, and a page that generates the
  first session is left with neither card nor retry.
* `clampVariantIndex` (live-browser.js:9625, 9711) is part of every rendering of
  the variants; with it left out, a page that remembers its second variant and
  comes back to one would cycle and show nothing (`CyclingShowsSomething`).
* `InsertIsShown`. The comments of `injectVariantsFromSource` have variants appear
  without any hot reload, and a target that is missing end in a wait or a message
  (live-browser.js:6470). For an insert whose wrapper is not in the page the read
  of the source returns without a word (live-browser.js:6568): a finished insert is
  neither shown nor explained until hot reload brings it. If a restore had brought the
  full count of the variants along, even then it is not, since the observer sees
  no more variants than it has counted.
* `ProgressFollowsRequest` and `MountedIsShown` state the stronger forms of two
  comments that these cases break.
* A recovery that is superseded by new work is dropped, and a stale tree may stay
  in the document; the cleanup timers of a torn-down script go on.
* A framework that removes the wrapper of a mounted preview leaves the page
  generating (the third case of `WaitingHasAReason`). `inject` sets the current
  session after its awaits: a read under way when the session is settled may take
  over a new session or bring back the settled one. A discard during a second
  mount shows "failed to load", whose Retry brings the session back. Of two
  mounts the slower, older choice may end up shown. A `done` of another session
  flips a waiting page with all its variants to cycling.

Targets, edits and chat:

* `TargetsKeepApart`. A renewal under way replaces the session of another target
  when the stream was replaced during the claim; a user's own Go may be
  overwritten by it. A tab whose acting ended with a refused renewal does not
  vote or try again until its state changes.
* `DecisionCanBeMade`, `EditsCanBeApplied`. The buttons of a repair decision are
  gone after a reload or another saved edit, while the page stays frozen; a lost
  `commit_done`, or a failed commit before a reload, keeps it frozen as well.
  After a rollback the button that applies stays disabled. The answer to Save
  drops what was typed after it.
* `DictationEndsInTime`. A dictation into the prompt of a configuration is stopped by
  the ways out of it that hide the bar or go on to a generation. A restore on
  connecting (live-browser.js:9717), by the scout (live-browser.js:10154, 10198), or
  by a read of the source (live-browser.js:6457, 7172, 5328) takes the page out of it
  and leaves the voice on, and so does dismissing the card of a failed mount
  after that (live-browser.js:6189); a later configuration may then hear it.
* When the request of a steer fails late, it unlocks the chat whatever it waits
  for by then, and puts the older text back; an `error` for another message hides
  the bar.

## 5. What is proved

`TranscriptionWorkerProofs` proves, for every set of jobs, workers and
recordings, every lease time, clock error and attempt limit (assumptions:
`JobAssumption`, `RecordingAssumption`, `AttemptsAssumption`,
`LeaseAssumption`, `NullAssumption`, `NoJobAssumption`):

* `QueueInvariant`: `Spec => []IInv`, from which `TypeCorrect`,
  `RowsStayConsistent` with its parts `QueuedStayClaimable`, `LeasesMatch` and
  `ActiveKeepRecording`, `TranscriptsMatch` and `RunsMatchClaims` follow;
* `PublicationIsFenced`: a worker publishes only the attempt it claimed;
* `LeaseHolderAlone`: while a lease is unexpired only its holder ends the run.

The inductive invariant `IInv` has three parts. `TypeOK` says among other things
that a worker between two steps has a job. `QueueConsistent` strengthens the
table invariants of the runs by two facts: rows not yet added are fresh, which
`add_job` needs to leave a claimable row; and every row, not only an active one,
has its recording, which `retry_job` needs because it makes a settled row active
without looking at the recording. `ClaimsAgree` ties rows to runs.

The argument goes by the kind of write. `RowWriteKeeps` says what one rewritten
row must satisfy; the owner's writes (`OwnedWrite`) and the users' operations
are instances of it. A claim is recovery of all expired rows
(`RecoveredConsistent`) followed by one write, to a row that `OldestIsReady`
shows to be ready; the existence of an oldest job uses the well-foundedness of
the natural numbers. The two action properties follow from `OwnerActs`: a step
that publishes a job or takes it out of `running` is the owner's own step or
the recovery of an expired lease. An unexpired lease cannot look expired to a
late clock, since lateness only adds to what is left of it.

The same module proves, for any number of callers, `SyncInvariant` and from it
`TablesAgreeBesideCalls`, `ClaimsAgreeBesideCalls` and `LeasesAreRespected`: `IInv`
holds beside synchronous calls as well, and a call under way has a job. A call
writes its row with neither worker nor lease (`CallKeepsTables`), so it puts
nobody's name on it and takes no claim over; what it can take away is the row
that a worker believes in, and then that worker's next write finds no owner.

`RemoteSessionProofs` proves, for every set of commands and sessions
(assumptions: `SessionAssumption`, `MappingAssumption`):

* `SessionInvariant`: `Spec => []IInv`, from which `SessionTypeCorrect` and
  `EverythingIsInTheJournal` follow;
* `OtherMappingsAreSpared` and `StrangersAreSpared`, the two action properties.

`IInv` adds to the types that at most one command holds the lock, and what each
place of a command owes to the journal (`PlaceOK`): a start that has not written
yet finds no journal, nothing running and no mapping of a session; one that has,
and every stop, finds its own session there, in a phase that fits; from `end` on
no mapping is left, at `clear` no process. Without it `NothingIsLeftBehind` is
not inductive: `Clear` may remove the journal only because of what the places
before it established. Since only one command holds the lock, a step of one
leaves the facts about the others alone; the world's steps touch processes and
other clients' mappings only.

`LifecycleProofs` proves `LifeIsAsPromised`: the queue implements
`JobLifecycle`, under the same assumptions. Its invariant `LInv` is `IInv` and
`CancelIsSeen`: a worker on its way to record a cancellation still finds the flag
on the row, if it owns the row; without it a cancelled run could appear to be
abandoned. Each operation is shown to move each job by at most one step of the
lifecycle (`Moves`) and to keep what its run has (`RunKept`); a claim that
recovers and starts one and the same job is the one step that is two.

`ResumableUploadProofs` proves, for every set of sessions and every limit
(assumptions: `SessionAssumption`, `LimitAssumption`), `UploadInvariant`, and from
it `UploadsAreTyped`, `StagingStaysTrue`, `ImportsStaySettled` (by
`QueuedOnceOnly` and `PollsAreAnswered`), `LimitHolds`, and `DeliveryHolds`, the
refinement of `UploadPromise`. The invariant is a conjunction over sessions of `RowOK` (row, files, claim), `PlaceOK`
(what each place of a holder may rely on) and `PhaseOK` (what is left to do after
a start), all of which only one session's variables can disturb: so a step of one
session is treated once (`Good(u)`), and the steps that touch all rows, the sweep
of overdue ones and a restart, apart.

The pages as clients of that gateway are in the same module (`ClientInvariant`,
`TrackingStaysJustified`): every step of the composition is one of the gateway's
or leaves it alone (`PagesUseTheGateway`), so `IInv` carries over, and a page that
follows a job does so because it was told of one: the import is recorded, which no
later step takes back (`ImportsStay`), and the session neither ends nor is
forgotten over an open claim (`SettledClaimsStay`). The session need not be
completed when the page begins to follow; it uses that every session of the page
queues its recording (`PageAssumption`: api.js:78 sends `enqueue: true`).

`PageProofs` has the parts of `MCPages` that share no state, each with an invariant
of its own.

* Reader (`ReaderAssumption`). `ReaderShowsItsOwn`, for every set of transcripts:
  answers carry the generation they were asked in, generations only grow, and a
  panel that shows something has the transcript of the current one.
  `ReaderButtonsComeBack` adds that an opening of the current generation that has
  its transcript is the one that reads (`ReadIsOpened`), so that whoever disabled
  a button is still under way.
* Library (`LibraryPageAssumption`). `LibraryStaysShown`, for any number of
  recordings, loads and searches: the answer of the newest load tells the truth
  unless a change crossed it (`NewestIsTrue`), each row stands to its recording
  as the place of its change says (`RowIsTrue`), and after the search whose results
  are shown only searches were submitted (`SearchIInv`).
* Chat (`ChatAssumption`). `ChatStaysTrue`, for any number of messages and whatever
  moves the page from one state to another: every function that changes the lock,
  the polling or the state of the page ends with the same synchronisation, and a
  chat is locked and the voice released in one step.
* Edits (`EditAssumption`). `EditInvariant`, and from it `EditsAreRestored` and
  `FreezesAreGrounded`. The freeze is about what will happen, which an invariant
  has to turn into what is there: while the helper applies nothing and the page
  has missed nothing (`AtRest`), the feed has an event that thaws the page and only
  neutral ones after it; or it has only neutral ones, and the page is composed or a
  commit or keep request is out whose answer thaws it (`FreezeInv`, `Awaits`).
* Previews (`PreviewAssumption`). `WaitsAreExplained`, for any number of variants,
  calls, wrappers, messages and mishaps, and a page that has begun one session.
  `PreviewIInv` is typed for any number of sessions, in terms of those that were
  begun, so that with one of them everything there is must be about it. Of that one
  it says, besides the reason itself (`HasReason`: a card, a wait, a wrapper that is
  gone, a call that will leave one of these, or a cache that the next connection
  restores), what each handler needs in order to leave such a reason: whatever is
  under way has a current session and a preview file (`IsKnown`) and a manifest
  (`IsPublished`); a mount has something to cycle through (`HasArrived`); there is
  one wrapper and it is svelteComponentSession's (`HasOneBox`); and one in a page
  that does not cycle yet is being filled by a first mount (`IsFilled`).

* Targets (`TargetAssumption`). `TabsStayApart`, for any number of tabs, requests,
  lapses and reloads. `TargetIInv` says that an answered request stays answered
  (`AnsweredOnce`), and that a tab with a session for a request gave the answer, or
  its Go or the word that it was too late is still under way (`KeptOrTold`): the one
  is what makes the other last. The handlers that begin no session answer nothing
  and take nothing back that is under way (`Gentle`), so they are treated at once.

`JobPageProofs` proves `RowsStayForward` for any number of jobs, of states, of
requests in flight and of faults (assumption: `JobAssumption`). Rows, trackers,
streams and answers are of a history that only grows (`MoreIsKnown`), so whatever
is on its way stays true of it however late it comes. `Tracked` is the point: unless
"refresh" is at work, no row is ahead of its tracker, which decides what is taken;
the rows of "refresh" are taken without asking it, and the excuse of the property
lasts until `connectActiveJobs` has made every tracker past its row again
(`ConnectedType`).

`DesignProofs` proves the safety of `LiveSession` for any number of sessions,
variants and retries (`SessionAssumption`, `VariantAssumption`) and of
`LiveRecovery` (`RecoveryAssumption`).

* `SessionInvariant`, from which `CacheStaysInStep` and `TheBarIsNeverEmpty` follow.
  `SessionIInv` has what holds while a session is current (`WorkInv`) and while
  none is (`RestInv`); each handler is cut into the functions it calls, and one
  lemma says what each of them owes.
* `LiveWorkIsKept`: only what is over is written off. `EndsInv` adds that a
  message telling the end of a session is true and stays true on its way
  (`EventsInv`), and that a request to generate is one of a session the helper
  does not know, and the only one (`GoingInv`); without the second a session that
  has ended could begin again behind the message.
* `RecoveryInvariant`, `RecoveryComesToAnEnd`, `ReplacementsAreSpared`. `RecIInv` says
  that timers are no newer than the page and older than a configuration, that
  every reload but the first is stamped, that the timer a settlement set itself
  means nothing has reloaded yet, and that what is hidden is guarded. The bound on
  reloads follows from the stamps, not from a counter of the model.

`SingleUploadsAreOwned` in `ServerPartsProofs` holds for every set of keys and of
requests and any number of imports (assumption: `KeyAssumption`). `UploadInv` adds
three facts that relate a request to what others do meanwhile: while a request
that imported a recording has not completed it, only the notebook's user can have
imported it again (`CompletesItsOwn`); unless the claim of a key got old under a
request, that request is the only one that works on it and finds it there
(`ClaimsAreHeld`); and what was confirmed is what the claim says, whether the
recording still exists or not (`CompletedClaims`).

`ServerPartsProofs` proves `LibraryFilesAgree` for any number of imports, deletions
and exports at a time (assumption: `LibraryAssumption`). Its invariant adds that a
recording's import is over before anybody can delete it, that what an import has
placed stays until it goes on, and that an export whose recording met no other
export is alone at it and finds its file (`ExportsAlone`); the steps of imports
and deletions keep the last by leaving the files of exports alone, and the steps
of exports keep the first two by leaving media alone. `SchemaStaysRecorded`, in
the same module, holds for any number of processes and scripts (assumption:
`NewestAssumption`): on a database that was there, no process ever runs the first
script, which is the only one that can be run twice.

`SignInsStand`, there as well, holds for any number of calls and tokens
(assumption: `TokensAssumption`). Its invariant adds `OneRefreshes`: unless the
history excuses it, one refresh at most is under way, and the token it has loaded
is the one on file; without it a second answer could undo the first.

Model-checked only: liveness, which is outside the prover's reach (`JobsSettle`,
`PollingEndsOrIsResumable`, `AcceptedIsDecided`, `SessionsLetGo`,
`CompleteIsRecovered`, `GenerationIsShown`, `FinishedIsShown`). Every invariant and
every action property of a passing run is a theorem.

## 6. Plan

Done: the queue with its workers and the synchronous command; resumable and
single uploads with the remote page; the library's files and rows; the start of
the database; the ChatGPT tokens; the remote session; the job list, the reader
and the library of the local page; the sessions, recovery, previews, targets,
edits and chat of the design tool.

Left, in this order: the controller of the worker thread with its bounded retries and the process lock; the
client id that a sign-in issues.

## 7. Not modelled

* Worker controller and process lock: `run_once` is assumed to be called again;
  after its bounded retries the controller ends, and nothing is settled until a
  restart.
* ChatGPT sign-in: the client id, the checks of the ID token, and the sign-ins
  that wait for the browser; a provider that grants no refresh token.
* Gateway boundary: identity, CSRF and MAC checks are functions of one request;
  the rate limiter counts within one step of the event loop.
* Local HTTP API: handlers that read or delegate; the state is in the parts
  above.
* Catalogue, search and settings on the server: single statements.
* Summaries and language model clients, model manager, speech engine: calls that
  answer the request that made them; no state is shared but the summary's row.
* CLI, configuration and paths: arguments and dispatch.
* Formatting and validation (exports, payloads, records), rendering and layout.
* Of the design tool: drawing, styles, parameters of variants, annotations, the
  insert picker, and the ignore lists; they keep no state that actors share.
