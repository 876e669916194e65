--------------------------- MODULE RemoteSession ---------------------------
(***************************************************************************)
(* The remote session manager (remote_session.py): `remote-session start`  *)
(* and `stop` as processes that share a journal (session.json), a file     *)
(* lock, the gateway process that a start spawns, and the configuration of *)
(* Tailscale Serve, which other clients change as they like.               *)
(*                                                                         *)
(* cmd[c] is one invocation of the program: where it is, the session it    *)
(* works on, why it is in _stop_state, and whether it may force.  Reads    *)
(* that only decide whether to go on are part of the step that follows     *)
(* them; each write, spawn, signal and Serve command is a step.  Any step  *)
(* may fail where the code handles it, Ctrl+C included, and a process may  *)
(* be killed at any place.                                                 *)
(*                                                                         *)
(* Abstracted: ports (every session has the default ones, so the targets   *)
(* of its mappings look the same), the contents of the journal beyond      *)
(* session and phase, Funnel and foreign schemas ("other").  An exited     *)
(* process is gone, and its PID may be given to a stranger.  The identity  *)
(* check and the signal that follows it at once are one step.              *)
(***************************************************************************)
EXTENDS Naturals, FiniteSets

CONSTANTS Command,    \* invocations of the program
          Session,    \* session ids
          NoSession,
          Free, Other \* a Serve port that is not mapped, or not by a session

ASSUME SessionAssumption == NoSession \notin Session
ASSUME MappingAssumption == Free \notin Session /\ Other \notin Session /\ Free # Other

VARIABLES journal,   \* session.json
          tmp,       \* a session.json.*.tmp is left over
          gateway,   \* the gateway process of each session
          reused,    \* the sessions whose PID now belongs to a stranger
          mapping,   \* what the HTTPS port is mapped to
          moved,     \* another client changed it since a command last looked
          cmd

vars == <<journal, tmp, gateway, reused, mapping, moved, cmd>>
world == <<gateway, reused, mapping, moved>>

NoJournal == [session |-> NoSession, phase |-> "none"]
Journal   == [session : Session, phase : {"prepared", "gateway", "activating", "active"}]

Place == {"idle", "preflight", "prepare", "spawn", "record", "wait", "enable", "verify",
          "watch", "kill", "look", "disable", "confirm", "end", "await", "force", "clear"}
Reason == {"none", "stop", "restart", "rollback"}

Idle == [at |-> "idle", session |-> NoSession, why |-> "none", force |-> FALSE]

SessionTypeOK ==
    /\ journal \in Journal \cup {NoJournal}
    /\ tmp \in BOOLEAN
    /\ gateway \in [Session -> {"none", "running", "ready", "gone"}]
    /\ reused \subseteq Session
    /\ mapping \in Session \cup {Free, Other}
    /\ moved \in BOOLEAN
    /\ cmd \in [Command -> [at : Place, session : Session \cup {NoSession},
                            why : Reason, force : BOOLEAN]]

Init == /\ journal = NoJournal /\ tmp = FALSE
        /\ gateway = [s \in Session |-> "none"] /\ reused = {}
        /\ mapping = Free /\ moved = FALSE
        /\ cmd = [c \in Command |-> Idle]

-----------------------------------------------------------------------------
(* Helpers.                                                                *)

Holds(c) == cmd[c].at \notin {"idle", "watch"}
LockIsFree == \A c \in Command : ~Holds(c)

Go(c, at) == cmd' = [cmd EXCEPT ![c].at = at]
Exit(c)   == cmd' = [cmd EXCEPT ![c] = Idle]
Enter(c, s, at, why, force) ==
    cmd' = [cmd EXCEPT ![c] = [at |-> at, session |-> s, why |-> why, force |-> force]]

Running(s) == gateway[s] \in {"running", "ready"}

\* is_pid_alive: somebody has the PID
Alive(s) == Running(s) \/ s \in reused

\* a complete journal has the PID and the creation time of its process
Complete == journal.phase \in {"gateway", "activating", "active"}

\* load_session raises: temporary files without a journal
Undecidable == journal = NoJournal /\ tmp

Writes(phase) == journal' = [session |-> journal.session, phase |-> phase]

\* a write that fails, or that a crash cuts off, may leave its temporary file
MayLeaveTmp == tmp' \in {tmp, TRUE}

-----------------------------------------------------------------------------
(* The world: gateways, strangers' processes, other Tailscale clients.     *)

GatewayReady(s) ==
    /\ gateway[s] = "running"
    /\ gateway' = [gateway EXCEPT ![s] = "ready"]
    /\ UNCHANGED <<journal, tmp, reused, mapping, moved, cmd>>

GatewayExits(s) ==
    /\ Running(s)
    /\ gateway' = [gateway EXCEPT ![s] = "gone"]
    /\ UNCHANGED <<journal, tmp, reused, mapping, moved, cmd>>

PidReused(s) ==
    /\ gateway[s] = "gone" /\ s \notin reused
    /\ reused' = reused \cup {s}
    /\ UNCHANGED <<journal, tmp, gateway, mapping, moved, cmd>>

StrangerExits(s) ==
    /\ s \in reused
    /\ reused' = reused \ {s}
    /\ UNCHANGED <<journal, tmp, gateway, mapping, moved, cmd>>

OtherClient ==
    /\ mapping' \in {Free, Other} \ {mapping}
    /\ moved' = TRUE
    /\ UNCHANGED <<journal, tmp, gateway, reused, cmd>>

World == OtherClient \/ \E s \in Session :
            GatewayReady(s) \/ GatewayExits(s) \/ PidReused(s) \/ StrangerExits(s)

-----------------------------------------------------------------------------
(* start, up to the journal of the intention.                              *)

\* A stale journal is reconciled first; a live or an incomplete one refuses.
StartBegins(c) ==
    /\ cmd[c].at = "idle" /\ LockIsFree /\ ~Undecidable
    /\ IF journal = NoJournal
       THEN Enter(c, NoSession, "preflight", "none", FALSE)
       ELSE /\ Complete /\ ~Alive(journal.session)
            /\ Enter(c, journal.session, "look", "restart", FALSE)
    /\ UNCHANGED <<journal, tmp, world>>

\* the HTTPS port is free, nobody listens on the gateway port
Preflight(c) ==
    /\ cmd[c].at = "preflight"
    /\ mapping = Free /\ \A s \in Session : gateway[s] # "ready"
    /\ \E s \in Session : gateway[s] = "none" /\ Enter(c, s, "prepare", "none", FALSE)
    /\ moved' = FALSE
    /\ UNCHANGED <<journal, tmp, gateway, reused, mapping>>

PreflightFails(c) ==
    /\ cmd[c].at = "preflight"
    /\ Exit(c)
    /\ UNCHANGED <<journal, tmp, world>>

Prepare(c) ==
    /\ cmd[c].at = "prepare"
    /\ journal' = [session |-> cmd[c].session, phase |-> "prepared"]
    /\ Go(c, "spawn")
    /\ UNCHANGED <<tmp, world>>

PrepareFails(c) ==
    /\ cmd[c].at = "prepare"
    /\ MayLeaveTmp /\ Exit(c)
    /\ UNCHANGED <<journal, world>>

-----------------------------------------------------------------------------
(* start, from the process to the active session.                          *)

Spawn(c) ==
    /\ cmd[c].at = "spawn"
    /\ gateway' = [gateway EXCEPT ![cmd[c].session] = "running"]
    /\ Go(c, "record")
    /\ UNCHANGED <<journal, tmp, reused, mapping, moved>>

SpawnFails(c) ==
    /\ cmd[c].at = "spawn"
    /\ Go(c, "clear")
    /\ UNCHANGED <<journal, tmp, world>>

\* PID and creation time
Record(c) ==
    /\ cmd[c].at = "record"
    /\ Writes("gateway") /\ Go(c, "wait")
    /\ UNCHANGED <<tmp, world>>

\* ready, and the port is still free
Ready(c) ==
    /\ cmd[c].at = "wait"
    /\ gateway[cmd[c].session] = "ready" /\ mapping = Free
    /\ Writes("activating") /\ Go(c, "enable")
    /\ moved' = FALSE
    /\ UNCHANGED <<tmp, gateway, reused, mapping>>

\* no creation time, an exit, a timeout, a taken port, a failed write, Ctrl+C
StartFails(c) ==
    /\ cmd[c].at \in {"record", "wait"}
    /\ MayLeaveTmp /\ Go(c, "kill")
    /\ UNCHANGED <<journal, world>>

\* Mutant of KillStarted: the journal is cleared without waiting for the process.
KillWithoutWaiting(c) ==
    /\ cmd[c].at = "kill"
    /\ Go(c, "clear")
    /\ UNCHANGED <<journal, tmp, world>>

\* terminate and wait, by the Popen object
KillStarted(c) ==
    /\ cmd[c].at = "kill"
    /\ gateway' = [gateway EXCEPT ![cmd[c].session] = "gone"]
    /\ Go(c, "clear")
    /\ UNCHANGED <<journal, tmp, reused, mapping, moved>>

KillFails(c) ==
    /\ cmd[c].at = "kill"
    /\ Exit(c)
    /\ UNCHANGED <<journal, tmp, world>>

Enable(c) ==
    /\ cmd[c].at = "enable"
    /\ mapping' = cmd[c].session
    /\ Go(c, "verify")
    /\ UNCHANGED <<journal, tmp, gateway, reused, moved>>

\* with its effect or without; _stop_state reconciles
EnableFails(c) ==
    /\ cmd[c].at = "enable"
    /\ mapping' \in {mapping, cmd[c].session}
    /\ Enter(c, cmd[c].session, "look", "rollback", TRUE)
    /\ UNCHANGED <<journal, tmp, gateway, reused, moved>>

\* in the foreground, the command goes on watching
Activate(c) ==
    /\ cmd[c].at = "verify"
    /\ mapping \in Session
    /\ Writes("active")
    /\ Exit(c) \/ Go(c, "watch")
    /\ UNCHANGED <<tmp, world>>

ActivateFails(c) ==
    /\ cmd[c].at = "verify"
    /\ MayLeaveTmp
    /\ Enter(c, cmd[c].session, "look", "rollback", TRUE)
    /\ UNCHANGED <<journal, world>>

Start(c) ==
    \/ StartBegins(c) \/ Preflight(c) \/ PreflightFails(c) \/ Prepare(c) \/ PrepareFails(c)
    \/ Spawn(c) \/ SpawnFails(c) \/ Record(c) \/ Ready(c) \/ StartFails(c)
    \/ KillStarted(c) \/ KillFails(c)
    \/ Enable(c) \/ EnableFails(c) \/ Activate(c) \/ ActivateFails(c)

-----------------------------------------------------------------------------
(* stop, and the end of a command in the foreground.                       *)

StopBegins(c, force) ==
    /\ cmd[c].at = "idle" /\ LockIsFree /\ Complete
    /\ Enter(c, journal.session, "look", "stop", force)
    /\ UNCHANGED <<journal, tmp, world>>

\* Ctrl+C, the stop file, or the gateway is gone: stop, whatever is there to
\* stop; nothing, an incomplete journal or a lock that is taken end the command
WatchEnds(c) ==
    /\ cmd[c].at = "watch"
    /\ IF LockIsFree /\ Complete
       THEN Enter(c, journal.session, "look", "stop", FALSE)
       ELSE Exit(c)
    /\ UNCHANGED <<journal, tmp, world>>

(* _stop_state: any failure ends the command and leaves the journal.       *)

\* Mutant of Look: whatever the port is mapped to is taken for our own.
LookTrusting(c) ==
    /\ cmd[c].at = "look"
    /\ Go(c, IF mapping = Free THEN "end" ELSE "disable")
    /\ moved' = FALSE
    /\ UNCHANGED <<journal, tmp, gateway, reused, mapping>>

\* Mutant of Look: a stop insists on a mapping to remove.
LookInsisting(c) ==
    /\ cmd[c].at = "look"
    /\ mapping \in Session
    /\ Go(c, "disable")
    /\ moved' = FALSE
    /\ UNCHANGED <<journal, tmp, gateway, reused, mapping>>

Look(c) ==
    /\ cmd[c].at = "look"
    /\ mapping # Other
    /\ Go(c, IF mapping = Free THEN "end" ELSE "disable")
    /\ moved' = FALSE
    /\ UNCHANGED <<journal, tmp, gateway, reused, mapping>>

\* the port, and whatever is there
Disable(c) ==
    /\ cmd[c].at = "disable"
    /\ mapping' = Free
    /\ Go(c, "confirm")
    /\ UNCHANGED <<journal, tmp, gateway, reused, moved>>

DisableFails(c) ==
    /\ cmd[c].at = "disable"
    /\ mapping' \in {mapping, Free}
    /\ Exit(c)
    /\ UNCHANGED <<journal, tmp, gateway, reused, moved>>

\* the exit code of the command is no proof
Confirm(c) ==
    /\ cmd[c].at = "confirm"
    /\ mapping = Free
    /\ Go(c, "end") /\ moved' = FALSE
    /\ UNCHANGED <<journal, tmp, gateway, reused, mapping>>

NothingToEnd(c) ==
    /\ cmd[c].at = "end"
    /\ ~Alive(cmd[c].session)
    /\ Go(c, "clear")
    /\ UNCHANGED <<journal, tmp, world>>

\* Mutant of Terminate: the PID alone is enough.
TerminateByPid(c) ==
    /\ cmd[c].at = "end"
    /\ Alive(cmd[c].session)
    /\ gateway' \in {gateway, [gateway EXCEPT ![cmd[c].session] = "gone"]}
    /\ reused' = reused \ {cmd[c].session}
    /\ Go(c, "await")
    /\ UNCHANGED <<journal, tmp, mapping, moved>>

\* verify_ownership, then the signal, which the gateway may not heed
Terminate(c) ==
    /\ cmd[c].at = "end"
    /\ Running(cmd[c].session)
    /\ gateway' \in {gateway, [gateway EXCEPT ![cmd[c].session] = "gone"]}
    /\ Go(c, "await")
    /\ UNCHANGED <<journal, tmp, reused, mapping, moved>>

\* polls of the PID, until the deadline
Ended(c) ==
    /\ cmd[c].at = "await"
    /\ ~Alive(cmd[c].session)
    /\ Go(c, "clear")
    /\ UNCHANGED <<journal, tmp, world>>

TakesTooLong(c) ==
    /\ cmd[c].at = "await"
    /\ Alive(cmd[c].session)
    /\ IF cmd[c].force THEN Go(c, "force") ELSE Exit(c)
    /\ UNCHANGED <<journal, tmp, world>>

\* the second signal goes to whoever has the PID
ForceKill(c) ==
    /\ cmd[c].at = "force"
    /\ gateway' = [gateway EXCEPT ![cmd[c].session] = IF Running(cmd[c].session)
                                                      THEN "gone" ELSE @]
    /\ reused' = reused \ {cmd[c].session}
    /\ Go(c, "clear")
    /\ UNCHANGED <<journal, tmp, mapping, moved>>

\* a query that fails, a mapping that differs, a process that is not ours
StopFails(c) ==
    /\ cmd[c].at \in {"look", "confirm", "end", "force"}
    /\ Exit(c)
    /\ UNCHANGED <<journal, tmp, world>>

\* clear_session; a start that reconciled a stale journal goes on
Clear(c) ==
    /\ cmd[c].at = "clear"
    /\ journal' = NoJournal /\ tmp' = FALSE
    /\ IF cmd[c].why = "restart"
       THEN Enter(c, NoSession, "preflight", "none", FALSE)
       ELSE Exit(c)
    /\ UNCHANGED world

\* the temporary files go first
ClearFails(c) ==
    /\ cmd[c].at = "clear"
    /\ tmp' \in {tmp, FALSE}
    /\ Exit(c)
    /\ UNCHANGED <<journal, world>>

Stop(c) ==
    \/ StopBegins(c, TRUE) \/ StopBegins(c, FALSE) \/ WatchEnds(c)
    \/ Look(c) \/ Disable(c) \/ DisableFails(c) \/ Confirm(c)
    \/ NothingToEnd(c) \/ Terminate(c) \/ Ended(c) \/ TakesTooLong(c) \/ ForceKill(c)
    \/ StopFails(c) \/ Clear(c) \/ ClearFails(c)

\* the process is killed: the lock is released, the gateway lives on
Killed(c) ==
    /\ cmd[c].at # "idle"
    /\ IF cmd[c].at \in {"prepare", "record", "wait", "verify"}
       THEN MayLeaveTmp
       ELSE tmp' \in {tmp, tmp /\ cmd[c].at # "clear"}
    /\ Exit(c)
    /\ UNCHANGED <<journal, world>>

Next == World \/ \E c \in Command : Start(c) \/ Stop(c) \/ Killed(c)

Spec == Init /\ [][Next]_vars

-----------------------------------------------------------------------------
(* Safety.                                                                 *)

\* Whatever of a session is still there, its process or its mapping, a journal
\* names it, so that a stop can find it: after a failed start, a rollback that
\* failed, a stale journal, or a crash of a command between any two steps.
NothingIsLeftBehind ==
    /\ \A s \in Session : Running(s) => journal.session = s
    /\ mapping \in Session => /\ journal.session = mapping
                              /\ journal.phase \in {"activating", "active"}

\* A process that is not the gateway of the session is never signalled, though
\* its PID is in the journal, unless a forced stop waited for the gateway.
OnlyForceHitsStrangers ==
    [][cmd' # cmd /\ reused \ reused' # {} => \E c \in Command : cmd[c].at = "force"]_vars

\* A mapping of another client is never replaced or removed by a command,
\* except one that was made after the command had looked.
OthersMappingIsSpared ==
    [][mapping = Other /\ mapping' # Other /\ cmd' # cmd => moved]_vars

\* The module documentation: stopping a session ends that session only.  A
\* command in the foreground that ends stops the session that it started.
ForegroundStopsItsOwn ==
    [][\A c \in Command : cmd[c].at = "watch" /\ cmd'[c].at = "look"
                          => cmd'[c].session = cmd[c].session]_vars

-----------------------------------------------------------------------------
(* Recovery.  A command that holds the lock runs on; the user ends commands *)
(* in the foreground, and repeats a stop with force.                        *)

RunsOn(c) ==
    \/ Holds(c) /\ Start(c)
    \/ Look(c) \/ Disable(c) \/ Confirm(c) \/ NothingToEnd(c) \/ Terminate(c) \/ Ended(c)
    \/ TakesTooLong(c) \/ ForceKill(c) \/ Clear(c)

Fairness == \A c \in Command : /\ WF_vars(RunsOn(c)) /\ WF_vars(WatchEnds(c))
                                /\ SF_vars(StopBegins(c, TRUE))

\* A stop fails or is killed.  One without force may also give up waiting, which
\* looks the same and is no trouble.
Trouble == \E c \in Command :
              \/ StopFails(c) \/ DisableFails(c) \/ ClearFails(c)
              \/ Killed(c) /\ (cmd[c].at = "await" => cmd[c].force)

\* "After the cause is resolved, repeating stop resumes the cleaning": when
\* stops do not fail any more, no other client keeps the port and no stranger
\* has the PID, a complete journal is cleared, whatever failed before.
CompleteIsRecovered ==
    /\ <>[][~Trouble]_vars
    /\ <>[](mapping # Other /\ reused = {})
    => (Complete ~> ~Complete)

FairSpec == Spec /\ Fairness
=============================================================================
