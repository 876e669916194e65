------------------------ MODULE RemoteSessionProofs ------------------------
(***************************************************************************)
(* Proofs about RemoteSession, for any number of commands and sessions:    *)
(* whatever of a session is there is in the journal, and other clients'    *)
(* mappings and strangers' processes are spared as the runs check it.      *)
(***************************************************************************)
EXTENDS RemoteSession, TLAPS

\* The lock is held by one command at most.
OneHolder == \A c, d \in Command : Holds(c) /\ Holds(d) => c = d

Acting == {"spawn", "record", "wait", "kill", "enable", "verify", "look", "disable",
           "confirm", "end", "await", "force", "clear"}

\* What a command may rely on, at each place.
PlaceOK(c) ==
    LET at == cmd[c].at
        s  == cmd[c].session
    IN /\ at \in {"preflight", "prepare"} => journal = NoJournal
       /\ at = "prepare" => s \in Session /\ gateway[s] = "none"
       /\ at \in Acting => s \in Session /\ journal.session = s
       /\ at = "spawn" => gateway[s] = "none"
       /\ at \in {"spawn", "record", "wait", "kill"}
             => journal.phase \in {"prepared", "gateway"}
       /\ at \in {"enable", "verify"} => journal.phase = "activating"
       /\ at \in {"end", "await", "force", "clear"} => mapping \notin Session
       /\ at = "clear" => ~Running(s)
       /\ at \in {"enable", "disable"} /\ ~moved => mapping # Other

IInv == /\ SessionTypeOK
        /\ OneHolder
        /\ NothingIsLeftBehind
        /\ \A c \in Command : PlaceOK(c)

USE SessionAssumption, MappingAssumption

-----------------------------------------------------------------------------
(* Lemmas.                                                                 *)

\* A step of the command that holds the lock, or takes it, disturbs no other:
\* the others are idle or watch, and rely on nothing.
LEMMA OthersRelyOnNothing ==
    ASSUME SessionTypeOK, NEW d \in Command, ~Holds(d)
    PROVE  PlaceOK(d)
  BY DEF SessionTypeOK, Holds, PlaceOK, Acting

\* Before any command runs nothing is relied upon.
LEMMA InitInv == Init => IInv
  <1> SUFFICES ASSUME Init PROVE IInv
    OBVIOUS
  <1>1. SessionTypeOK
    BY DEF Init, SessionTypeOK, Idle, Place, Reason
  <1>2. \A c \in Command : ~Holds(c)
    BY DEF Init, Holds, Idle
  <1>3. NothingIsLeftBehind
    BY DEF Init, NothingIsLeftBehind, Running
  <1>4. \A c \in Command : PlaceOK(c)
    BY <1>1, <1>2, OthersRelyOnNothing
  <1> QED
    BY <1>1, <1>2, <1>3, <1>4 DEF IInv, OneHolder

\* A step of c keeps the invariant if c had the lock, or it was free, and the
\* parts that c can disturb hold afterwards.
LEMMA CommandStep ==
    ASSUME IInv, NEW c \in Command,
           Holds(c) \/ LockIsFree,
           \A d \in Command \ {c} : cmd'[d] = cmd[d],
           SessionTypeOK', NothingIsLeftBehind', PlaceOK(c)'
    PROVE  IInv'
  <1>1. \A d \in Command \ {c} : ~Holds(d)
    BY DEF IInv, OneHolder, LockIsFree
  <1>2. \A d \in Command \ {c} : ~Holds(d)'
    BY <1>1 DEF Holds
  <1>3. OneHolder'
    BY <1>2 DEF OneHolder
  <1>4. \A d \in Command \ {c} : PlaceOK(d)'
    BY <1>2 DEF PlaceOK, Holds, Acting, SessionTypeOK
  <1> QED
    BY <1>3, <1>4 DEF IInv

(* Assignments to cmd are of the type of cmd.                              *)

CmdType == [Command -> [at : Place, session : Session \cup {NoSession},
                        why : Reason, force : BOOLEAN]]

\* A command that goes on is still a command.
LEMMA GoTyped ==
    ASSUME cmd \in CmdType, NEW c \in Command, NEW at \in Place, Go(c, at)
    PROVE  cmd' \in CmdType
  BY DEF Go, CmdType

\* So is one that enters a procedure ...
LEMMA EnterTyped ==
    ASSUME cmd \in CmdType, NEW c \in Command, NEW s \in Session \cup {NoSession},
           NEW at \in Place, NEW why \in Reason, NEW force \in BOOLEAN,
           Enter(c, s, at, why, force)
    PROVE  cmd' \in CmdType
  BY DEF Enter, CmdType

\* ... and one that ends.
LEMMA ExitTyped ==
    ASSUME cmd \in CmdType, NEW c \in Command, Exit(c)
    PROVE  cmd' \in CmdType
  BY DEF Exit, Idle, Place, Reason, CmdType

\* A start, one step of it after the other.
LEMMA StartKeeps ==
    ASSUME IInv, NEW c \in Command, Start(c)
    PROVE  IInv'
  <1> SUFFICES /\ Holds(c) \/ LockIsFree
               /\ \A d \in Command \ {c} : cmd'[d] = cmd[d]
               /\ SessionTypeOK' /\ NothingIsLeftBehind' /\ PlaceOK(c)'
    BY CommandStep
  <1>1. CASE StartBegins(c)
    <2>1. (Holds(c) \/ LockIsFree) /\ \A d \in Command \ {c} : cmd'[d] = cmd[d]
      BY <1>1 DEF StartBegins, Enter, IInv, SessionTypeOK
    <2>2. SessionTypeOK'
      <3>1. cmd \in CmdType
        BY DEF IInv, SessionTypeOK, CmdType
      <3>2. cmd' \in CmdType
        BY <1>1, <3>1, EnterTyped DEF StartBegins, world, Place, Reason, Complete, IInv, SessionTypeOK, Journal
      <3> QED
        BY <1>1, <3>2 DEF StartBegins, world, IInv, SessionTypeOK, CmdType
    <2>3. NothingIsLeftBehind'
      BY <1>1 DEF StartBegins, world, IInv, NothingIsLeftBehind, Running
    <2>4. PlaceOK(c)'
      BY <1>1 DEF StartBegins, Enter, IInv, SessionTypeOK, PlaceOK, Acting, Journal
    <2> QED
      BY <2>1, <2>2, <2>3, <2>4
  <1>2. CASE Preflight(c)
    <2>1. (Holds(c) \/ LockIsFree) /\ \A d \in Command \ {c} : cmd'[d] = cmd[d]
      BY <1>2 DEF Preflight, Enter, Holds
    <2>2. SessionTypeOK'
      <3>1. cmd \in CmdType
        BY DEF IInv, SessionTypeOK, CmdType
      <3>2. cmd' \in CmdType
        BY <1>2, <3>1, EnterTyped DEF Preflight, Place, Reason
      <3> QED
        BY <1>2, <3>2 DEF Preflight, IInv, SessionTypeOK, CmdType
    <2>3. NothingIsLeftBehind'
      BY <1>2 DEF Preflight, IInv, NothingIsLeftBehind, Running
    <2>4. PlaceOK(c)'
      BY <1>2 DEF Preflight, Enter, IInv, PlaceOK, Acting
    <2> QED
      BY <2>1, <2>2, <2>3, <2>4
  <1>3. CASE PreflightFails(c)
    <2>1. (Holds(c) \/ LockIsFree) /\ \A d \in Command \ {c} : cmd'[d] = cmd[d]
      BY <1>3 DEF PreflightFails, Exit, Holds
    <2>2. SessionTypeOK'
      BY <1>3 DEF PreflightFails, Exit, world, Idle, IInv, SessionTypeOK, Place, Reason
    <2>3. NothingIsLeftBehind'
      BY <1>3 DEF PreflightFails, world, IInv, NothingIsLeftBehind, Running
    <2>4. PlaceOK(c)'
      BY <1>3 DEF PreflightFails, Exit, Idle, IInv, PlaceOK, Acting
    <2> QED
      BY <2>1, <2>2, <2>3, <2>4
  <1>4. CASE Prepare(c)
    <2>1. (Holds(c) \/ LockIsFree) /\ \A d \in Command \ {c} : cmd'[d] = cmd[d]
      BY <1>4 DEF Prepare, Go, Holds
    <2>2. SessionTypeOK'
      BY <1>4 DEF Prepare, Go, world, IInv, SessionTypeOK, PlaceOK, Place, Journal
    <2>3. NothingIsLeftBehind'
      BY <1>4 DEF Prepare, world, IInv, NothingIsLeftBehind, PlaceOK, Running, NoJournal
    <2>4. PlaceOK(c)'
      BY <1>4 DEF Prepare, Go, world, IInv, SessionTypeOK, PlaceOK
    <2> QED
      BY <2>1, <2>2, <2>3, <2>4
  <1>5. CASE PrepareFails(c)
    <2>1. (Holds(c) \/ LockIsFree) /\ \A d \in Command \ {c} : cmd'[d] = cmd[d]
      BY <1>5 DEF PrepareFails, Exit, Holds
    <2>2. SessionTypeOK'
      BY <1>5 DEF PrepareFails, Exit, MayLeaveTmp, world, Idle, IInv, SessionTypeOK, Place, Reason
    <2>3. NothingIsLeftBehind'
      BY <1>5 DEF PrepareFails, world, IInv, NothingIsLeftBehind, Running
    <2>4. PlaceOK(c)'
      BY <1>5 DEF PrepareFails, Exit, world, Idle, IInv, PlaceOK, Acting
    <2> QED
      BY <2>1, <2>2, <2>3, <2>4
  <1>6. CASE Spawn(c)
    <2>1. (Holds(c) \/ LockIsFree) /\ \A d \in Command \ {c} : cmd'[d] = cmd[d]
      BY <1>6 DEF Spawn, Go, Holds
    <2>2. SessionTypeOK'
      BY <1>6 DEF Spawn, Go, IInv, SessionTypeOK, Place
    <2>3. NothingIsLeftBehind'
      BY <1>6 DEF Spawn, IInv, NothingIsLeftBehind, PlaceOK, Acting, Running
    <2>4. PlaceOK(c)'
      BY <1>6 DEF Spawn, Go, IInv, SessionTypeOK, PlaceOK, Acting
    <2> QED
      BY <2>1, <2>2, <2>3, <2>4
  <1>7. CASE SpawnFails(c)
    <2>1. (Holds(c) \/ LockIsFree) /\ \A d \in Command \ {c} : cmd'[d] = cmd[d]
      BY <1>7 DEF SpawnFails, Go, Holds
    <2>2. SessionTypeOK'
      BY <1>7 DEF SpawnFails, Go, world, IInv, SessionTypeOK, Place
    <2>3. NothingIsLeftBehind'
      BY <1>7 DEF SpawnFails, world, IInv, NothingIsLeftBehind, Running
    <2>4. PlaceOK(c)'
      BY <1>7 DEF SpawnFails, Go, world, IInv, NothingIsLeftBehind, PlaceOK, Acting, Running
    <2> QED
      BY <2>1, <2>2, <2>3, <2>4
  <1>8. CASE Record(c)
    <2>1. (Holds(c) \/ LockIsFree) /\ \A d \in Command \ {c} : cmd'[d] = cmd[d]
      BY <1>8 DEF Record, Go, Holds
    <2>2. SessionTypeOK'
      BY <1>8 DEF Record, Go, Writes, world, IInv, SessionTypeOK, PlaceOK, Acting, Place, Journal
    <2>3. NothingIsLeftBehind'
      BY <1>8 DEF Record, Writes, world, IInv, NothingIsLeftBehind, PlaceOK, Running
    <2>4. PlaceOK(c)'
      BY <1>8 DEF Record, Go, Writes, IInv, PlaceOK, Acting
    <2> QED
      BY <2>1, <2>2, <2>3, <2>4
  <1>9. CASE Ready(c)
    <2>1. (Holds(c) \/ LockIsFree) /\ \A d \in Command \ {c} : cmd'[d] = cmd[d]
      BY <1>9 DEF Ready, Go, Holds
    <2>2. SessionTypeOK'
      <3>1. cmd \in CmdType
        BY DEF IInv, SessionTypeOK, CmdType
      <3>2. cmd' \in CmdType
        BY <1>9, <3>1, GoTyped DEF Ready, Place
      <3> QED
        BY <1>9, <3>2 DEF Ready, Writes, IInv, SessionTypeOK, CmdType, PlaceOK, Acting, Journal
    <2>3. NothingIsLeftBehind'
      BY <1>9 DEF Ready, Writes, IInv, NothingIsLeftBehind, Running
    <2>4. PlaceOK(c)'
      BY <1>9 DEF Ready, Go, Writes, IInv, SessionTypeOK, PlaceOK, Acting
    <2> QED
      BY <2>1, <2>2, <2>3, <2>4
  <1>10. CASE StartFails(c)
    <2>1. (Holds(c) \/ LockIsFree) /\ \A d \in Command \ {c} : cmd'[d] = cmd[d]
      BY <1>10 DEF StartFails, Go, Holds
    <2>2. SessionTypeOK'
      BY <1>10 DEF StartFails, Go, MayLeaveTmp, world, IInv, SessionTypeOK, Place, Journal
    <2>3. NothingIsLeftBehind'
      BY <1>10 DEF StartFails, world, IInv, NothingIsLeftBehind, Running
    <2>4. PlaceOK(c)'
      BY <1>10 DEF StartFails, Go, IInv, PlaceOK, Acting
    <2> QED
      BY <2>1, <2>2, <2>3, <2>4
  <1>11. CASE KillStarted(c)
    <2>1. (Holds(c) \/ LockIsFree) /\ \A d \in Command \ {c} : cmd'[d] = cmd[d]
      BY <1>11 DEF KillStarted, Go, Holds
    <2>2. SessionTypeOK'
      BY <1>11 DEF KillStarted, Go, IInv, SessionTypeOK, Place
    <2>3. NothingIsLeftBehind'
      BY <1>11 DEF KillStarted, IInv, NothingIsLeftBehind, Running
    <2>4. PlaceOK(c)'
      BY <1>11 DEF KillStarted, Go, IInv, SessionTypeOK, NothingIsLeftBehind, PlaceOK, Acting, Running
    <2> QED
      BY <2>1, <2>2, <2>3, <2>4
  <1>12. CASE KillFails(c)
    <2>1. (Holds(c) \/ LockIsFree) /\ \A d \in Command \ {c} : cmd'[d] = cmd[d]
      BY <1>12 DEF KillFails, Exit, Holds
    <2>2. SessionTypeOK'
      BY <1>12 DEF KillFails, Exit, world, Idle, IInv, SessionTypeOK, Place, Reason
    <2>3. NothingIsLeftBehind'
      BY <1>12 DEF KillFails, world, IInv, NothingIsLeftBehind, Running
    <2>4. PlaceOK(c)'
      BY <1>12 DEF KillFails, Exit, Idle, IInv, PlaceOK, Acting
    <2> QED
      BY <2>1, <2>2, <2>3, <2>4
  <1>13. CASE Enable(c)
    <2>1. (Holds(c) \/ LockIsFree) /\ \A d \in Command \ {c} : cmd'[d] = cmd[d]
      BY <1>13 DEF Enable, Go, Holds
    <2>2. SessionTypeOK'
      BY <1>13 DEF Enable, Go, IInv, SessionTypeOK, PlaceOK, Acting, Place
    <2>3. NothingIsLeftBehind'
      BY <1>13 DEF Enable, IInv, NothingIsLeftBehind, PlaceOK, Acting, Running
    <2>4. PlaceOK(c)'
      BY <1>13 DEF Enable, Go, IInv, PlaceOK, Acting
    <2> QED
      BY <2>1, <2>2, <2>3, <2>4
  <1>14. CASE EnableFails(c)
    <2>1. (Holds(c) \/ LockIsFree) /\ \A d \in Command \ {c} : cmd'[d] = cmd[d]
      BY <1>14 DEF EnableFails, Enter, Holds
    <2>2. SessionTypeOK'
      BY <1>14 DEF EnableFails, Enter, IInv, SessionTypeOK, PlaceOK, Acting, Place, Reason
    <2>3. NothingIsLeftBehind'
      BY <1>14 DEF EnableFails, IInv, NothingIsLeftBehind, PlaceOK, Acting, Running
    <2>4. PlaceOK(c)'
      BY <1>14 DEF EnableFails, Enter, IInv, PlaceOK, Acting
    <2> QED
      BY <2>1, <2>2, <2>3, <2>4
  <1>15. CASE Activate(c)
    <2>1. (Holds(c) \/ LockIsFree) /\ \A d \in Command \ {c} : cmd'[d] = cmd[d]
      BY <1>15 DEF Activate, Go, Exit, Holds, IInv, SessionTypeOK
    <2>2. SessionTypeOK'
      <3>1. cmd \in CmdType
        BY DEF IInv, SessionTypeOK, CmdType
      <3>2. cmd' \in CmdType
        BY <1>15, <3>1, GoTyped, ExitTyped DEF Activate, Place
      <3> QED
        BY <1>15, <3>2 DEF Activate, Writes, world, IInv, SessionTypeOK, CmdType, PlaceOK, Acting, Journal
    <2>3. NothingIsLeftBehind'
      BY <1>15 DEF Activate, Writes, world, IInv, NothingIsLeftBehind, Running
    <2>4. PlaceOK(c)'
      BY <1>15 DEF Activate, Go, Exit, Idle, IInv, SessionTypeOK, PlaceOK, Acting
    <2> QED
      BY <2>1, <2>2, <2>3, <2>4
  <1>16. CASE ActivateFails(c)
    <2>1. (Holds(c) \/ LockIsFree) /\ \A d \in Command \ {c} : cmd'[d] = cmd[d]
      BY <1>16 DEF ActivateFails, Enter, Holds
    <2>2. SessionTypeOK'
      BY <1>16 DEF ActivateFails, Enter, MayLeaveTmp, world, IInv, SessionTypeOK, Place, Reason
    <2>3. NothingIsLeftBehind'
      BY <1>16 DEF ActivateFails, world, IInv, NothingIsLeftBehind, Running
    <2>4. PlaceOK(c)'
      BY <1>16 DEF ActivateFails, Enter, IInv, PlaceOK, Acting
    <2> QED
      BY <2>1, <2>2, <2>3, <2>4
  <1> QED
    BY <1>1, <1>2, <1>3, <1>4, <1>5, <1>6, <1>7, <1>8, <1>9, <1>10, <1>11, <1>12, <1>13, <1>14, <1>15, <1>16 DEF Start

\* A stop, except the end of a command in the foreground.
LEMMA StopKeeps ==
    ASSUME IInv, NEW c \in Command, Stop(c), ~WatchEnds(c)
    PROVE  IInv'
  <1> SUFFICES /\ Holds(c) \/ LockIsFree
               /\ \A d \in Command \ {c} : cmd'[d] = cmd[d]
               /\ SessionTypeOK' /\ NothingIsLeftBehind' /\ PlaceOK(c)'
    BY CommandStep
  <1>1. CASE StopBegins(c, TRUE)
    <2>1. (Holds(c) \/ LockIsFree) /\ \A d \in Command \ {c} : cmd'[d] = cmd[d]
      BY <1>1 DEF StopBegins, Enter
    <2>2. SessionTypeOK'
      BY <1>1 DEF StopBegins, Enter, world, IInv, SessionTypeOK, Place, Reason, Journal, NoJournal
    <2>3. NothingIsLeftBehind'
      BY <1>1 DEF StopBegins, world, IInv, NothingIsLeftBehind, Running
    <2>4. PlaceOK(c)'
      BY <1>1 DEF StopBegins, Enter, IInv, SessionTypeOK, PlaceOK, NoJournal, Journal, Complete
    <2> QED
      BY <2>1, <2>2, <2>3, <2>4
  <1>2. CASE StopBegins(c, FALSE)
    <2>1. (Holds(c) \/ LockIsFree) /\ \A d \in Command \ {c} : cmd'[d] = cmd[d]
      BY <1>2 DEF StopBegins, Enter
    <2>2. SessionTypeOK'
      BY <1>2 DEF StopBegins, Enter, world, IInv, SessionTypeOK, Place, Reason, Journal, NoJournal
    <2>3. NothingIsLeftBehind'
      BY <1>2 DEF StopBegins, world, IInv, NothingIsLeftBehind, Running
    <2>4. PlaceOK(c)'
      BY <1>2 DEF StopBegins, Enter, IInv, SessionTypeOK, PlaceOK, NoJournal, Journal, Complete
    <2> QED
      BY <2>1, <2>2, <2>3, <2>4
  <1>3. CASE Look(c)
    <2>1. (Holds(c) \/ LockIsFree) /\ \A d \in Command \ {c} : cmd'[d] = cmd[d]
      BY <1>3 DEF Look, Go, Holds
    <2>2. SessionTypeOK'
      <3>1. cmd \in CmdType
        BY DEF IInv, SessionTypeOK, CmdType
      <3>2. cmd' \in CmdType
        BY <1>3, <3>1, GoTyped DEF Look, Place
      <3> QED
        BY <1>3, <3>2 DEF Look, IInv, SessionTypeOK, CmdType
    <2>3. NothingIsLeftBehind'
      BY <1>3 DEF Look, IInv, NothingIsLeftBehind, Running
    <2>4. PlaceOK(c)'
      BY <1>3 DEF Look, Go, IInv, PlaceOK, Acting
    <2> QED
      BY <2>1, <2>2, <2>3, <2>4
  <1>4. CASE Disable(c)
    <2>1. (Holds(c) \/ LockIsFree) /\ \A d \in Command \ {c} : cmd'[d] = cmd[d]
      BY <1>4 DEF Disable, Go, Holds
    <2>2. SessionTypeOK'
      BY <1>4 DEF Disable, Go, IInv, SessionTypeOK, Place
    <2>3. NothingIsLeftBehind'
      BY <1>4 DEF Disable, IInv, NothingIsLeftBehind, Running
    <2>4. PlaceOK(c)'
      BY <1>4 DEF Disable, Go, IInv, PlaceOK, Acting
    <2> QED
      BY <2>1, <2>2, <2>3, <2>4
  <1>5. CASE DisableFails(c)
    <2>1. (Holds(c) \/ LockIsFree) /\ \A d \in Command \ {c} : cmd'[d] = cmd[d]
      BY <1>5 DEF DisableFails, Exit, Holds
    <2>2. SessionTypeOK'
      BY <1>5 DEF DisableFails, Exit, Idle, IInv, SessionTypeOK, Place, Reason
    <2>3. NothingIsLeftBehind'
      BY <1>5 DEF DisableFails, IInv, NothingIsLeftBehind, Running
    <2>4. PlaceOK(c)'
      BY <1>5 DEF DisableFails, Exit, Idle, IInv, PlaceOK, Acting
    <2> QED
      BY <2>1, <2>2, <2>3, <2>4
  <1>6. CASE Confirm(c)
    <2>1. (Holds(c) \/ LockIsFree) /\ \A d \in Command \ {c} : cmd'[d] = cmd[d]
      BY <1>6 DEF Confirm, Go, Holds
    <2>2. SessionTypeOK'
      BY <1>6 DEF Confirm, Go, IInv, SessionTypeOK, Place
    <2>3. NothingIsLeftBehind'
      BY <1>6 DEF Confirm, IInv, NothingIsLeftBehind, Running
    <2>4. PlaceOK(c)'
      BY <1>6 DEF Confirm, Go, IInv, PlaceOK, Acting
    <2> QED
      BY <2>1, <2>2, <2>3, <2>4
  <1>7. CASE NothingToEnd(c)
    <2>1. (Holds(c) \/ LockIsFree) /\ \A d \in Command \ {c} : cmd'[d] = cmd[d]
      BY <1>7 DEF NothingToEnd, Go, Holds
    <2>2. SessionTypeOK'
      BY <1>7 DEF NothingToEnd, Go, world, IInv, SessionTypeOK, Place
    <2>3. NothingIsLeftBehind'
      BY <1>7 DEF NothingToEnd, world, IInv, NothingIsLeftBehind, Running
    <2>4. PlaceOK(c)'
      BY <1>7 DEF NothingToEnd, Go, world, IInv, PlaceOK, Acting, Running, Alive
    <2> QED
      BY <2>1, <2>2, <2>3, <2>4
  <1>8. CASE Terminate(c)
    <2>1. (Holds(c) \/ LockIsFree) /\ \A d \in Command \ {c} : cmd'[d] = cmd[d]
      BY <1>8 DEF Terminate, Go, Holds
    <2>2. SessionTypeOK'
      BY <1>8 DEF Terminate, Go, IInv, SessionTypeOK, Place
    <2>3. NothingIsLeftBehind'
      BY <1>8 DEF Terminate, IInv, SessionTypeOK, NothingIsLeftBehind, Running
    <2>4. PlaceOK(c)'
      BY <1>8 DEF Terminate, Go, IInv, PlaceOK, Acting
    <2> QED
      BY <2>1, <2>2, <2>3, <2>4
  <1>9. CASE Ended(c)
    <2>1. (Holds(c) \/ LockIsFree) /\ \A d \in Command \ {c} : cmd'[d] = cmd[d]
      BY <1>9 DEF Ended, Go, Holds
    <2>2. SessionTypeOK'
      BY <1>9 DEF Ended, Go, world, IInv, SessionTypeOK, Place
    <2>3. NothingIsLeftBehind'
      BY <1>9 DEF Ended, world, IInv, NothingIsLeftBehind, Running
    <2>4. PlaceOK(c)'
      BY <1>9 DEF Ended, Go, world, IInv, PlaceOK, Acting, Running, Alive
    <2> QED
      BY <2>1, <2>2, <2>3, <2>4
  <1>10. CASE TakesTooLong(c)
    <2>1. (Holds(c) \/ LockIsFree) /\ \A d \in Command \ {c} : cmd'[d] = cmd[d]
      BY <1>10 DEF TakesTooLong, Go, Exit, Holds, IInv, SessionTypeOK
    <2>2. SessionTypeOK'
      <3>1. cmd \in CmdType
        BY DEF IInv, SessionTypeOK, CmdType
      <3>2. cmd' \in CmdType
        BY <1>10, <3>1, GoTyped, ExitTyped DEF TakesTooLong, Place
      <3> QED
        BY <1>10, <3>2 DEF TakesTooLong, world, IInv, SessionTypeOK, CmdType
    <2>3. NothingIsLeftBehind'
      BY <1>10 DEF TakesTooLong, world, IInv, NothingIsLeftBehind, Running
    <2>4. PlaceOK(c)'
      BY <1>10 DEF TakesTooLong, Go, Exit, world, Idle, IInv, SessionTypeOK, PlaceOK, Acting
    <2> QED
      BY <2>1, <2>2, <2>3, <2>4
  <1>11. CASE ForceKill(c)
    <2>1. (Holds(c) \/ LockIsFree) /\ \A d \in Command \ {c} : cmd'[d] = cmd[d]
      BY <1>11 DEF ForceKill, Go, Holds
    <2>2. SessionTypeOK'
      <3>1. cmd \in CmdType
        BY DEF IInv, SessionTypeOK, CmdType
      <3>2. cmd' \in CmdType
        BY <1>11, <3>1, GoTyped DEF ForceKill, Place
      <3> QED
        BY <1>11, <3>2 DEF ForceKill, IInv, SessionTypeOK, CmdType
    <2>3. NothingIsLeftBehind'
      BY <1>11 DEF ForceKill, IInv, NothingIsLeftBehind, Running
    <2>4. PlaceOK(c)'
      BY <1>11 DEF ForceKill, Go, IInv, SessionTypeOK, PlaceOK, Acting, Running
    <2> QED
      BY <2>1, <2>2, <2>3, <2>4
  <1>12. CASE StopFails(c)
    <2>1. (Holds(c) \/ LockIsFree) /\ \A d \in Command \ {c} : cmd'[d] = cmd[d]
      BY <1>12 DEF StopFails, Exit, Holds
    <2>2. SessionTypeOK'
      BY <1>12 DEF StopFails, Exit, world, Idle, IInv, SessionTypeOK, Place, Reason
    <2>3. NothingIsLeftBehind'
      BY <1>12 DEF StopFails, world, IInv, NothingIsLeftBehind, Running
    <2>4. PlaceOK(c)'
      BY <1>12 DEF StopFails, Exit, world, Idle, IInv, PlaceOK, Acting
    <2> QED
      BY <2>1, <2>2, <2>3, <2>4
  <1>13. CASE Clear(c)
    <2>1. (Holds(c) \/ LockIsFree) /\ \A d \in Command \ {c} : cmd'[d] = cmd[d]
      BY <1>13 DEF Clear, Exit, Enter, Holds, IInv, SessionTypeOK
    <2>2. SessionTypeOK'
      <3>1. cmd \in CmdType
        BY DEF IInv, SessionTypeOK, CmdType
      <3>2. cmd' \in CmdType
        BY <1>13, <3>1, EnterTyped, ExitTyped DEF Clear, Place, Reason
      <3> QED
        BY <1>13, <3>2 DEF Clear, world, IInv, SessionTypeOK, CmdType
    <2>3. NothingIsLeftBehind'
      BY <1>13 DEF Clear, world, IInv, NothingIsLeftBehind, PlaceOK, Acting, Running
    <2>4. PlaceOK(c)'
      BY <1>13 DEF Clear, Exit, Enter, Idle, IInv, SessionTypeOK, PlaceOK, Acting
    <2> QED
      BY <2>1, <2>2, <2>3, <2>4
  <1>14. CASE ClearFails(c)
    <2>1. (Holds(c) \/ LockIsFree) /\ \A d \in Command \ {c} : cmd'[d] = cmd[d]
      BY <1>14 DEF ClearFails, Exit, Holds
    <2>2. SessionTypeOK'
      BY <1>14 DEF ClearFails, Exit, world, Idle, IInv, SessionTypeOK, Place, Reason
    <2>3. NothingIsLeftBehind'
      BY <1>14 DEF ClearFails, world, IInv, NothingIsLeftBehind, Running
    <2>4. PlaceOK(c)'
      BY <1>14 DEF ClearFails, Exit, Idle, IInv, SessionTypeOK, PlaceOK, Acting
    <2> QED
      BY <2>1, <2>2, <2>3, <2>4
  <1> QED
    BY <1>1, <1>2, <1>3, <1>4, <1>5, <1>6, <1>7, <1>8, <1>9, <1>10, <1>11, <1>12, <1>13, <1>14 DEF Stop

\* Any command may end, at any place, and whoever holds the lock.
LEMMA ExitKeeps ==
    ASSUME IInv, NEW c \in Command, Exit(c), UNCHANGED <<journal, world>>, tmp' \in BOOLEAN
    PROVE  IInv'
  <1>1. SessionTypeOK'
    <2>1. cmd \in CmdType
      BY DEF IInv, SessionTypeOK, CmdType
    <2>2. cmd' \in CmdType
      BY <2>1, ExitTyped
    <2> QED
      BY <2>2 DEF IInv, SessionTypeOK, CmdType, world
  <1>2. ~Holds(c)' /\ \A d \in Command \ {c} : cmd'[d] = cmd[d]
    BY DEF Exit, Idle, Holds, IInv, SessionTypeOK
  <1>3. OneHolder'
    BY <1>2 DEF IInv, OneHolder, Holds
  <1>4. NothingIsLeftBehind'
    BY DEF IInv, NothingIsLeftBehind, Running, world
  <1>5. \A d \in Command : PlaceOK(d)'
    <2>1. PlaceOK(c)'
      BY <1>2 DEF PlaceOK, Holds, Acting
    <2>2. \A d \in Command \ {c} : PlaceOK(d)'
      BY <1>2 DEF IInv, PlaceOK, Running, world
    <2> QED
      BY <2>1, <2>2
  <1> QED
    BY <1>1, <1>3, <1>4, <1>5 DEF IInv

\* A foreground start whose watch ends goes on to stop the session on record.
LEMMA WatchEndsKeeps ==
    ASSUME IInv, NEW c \in Command, WatchEnds(c)
    PROVE  IInv'
  <1>1. CASE LockIsFree /\ Complete
    <2>1. Enter(c, journal.session, "look", "stop", FALSE) /\ UNCHANGED <<journal, tmp, world>>
      BY <1>1 DEF WatchEnds
    <2>2. journal.session \in Session /\ journal # NoJournal
      BY <1>1 DEF IInv, SessionTypeOK, Complete, Journal, NoJournal
    <2>3. cmd \in CmdType
      BY DEF IInv, SessionTypeOK, CmdType
    <2>4. cmd' \in CmdType
      BY <2>1, <2>2, <2>3, EnterTyped DEF Place, Reason
    <2>5. SessionTypeOK'
      BY <2>1, <2>4 DEF IInv, SessionTypeOK, CmdType, world
    <2>6. cmd'[c].at = "look" /\ cmd'[c].session = journal.session
      BY <2>1, <2>3 DEF Enter, CmdType
    <2>7. \A d \in Command \ {c} : cmd'[d] = cmd[d]
      BY <2>1, <2>3 DEF Enter, CmdType
    <2>8. NothingIsLeftBehind'
      BY <2>1 DEF IInv, NothingIsLeftBehind, Running, world
    <2>9. PlaceOK(c)'
      BY <2>1, <2>2, <2>6 DEF PlaceOK, Acting
    <2> QED
      BY <1>1, <2>5, <2>7, <2>8, <2>9, CommandStep
  <1>2. CASE ~(LockIsFree /\ Complete)
    BY <1>2, ExitKeeps DEF WatchEnds, IInv, SessionTypeOK
  <1> QED
    BY <1>1, <1>2

\* A command that is killed relies on nothing any more; it may leave its temporary file.
LEMMA KilledKeeps ==
    ASSUME IInv, NEW c \in Command, Killed(c)
    PROVE  IInv'
  <1>1. tmp' \in BOOLEAN
    BY DEF Killed, MayLeaveTmp, IInv, SessionTypeOK
  <1> QED
    BY <1>1, ExitKeeps DEF Killed

\* Gateways, strangers and other clients cannot make a command's reliance false.
LEMMA WorldKeeps ==
    ASSUME IInv, World
    PROVE  IInv'
  <1>1. UNCHANGED <<journal, tmp, cmd>>
    BY DEF World, OtherClient, GatewayReady, GatewayExits, PidReused, StrangerExits
  <1>2. SessionTypeOK'
    BY <1>1 DEF IInv, SessionTypeOK, World, OtherClient, GatewayReady, GatewayExits,
                PidReused, StrangerExits
  <1>3. OneHolder'
    BY <1>1 DEF IInv, OneHolder, Holds
  <1>4. \A s \in Session : Running(s)' => Running(s)
    BY DEF IInv, SessionTypeOK, Running, World, OtherClient, GatewayReady, GatewayExits,
           PidReused, StrangerExits
  <1>5. \A s \in Session : gateway[s] = "none" => gateway'[s] = "none"
    BY DEF IInv, SessionTypeOK, Running, World, OtherClient, GatewayReady, GatewayExits,
           PidReused, StrangerExits
  <1>6. UNCHANGED <<mapping, moved>> \/ (mapping' \notin Session /\ moved' = TRUE)
    BY DEF World, OtherClient, GatewayReady, GatewayExits, PidReused, StrangerExits
  <1>7. NothingIsLeftBehind'
    BY <1>1, <1>4, <1>6 DEF IInv, NothingIsLeftBehind
  <1>8. \A c \in Command : PlaceOK(c)'
    BY <1>1, <1>4, <1>5, <1>6 DEF IInv, PlaceOK, Acting
  <1> QED
    BY <1>2, <1>3, <1>7, <1>8 DEF IInv

\* Every step of every command, gateway and stranger keeps the invariant.
LEMMA NextKeeps == IInv /\ [Next]_vars => IInv'
  <1> SUFFICES ASSUME IInv, [Next]_vars PROVE IInv'
    OBVIOUS
  <1>1. CASE Next
    BY <1>1, StartKeeps, StopKeeps, WatchEndsKeeps, KilledKeeps, WorldKeeps DEF Next
  <1>2. CASE UNCHANGED vars
    BY <1>2 DEF vars, IInv, SessionTypeOK, OneHolder, Holds, NothingIsLeftBehind, Running, PlaceOK
  <1> QED
    BY <1>1, <1>2

-----------------------------------------------------------------------------
(* Theorems.                                                               *)

\* The inductive invariant: at most one command works, and each may rely on
\* what it read of the journal, the process and the mapping.
THEOREM SessionInvariant == Spec => []IInv
  BY InitInv, NextKeeps, PTL DEF Spec

\* The type invariant.
THEOREM SessionTypeCorrect == Spec => []SessionTypeOK
  <1>1. IInv => SessionTypeOK
    BY DEF IInv
  <1> QED
    BY <1>1, SessionInvariant, PTL

\* The journal names every gateway process and every mapping that a start has
\* made, after any sequence of failures, crashes and retries.
THEOREM EverythingIsInTheJournal == Spec => []NothingIsLeftBehind
  <1>1. IInv => NothingIsLeftBehind
    BY DEF IInv
  <1> QED
    BY <1>1, SessionInvariant, PTL

\* Commands replace or remove another client's mapping only if it was made
\* after they had looked.
THEOREM OtherMappingsAreSpared == Spec => OthersMappingIsSpared
  <1> DEFINE A == mapping = Other /\ mapping' # Other /\ cmd' # cmd => moved
  <1>1. ASSUME IInv, Next PROVE A
    <2> SUFFICES ASSUME mapping = Other, mapping' # Other, cmd' # cmd, ~moved
                 PROVE  FALSE
      OBVIOUS
    <2>1. ~World
      BY DEF World, OtherClient, GatewayReady, GatewayExits, PidReused, StrangerExits
    <2>2. PICK c \in Command : Start(c) \/ Stop(c) \/ Killed(c)
      BY <1>1, <2>1 DEF Next
    <2>3. Enable(c) \/ EnableFails(c) \/ Disable(c) \/ DisableFails(c)
      BY <2>2 DEF Start, Stop, Killed, world, StartBegins, Preflight, PreflightFails, Prepare,
            PrepareFails, Spawn, SpawnFails, Record, Ready, StartFails, KillStarted, KillFails,
            Activate, ActivateFails, StopBegins, WatchEnds, Look, Confirm, NothingToEnd,
            Terminate, Ended, TakesTooLong, ForceKill, StopFails, Clear, ClearFails
    <2>4. cmd[c].at \in {"enable", "disable"}
      BY <2>3 DEF Enable, EnableFails, Disable, DisableFails
    <2> QED
      BY <1>1, <2>4 DEF IInv, PlaceOK
  <1>2. IInv /\ [Next]_vars => [A]_vars
    BY <1>1
  <1> QED
    BY <1>2, SessionInvariant, PTL DEF Spec, OthersMappingIsSpared

\* No command's step but a forced second signal ends a process that is not the
\* gateway of a session.
THEOREM StrangersAreSpared == Spec => OnlyForceHitsStrangers
  <1> DEFINE A == cmd' # cmd /\ reused \ reused' # {}
                  => \E c \in Command : cmd[c].at = "force"
  <1>1. ASSUME IInv, Next PROVE A
    <2> SUFFICES ASSUME cmd' # cmd, reused \ reused' # {}
                 PROVE  \E c \in Command : cmd[c].at = "force"
      OBVIOUS
    <2>1. ~World
      BY DEF World, OtherClient, GatewayReady, GatewayExits, PidReused, StrangerExits
    <2>2. PICK c \in Command : Start(c) \/ Stop(c) \/ Killed(c)
      BY <1>1, <2>1 DEF Next
    <2>3. ForceKill(c)
      BY <2>2 DEF Start, Stop, Killed, world, StartBegins, Preflight, PreflightFails, Prepare,
            PrepareFails, Spawn, SpawnFails, Record, Ready, StartFails, KillStarted, KillFails,
            Enable, EnableFails, Activate, ActivateFails, StopBegins, WatchEnds, Look, Disable,
            DisableFails, Confirm, NothingToEnd, Terminate, Ended, TakesTooLong, StopFails,
            Clear, ClearFails
    <2> QED
      BY <2>3 DEF ForceKill
  <1>2. IInv /\ [Next]_vars => [A]_vars
    BY <1>1
  <1> QED
    BY <1>2, SessionInvariant, PTL DEF Spec, OnlyForceHitsStrangers
=============================================================================
