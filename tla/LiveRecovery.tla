---------------------------- MODULE LiveRecovery ----------------------------
(***************************************************************************)
(* What live-browser.js does about a session after it is settled: the      *)
(* agent still has to clean the source file, the dev server may refresh    *)
(* late or not at all, and timers of the page put the document right, by   *)
(* hand where nobody owns it and by a reload where a framework does.  The  *)
(* user may be at work on the next session by then.                        *)
(*                                                                         *)
(* A timer may be late, so timers fire in any order.  The agent, the       *)
(* source file and the dev server are external.  How a session gets to be  *)
(* accepted or discarded is in LiveSession.                                *)
(***************************************************************************)
EXTENDS Naturals, FiniteSets

CONSTANTS Design,       \* the session ids
          MaxRevisions, \* bounds how often a page begins a configuration
          MaxRefreshes  \* bounds the refreshes and reloads that nobody asked for

ASSUME RecoveryAssumption ==
    Design \subseteq Nat \ {0} /\ MaxRevisions \in Nat /\ MaxRefreshes \in Nat

VARIABLES owned,      \* hasFrameworkHmrOwnership: a framework renders the page
          active,     \* currentSessionId
          configures, \* the state is CONFIGURING
          revision,   \* liveInteractionRevision
          cached,     \* the session in localStorage
          over,       \* the handled ids in localStorage
          accepted,   \* those of them that were accepted
          stamps,     \* [Design -> the reload attempts in sessionStorage]
          file,       \* [Design -> what the source file holds of it]
          shown,      \* [Design -> what the document holds of it]
          hidden,     \* sessions whose variants are hidden for a discard
          timers,     \* timers of the page
          scouts,     \* handledRuntimeWrapperWatchers
          guards,     \* discardedFrameworkWrapperWatchers
          hydrates,   \* the scout of init still waits for a wrapper
          refreshes,
          streak      \* history: [Design -> reloads for it on end]

recoveryVars == <<owned, active, configures, revision, cached, over, accepted, stamps, file,
                  shown, hidden, timers, scouts, guards, hydrates, refreshes, streak>>

NoDesign == 0
Wrapper  == {"variants", "carbonize"}
Content  == Wrapper \cup {"clean", "missing"}
ScoutType == [id : Design, rev : 0 .. MaxRevisions]
Timer(k, s, r) == [kind |-> k, id |-> s, rev |-> r]

RecoveryTypeOK ==
    /\ owned \in BOOLEAN /\ configures \in BOOLEAN /\ hydrates \in BOOLEAN
    /\ active \in Design \cup {NoDesign} /\ cached \in Design \cup {NoDesign}
    /\ revision \in 0 .. MaxRevisions /\ refreshes \in 0 .. MaxRefreshes
    /\ accepted \subseteq over /\ over \subseteq Design
    /\ hidden \subseteq Design /\ guards \subseteq Design
    /\ stamps \in [Design -> 0 .. 2] /\ streak \in [Design -> Nat]
    /\ file \in [Design -> Content \ {"missing"}] /\ shown \in [Design -> Content]
    /\ timers \subseteq [kind : {"accept", "settle", "discard", "linger", "reload"},
                         id : Design, rev : 0 .. MaxRevisions]
    /\ scouts \subseteq ScoutType

RecoveryInit ==
    /\ owned \in BOOLEAN /\ active = NoDesign /\ configures = FALSE /\ revision = 0
    /\ cached = NoDesign /\ over = {} /\ accepted = {} /\ stamps = [s \in Design |-> 0]
    /\ file = [s \in Design |-> "clean"] /\ shown = [s \in Design |-> "clean"]
    /\ hidden = {} /\ timers = {} /\ scouts = {} /\ guards = {}
    /\ hydrates = TRUE /\ refreshes = 0 /\ streak = [s \in Design |-> 0]

\* Somebody is at work on something else than session s.
Replaced(s) == configures \/ active \notin {NoDesign, s}

-----------------------------------------------------------------------------
(* p is what the functions of the page read and write: the session, the    *)
(* cache, the timers and the stamps.                                       *)

Page == [active |-> active, configures |-> configures, revision |-> revision,
         cached |-> cached, timers |-> timers, stamps |-> stamps]

Adopts(p) ==
    /\ active' = p.active /\ configures' = p.configures /\ revision' = p.revision
    /\ cached' = p.cached /\ timers' = p.timers /\ stamps' = p.stamps

\* Mutant of Superseded: the session alone decides, not the configuration.
SupersededBySession(p, s, rev) == p.active \notin {NoDesign, s}

\* deferredRecoverySuperseded
Superseded(p, s, rev) == p.revision # rev \/ p.active \notin {NoDesign, s}

Attempts(p, s, rev) ==
    /\ s \in over /\ ~Superseded(p, s, rev)
    /\ ~\E r \in 0 .. MaxRevisions : Timer("reload", s, r) \in p.timers
    /\ p.stamps[s] < 2

\* scheduleHandledRuntimeWrapperReload for the scouts in X, whose wrapper is there
Tries(p, X) ==
    LET go == {x \in X : Attempts(p, x.id, x.rev)} IN
    [p EXCEPT !.timers = @ \cup {Timer("reload", x.id, x.rev) : x \in go},
              !.stamps = [s \in Design |-> @[s] + Cardinality({x \in go : x.id = s})]]

Opens(p, s) == [p EXCEPT !.active = s, !.cached = s, !.configures = FALSE]

\* resumeSession: what a page may do with the document d that it finds
Resumptions(p, d, done) ==
    LET saved == p.cached # NoDesign /\ p.cached \notin done
        found == {s \in Design : d[s] = "variants"}
        first == IF found # {} THEN found ELSE {s \in Design : d[s] = "carbonize"}
    IN  IF first = {} THEN {IF saved THEN Opens(p, p.cached) ELSE [p EXCEPT !.cached = NoDesign]}
        ELSE {IF s \notin done THEN Opens(p, s)
              ELSE IF saved THEN Opens(p, p.cached)
              ELSE Tries(p, {[id |-> s, rev |-> 0]}) : s \in first}

\* The document becomes d: the scout of init, the watchers of accepted
\* sessions and those of discarded ones look at it.
Mutates(p, d, hide) ==
    LET looks == hydrates /\ \E s \in Design : d[s] \in Wrapper IN
    /\ shown' = d
    /\ hydrates' = (hydrates /\ ~looks)
    /\ \E q \in IF looks THEN Resumptions(p, d, over) ELSE {p} :
          Adopts(Tries(q, {x \in scouts : d[x.id] \in Wrapper}))
    /\ guards' = {s \in guards : d[s] \in Wrapper}
    /\ hidden' = {s \in hide : s \in guards => d[s] \in Wrapper}

\* What a fresh page may find: the dev server's answer may be stale, and a
\* framework adds its wrappers when it hydrates.
Served == {d \in [Design -> Content] : \A s \in Design :
              d[s] \in {file[s]} \cup ({shown[s]} \cap Wrapper)
                       \cup (IF file[s] \in Wrapper THEN {"missing"} ELSE {})}

ReloadsPage ==
    /\ \E d \in Served :
       LET fresh == [Page EXCEPT !.active = NoDesign, !.configures = FALSE, !.revision = 0,
                                     !.timers = {}] IN
       \E p \in {Tries(q, {}) : q \in Resumptions(fresh, d, over)} :
          /\ shown' = d /\ Adopts(p)
          /\ hydrates' = (p.active = NoDesign \/ \A s \in Design : d[s] \notin Wrapper)
    /\ scouts' = {} /\ guards' = {} /\ hidden' = {}

Quiet == UNCHANGED <<owned, over, accepted, file, scouts, refreshes>>
Still == UNCHANGED <<shown, hidden, guards, hydrates>>
Acted == streak' = [s \in Design |-> 0]

-----------------------------------------------------------------------------
(* The user.                                                               *)

Configure ==
    /\ active = NoDesign /\ revision < MaxRevisions
    /\ Adopts([Page EXCEPT !.revision = @ + 1, !.configures = TRUE])
    /\ Acted /\ Still /\ Quiet

Unconfigure ==
    /\ configures /\ Adopts([Page EXCEPT !.configures = FALSE])
    /\ Acted /\ Still /\ Quiet

Start(s) ==
    /\ configures /\ s \notin over /\ file[s] = "clean"
    /\ \A r \in Design : r < s => r \in over   \* ids in the order of Go
    /\ Adopts(Opens(Page, s))
    /\ Acted /\ Still /\ Quiet

\* The microtask of scheduleAcceptCleanup lets the session go at once.
Accepted(s) ==
    /\ active = s /\ file[s] = "variants" /\ s \notin over
    /\ over' = over \cup {s} /\ accepted' = accepted \cup {s}
    /\ scouts' = {x \in scouts : x.id # s} \cup {[id |-> s, rev |-> revision]}
    /\ LET p == [Page EXCEPT !.timers = @ \cup {Timer("accept", s, revision)}
                                          \cup (IF shown[s] \in Wrapper
                                                THEN {Timer("reload", s, revision)} ELSE {}),
                             !.stamps[s] = IF shown[s] \in Wrapper THEN 1 ELSE @]
       IN  Adopts([p EXCEPT !.active = NoDesign, !.cached = NoDesign, !.configures = FALSE])
    /\ Acted /\ Still /\ UNCHANGED <<owned, file, refreshes>>

Discarded(s) ==
    /\ active = s /\ over' = over \cup {s}
    /\ hidden' = IF shown[s] \in Wrapper THEN hidden \cup {s} ELSE hidden
    /\ Adopts([Page EXCEPT !.active = NoDesign, !.cached = NoDesign, !.configures = FALSE,
                           !.timers = @ \cup {Timer("discard", s, revision)}])
    /\ Acted /\ UNCHANGED <<owned, accepted, file, shown, scouts, guards, hydrates, refreshes>>

UserReloads ==
    /\ refreshes < MaxRefreshes /\ refreshes' = refreshes + 1
    /\ ReloadsPage /\ Acted /\ UNCHANGED <<owned, over, accepted, file>>

-----------------------------------------------------------------------------
(* The timers.                                                             *)

Fires(x) == x \in timers
Spent(x) == [Page EXCEPT !.timers = @ \ {x}]
Ignores(x) == Adopts(Spent(x)) /\ Still /\ UNCHANGED streak
Leaves(x, k) ==
    /\ Adopts([Page EXCEPT !.timers = (@ \ {x}) \cup {Timer(k, x.id, x.rev)}])
    /\ Still /\ UNCHANGED streak

ReloadsFor(s) ==
    /\ ReloadsPage /\ streak' = [streak EXCEPT ![s] = @ + 1]
    /\ UNCHANGED <<owned, over, accepted, file, refreshes>>

Stale(x) == Superseded(Page, x.id, x.rev)

\* 1.2 s after an accept: ensureAcceptedDomClean
AcceptTimer(x) ==
    /\ Fires(x) /\ x.kind = "accept"
    /\ \/ /\ Stale(x) \/ shown[x.id] = "clean"
          /\ Ignores(x) /\ Quiet
       \/ /\ ~Stale(x) /\ shown[x.id] # "clean" /\ owned
          /\ Leaves(x, "settle") /\ Quiet
       \/ /\ ~Stale(x) /\ shown[x.id] # "clean" /\ ~owned
          /\ Mutates(Spent(x), [shown EXCEPT ![x.id] = "clean"], hidden)
          /\ UNCHANGED streak /\ Quiet
       \/ /\ ~Stale(x) /\ shown[x.id] \in {"missing", "carbonize"} /\ ~owned
          /\ ReloadsFor(x.id)

\* 2 s later, where a framework owns the document
SettleTimer(x) ==
    /\ Fires(x) /\ x.kind = "settle"
    /\ IF Stale(x) \/ shown[x.id] = "clean" THEN Ignores(x) /\ Quiet ELSE ReloadsFor(x.id)

\* 3 s after a handled wrapper was seen
ReloadTimer(x) ==
    /\ Fires(x) /\ x.kind = "reload"
    /\ IF ~Stale(x) /\ shown[x.id] \in Wrapper THEN ReloadsFor(x.id)
       ELSE /\ Adopts([Spent(x) EXCEPT !.stamps[x.id] = 0])
            /\ streak' = [streak EXCEPT ![x.id] = 0]
            /\ Still /\ Quiet

LetsGo(x) ==
    /\ Mutates(Spent(x), [shown EXCEPT ![x.id] = "clean"], hidden \ {x.id})
    /\ UNCHANGED streak /\ Quiet

\* watchForDiscardedFrameworkWrapperRemoval, which waits 12 s
Watched(x) ==
    /\ Adopts(Spent(x)) /\ guards' = guards \cup {x.id}
    /\ UNCHANGED <<shown, hidden, hydrates, streak>> /\ Quiet

Unhides(x) ==
    /\ Adopts(Spent(x)) /\ hidden' = hidden \ {x.id}
    /\ UNCHANGED <<shown, guards, hydrates, streak>> /\ Quiet

\* 2 s after a discard
DiscardTimer(x) ==
    /\ Fires(x) /\ x.kind = "discard"
    /\ \/ shown[x.id] \notin Wrapper /\ Unhides(x)
       \/ shown[x.id] \in Wrapper /\ ~owned /\ LetsGo(x)
       \/ shown[x.id] \in Wrapper /\ owned /\ Stale(x) /\ Watched(x)
       \/ shown[x.id] \in Wrapper /\ owned /\ ~Stale(x) /\ Leaves(x, "linger") /\ Quiet

\* Mutant of LingerTimer: a superseded recovery is dropped.
LingerTimerDrops(x) ==
    /\ Fires(x) /\ x.kind = "linger"
    /\ \/ shown[x.id] \notin Wrapper /\ Unhides(x)
       \/ shown[x.id] \in Wrapper /\ Stale(x) /\ Ignores(x) /\ Quiet
       \/ shown[x.id] \in Wrapper /\ ~Stale(x) /\ ReloadsFor(x.id)

\* 2 s later, where a framework owns the document
LingerTimer(x) ==
    /\ Fires(x) /\ x.kind = "linger"
    /\ \/ shown[x.id] \notin Wrapper /\ Unhides(x)
       \/ shown[x.id] \in Wrapper /\ Stale(x) /\ Watched(x)
       \/ shown[x.id] \in Wrapper /\ ~Stale(x) /\ ReloadsFor(x.id)

\* resolveStillMounted: it comes again as long as a replacement is going on
GuardTimer(s) ==
    /\ s \in guards /\ active = NoDesign /\ ~configures
    /\ ReloadsFor(s)

\* The 12 s of a watcher for a handled wrapper are over.
ScoutEnds(x) ==
    /\ x \in scouts /\ scouts' = scouts \ {x}
    /\ Adopts(Page) /\ Still /\ UNCHANGED <<owned, over, accepted, file, refreshes, streak>>

-----------------------------------------------------------------------------
(* The agent and the dev server.                                           *)

Writes(s, c) ==
    /\ file' = [file EXCEPT ![s] = c]
    /\ Adopts(Page) /\ Still /\ UNCHANGED <<owned, over, accepted, scouts, refreshes, streak>>

AgentCleans(s) ==
    \/ active = s /\ s \notin over /\ file[s] = "clean" /\ Writes(s, "variants")
    \/ s \in accepted /\ file[s] = "variants" /\ Writes(s, "carbonize")
    \/ s \in over /\ file[s] \in Wrapper /\ Writes(s, "clean")

\* The document follows the file, or an older state of it comes late, or the
\* component that shows it is unmounted.
Refresh(s, c) ==
    /\ c # shown[s]
    /\ \/ c = file[s] /\ UNCHANGED refreshes
       \/ /\ c = "missing" \/ (c = "variants" /\ s \in over) \/ (c = "carbonize" /\ s \in accepted)
          /\ c # file[s] /\ refreshes < MaxRefreshes /\ refreshes' = refreshes + 1
    /\ Mutates(Page, [shown EXCEPT ![s] = c], hidden)
    /\ UNCHANGED <<owned, over, accepted, file, scouts, streak>>

-----------------------------------------------------------------------------
RecoveryNext ==
    \/ Configure \/ Unconfigure \/ UserReloads
    \/ \E s \in Design : Start(s) \/ Accepted(s) \/ Discarded(s) \/ GuardTimer(s) \/ AgentCleans(s)
    \/ \E s \in Design, c \in Content : Refresh(s, c)
    \/ \E x \in timers : AcceptTimer(x) \/ SettleTimer(x) \/ ReloadTimer(x) \/ DiscardTimer(x) \/ LingerTimer(x)
    \/ \E x \in scouts : ScoutEnds(x)

RecoverySpec == RecoveryInit /\ [][RecoveryNext]_recoveryVars

-----------------------------------------------------------------------------
(* Properties.                                                             *)

\* A reload that puts a settled session right never takes away what the user
\* is at work on meanwhile, although the timers that lead to it were set long
\* before (the comment of liveInteractionRevision: "an older accept/discard
\* can never reload over a replacement configuration").
RecoverySparesReplacement ==
    [][\A s \in Design : streak'[s] > streak[s] => ~Replaced(s)]_recoveryVars

\* What a discard has hidden in the page is not forgotten: as long as the
\* variants are in the document, a timer or a watcher is left to restore the
\* original.
HiddenIsWatched ==
    \A s \in hidden : shown[s] \in Wrapper =>
        s \in guards \/ \E x \in timers : x.id = s /\ x.kind \in {"discard", "linger"}

\* Recovery does not give up too early, nor too late: what is hidden is watched,
\* and a dev server that goes on answering with what is over does not make the
\* page reload for ever; three reloads on end for one session are the most.
RecoveryEnds == HiddenIsWatched /\ \A s \in Design : streak[s] <= 3
=============================================================================
