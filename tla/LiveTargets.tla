---------------------------- MODULE LiveTargets ----------------------------
(***************************************************************************)
(* Targets that the agent names by selector (live-browser.js, "Agent-      *)
(* initiated targeting"): every tab of the page hears a request, one of    *)
(* them claims the helper's lease, scrolls to the element, renews the      *)
(* lease and presses Go.  Tabs that are busy or lack the element report    *)
(* that instead, and try again when this changes.                          *)
(*                                                                         *)
(* The helper is not part of the repository.  Its side is taken from what  *)
(* the page's code and comments say of it: a lease that lapses, a roll     *)
(* call of the tabs that cannot serve, one answer for a request.           *)
(***************************************************************************)
EXTENDS Naturals, FiniteSets

CONSTANTS Tab, Target,
          MaxTrips,   \* bounds the reloads, lost streams and elements that come and go
          MaxGoes     \* bounds the sessions that the users start themselves

VARIABLES tabs,     \* [Tab -> the script's state, see TabType]
          calls,    \* the answers, timers and late requests that are under way
          request,  \* [Target -> the helper's record, see RequestType]
          unheard,  \* the <<tab, target>> messages on their way to an open stream
          lacks,    \* the <<tab, target>> whose selector finds no element
          trips, goes

targetVars == <<tabs, calls, request, unheard, lacks, trips, goes>>

Nobody == "none"
Own  == "own"       \* a session that the user started

ASSUME TargetAssumption ==
    /\ Tab # {} /\ {Nobody, "gone", "verdict"} \cap Tab = {}
    /\ {Nobody, Own} \cap Target = {}
    /\ MaxTrips \in Nat /\ MaxGoes \in Nat

TabType == [open    : BOOLEAN,                     \* the event stream
            session : Target \cup {Own, Nobody},     \* currentSessionId, and who asked for it
            acting  : SUBSET Target,               \* agentTargetsSeen: these words of it
            done    : SUBSET Target,               \*   decide something
            again   : SUBSET Target]               \* busyDeclinedTargets

\* served: the tab whose result or generate event answered, or "verdict" for
\* an answer of the roll call; a lease may be kept by a page that is gone
RequestType == [pending : BOOLEAN, lease : Tab \cup {Nobody, "gone"},
                words   : SUBSET Tab, served : Tab \cup {Nobody, "verdict"}]

\* A claim reaches the helper at once and its answer takes time; a word that
\* the tab cannot serve, a generate event and a result may be late themselves.
Kind == {"start", "granted", "denied", "busy", "missing", "watch",
         "scroll", "renewed", "refused", "generate", "result", "superseded"}

Call(k, t, g) == [kind |-> k, tab |-> t, target |-> g]

TargetTypeOK ==
    /\ tabs \in [Tab -> TabType] /\ request \in [Target -> RequestType]
    /\ calls \subseteq [kind : Kind, tab : Tab, target : Target]
    /\ unheard \subseteq Tab \X Target /\ lacks \subseteq Tab \X Target
    /\ trips \in 0 .. MaxTrips /\ goes \in 0 .. MaxGoes

Fresh == [open |-> TRUE, session |-> Nobody, acting |-> {}, done |-> {}, again |-> {}]

TargetInit ==
    /\ tabs = [t \in Tab |-> Fresh]
    /\ \E asked \in SUBSET Target :
          /\ request = [g \in Target |-> [pending |-> g \in asked, lease |-> Nobody,
                                          words |-> {}, served |-> Nobody]]
          /\ unheard = Tab \X asked
    /\ calls = {}
    /\ lacks \in {{}, {CHOOSE t \in Tab : TRUE} \X Target}
    /\ trips \in 0 .. MaxTrips /\ goes \in 0 .. MaxGoes

-----------------------------------------------------------------------------
(* What the functions of the page do, as operators on the state that a     *)
(* step of it can change: its own, what is under way, and what the helper  *)
(* keeps.  One step may call several.                                      *)

State(t) == [tab |-> tabs[t], calls |-> calls, request |-> request]

Becomes(t, s) ==
    /\ tabs' = [tabs EXCEPT ![t] = s.tab] /\ calls' = s.calls /\ request' = s.request

Sends(s, kind, t, g) == [s EXCEPT !.calls = @ \cup {Call(kind, t, g)}]

\* claimAgentTarget with eligible = true takes back the tab's word
Grantable(s, t, g) == s.request[g].pending /\ s.request[g].lease \in {Nobody, t}

AsksLease(s, t, g, yes, no) ==
    LET ok == Grantable(s, t, g) IN
    [s EXCEPT !.request[g].lease = IF ok THEN t ELSE @,
              !.request[g].words = @ \ {t},
              !.calls = IF ok THEN @ \cup {Call(yes, t, g)}
                        ELSE IF s.request[g].pending \/ no = "refused" THEN @ \cup {Call(no, t, g)}
                        ELSE @]

\* Mutant of Busy: a target in progress is no reason to refuse another one.
BusyWithSession(tab, g) == tab.session # Nobody

\* agentTargetBusyReason
Busy(tab, g) == tab.session # Nobody \/ tab.acting \ {g} # {}

DeclinesBusy(s, t, g) ==
    Sends([s EXCEPT !.tab.again = @ \cup {g}, !.tab.acting = @ \ {g}], "busy", t, g)

ReportsMissing(s, t, g) == Sends([s EXCEPT !.tab.acting = @ \ {g}], "missing", t, g)

\* A page goes on with a target only if it is free and has the element.
Able(s, t, g) == ~Busy(s.tab, g) /\ <<t, g>> \notin lacks

Declines(s, t, g) ==
    IF Busy(s.tab, g) THEN DeclinesBusy(s, t, g) ELSE ReportsMissing(s, t, g)

\* claimAndActOnAgentTarget
Claims(s, t, g) ==
    IF Able(s, t, g) THEN AsksLease(s, t, g, "granted", "denied") ELSE Declines(s, t, g)

\* retryDeclinedAgentTargets; no claim is answered before the last one is made,
\* and each changes what is kept of its own target
Retries(s, t) ==
    IF s.tab.session # Nobody \/ s.tab.acting # {} THEN s
    ELSE LET after(g) == Claims(s, t, g)
         IN  [s EXCEPT !.tab.again = {},
                       !.calls = @ \cup UNION {after(g).calls : g \in s.tab.again},
                       !.request = [g \in Target |-> IF g \in s.tab.again THEN after(g).request[g]
                                                     ELSE @[g]]]

Is(k, c) == c \in calls /\ c.kind = k

\* the state of the tab of c when the handler of c begins
Then(c) == [State(c.tab) EXCEPT !.calls = @ \ {c}]

-----------------------------------------------------------------------------
(* The page.                                                               *)

Hears(t, g) ==
    /\ <<t, g>> \in unheard
    /\ unheard' = unheard \ {<<t, g>>}
    /\ Becomes(t, IF g \in tabs[t].acting \cup tabs[t].done THEN State(t)   \* agentTargetTaken
                  ELSE IF Able(State(t), t, g) THEN Sends(State(t), "start", t, g)
                  ELSE Declines(State(t), t, g))
    /\ UNCHANGED <<lacks, trips, goes>>

\* the first claim, or the retry of one that was denied
StartFires(c) ==
    /\ Is("start", c) \/ Is("denied", c)
    /\ Becomes(c.tab, Claims(Then(c), c.tab, c.target))

\* actOnAgentTarget
ClaimGranted(c) ==
    LET s == [Then(c) EXCEPT !.tab.acting = @ \cup {c.target}] IN
    /\ Is("granted", c)
    /\ Becomes(c.tab, IF Able(s, c.tab, c.target) THEN Sends(s, "scroll", c.tab, c.target)
                      ELSE Declines(s, c.tab, c.target))

\* watchAgentTargetResolution
WatchFires(c) ==
    /\ Is("watch", c)
    /\ Becomes(c.tab, IF c.target \in tabs[c.tab].acting \cup tabs[c.tab].done THEN Then(c)
                      ELSE Claims(Then(c), c.tab, c.target))

ScrollEnds(c) ==
    /\ Is("scroll", c)
    /\ Becomes(c.tab, AsksLease(Then(c), c.tab, c.target, "renewed", "refused"))

EndsActing(s, g) == [s EXCEPT !.tab.acting = @ \ {g}, !.tab.done = @ \cup {g}]

\* the rest of actOnAgentTarget, with handleGo: a new session, whatever there was
Goes(c) ==
    LET s == EndsActing([Then(c) EXCEPT !.tab.session = c.target], c.target) IN
    /\ Is("renewed", c)
    /\ Becomes(c.tab, Sends(Sends(s, "generate", c.tab, c.target), "result", c.tab, c.target))

StandsDown(c) ==
    /\ Is("refused", c)
    /\ Becomes(c.tab, EndsActing(Then(c), c.target))

\* abandonSupersededGo
Abandons(c) ==
    /\ Is("superseded", c)
    /\ Becomes(c.tab, IF tabs[c.tab].session = c.target
                      THEN Retries([Then(c) EXCEPT !.tab.session = Nobody], c.tab) ELSE Then(c))

PageHandles(c) ==
    /\ \/ StartFires(c) \/ ClaimGranted(c) \/ WatchFires(c) \/ ScrollEnds(c)
       \/ Goes(c) \/ StandsDown(c) \/ Abandons(c)
    /\ UNCHANGED <<unheard, lacks, trips, goes>>

-----------------------------------------------------------------------------
(* The user: a Go of his own, also while a target scrolls, and the end of  *)
(* the session in the tab.                                                 *)

UserGoes(t) ==
    /\ goes < MaxGoes /\ tabs[t].session = Nobody
    /\ tabs' = [tabs EXCEPT ![t].session = Own]
    /\ goes' = goes + 1
    /\ UNCHANGED <<calls, request, unheard, lacks, trips>>

SessionEnds(t) ==
    /\ tabs[t].session # Nobody
    /\ \A c \in calls : c.tab = t => c.kind \notin {"generate", "superseded"}
    /\ Becomes(t, Retries([State(t) EXCEPT !.tab.session = Nobody], t))
    /\ UNCHANGED <<unheard, lacks, trips, goes>>

-----------------------------------------------------------------------------
(* The helper.                                                             *)

Connected == {t \in Tab : tabs[t].open}

\* a word that the tab cannot serve now also hands its lease back; a tab that
\* lacks the element looks again while the request is pending
WordArrives(c) ==
    LET s == [Then(c) EXCEPT !.request[c.target].words = @ \cup {c.tab},
                             !.request[c.target].lease = IF @ = c.tab THEN Nobody ELSE @]
    IN  /\ Is("busy", c) \/ Is("missing", c)
        /\ Becomes(c.tab, IF c.kind = "missing" /\ request[c.target].pending
                          THEN Sends(s, "watch", c.tab, c.target) ELSE s)

\* the generate event or the result, whichever lands first, answers
GoArrives(c) ==
    LET r == request[c.target]
        s == [Then(c) EXCEPT !.request[c.target].pending = FALSE,
                             !.request[c.target].served = IF r.pending THEN c.tab ELSE @]
    IN  /\ Is("generate", c) \/ Is("result", c)
        /\ Becomes(c.tab, IF c.kind = "generate" /\ ~r.pending /\ r.served # c.tab
                          THEN Sends(s, "superseded", c.tab, c.target) ELSE s)

HelperHandles(c) ==
    /\ WordArrives(c) \/ GoArrives(c)
    /\ UNCHANGED <<unheard, lacks, trips, goes>>

LeaseLapses(g) ==
    /\ request[g].lease # Nobody
    /\ request' = [request EXCEPT ![g].lease = Nobody]
    /\ UNCHANGED <<tabs, calls, unheard, lacks, trips, goes>>

Answers(g) ==
    /\ request[g].pending
    /\ request' = [request EXCEPT ![g].pending = FALSE, ![g].served = "verdict"]
    /\ UNCHANGED <<tabs, calls, unheard, lacks, trips, goes>>

\* every connected tab has given its word, and nobody holds the lease
RollCall(g) ==
    /\ request[g].lease = Nobody /\ Connected # {} /\ Connected \subseteq request[g].words
    /\ Answers(g)

TimesOut(g) == Answers(g)

-----------------------------------------------------------------------------
(* Trouble.                                                                *)

Trip == trips < MaxTrips /\ trips' = trips + 1

\* the words of a closed connection are dropped
StreamCloses(t) ==
    /\ Trip /\ tabs[t].open
    /\ tabs' = [tabs EXCEPT ![t].open = FALSE]
    /\ request' = [g \in Target |-> [request[g] EXCEPT !.words = @ \ {t}]]
    /\ unheard' = unheard \ ({t} \X Target)
    /\ UNCHANGED <<calls, lacks, goes>>

\* the helper replays what is pending
StreamOpens(t) ==
    /\ ~tabs[t].open
    /\ tabs' = [tabs EXCEPT ![t].open = TRUE]
    /\ unheard' = unheard \cup ({t} \X {g \in Target : request[g].pending})
    /\ UNCHANGED <<calls, request, lacks, trips, goes>>

\* a new load has a new client id: the lease of the old one lapses; requests
\* that were sent arrive, and a session is resumed
Reloads(t) ==
    /\ Trip
    /\ tabs' = [tabs EXCEPT ![t] = [Fresh EXCEPT !.open = FALSE, !.session = tabs[t].session]]
    /\ calls' = {c \in calls : c.tab = t => c.kind \in {"generate", "result", "superseded"}}
    /\ request' = [g \in Target |-> [request[g] EXCEPT !.words = @ \ {t},
                                                       !.lease = IF @ = t THEN "gone" ELSE @]]
    /\ unheard' = unheard \ ({t} \X Target)
    /\ UNCHANGED <<lacks, goes>>

ElementComesOrGoes(t, g) ==
    /\ Trip
    /\ lacks' = IF <<t, g>> \in lacks THEN lacks \ {<<t, g>>} ELSE lacks \cup {<<t, g>>}
    /\ UNCHANGED <<tabs, calls, request, unheard, goes>>

-----------------------------------------------------------------------------
TargetNext ==
    \/ \E c \in calls : PageHandles(c) \/ HelperHandles(c)
    \/ \E t \in Tab : UserGoes(t) \/ SessionEnds(t) \/ StreamCloses(t) \/ StreamOpens(t) \/ Reloads(t)
    \/ \E g \in Target : LeaseLapses(g) \/ RollCall(g) \/ TimesOut(g)
    \/ \E t \in Tab, g \in Target : Hears(t, g) \/ ElementComesOrGoes(t, g)

TargetSpec == TargetInit /\ [][TargetNext]_targetVars

-----------------------------------------------------------------------------
\* The claim of the comment at agentTargetBusyReason that the Go for one target does
\* not replace the session of another.  A renewal under way breaks it when the
\* stream was replaced during the claim.
TargetsKeepApart ==
    [][\A t \in Tab, g \in Target :
         tabs[t].session = g => tabs'[t].session \in {g, Nobody}]_targetVars

\* When two tabs pressed Go for one request, because a lease lapsed on the way,
\* the one that was not first keeps its session only until the helper's word
\* reaches it (abandonSupersededGo).
OneTabKeepsTheTarget ==
    \A t \in Tab, g \in Target :
        tabs[t].session = g /\ request[g].served \notin {t, Nobody} =>
            \E c \in calls : c \in {Call("generate", t, g), Call("superseded", t, g)}

\* Two requests never meet in one tab, which acts on one of them at a time
\* (agentTargetBusyReason, asked before a claim and after it), and two tabs
\* never keep one request.
TabsAgreeOnTargets ==
    OneTabKeepsTheTarget /\ \A t \in Tab : Cardinality(tabs[t].acting) <= 1
=============================================================================
