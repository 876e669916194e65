---------------------------- MODULE LiveSession ----------------------------
(***************************************************************************)
(* The page script of the design tool that the repository carries          *)
(* (live-browser.js, live-browser-session.js): the user picks an element,  *)
(* presses Go, an agent writes variants of it into the source file, the    *)
(* user steps through them and accepts one or discards all.                *)
(*                                                                         *)
(* One tab.  What a handler does up to its next await, timer or answer is  *)
(* one step.  The helper (server), the source file and the hot reload that *)
(* brings it into the page are external: they are what the script is       *)
(* written against.  A wrapper is the element that holds the variants of a *)
(* session: source[s] and dom[s] count the variants in it, Missing is no   *)
(* wrapper.                                                                *)
(*                                                                         *)
(* Left out: compiled component previews, manual text edits, steering      *)
(* (modules of their own), layout, and the deferred clean-up of wrappers.  *)
(***************************************************************************)
EXTENDS Integers, Sequences, FiniteSets

CONSTANTS Session,    \* the session ids, in the order of Go
          Variants,   \* how many variants a Go asks for
          Retries,    \* COMPLETED_SOURCE_FALLBACK_RETRIES
          Jsx,        \* the sessions whose source file is JSX
          Inserts,    \* the sessions of handleInsertCreate: no variant "original"
          MaxPosts,   \* bound: POSTs in flight when another one is begun
          MaxEvents,  \* bound: messages in flight on the event stream
          MaxFaults   \* bound: reloads, lost lines, failed requests and the like

None    == 0
Missing == -1

ASSUME SessionAssumption ==
    Session \subseteq Nat \ {0} /\ Jsx \subseteq Session /\ Inserts \subseteq Session
ASSUME VariantAssumption == Variants \in Nat \ {0} /\ Retries \in Nat

VARIABLES page,      \* the variables of the script, see PageType
          stored,    \* the session in localStorage
          handled,   \* the ids of settled sessions in localStorage
          capture,   \* annotated Gos whose screenshot is still being taken
          queued,    \* checkpointTimer is set
          pulls,     \* reads of the source file that are under way or due
          posts,     \* POSTs in flight, with their answers
          events,    \* messages on the event stream
          server,    \* what the helper's journal says of a session
          source,    \* the wrapper in the source file
          dom,       \* the wrapper in the page
          faults     \* how many of the MaxFaults have happened

vars == <<page, stored, handled, capture, queued, pulls, posts, events, server, source, dom,
          faults>>
helper == <<server, source, dom, faults>>

NoSaved == [id |-> None, state |-> "IDLE", arrived |-> 0, visible |-> 0]

PageType == [ui : {"IDLE", "PICKING", "CONFIGURING", "GENERATING", "CYCLING", "SAVING"},
             current  : Session \cup {None},    \* currentSessionId
             arrived  : 0..Variants,            \* arrivedVariants
             visible  : 0..Variants,            \* visibleVariant
             pending  : Session \cup {None},    \* pendingAcceptedSession
             awaiting : Session \cup {None},    \* awaitingAcceptResult
             obs      : Session \cup {None},    \* variantObserver
             scout    : BOOLEAN,                \* init's deferred-wrapper scout
             told     : BOOLEAN,                \* a toast says why nothing shows
             line     : {"up", "down", "closed"}]   \* evtSource

PullType == [s : Session, why : {"done", "orphan", "plain", "anchor"},
             tries : 0..Retries, read : BOOLEAN]

PostType == [type : {"generate", "checkpoint", "accept", "discard"}, s : Session,
             at : {"out", "ok", "no", "unknown"}, heard : BOOLEAN,
             after : Session \cup {None}]   \* sessionCreationGate

Live(x) == x \in {"open", "done"}
Listed(x) == x \in {"open", "done", "accepting", "discarding"}

Event(type, s) == [type |-> type, s |-> s, view |-> server]

-----------------------------------------------------------------------------
(* The cache in localStorage.                                              *)

Saving(q) ==
    IF q.current = None THEN stored
    ELSE [id |-> q.current, state |-> q.ui, arrived |-> q.arrived, visible |-> q.visible]

Mark(s) == handled \cup ({s} \ {None})

-----------------------------------------------------------------------------
(* Pieces of the handlers.  q is the page before.                          *)

Shows(q) == page' = q /\ stored' = Saving(q)

NoAnchor == {p \in pulls : p.why # "anchor"}

Cleaned(q) == [q EXCEPT !.ui = "PICKING", !.current = None, !.obs = None]

CleansUp(q, ps) ==
    /\ page' = Cleaned(q) /\ stored' = NoSaved
    /\ pulls' = {p \in ps : p.why # "anchor"}

\* cleanupAcceptedSession, with the microtask that calls it
CleanedAccepted(q) ==
    /\ page' = [Cleaned(q) EXCEPT !.pending = None]
    /\ stored' = NoSaved

\* which variant is shown of n that are there
Chosen(q, s, n) ==
    IF q.current = s /\ q.visible \in 1..n THEN q.visible
    ELSE IF stored.id = s /\ stored.visible \in 1..n THEN stored.visible ELSE 1

\* ensureCyclingRenderable, where something has arrived
Renders(q) == [q EXCEPT !.ui = "CYCLING",
                        !.visible = IF q.visible \in 1..q.arrived THEN q.visible ELSE 1]

\* The observer's answer to n variants of session s in the page.
Observed(q, s, n) ==
    IF q.obs # s \/ n <= q.arrived THEN q
    ELSE Renders([q EXCEPT !.arrived = n,
                           !.visible = IF q.visible = 0 THEN Chosen(q, s, n) ELSE q.visible])

\* The rest of resumeSession for a wrapper of an open session.
Resumed(q, s, n) ==
    [q EXCEPT !.ui = IF n > 0 THEN "CYCLING" ELSE "GENERATING",
              !.current = s, !.arrived = n, !.obs = s, !.scout = FALSE,
              !.visible = IF n = 0 THEN 0
                          ELSE IF stored.id = s /\ stored.visible \in 1..n
                               THEN stored.visible ELSE 1]

Gate == IF \E p \in posts : p.type = "generate" /\ p.at = "out"
        THEN (CHOOSE p \in posts : p.type = "generate" /\ p.at = "out").s ELSE None

Room == Cardinality(posts) < MaxPosts

Post(type, s) == [type |-> type, s |-> s, at |-> "out", heard |-> TRUE,
                  after |-> IF type = "generate" THEN None ELSE Gate]

Pull(s, why, tries, read) == [s |-> s, why |-> why, tries |-> tries, read |-> read]

-----------------------------------------------------------------------------
Init ==
    /\ page = [ui |-> "PICKING", current |-> None, arrived |-> 0, visible |-> 0,
               pending |-> None, awaiting |-> None, obs |-> None,
               scout |-> TRUE, told |-> FALSE, line |-> "up"]
    /\ stored = NoSaved /\ handled = {} /\ capture = {} /\ queued = FALSE
    /\ pulls = {} /\ posts = {} /\ events = <<>>
    /\ server = [s \in Session |-> "none"]
    /\ source = [s \in Session |-> Missing]
    /\ dom = [s \in Session |-> Missing]
    /\ faults = 0

Used == {s \in Session : \/ server[s] # "none" \/ s \in handled \cup capture
                         \/ s \in {page.current, stored.id, page.awaiting, page.pending}
                         \/ \E p \in posts : p.s = s}

-----------------------------------------------------------------------------
(* The user.                                                               *)

Fault == faults < MaxFaults /\ faults' = faults + 1

UserOnly == UNCHANGED <<handled, pulls, events, helper>>

Pick ==
    /\ page.ui = "PICKING"
    /\ page' = [page EXCEPT !.ui = "CONFIGURING"]
    /\ UserOnly /\ UNCHANGED <<stored, capture, queued, posts>>

Unpick ==
    /\ page.ui = "CONFIGURING"
    /\ page' = [page EXCEPT !.ui = "PICKING"]
    /\ UserOnly /\ UNCHANGED <<stored, capture, queued, posts>>

Begins(s) == [page EXCEPT !.ui = "GENERATING", !.current = s, !.arrived = 0, !.visible = 0,
                          !.pending = None, !.awaiting = None, !.obs = s, !.told = FALSE]

\* Mutant of NewSession: the session is saved when its first variant arrives.
NewSessionUnsaved(s) ==
    /\ page.ui = "CONFIGURING"
    /\ \A t \in Used : t < s
    /\ page' = Begins(s) /\ UNCHANGED stored
    /\ UserOnly /\ UNCHANGED queued

\* handleGo and handleInsertCreate: a new session, saved before it is sent
NewSession(s) ==
    /\ page.ui = "CONFIGURING"
    /\ \A t \in Used : t < s
    /\ Shows(Begins(s))
    /\ UserOnly /\ UNCHANGED queued

Go(s) ==
    /\ Room /\ NewSession(s)
    /\ posts' = posts \cup {Post("generate", s)}
    /\ UNCHANGED capture

GoAnnotated(s) ==
    /\ NewSession(s)
    /\ capture' = capture \cup {s}
    /\ UNCHANGED posts

\* the capture and the upload are over: the request is sent, whatever is current
CaptureEnds(s) ==
    /\ s \in capture /\ Room
    /\ capture' = capture \ {s}
    /\ posts' = posts \cup {Post("generate", s)}
    /\ UserOnly /\ UNCHANGED <<page, stored, queued>>

SelectVariant(n) ==
    /\ page.ui = "CYCLING" /\ n \in 1..page.arrived /\ n # page.visible
    /\ Shows([page EXCEPT !.visible = n])
    /\ queued' = TRUE
    /\ UserOnly /\ UNCHANGED <<capture, posts>>

Accept ==
    /\ Room
    /\ page.ui = "CYCLING" /\ page.pending = None
    /\ page.current # None /\ page.arrived > 0
    /\ Shows([page EXCEPT !.ui = "SAVING", !.pending = page.current])
    /\ posts' = posts \cup {Post("accept", page.current)}
    /\ UserOnly /\ UNCHANGED <<capture, queued>>

Discard ==
    /\ Room
    /\ page.ui = "CYCLING" /\ page.current # None
    /\ posts' = posts \cup {Post("discard", page.current)}
    /\ UserOnly /\ UNCHANGED <<page, stored, capture, queued>>

\* live mode is left: cleanup without a word to the helper
Exit ==
    /\ Fault
    /\ page.line # "closed"
    /\ page' = [Cleaned(page) EXCEPT !.ui = "IDLE", !.line = "closed"]
    /\ stored' = NoSaved /\ pulls' = NoAnchor /\ events' = <<>>
    /\ UNCHANGED <<handled, capture, queued, posts, server, source, dom>>

-----------------------------------------------------------------------------
(* sendEvent and the answers.                                              *)

\* checkpointTimer: the session that is current when it fires is reported.  To
\* a helper that knows the session a checkpoint changes nothing modelled here.
CheckpointFires ==
    /\ Room /\ queued /\ queued' = FALSE
    /\ posts' = posts \cup
                  {Post("checkpoint", s) : s \in {t \in {page.current} \ {None} : server[t] = "none"}}
    /\ UNCHANGED <<page, stored, handled, capture, pulls, events, helper>>

Gated(p) == \E g \in posts : g.type = "generate" /\ g.at = "out" /\ g.s = p.after

Answered(p, a) == posts' = (posts \ {p}) \cup (IF p.heard THEN {[p EXCEPT !.at = a]} ELSE {})

PostArrives(p) ==
    /\ p.at = "out" /\ ~Gated(p)
    /\ \/ /\ p.type = "generate" /\ server' = [server EXCEPT ![p.s] = "open"]
          /\ Answered(p, "ok")
       \/ /\ p.type = "checkpoint" /\ UNCHANGED server
          /\ Answered(p, IF server[p.s] = "none" THEN "unknown" ELSE "ok")
       \/ /\ p.type = "accept" /\ Live(server[p.s])
          /\ server' = [server EXCEPT ![p.s] = "accepting"] /\ Answered(p, "ok")
       \/ /\ p.type = "discard" /\ Live(server[p.s])
          /\ server' = [server EXCEPT ![p.s] = "discarding"] /\ Answered(p, "ok")
       \/ /\ p.type \in {"accept", "discard"} /\ ~Live(server[p.s])
          /\ UNCHANGED server /\ Answered(p, "no")
    /\ UNCHANGED <<page, stored, handled, capture, queued, pulls, events, source, dom, faults>>

PostFails(p) ==
    /\ Fault
    /\ p.at = "out" /\ ~Gated(p) /\ Answered(p, "no")
    /\ UNCHANGED <<page, stored, handled, capture, queued, pulls, events, server, source, dom>>

Reply(p, type, a) == p.type = type /\ p.at \in a /\ posts' = posts \ {p}

\* a refused or failed generate is dropped, the page goes on waiting
GenerateAnswered(p) ==
    /\ Reply(p, "generate", {"ok", "no"})
    /\ UNCHANGED <<page, stored, handled, capture, queued, pulls, events, helper>>

AbandonForeignSession(p) ==
    /\ Reply(p, "checkpoint", {"unknown"}) /\ p.s = page.current
    /\ handled' = Mark(p.s) /\ CleansUp(page, pulls)
    /\ UNCHANGED <<capture, queued, events, helper>>

CheckpointAnswered(p) ==
    /\ Reply(p, "checkpoint", {"ok", "no", "unknown"})
    /\ p.at = "unknown" => p.s # page.current
    /\ UNCHANGED <<page, stored, handled, capture, queued, pulls, events, helper>>

AcceptConfirmed(p) ==
    /\ Reply(p, "accept", {"ok"})
    /\ IF page.pending # p.s THEN UNCHANGED <<page, stored, handled>>
       ELSE /\ handled' = Mark(page.current)
            /\ CleanedAccepted([page EXCEPT !.awaiting = p.s])
    /\ UNCHANGED <<capture, queued, pulls, events, helper>>

\* The cycling bar is shown, but never empty (ensureCyclingRenderable).
\* Mutant of CyclesAgain: the bar is shown without variants, too.
CyclesAnyway(q) ==
    page' = Renders(q) /\ UNCHANGED <<stored, pulls>>

CyclesAgain(q) ==
    IF q.arrived = 0 THEN CleansUp(q, pulls)
    ELSE page' = Renders(q) /\ UNCHANGED <<stored, pulls>>

Released(q, s) == [q EXCEPT !.pending = IF q.pending = s THEN None ELSE q.pending]

AcceptRefused(p) ==
    /\ Reply(p, "accept", {"no"})
    /\ CyclesAgain(Released(page, p.s))
    /\ UNCHANGED <<handled, capture, queued, events, helper>>

\* marks and cleans up what is current by now
DiscardConfirmed(p) ==
    /\ Reply(p, "discard", {"ok"})
    /\ handled' = Mark(page.current) /\ CleansUp(page, pulls)
    /\ UNCHANGED <<capture, queued, events, helper>>

DiscardRefused(p) ==
    /\ Reply(p, "discard", {"no"})
    /\ UNCHANGED <<page, stored, handled, capture, queued, pulls, events, helper>>

Answer(p) == \/ GenerateAnswered(p) \/ AbandonForeignSession(p) \/ CheckpointAnswered(p)
             \/ AcceptConfirmed(p) \/ AcceptRefused(p)
             \/ DiscardConfirmed(p) \/ DiscardRefused(p)

-----------------------------------------------------------------------------
(* Restoring a session from the cache or from the helper's list.  view is  *)
(* the list; NoView where the caller has none.                             *)

NoView == [s \in Session |-> "none"]

Restorable(saved, view) ==
    /\ saved.id # None /\ saved.id \notin handled
    /\ saved.state \in {"GENERATING", "CYCLING"}
    /\ (\E s \in Session : Listed(view[s])) => Live(view[saved.id])

\* findAdoptableServerSession, in the shape of a cached session
Adoptable(view) ==
    {[id |-> s, state |-> "GENERATING", arrived |-> source[s], visible |-> 0]
       : s \in {t \in Session \ handled : Live(view[t]) /\ source[t] # Missing}}

Candidates(view) == IF stored.id # None THEN {stored} ELSE Adoptable(view)

CanRestore(view) == \E saved \in Candidates(view) : Restorable(saved, view)

\* The source file is read if the page knows which it is: the helper's list
\* names it, the cache may.  ps are the pulls before.
RestoreWithoutWrapper(q, view, ps) ==
    \E saved \in Candidates(view) :
        /\ Restorable(saved, view)
        /\ Shows([q EXCEPT !.ui = "GENERATING", !.current = saved.id, !.obs = saved.id,
                           !.arrived = saved.arrived,
                           !.visible = IF \/ saved.visible \in 1..saved.arrived
                                          \/ saved.arrived = 0 THEN saved.visible ELSE 1])
        /\ queued' = TRUE
        /\ LET why == IF saved.state = "CYCLING" THEN "orphan" ELSE "plain"
               told == saved # stored \/ (view[saved.id] # "none" /\ source[saved.id] # Missing)
           IN  pulls' \in {ps \cup {Pull(saved.id, why, 0, FALSE)}}
                              \cup IF told THEN {} ELSE {ps}

\* resumeSession: s is the wrapper it finds in the page, Missing-free d
ResumeAt(s, n, q, ps, tick) ==
    LET newer == s \in handled /\ stored.id \notin handled \cup {None, s}
    IN  \/ /\ newer /\ q.current # stored.id /\ CanRestore(NoView)
           /\ RestoreWithoutWrapper([q EXCEPT !.scout = FALSE], NoView, ps)
        \/ /\ s \in handled
           /\ ~(newer /\ q.current # stored.id /\ CanRestore(NoView))
           /\ page' = q /\ queued' = tick /\ pulls' = ps /\ UNCHANGED stored
        \/ /\ s \notin handled
           /\ Shows(Resumed(q, s, n)) /\ queued' = TRUE /\ pulls' = ps

Wrapped(d) == {s \in Session : d[s] # Missing}

ResumeWithout(q, ps, tick) ==
    IF CanRestore(NoView) THEN RestoreWithoutWrapper(q, NoView, ps)
    ELSE page' = q /\ stored' = NoSaved /\ queued' = tick /\ pulls' = ps

\* The script starts anew, in a page that has the wrappers of the source file
\* or, before hydration, none.  Answers to the old page are not heard.
Reload ==
    LET q == [page EXCEPT !.ui = "PICKING",
                          !.current = None, !.arrived = 0, !.visible = 0, !.pending = None,
                          !.awaiting = None, !.obs = None, !.scout = TRUE,
                          !.told = FALSE, !.line = "up"]
    IN  Fault /\ \E d \in {source, [s \in Session |-> Missing]} :
          /\ dom' = d
          /\ \/ Wrapped(d) = {} /\ ResumeWithout(q, {}, FALSE)
             \/ \E s \in Wrapped(d) : ResumeAt(s, d[s], q, {}, FALSE)
          /\ posts' = {[p EXCEPT !.heard = FALSE] : p \in {x \in posts : x.at = "out"}}
          /\ events' = <<Event("connected", None)>>
          /\ capture' = {}
          /\ UNCHANGED <<handled, server, source>>

-----------------------------------------------------------------------------
(* The page changes: hot reload brings the wrapper of s to what the source *)
(* file has.  The scout runs before the observer.                          *)

HotReload(s) ==
    /\ dom[s] # source[s]
    /\ dom' = [dom EXCEPT ![s] = source[s]]
    /\ IF page.scout /\ Wrapped(dom') # {}
       THEN \E t \in Wrapped(dom') :
                ResumeAt(t, dom'[t], [page EXCEPT !.scout = FALSE], pulls, queued)
       ELSE /\ IF source[s] = Missing \/ Observed(page, s, source[s]) = page
               THEN UNCHANGED <<page, stored>> ELSE Shows(Observed(page, s, source[s]))
            /\ UNCHANGED <<queued, pulls>>
    /\ UNCHANGED <<handled, capture, posts, events, server, source, faults>>

\* the component that holds the wrapper is unmounted (a closed modal)
Unmount(s) ==
    /\ Fault
    /\ dom[s] # Missing
    /\ dom' = [dom EXCEPT ![s] = Missing]
    /\ UNCHANGED <<page, stored, handled, capture, queued, pulls, posts, events, server, source>>

-----------------------------------------------------------------------------
(* Reads of the source file.                                               *)

\* recoverEmptyCycling and the cleanup of other sessions' leftovers
Drops(p) == pulls \ {p}
RecoversEmpty(p) ==
    CleansUp([page EXCEPT !.arrived = 0], Drops(p)) /\ UNCHANGED <<handled, queued, posts>>
Again(p) == Drops(p) \cup {[p EXCEPT !.tries = p.tries + 1, !.read = FALSE]}

Keeps(p) == /\ pulls' = Drops(p) /\ UNCHANGED <<page, stored, handled, queued, posts>>

TriesAgain(p) == /\ pulls' = Again(p) /\ UNCHANGED <<page, stored, handled, queued, posts>>

Tells(p) == /\ pulls' = Drops(p) /\ page' = [page EXCEPT !.told = TRUE]
            /\ UNCHANGED <<stored, handled, queued, posts>>

\* completeSourceInjection, with n variants in the wrapper
Complete(p, n) ==
    \/ /\ n > 0
       /\ Shows([page EXCEPT !.ui = "CYCLING", !.arrived = n, !.visible = Chosen(page, p.s, n)])
       /\ pulls' = {x \in NoAnchor : x # p} /\ UNCHANGED <<handled, queued, posts>>
    \/ /\ n = 0 /\ page.ui = "GENERATING" /\ p.why # "done"
       /\ page' = [page EXCEPT !.arrived = 0] /\ pulls' = {x \in NoAnchor : x # p}
       /\ UNCHANGED <<stored, handled, queued, posts>>
    \/ /\ n = 0 /\ page.ui = "GENERATING" /\ p.why = "done" /\ p.tries < Retries
       /\ page' = [page EXCEPT !.arrived = 0] /\ pulls' = {x \in Again(p) : x.why # "anchor"}
       /\ UNCHANGED <<stored, handled, queued, posts>>
    \/ /\ n = 0 /\ ~(page.ui = "GENERATING" /\ (p.why # "done" \/ p.tries < Retries))
       /\ RecoversEmpty(p)

\* an orphan: settled here, the helper is told as far as possible
DiscardOrphaned(p) ==
    /\ handled' = Mark(page.current) /\ CleansUp(page, Drops(p))
    /\ posts' = posts \cup {[Post("discard", page.current) EXCEPT !.heard = FALSE]}
    /\ UNCHANGED queued

NoWrapper(p) ==
    IF p.tries < Retries THEN TriesAgain(p) ELSE DiscardOrphaned(p)

\* Mutant of WrapperGone: whose orphan it is is not asked.
WrapperGoneAnyway(p) ==
    IF p.why = "orphan" /\ page.current # None THEN NoWrapper(p) ELSE Keeps(p)

WrapperGone(p) ==
    IF p.why = "orphan" /\ p.s = page.current THEN NoWrapper(p) ELSE Keeps(p)

InSession(p) == p.s = page.current /\ page.ui \in {"GENERATING", "CYCLING"}
AllArrived == page.arrived >= Variants

\* what the timer looks at before the file is read
Wanted(p) ==
    CASE p.why = "done"   -> /\ page.ui = "GENERATING" /\ page.current = p.s
                             /\ IF p.tries = 0 THEN ~AllArrived
                                ELSE p.s \in Jsx \/ page.arrived = 0
      [] p.why = "orphan" -> p.tries = 0 \/ InSession(p)
      [] p.why = "anchor" -> dom[p.s] # Missing
      [] OTHER -> TRUE

PullStarts(p) ==
    /\ ~p.read /\ p.s \notin Jsx
    /\ p.why = "anchor" => Wanted(p)
    /\ pulls' = IF Wanted(p) THEN Drops(p) \cup {[p EXCEPT !.read = TRUE,
                                    !.why = IF p.why = "anchor" THEN "plain" ELSE p.why]}
                ELSE Drops(p)
    /\ UNCHANGED <<page, stored, handled, capture, queued, posts, events, helper>>

\* the element the user picked is in the page again
AnchorAppears(p) ==
    /\ p.why = "anchor" /\ dom[p.s] = Missing /\ p.s \notin Jsx
    /\ pulls' = Drops(p) \cup {[p EXCEPT !.read = TRUE, !.why = "plain"]}
    /\ UNCHANGED <<page, stored, handled, capture, queued, posts, events, helper>>

\* enterRecoveryWaitingForAnchor: what the read was for is forgotten
WaitsForAnchor(p) ==
    /\ Shows([page EXCEPT !.ui = "GENERATING"])
    /\ pulls' = {x \in NoAnchor : x # p} \cup {Pull(p.s, "anchor", 0, FALSE)}
    /\ queued' = TRUE /\ UNCHANGED <<handled, posts>>

\* An insert has no original, so that nothing in the page can be replaced by a
\* wrapper that the page does not have yet.
Placeable(s) == s \notin Inserts \/ dom[s] # Missing

\* The HTML answer.  Whose turn it is is not asked again.  A wrapper that has no
\* place is passed over in silence.
HtmlRead(p) ==
    /\ p.read /\ p.s \notin Jsx
    /\ \/ /\ source[p.s] = Missing /\ UNCHANGED dom
          /\ WrapperGone(p)
       \/ /\ source[p.s] # Missing /\ Placeable(p.s)
          /\ dom' = [dom EXCEPT ![p.s] = source[p.s]]
          /\ Complete(p, source[p.s])
       \/ /\ source[p.s] # Missing /\ Placeable(p.s)
          /\ dom[p.s] = Missing /\ UNCHANGED dom
          /\ WaitsForAnchor(p)
       \/ /\ source[p.s] # Missing /\ ~Placeable(p.s) /\ UNCHANGED dom
          /\ Keeps(p)
    /\ UNCHANGED <<capture, events, server, source, faults>>

ReadFails(p) ==
    /\ Fault
    /\ p.read /\ p.s \notin Jsx /\ Tells(p)
    /\ UNCHANGED <<capture, events, server, source, dom>>

\* JSX is never injected: the page waits for the framework.
JsxLooks(p) ==
    /\ ~p.read /\ p.s \in Jsx
    /\ IF ~Wanted(p) THEN Keeps(p)
       ELSE IF dom[p.s] > 0 THEN Complete(p, dom[p.s])
       ELSE IF p.why = "done"
            THEN IF p.tries < Retries THEN TriesAgain(p)
                 ELSE IF dom[p.s] = Missing THEN Tells(p)
                 ELSE IF p.s \in Inserts THEN Keeps(p) ELSE RecoversEmpty(p)
       ELSE IF p.why = "orphan" /\ dom[p.s] = Missing /\ p.s = page.current
            THEN /\ pulls' = Drops(p) \cup {[p EXCEPT !.read = TRUE]}
                 /\ UNCHANGED <<page, stored, handled, queued, posts>>
       ELSE Keeps(p)
    /\ UNCHANGED <<capture, events, helper>>

\* probeJsxWrapperForOrphan
JsxProbed(p) ==
    /\ p.read /\ p.s \in Jsx
    /\ IF ~InSession(p) THEN Keeps(p)
       ELSE IF source[p.s] # Missing THEN Keeps(p) ELSE NoWrapper(p)
    /\ UNCHANGED <<capture, events, helper>>

ProbeFails(p) ==
    /\ Fault
    /\ p.read /\ p.s \in Jsx
    /\ IF ~InSession(p) THEN Keeps(p)
       ELSE IF p.tries < Retries THEN TriesAgain(p) ELSE Tells(p)
    /\ UNCHANGED <<capture, events, server, source, dom>>

PullStep(p) == PullStarts(p) \/ HtmlRead(p) \/ JsxLooks(p) \/ JsxProbed(p)

-----------------------------------------------------------------------------
(* The event stream.                                                       *)

Received(type) == /\ events # <<>> /\ Head(events).type = type
                  /\ events' = Tail(events)

Heard == Head(events).s

\* Mutant of Missed: what was missed while the line was down stays missed.
NothingMissed(q, view) == FALSE

\* recoverMissedGenerationCompletion
Missed(q, view) == /\ q.ui = "GENERATING" /\ q.current # None
                   /\ view[q.current] = "done" /\ q.arrived < Variants

Connected ==
    /\ Received("connected")
    /\ LET view == Head(events).view
           missed(q) == Missed(q, view)
       IN  IF Wrapped(dom) = {} /\ CanRestore(view)
           THEN \E ps \in {pulls} \cup {pulls \cup {Pull(s, "done", 0, FALSE)} : s \in Session} :
                  /\ RestoreWithoutWrapper(page, view, ps)
                  /\ ps = IF missed(page') THEN pulls \cup {Pull(page'.current, "done", 0, FALSE)}
                          ELSE pulls
           ELSE /\ pulls' = IF missed(page) THEN pulls \cup {Pull(page.current, "done", 0, FALSE)}
                            ELSE pulls
                /\ UNCHANGED <<page, stored, queued>>
    /\ UNCHANGED <<handled, capture, posts, helper>>

DoneReceived ==
    /\ Received("done")
    /\ IF AllArrived
       THEN /\ page' = IF page.ui = "GENERATING" THEN Renders(page) ELSE page
            /\ UNCHANGED pulls
       ELSE IF page.ui = "GENERATING" /\ Heard = page.current
            THEN pulls' = pulls \cup {Pull(Heard, "done", 0, FALSE)} /\ UNCHANGED page
       ELSE /\ page' = [page EXCEPT !.told = page.told \/ page.ui = "GENERATING"]
            /\ UNCHANGED pulls
    /\ UNCHANGED <<stored, handled, capture, queued, posts, helper>>

AcceptReceived ==
    /\ Received("accept")
    /\ LET q == [page EXCEPT !.awaiting = IF page.awaiting = Heard THEN None ELSE page.awaiting]
       IN  IF page.pending # Heard THEN page' = q /\ UNCHANGED <<stored, handled>>
           ELSE IF page.current \notin {None, Heard}
                THEN page' = [q EXCEPT !.pending = None] /\ UNCHANGED <<stored, handled>>
           ELSE handled' = Mark(page.current) /\ CleanedAccepted(q)
    /\ UNCHANGED <<capture, queued, pulls, posts, helper>>

DiscardedReceived ==
    /\ Received("discarded")
    /\ IF page.current = Heard THEN handled' = Mark(Heard) /\ CleansUp(page, pulls)
       ELSE UNCHANGED <<page, stored, handled, pulls>>
    /\ UNCHANGED <<capture, queued, posts, helper>>

ErrorReceived ==
    /\ Received("error")
    /\ IF page.pending = Heard
       THEN CyclesAgain([page EXCEPT !.pending = None, !.awaiting = None]) /\ UNCHANGED handled
       ELSE IF page.awaiting = Heard
       THEN page' = [page EXCEPT !.awaiting = None] /\ UNCHANGED <<stored, handled, pulls>>
       ELSE IF page.current = Heard
       THEN handled' = Mark(Heard) /\ CleansUp(page, pulls)
       ELSE /\ stored' = IF stored.id = Heard THEN NoSaved ELSE stored
            /\ page' = [page EXCEPT !.ui = "PICKING"]
            /\ UNCHANGED <<handled, pulls>>
    /\ UNCHANGED <<capture, queued, posts, helper>>

Deliver == Connected \/ DoneReceived \/ AcceptReceived \/ DiscardedReceived \/ ErrorReceived

LineBreaks ==
    /\ Fault
    /\ page.line = "up"
    /\ page' = [page EXCEPT !.line = "down"] /\ events' = <<>>
    /\ UNCHANGED <<stored, handled, capture, queued, pulls, posts, server, source, dom>>

Reconnect ==
    /\ page.line = "down"
    /\ page' = [page EXCEPT !.line = "up"] /\ events' = <<Event("connected", None)>>
    /\ UNCHANGED <<stored, handled, capture, queued, pulls, posts, helper>>

\* handleServerLost, after the last retry
ServerLost ==
    /\ Fault
    /\ page.line = "down"
    /\ Shows([page EXCEPT !.line = "closed", !.obs = None, !.told = TRUE,
                          !.ui = IF page.current = None THEN "IDLE" ELSE page.ui])
    /\ UNCHANGED <<handled, capture, queued, pulls, posts, events, server, source, dom>>

-----------------------------------------------------------------------------
(* The helper and the agent.                                               *)

Broadcast(type, s) ==
    /\ Len(events) < MaxEvents
    /\ events' = IF page.line = "up" THEN Append(events, Event(type, s)) ELSE events

AgentOnly == UNCHANGED <<page, stored, handled, capture, queued, pulls, posts, dom>>
AtWork == AgentOnly /\ UNCHANGED faults

\* the scaffold and then the variants, one by one
AgentWrites(s) ==
    /\ server[s] = "open" /\ source[s] < Variants
    /\ source' = [source EXCEPT ![s] = @ + 1]
    /\ AtWork /\ UNCHANGED <<events, server>>

\* a finished generation has all its variants, or (a failed one) none
AgentDone(s) ==
    /\ server[s] = "open" /\ source[s] \in {0, Variants}
    /\ server' = [server EXCEPT ![s] = "done"]
    /\ Broadcast("done", s)
    /\ AtWork /\ UNCHANGED source

AgentFails(s) ==
    /\ Fault
    /\ server[s] \in {"open", "accepting"}
    /\ server' = [server EXCEPT ![s] = "failed"]
    /\ Broadcast("error", s)
    /\ AgentOnly /\ UNCHANGED source

AgentPromotes(s) ==
    /\ server[s] = "accepting"
    /\ server' = [server EXCEPT ![s] = "saved"] /\ source' = [source EXCEPT ![s] = Missing]
    /\ Broadcast("accept", s)
    /\ AtWork

AgentDiscards(s) ==
    /\ server[s] = "discarding"
    /\ server' = [server EXCEPT ![s] = "discarded"] /\ source' = [source EXCEPT ![s] = Missing]
    /\ Broadcast("discarded", s)
    /\ AtWork

\* somebody edits a file the agent is through with, and the wrapper is gone
SourceIsEdited(s) ==
    /\ Fault
    /\ server[s] # "open" /\ source[s] # Missing /\ source' = [source EXCEPT ![s] = Missing]
    /\ AgentOnly /\ UNCHANGED <<events, server>>

Agent(s) == \/ AgentWrites(s) \/ AgentDone(s)
            \/ AgentPromotes(s) \/ AgentDiscards(s)

-----------------------------------------------------------------------------
User == \/ Pick \/ Unpick \/ Accept \/ Discard
        \/ \E s \in Session : Go(s) \/ GoAnnotated(s)
        \/ \E n \in 1..Variants : SelectVariant(n)

World == \/ Exit \/ Reload \/ LineBreaks \/ Reconnect \/ ServerLost
         \/ \E s \in Session : \/ HotReload(s) \/ Unmount(s)
                               \/ Agent(s) \/ AgentFails(s) \/ SourceIsEdited(s)

Script == \/ Deliver \/ CheckpointFires
          \/ \E s \in capture : CaptureEnds(s)
          \/ \E p \in posts : PostArrives(p) \/ PostFails(p) \/ Answer(p)
          \/ \E p \in pulls : \/ PullStep(p) \/ AnchorAppears(p)
                              \/ ReadFails(p) \/ ProbeFails(p)

Next == User \/ World \/ Script

Spec == Init /\ [][Next]_vars

-----------------------------------------------------------------------------
(* Properties.                                                             *)

\* The variables keep their types; in particular a read of the source file is
\* repeated at most Retries times.
LiveTypeOK ==
    /\ page \in PageType
    /\ stored \in [id : Session \cup {None}, arrived : 0..Variants, visible : 0..Variants,
                   state : {"IDLE", "PICKING", "CONFIGURING", "GENERATING", "CYCLING", "SAVING"}]
    /\ handled \subseteq Session /\ capture \subseteq Session /\ queued \in BOOLEAN
    /\ pulls \subseteq PullType /\ posts \subseteq PostType
    /\ source \in [Session -> Missing..Variants] /\ dom \in [Session -> Missing..Variants]
    /\ server \in [Session -> {"none", "open", "done", "accepting", "saved",
                               "discarding", "discarded", "failed"}]
    /\ faults \in 0..MaxFaults

\* A session that was settled in this browser is never worked on or kept in the
\* cache again, whatever wrapper, list or late answer turns up afterwards.
SettledIsGone == page.current \notin handled /\ stored.id \notin handled

\* A reload at any moment finds the session that is worked on, and no other one
\* that was settled.
CacheFollowsPage == SettledIsGone /\ (page.current # None => stored.id = page.current)

\* The cycling bar always has a variant to show (ensureCyclingRenderable), also
\* when a refused accept or an error brings it back.
CyclingShowsSomething ==
    page.ui = "CYCLING" /\ page.current # None =>
        page.arrived > 0 /\ page.visible \in 1..page.arrived

AnswersUser == \E p \in posts \ posts' : p.type \in {"accept", "discard"} /\ p.at = "ok"

WasUnknown(s) == \E p \in posts \ posts' : p.s = s /\ p.at = "unknown"

\* Except in the answer to the user's own accept or discard, only a session is
\* written off that is over at the helper, without a wrapper, or unknown to the
\* helper when it answered a report of progress.
OnlyOverIsWrittenOff ==
    [][AnswersUser \/ \A s \in handled' \ handled :
           ~Live(server[s]) \/ source[s] = Missing \/ WasUnknown(s)]_vars

-----------------------------------------------------------------------------
(* The browser delivers answers, messages and timers, and reconnects the   *)
(* stream; the user, the agent and the hot reload owe nothing.             *)

Fairness ==
    /\ WF_vars(Deliver) /\ WF_vars(Reconnect)
    /\ WF_vars(\E p \in posts : PostArrives(p) \/ Answer(p))
    /\ WF_vars(\E p \in pulls : PullStep(p))

LiveSpec == Spec /\ Fairness

WaitsFor(s) == page.current = s /\ page.ui = "GENERATING"
Finished(s) == server[s] = "done" /\ source[s] = Variants

\* The user was told why nothing shows, or the place in the page is awaited.
Explained(s) == \/ page.told \/ page.line = "closed"
                \/ dom[s] = Missing /\ \E p \in pulls : p.s = s /\ p.why = "anchor"

\* A finished generation is shown although hot reload never brings it and the
\* message about it was lost (the source fallback and the self-healing on
\* reconnect).  An insert is, as soon as its wrapper is in the page, unless a
\* restore brought the full count of its variants along before the wrapper.
GenerationIsShown ==
    \A s \in Session \ Jsx :
        Finished(s) /\ WaitsFor(s)
            ~> \/ ~WaitsFor(s) \/ Explained(s) \/ ~Finished(s)
               \/ s \in Inserts /\ (dom[s] = Missing \/ AllArrived)

\* The comment of injectVariantsFromSource: the fallback works without any hot
\* reload, and ends in recovery where the read finds nothing; for inserts, too.
InsertIsShown ==
    \A s \in Inserts \ Jsx :
        Finished(s) /\ WaitsFor(s) ~> ~WaitsFor(s) \/ Explained(s) \/ ~Finished(s)

\* The comment of captureAndEmit: progress that is reported before the request
\* for its session was sent would clear the page's own work, so there is none.
ProgressFollowsRequest == \A p \in posts : p.type = "checkpoint" => p.s \notin capture

Mounted(s) == Finished(s) /\ dom[s] = Variants

\* The comment of probeJsxWrapperForOrphan: where the source file has the
\* wrapper, the variants show as soon as they mount (the variant observer keeps
\* waiting for them).
MountedIsShown ==
    \A s \in Session : Mounted(s) /\ WaitsFor(s) ~> ~WaitsFor(s) \/ Explained(s) \/ ~Mounted(s)
=============================================================================
