---------------------------- MODULE LivePreview -----------------------------
(***************************************************************************)
(* Compiled component previews (live-browser.js): the agent publishes a    *)
(* manifest of component modules, the page reads it, replaces the picked   *)
(* element by a wrapper and mounts one variant in it.  Every publication   *)
(* injects again, and reads, imports and mounts of several injections and  *)
(* of the user's choice of a variant overlap: each of them goes on, after  *)
(* its await, with what svelteComponentSession and currentSessionId are    *)
(* then.                                                                   *)
(*                                                                         *)
(* A call is a run of the asynchronous functions; its step goes up to the  *)
(* next await.  The agent, the dev server, and the framework that takes    *)
(* elements away are external.  Accept and discard are answered at once;   *)
(* LiveSession has their late answers, and the sessions without compiled   *)
(* components.  Parameters of a variant, styles and anchors are left out.  *)
(***************************************************************************)
EXTENDS Naturals, Sequences, FiniteSets

CONSTANTS Draft,       \* the session ids, in the order of Go
          Wanted,     \* how many variants a Go asks for
          Slots,       \* bounds the calls that are under way
          MaxNews,     \* bounds the messages under way
          MaxWrappers, \* bounds the wrappers made for a session
          MaxMishaps   \* bounds what goes wrong: see Mishap

ASSUME PreviewAssumption ==
    Draft \subseteq Nat \ {0} /\ Wanted \in Nat \ {0} /\ Slots \in Nat \ {0}

VARIABLES tool,     \* the variables of the script, see ToolType
          tasks,    \* [1..Slots -> a call under way]
          stream,   \* messages on their way
          manifest, \* [Draft -> what the agent has published]
          begun, ended, completed, \* sessions begun, settled, and with a done
          mishaps

previewVars == <<tool, tasks, stream, manifest, begun, ended, completed, mishaps>>

NoDraft == 0
Variant == 1 .. Wanted
Box     == Draft \X (1 .. MaxWrappers)
NoComp  == [id |-> NoDraft, box |-> <<>>, held |-> <<>>, n |-> 0, variant |-> 0]
NoCard  == [id |-> NoDraft, n |-> 0, file |-> NoDraft]
NoCache == [id |-> NoDraft, ui |-> "PICKING", arrived |-> 0, n |-> 0, seen |-> NoDraft]

\* held and n: the box that mountedInstance is in, and its component, if any
CompType == [id : Draft, box : Box, held : Box \cup {<<>>}, n : 0 .. Wanted,
             variant : 0 .. Wanted] \cup {NoComp}

ToolType ==
    [ui : {"PICKING", "GENERATING", "CYCLING"},
     current   : Draft \cup {NoDraft},      \* currentSessionId
     arrived   : 0 .. Wanted, visible : 0 .. Wanted,
     preview   : Draft \cup {NoDraft},      \* whose manifest currentPreviewFile is
     selecting : BOOLEAN,                   \* variantSelectionInFlight
     card      : [id : Draft \cup {NoDraft}, n : 0 .. Wanted,
                  file : Draft \cup {NoDraft}],   \* mountErrorState
     retry     : Draft \cup {NoDraft},      \* pendingSvelteComponentRetryObserver
     comp      : CompType,                  \* svelteComponentSession
     here      : SUBSET Draft,              \* whose picked element is in the document
     boxes     : SUBSET Box,                \* the wrappers in the document
     saved     : [id : Draft \cup {NoDraft}, ui : {"PICKING", "GENERATING", "CYCLING"},
                  arrived : 0 .. Wanted, n : 0 .. Wanted,
                  seen : Draft \cup {NoDraft}]]    \* localStorage: n is visible, seen is preview

At == {"idle", "manifest", "import", "unmount", "explain", "missed"}
\* file: whose manifest the call reads
RunType == [at : At, id : Draft \cup {NoDraft}, file : Draft \cup {NoDraft},
            box : Box \cup {<<>>}, n : 0 .. Wanted,
            then : {"none", "first", "again", "select", "revert"}, back : 0 .. Wanted]

NoCall == [at |-> "idle", id |-> NoDraft, file |-> NoDraft, box |-> <<>>, n |-> 0,
           then |-> "none", back |-> 0]

PreviewTypeOK ==
    /\ tool \in ToolType /\ tasks \in [1 .. Slots -> RunType]
    /\ stream \in Seq([type : {"progress", "done", "connected"}, id : Draft \cup {NoDraft}])
    /\ manifest \in [Draft -> [n : 0 .. Wanted, broken : SUBSET Variant, foreign : BOOLEAN]]
    /\ begun \subseteq Draft /\ ended \subseteq begun /\ completed \subseteq begun
    /\ mishaps \in 0 .. MaxMishaps

PreviewInit ==
    /\ tool = [ui |-> "PICKING", current |-> NoDraft, arrived |-> 0, visible |-> 0,
               preview |-> NoDraft, selecting |-> FALSE, card |-> NoCard, retry |-> NoDraft,
               comp |-> NoComp, here |-> Draft, boxes |-> {}, saved |-> NoCache]
    /\ tasks = [k \in 1 .. Slots |-> NoCall] /\ stream = <<>>
    /\ manifest = [s \in Draft |-> [n |-> 0, broken |-> {}, foreign |-> FALSE]]
    /\ begun = {} /\ ended = {} /\ completed = {} /\ mishaps = 0

-----------------------------------------------------------------------------
(* The functions of the page, on q == [tool, tasks].                       *)

World == [tool |-> tool, tasks |-> tasks]
Settles(q) == tool' = q.tool /\ tasks' = q.tasks

Free(r) == {k \in 1 .. Slots : r[k].at = "idle"}

Cached(t) == IF t.current = NoDraft THEN t
             ELSE [t EXCEPT !.saved = [id |-> t.current, ui |-> t.ui, arrived |-> t.arrived,
                                   n |-> t.visible, seen |-> t.preview]]

Pick(t, s, n) == IF t.visible \in 1 .. n THEN t.visible
                 ELSE IF t.saved.id = s /\ t.saved.n \in 1 .. n THEN t.saved.n ELSE 1

\* injectSvelteComponentsFromManifest, up to the answer
Injects(q, s, f) == [q EXCEPT !.tasks[CHOOSE k \in Free(q.tasks) : TRUE] =
                      [NoCall EXCEPT !.at = "manifest", !.id = s, !.file = f]]

\* teardownSvelteComponentSession(true)
TornDown(t) == [t EXCEPT !.comp = NoComp, !.boxes = @ \ {t.comp.box},
                         !.here = IF t.comp.box \in t.boxes THEN @ \cup {t.comp.id} ELSE @]

\* Mutant of Aborted: the half-built preview is taken down and nothing said.
AbortedSilently(t, s) ==
    [TornDown(t) EXCEPT !.retry = NoDraft, !.card = NoCard]

\* showMountErrorCard: of file f, or of the current one
Card(t, s, n, f) == [id |-> s, n |-> n, file |-> IF f # NoDraft THEN f ELSE t.preview]

\* abortSvelteComponentInjection
Aborted(t, s) ==
    LET down == IF t.comp.id = s THEN TornDown(t)
                ELSE [t EXCEPT !.boxes = {x \in @ : x[1] # s}]
    IN  Cached([down EXCEPT !.retry = NoDraft,
                            !.card = IF @ = NoCard THEN Card(t, s, 0, NoDraft) ELSE @])

\* cleanup
CleanedUp(t) ==
    LET down == IF t.comp.id = t.current THEN TornDown(t) ELSE t
    IN  [down EXCEPT !.ui = "PICKING", !.current = NoDraft, !.card = NoCard,
                     !.preview = NoDraft, !.saved = NoCache]

\* ensureCyclingRenderable, of every refresh of the bar
Renderable(t) ==
    IF t.arrived > 0
    THEN [t EXCEPT !.visible = IF @ \in 1 .. t.arrived THEN @ ELSE 1]
    ELSE IF t.comp.id = t.current /\ t.current # NoDraft
         THEN [CleanedUp(t) EXCEPT !.retry = NoDraft, !.visible = 0]
         ELSE CleanedUp(t)

Cycles(t) == Cached(Renderable([t EXCEPT !.ui = "CYCLING"]))

\* mountSvelteComponentVariant, up to its first await
Mounting(q, k, n, then, back) ==
    [q EXCEPT !.tasks[k] = [at |-> "import", id |-> q.tool.comp.id, file |-> NoDraft, box |-> q.tool.comp.box,
                           n |-> n, then |-> then, back |-> back]]

\* What follows a mount.
Continues(q, k, ok) ==
    LET c == q.tasks[k]
        ends == [q EXCEPT !.tasks[k] = NoCall]
    IN  CASE c.then = "first" ->
                [ends EXCEPT !.tool = IF ok THEN Cycles(@) ELSE Aborted(@, c.id)]
          [] c.then = "again" ->
                [ends EXCEPT !.tool = IF ok THEN Cycles(@) ELSE Cached(@)]
          [] c.then = "select" /\ ~ok ->
                LET r == [q EXCEPT !.tool.visible = c.back] IN
                IF r.tool.comp.id = r.tool.current /\ r.tool.comp # NoComp /\ c.back > 0
                THEN Mounting(r, k, c.back, "revert", c.back)
                ELSE [r EXCEPT !.tasks[k] = NoCall, !.tool = Cached([@ EXCEPT !.selecting = FALSE])]
          [] OTHER ->
                [ends EXCEPT !.tool = Cached([@ EXCEPT !.selecting = FALSE])]

\* The component is mounted in the target of the call, and remembered in the
\* session that there is now.
MountedNow(q, k) ==
    LET c == q.tasks[k]
        t == [q.tool EXCEPT !.comp = [@ EXCEPT !.held = c.box, !.n = c.n, !.variant = c.n],
                            !.card = IF @.id = c.id /\ @.n = c.n THEN NoCard ELSE @]
    IN  Continues([q EXCEPT !.tool = t], k, TRUE)

Explains(q, k) == [q EXCEPT !.tasks[k].at = "explain"]

-----------------------------------------------------------------------------
(* The calls.                                                              *)

Rest == UNCHANGED <<stream, manifest, begun, ended, completed>>
Calm == UNCHANGED mishaps
Mishap == mishaps < MaxMishaps /\ mishaps' = mishaps + 1

ManifestFails(k) ==
    /\ tasks[k].at = "manifest" /\ Mishap
    /\ LET s == tasks[k].id IN
       Settles([tool |-> [Aborted(tool, s) EXCEPT !.card = Card(tool, s, tool.visible, tasks[k].file)],
              tasks |-> [tasks EXCEPT ![k] = NoCall]])
    /\ Rest

\* The manifest names another session.
Foreign(c) == c.file # c.id \/ manifest[c.file].foreign

ManifestForeign(k) ==
    /\ tasks[k].at = "manifest" /\ Foreign(tasks[k])
    /\ Settles([tool |-> [tool EXCEPT !.card = Card(tool, tasks[k].id, tool.visible, tasks[k].file)],
              tasks |-> [tasks EXCEPT ![k] = NoCall]])
    /\ Rest /\ Calm

\* The manifest and the parameters are read; the page turns to session s,
\* whatever it has turned to meanwhile.
ManifestRead(k) ==
    LET s == tasks[k].id
        n == manifest[s].n
        t == [tool EXCEPT !.current = s, !.preview = s,
                          !.ui = IF @ = "CYCLING" THEN @ ELSE "GENERATING"]
        at(u) == [u EXCEPT !.arrived = n, !.visible = Pick(u, s, n)]
    IN  /\ tasks[k].at = "manifest" /\ ~Foreign(tasks[k]) /\ n > 0
        /\ \/ /\ t.comp.id = s /\ \E x \in t.boxes : x[1] = s
              /\ LET u == [t EXCEPT !.arrived = n, !.visible = IF @ \in 1 .. n THEN @ ELSE 1] IN
                 Settles(Mounting([tool |-> u, tasks |-> tasks], k, u.visible, "again", 0))
           \/ /\ ~(t.comp.id = s /\ \E x \in t.boxes : x[1] = s) /\ s \notin t.here
              /\ Settles([tool |-> Cached([at(t) EXCEPT !.ui = "GENERATING", !.retry = s]),
                        tasks |-> [tasks EXCEPT ![k] = NoCall]])
           \/ /\ ~(t.comp.id = s /\ \E x \in t.boxes : x[1] = s) /\ s \in t.here
              /\ \E b \in Box :
                 /\ b[1] = s /\ b \notin t.boxes
                 /\ \A j \in 1 .. Slots : tasks[j].box # b
                 /\ LET u == [at(t) EXCEPT
                                !.comp = [NoComp EXCEPT !.id = s, !.box = b],
                                !.boxes = @ \cup {b}, !.here = @ \ {s}, !.retry = NoDraft]
                    IN  Settles(Mounting([tool |-> u, tasks |-> tasks], k, u.visible, "first", 0))
        /\ Rest /\ Calm

\* The runtime and the module are there, or the import fails.
Imported(k) ==
    LET c == tasks[k]
        up == ~(c.n \in manifest[c.id].broken) IN
    /\ c.at = "import"
    /\ Settles(IF ~up \/ tool.comp = NoComp THEN Explains(World, k)
             ELSE IF tool.comp.n > 0 THEN [World EXCEPT !.tasks[k].at = "unmount"]
             ELSE MountedNow(World, k))
    /\ Rest /\ Calm

Unmounted(k) ==
    /\ tasks[k].at = "unmount"
    /\ Settles(IF tool.comp = NoComp THEN Explains(World, k) ELSE MountedNow(World, k))
    /\ Rest /\ Calm

\* The component throws when it is mounted, after the old one is gone.
MountThrows(k) ==
    /\ tasks[k].at \in {"import", "unmount"} /\ tool.comp # NoComp /\ Mishap
    /\ (tasks[k].at = "unmount" \/ tool.comp.n = 0)
    /\ Settles(Explains([World EXCEPT !.tool.comp.n = 0, !.tool.comp.held = <<>>], k))
    /\ Rest

\* The failure is described, then shown, and the mount returns false.
Explained(k) ==
    /\ tasks[k].at = "explain"
    /\ Settles(Continues([World EXCEPT !.tool.card = Card(tool, tasks[k].id, tasks[k].n, NoDraft)], k, FALSE))
    /\ Rest /\ Calm

\* The second attempt of recoverMissedGenerationCompletion, 750 ms later
MissedFires(k) ==
    /\ tasks[k].at = "missed"
    /\ Settles(IF tool.current = tasks[k].id /\ tool.ui = "GENERATING"
                /\ ~(tool.arrived >= Wanted)
             THEN [World EXCEPT !.tasks[k].at = "manifest", !.tasks[k].file = tool.preview] ELSE [World EXCEPT !.tasks[k] = NoCall])
    /\ Rest /\ Calm

-----------------------------------------------------------------------------
(* The user and the document.                                              *)

PressesGo(s) ==
    /\ tool.ui = "PICKING" /\ s \notin begun /\ \A r \in Draft : r < s => r \in begun
    /\ begun' = begun \cup {s}
    /\ tool' = Cached([tool EXCEPT !.ui = "GENERATING", !.current = s, !.arrived = 0, !.visible = 0,
                                   !.card = NoCard, !.preview = NoDraft])
    /\ UNCHANGED <<tasks, stream, manifest, ended, completed>> /\ Calm

Selects(n) ==
    /\ tool.ui = "CYCLING" /\ ~tool.selecting /\ tool.current # NoDraft
    /\ n \in 1 .. tool.arrived /\ n # tool.visible /\ tool.comp.id = tool.current
    /\ \E k \in Free(tasks) :
       /\ \A j \in Free(tasks) : k <= j
       /\ Settles(Mounting([tool |-> Cached([tool EXCEPT !.visible = n, !.selecting = TRUE]),
                          tasks |-> tasks], k, n, "select", tool.visible))
    /\ Rest /\ Calm

\* handleAccept reads what is mounted; commitAcceptedSvelteComponentToDom
\* leaves a session alone in which nothing is.
AcceptsIt ==
    LET c == tool.comp
        whole == c.id = tool.current /\ c.n > 0 /\ c.held = c.box /\ c.box \in tool.boxes
        t == IF whole THEN [tool EXCEPT !.comp = NoComp, !.boxes = @ \ {c.box}] ELSE tool
    IN  /\ tool.ui = "CYCLING" /\ ~tool.selecting /\ tool.current # NoDraft /\ tool.arrived > 0
        /\ ended' = ended \cup {tool.current}
        /\ tool' = [t EXCEPT !.ui = "PICKING", !.current = NoDraft, !.preview = NoDraft,
                             !.saved = NoCache]
        /\ UNCHANGED <<tasks, stream, manifest, begun, completed>> /\ Calm

DiscardsIt ==
    /\ tool.ui = "CYCLING" /\ tool.current # NoDraft
    /\ ended' = ended \cup {tool.current} /\ tool' = CleanedUp(tool)
    /\ UNCHANGED <<tasks, stream, manifest, begun, completed>> /\ Calm

DismissesCard ==
    /\ tool.card # NoCard
    /\ tool' = [tool EXCEPT !.card = NoCard, !.ui = IF @ = "GENERATING" THEN "PICKING" ELSE @]
    /\ UNCHANGED tasks /\ Rest /\ Calm

RetriesCard ==
    LET f == IF tool.card.file # NoDraft THEN tool.card.file ELSE tool.preview
        t == [tool EXCEPT !.card = NoCard]
    IN  /\ tool.card # NoCard
        /\ \/ f = NoDraft /\ Settles([World EXCEPT !.tool = t])
           \/ /\ f # NoDraft /\ Free(tasks) # {}
              /\ Settles(Injects([World EXCEPT !.tool = [t EXCEPT !.ui = IF @ = "CYCLING" THEN @ ELSE "GENERATING"]],
                                 tool.card.id, f))
        /\ Rest /\ Calm

\* A framework takes the element of a session away, or its wrapper.
ElementGoes(s) ==
    /\ s \in tool.here \/ \E x \in tool.boxes : x[1] = s
    /\ Mishap
    /\ tool' = [tool EXCEPT !.here = @ \ {s}, !.boxes = {x \in @ : x[1] # s}]
    /\ UNCHANGED tasks /\ Rest

\* It shows it again; waitForSvelteComponentTargetAndRetry looks.
ElementComes(s) ==
    LET t == [tool EXCEPT !.here = @ \cup {s}] IN
    /\ s \notin tool.here /\ \A x \in tool.boxes : x[1] # s
    /\ \/ tool.retry # s /\ Settles([tool |-> t, tasks |-> tasks])
       \/ /\ tool.retry = s /\ Free(tasks) # {}
          /\ Settles(IF tool.comp.id = s THEN [tool |-> [t EXCEPT !.retry = NoDraft], tasks |-> tasks]
                   ELSE Injects([tool |-> [t EXCEPT !.retry = NoDraft], tasks |-> tasks], s, s))
    /\ Rest /\ Calm

\* restoreSessionWithoutWrapper; listed are the sessions that the helper names
Offered(s) == [id |-> s, ui |-> "GENERATING", arrived |-> manifest[s].n, n |-> 0, seen |-> s]

RestoresBare(q, listed) ==
    LET adoptable == {s \in listed : manifest[s].n > 0}
        w == IF q.tool.saved.id # NoDraft THEN q.tool.saved
             ELSE IF adoptable # {} THEN Offered(CHOOSE s \in adoptable : TRUE) ELSE NoCache
        seen == IF w.seen # NoDraft THEN w.seen
                ELSE IF w.id \in adoptable THEN w.id ELSE q.tool.preview
        known == IF w.arrived > 0 THEN w.arrived
                 ELSE IF w.id \in adoptable THEN manifest[w.id].n ELSE 0
        n == IF known = 0 /\ seen # NoDraft THEN Wanted ELSE known
        t == Cached([q.tool EXCEPT !.current = w.id, !.preview = seen, !.ui = "GENERATING", !.arrived = n,
                                  !.visible = IF w.n \in 1 .. (IF n > 0 THEN n ELSE Wanted) THEN w.n
                                              ELSE IF n > 0 THEN 1 ELSE 0])
    IN  IF \/ w.id \in ended \cup {NoDraft} \/ w.ui = "PICKING"
           \/ listed # {} /\ w.id \notin listed
        THEN q
        ELSE IF seen # NoDraft THEN Injects([q EXCEPT !.tool = t], w.id, seen) ELSE [q EXCEPT !.tool = t]

\* On load, resumeSession drops a cache that it could not restore.
PreviewReloads ==
    /\ Mishap
    /\ LET t == [tool EXCEPT !.ui = "PICKING", !.current = NoDraft, !.arrived = 0, !.visible = 0,
                             !.preview = NoDraft, !.selecting = FALSE, !.card = NoCard,
                             !.retry = NoDraft, !.comp = NoComp, !.here = Draft, !.boxes = {}]
           q == RestoresBare([tool |-> t, tasks |-> [k \in 1 .. Slots |-> NoCall]], {})
       IN  Settles(IF q.tool.current # NoDraft THEN q ELSE [q EXCEPT !.tool.saved = NoCache])
    /\ stream' = <<[type |-> "connected", id |-> NoDraft]>>
    /\ UNCHANGED <<manifest, begun, ended, completed>>

\* What the stream held is lost; it connects again.
StreamDrops ==
    /\ Mishap /\ stream' = <<[type |-> "connected", id |-> NoDraft]>>
    /\ UNCHANGED <<tool, tasks, manifest, begun, ended, completed>>

-----------------------------------------------------------------------------
(* Messages.                                                               *)

Receives(type) ==
    /\ stream # <<>> /\ Head(stream).type = type /\ stream' = Tail(stream)
    /\ UNCHANGED <<manifest, begun, ended, completed>> /\ Calm

ProgressHeard ==
    LET s == Head(stream).id IN
    /\ Receives("progress") /\ (tool.current = s => Free(tasks) # {})
    /\ Settles(IF tool.current = s
             THEN Injects([World EXCEPT !.tool.preview = s], s, s) ELSE World)

\* A done injects only for the current session; that of another one has its
\* preview file remembered all the same, and lets a page cycle that waits.
DoneHeard ==
    LET s == Head(stream).id IN
    /\ Receives("done") /\ (tool.current = s => Free(tasks) # {})
    /\ Settles(IF tool.current = s
             THEN Injects([World EXCEPT !.tool.preview = s], s, s)
             ELSE IF tool.arrived >= Wanted /\ tool.ui = "GENERATING"
                  THEN [World EXCEPT !.tool = Cycles([@ EXCEPT !.preview = s])]
                  ELSE [World EXCEPT !.tool.preview = s])

ConnectedHeard ==
    LET q == IF tool.comp # NoComp /\ tool.comp.id = tool.current THEN World
             ELSE RestoresBare(World, begun \ ended)
        s == q.tool.current
        missed == /\ s \in completed \ ended /\ q.tool.ui = "GENERATING"
                  /\ q.tool.arrived < Wanted
    IN  /\ Receives("connected") /\ Cardinality(Free(tasks)) >= 2
        /\ Settles(IF missed
                 THEN [q EXCEPT !.tool.preview = s,
                                !.tasks[CHOOSE k \in Free(q.tasks) : TRUE] =
                                    [NoCall EXCEPT !.at = "missed", !.id = s]]
                 ELSE q)

Announced(type, s) == stream' = Append(stream, [type |-> type, id |-> s])

\* The agent publishes the next variant, which may not compile, or the
\* manifest of a wrong session; at last it is done, and mends what is broken.
AgentPublishes(s) ==
    /\ s \in begun \ ended /\ Len(stream) < MaxNews
    /\ \/ /\ manifest[s].n < Wanted
          /\ \E bad \in {{}, {manifest[s].n + 1}} :
             /\ bad # {} => Mishap
             /\ bad = {} => Calm
             /\ manifest' = [manifest EXCEPT ![s].n = @ + 1, ![s].broken = @ \cup bad]
          /\ Announced("progress", s) /\ UNCHANGED completed
       \/ /\ manifest[s].n = Wanted /\ s \notin completed
          /\ completed' = completed \cup {s} /\ Announced("done", s)
          /\ \/ UNCHANGED manifest /\ Calm
             \/ manifest' = [manifest EXCEPT ![s].foreign = TRUE] /\ Mishap
       \/ /\ s \in completed /\ (manifest[s].broken # {} \/ manifest[s].foreign)
          /\ manifest' = [manifest EXCEPT ![s].broken = {}, ![s].foreign = FALSE]
          /\ Announced("done", s) /\ UNCHANGED completed /\ Calm
    /\ UNCHANGED <<tool, tasks, begun, ended>>

-----------------------------------------------------------------------------
PreviewNext ==
    \/ \E k \in 1 .. Slots : \/ ManifestFails(k) \/ ManifestForeign(k) \/ ManifestRead(k) \/ Imported(k)
                             \/ Unmounted(k) \/ MountThrows(k) \/ Explained(k) \/ MissedFires(k)
    \/ \E s \in Draft : PressesGo(s) \/ ElementGoes(s) \/ ElementComes(s) \/ AgentPublishes(s)
    \/ \E n \in Variant : Selects(n)
    \/ AcceptsIt \/ DiscardsIt \/ DismissesCard \/ RetriesCard \/ PreviewReloads \/ StreamDrops
    \/ ProgressHeard \/ DoneHeard \/ ConnectedHeard

PreviewSpec == PreviewInit /\ [][PreviewNext]_previewVars

-----------------------------------------------------------------------------
(* Properties.                                                             *)

Rests == stream = <<>> /\ \A k \in 1 .. Slots : tasks[k].at = "idle"

\* The user is never left with a bar that waits for variants which nothing
\* will bring: once everything published is heard and worked off, a page that
\* still generates shows the card with Retry, waits for the element, or has lost
\* the wrapper of its mounted preview, upon which the observer gives up.  It is
\* about the first session of a page: two that are open share one card, which
\* the mounts of the one take down for the other.
WaitingHasAReason ==
    Rests /\ tool.ui = "GENERATING" /\ begun = {tool.current}
    /\ tool.current \in completed \ ended =>
        \/ tool.card # NoCard \/ tool.retry # NoDraft
        \/ tool.comp.id = tool.current /\ tool.comp.box \notin tool.boxes
=============================================================================
