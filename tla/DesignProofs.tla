---------------------------- MODULE DesignProofs ----------------------------
(***************************************************************************)
(* What holds of a design session for any number of sessions, variants and *)
(* retries, with any bound on what goes wrong, and of what the page does   *)
(* about the sessions that are over.                                       *)
(***************************************************************************)
EXTENDS LiveSession, LiveRecovery, FiniteSetTheorems, TLAPS

-----------------------------------------------------------------------------
(* The inductive invariant of LiveSession.                                 *)

UiStates == {"IDLE", "PICKING", "CONFIGURING", "GENERATING", "CYCLING", "SAVING"}

CacheType == [id : Session \cup {None}, state : UiStates,
              arrived : 0..Variants, visible : 0..Variants]

Journal == {"none", "open", "done", "accepting", "saved", "discarding", "discarded", "failed"}

Ended == {"saved", "discarded", "failed"}

\* What is shown is there, whatever the state is called meanwhile.
PageOK(q) ==
    /\ q \in PageType
    /\ q.current # None /\ q.arrived > 0 => q.visible \in 1..q.arrived
    /\ q.ui = "CYCLING" /\ q.current # None => q.arrived > 0

WorkInv ==
    /\ PageOK(page) /\ stored \in CacheType /\ handled \subseteq Session
    /\ CacheFollowsPage

EventType == [type : {"connected"}, s : {None}, view : [Session -> Journal]]
             \cup [type : {"done", "accept", "discarded", "error"}, s : Session,
                   view : [Session -> Journal]]

RestInv ==
    /\ capture \subseteq Session /\ queued \in BOOLEAN
    /\ pulls \subseteq PullType /\ posts \subseteq PostType
    /\ events \in Seq(EventType)
    /\ server \in [Session -> Journal]
    /\ source \in [Session -> Missing..Variants] /\ dom \in [Session -> Missing..Variants]

SessionIInv == WorkInv /\ RestInv

Numbers == /\ Variants \in Nat /\ Variants > 0 /\ Retries \in Nat
           /\ Session \subseteq Nat /\ None \notin Session /\ None = 0 /\ Missing = -1

\* The constants are numbers that no marker is among.
LEMMA NumbersHold == Numbers
  BY SessionAssumption, VariantAssumption DEF Numbers, None, Missing

\* A session that is begun was never used.
LEMMA NewIsUnused ==
    ASSUME NEW s \in Session, NewSession(s) PROVE s \notin Used
<1>1. s \in Nat /\ \A t \in Used : t < s
  BY SessionAssumption DEF NewSession
<1> QED
  BY <1>1

-----------------------------------------------------------------------------
(* The pieces of the handlers.                                             *)

\* A page that is shown and saved keeps the cache in step with it.
LEMMA ShowsKeeps ==
    ASSUME WorkInv, NEW q, PageOK(q), Shows(q), q.current \notin handled, handled' = handled
    PROVE  WorkInv'
<1>1. Numbers BY NumbersHold
<1>2. q \in PageType BY DEF PageOK
<1>3. Saving(q) \in CacheType
  BY <1>1, <1>2 DEF Saving, WorkInv, CacheType, PageType, UiStates
<1>4. q.current = None => Saving(q) = stored
  BY DEF Saving
<1>5. q.current # None => Saving(q).id = q.current
  BY DEF Saving
<1> QED
  BY <1>1, <1>3, <1>4, <1>5 DEF Shows, WorkInv, PageOK, CacheFollowsPage, SettledIsGone

\* A page that lets go of its session needs no cache.
LEMMA CleanKeeps ==
    ASSUME WorkInv, PageOK(page'), page'.current = None, stored' = NoSaved,
           handled' \subseteq Session
    PROVE  WorkInv'
  BY NumbersHold DEF WorkInv, CacheFollowsPage, SettledIsGone, NoSaved, CacheType, UiStates, Numbers

\* A page that is cleaned has no session.
LEMMA CleanedIsOK ==
    ASSUME NEW q \in PageType
    PROVE  PageOK(Cleaned(q)) /\ Cleaned(q).current = None
  BY NumbersHold DEF PageOK, Cleaned, PageType, Numbers

\* A session that is given up leaves page and cache in step.
LEMMA CleansUpKeeps ==
    ASSUME WorkInv, NEW q \in PageType, NEW ps, CleansUp(q, ps), handled' \subseteq Session
    PROVE  WorkInv'
  BY CleanedIsOK, CleanKeeps DEF CleansUp

\* A page with variants that have arrived shows one of them.
LEMMA RendersIsOK ==
    ASSUME NEW q \in PageType, q.arrived > 0
    PROVE  PageOK(Renders(q)) /\ Renders(q).current = q.current
<1>1. PICK v : v = IF q.visible \in 1..q.arrived THEN q.visible ELSE 1
  OBVIOUS
<1>2. q.arrived \in 1..Variants
  BY NumbersHold DEF PageType, Numbers
<1>3. v \in 0..Variants /\ v \in 1..q.arrived
  BY <1>1, <1>2, NumbersHold DEF Numbers
<1>4. PICK r : r = [q EXCEPT !.ui = "CYCLING", !.visible = v]
  OBVIOUS
<1>5. r \in PageType /\ r.visible = v /\ r.arrived = q.arrived /\ r.current = q.current
  BY <1>3, <1>4 DEF PageType
<1>6. Renders(q) = r
  BY <1>1, <1>4 DEF Renders
<1> QED
  BY <1>2, <1>3, <1>5, <1>6 DEF PageOK

\* The variant that a resumed page shows is among those that are there.
LEMMA ChosenIsThere ==
    ASSUME NEW q \in PageType, NEW s, NEW n \in 1..Variants
    PROVE  Chosen(q, s, n) \in 1..n
  BY NumbersHold DEF Chosen, Numbers

\* Only sessions are marked as handled.
LEMMA MarkStays ==
    ASSUME handled \subseteq Session, NEW s \in Session \cup {None}
    PROVE  Mark(s) \subseteq Session
  <1>1. {s} \ {None} \subseteq Session
    OBVIOUS
  <1> QED
    BY <1>1 DEF Mark

-----------------------------------------------------------------------------
(* Restoring a session.                                                    *)

\* What a page may restore is what a cache may hold.
LEMMA SavedIsCached ==
    ASSUME WorkInv, RestInv, NEW view, NEW saved \in Candidates(view)
    PROVE  saved \in CacheType
<1>1. CASE stored.id # None
  BY <1>1 DEF Candidates, WorkInv
<1>2. CASE stored.id = None
  <2>1. PICK s \in Session : /\ source[s] # Missing
                             /\ saved = [id |-> s, state |-> "GENERATING", arrived |-> source[s],
                                         visible |-> 0]
    BY <1>2 DEF Candidates, Adoptable
  <2>2. source[s] \in 0..Variants
    BY <2>1, NumbersHold DEF RestInv, Numbers
  <2> QED
    BY <2>1, <2>2, NumbersHold DEF CacheType, UiStates, Numbers
<1> QED
  BY <1>1, <1>2

\* A session is restored without a wrapper.
LEMMA RestoreKeeps ==
    ASSUME WorkInv, RestInv, NEW q \in PageType, NEW view, NEW ps \in SUBSET PullType,
           RestoreWithoutWrapper(q, view, ps), handled' = handled
    PROVE  WorkInv' /\ queued' \in BOOLEAN /\ pulls' \subseteq PullType
<1>1. PICK saved \in Candidates(view) :
         /\ Restorable(saved, view)
         /\ Shows([q EXCEPT !.ui = "GENERATING", !.current = saved.id, !.obs = saved.id,
                            !.arrived = saved.arrived,
                            !.visible = IF \/ saved.visible \in 1..saved.arrived
                                           \/ saved.arrived = 0 THEN saved.visible ELSE 1])
         /\ queued' = TRUE
         /\ \E why \in {"orphan", "plain"} :
              pulls' \in {ps \cup {Pull(saved.id, why, 0, FALSE)}, ps}
  BY DEF RestoreWithoutWrapper
<1>2. saved \in CacheType /\ saved.id # None /\ saved.id \notin handled
  BY <1>1, SavedIsCached DEF Restorable
<1>3. saved.id \in Session
  BY <1>2 DEF CacheType
<1>a. PICK v : v = IF \/ saved.visible \in 1..saved.arrived
                      \/ saved.arrived = 0 THEN saved.visible ELSE 1
  OBVIOUS
<1>b. /\ saved.arrived \in 0..Variants /\ v \in 0..Variants
      /\ saved.arrived > 0 => v \in 1..saved.arrived
  BY <1>a, <1>2, NumbersHold DEF CacheType, Numbers
<1>4. PICK r : r = [q EXCEPT !.ui = "GENERATING", !.current = saved.id, !.obs = saved.id,
                            !.arrived = saved.arrived, !.visible = v]
  OBVIOUS
<1>c. /\ r \in PageType /\ r.current = saved.id /\ r.arrived = saved.arrived /\ r.visible = v
      /\ r.ui = "GENERATING"
  BY <1>3, <1>4, <1>b DEF PageType
<1>5. PageOK(r) /\ r.current = saved.id
  BY <1>b, <1>c DEF PageOK
<1>d. Shows(r)
  BY <1>1, <1>a, <1>4
<1>6. WorkInv'
  BY <1>2, <1>5, <1>d, ShowsKeeps
<1>7. \A why \in {"orphan", "plain"} : Pull(saved.id, why, 0, FALSE) \in PullType
  BY <1>3, NumbersHold DEF Pull, PullType, Numbers
<1> QED
  BY <1>1, <1>6, <1>7

\* A page that resumes a session has it.
LEMMA ResumedIsOK ==
    ASSUME NEW q \in PageType, NEW s \in Session, NEW n \in 0..Variants, stored \in CacheType
    PROVE  PageOK(Resumed(q, s, n)) /\ Resumed(q, s, n).current = s
<1>1. PICK v : v = IF n = 0 THEN 0
                   ELSE IF stored.id = s /\ stored.visible \in 1..n THEN stored.visible ELSE 1
  OBVIOUS
<1>2. PICK u : u = IF n > 0 THEN "CYCLING" ELSE "GENERATING"
  OBVIOUS
<1>3. v \in 0..Variants /\ (n > 0 => v \in 1..n)
  BY <1>1, NumbersHold DEF Numbers
<1>4. PICK r : r = [q EXCEPT !.ui = u, !.current = s, !.arrived = n, !.obs = s, !.scout = FALSE,
                            !.visible = v]
  OBVIOUS
<1>5. r \in PageType /\ r.ui = u /\ r.current = s /\ r.arrived = n /\ r.visible = v
  BY <1>2, <1>3, <1>4 DEF PageType
<1>6. Resumed(q, s, n) = r
  BY <1>1, <1>2, <1>4 DEF Resumed
<1> QED
  BY <1>2, <1>3, <1>5, <1>6 DEF PageOK

\* q is the page before, or one without a session.
LEMMA ResumeAtKeeps ==
    ASSUME WorkInv, RestInv, NEW q, PageOK(q), q.current \in {None, page.current},
           NEW s \in Session, NEW n \in 0..Variants, NEW ps \in SUBSET PullType,
           NEW tick \in BOOLEAN, ResumeAt(s, n, q, ps, tick), handled' = handled
    PROVE  WorkInv' /\ queued' \in BOOLEAN /\ pulls' \subseteq PullType
<1>1. q \in PageType /\ [q EXCEPT !.scout = FALSE] \in PageType
  BY DEF PageOK, PageType
<1>2. CASE RestoreWithoutWrapper([q EXCEPT !.scout = FALSE], NoView, ps)
  BY <1>1, <1>2, RestoreKeeps
<1>3. CASE page' = q /\ queued' = tick /\ pulls' = ps /\ UNCHANGED stored
  BY <1>3, NumbersHold DEF WorkInv, CacheFollowsPage, SettledIsGone, PageOK, Numbers
<1>4. CASE s \notin handled /\ Shows(Resumed(q, s, n)) /\ queued' = TRUE /\ pulls' = ps
  BY <1>1, <1>4, ResumedIsOK, ShowsKeeps DEF WorkInv
<1> QED
  BY <1>2, <1>3, <1>4 DEF ResumeAt

\* A page without a session resumes one, or finds none.
LEMMA ResumeWithoutKeeps ==
    ASSUME WorkInv, RestInv, NEW q, PageOK(q), q.current = None, NEW ps \in SUBSET PullType,
           NEW tick \in BOOLEAN, ResumeWithout(q, ps, tick), handled' = handled
    PROVE  WorkInv' /\ queued' \in BOOLEAN /\ pulls' \subseteq PullType
<1>1. q \in PageType
  BY DEF PageOK
<1>2. CASE RestoreWithoutWrapper(q, NoView, ps)
  BY <1>1, <1>2, RestoreKeeps
<1>3. CASE page' = q /\ stored' = NoSaved /\ queued' = tick /\ pulls' = ps
  BY <1>3, CleanKeeps DEF WorkInv
<1> QED
  BY <1>2, <1>3 DEF ResumeWithout

-----------------------------------------------------------------------------
(* What a read of the source file leads to.                                *)

PullsOK == pulls' \subseteq PullType /\ queued' \in BOOLEAN /\ posts' \subseteq PostType

EndsWell(p) == WorkInv' /\ PullsOK

\* A read that changes nothing.
LEMMA KeepsKeeps ==
    ASSUME WorkInv, RestInv, NEW p \in pulls, Keeps(p)
    PROVE  EndsWell(p)
  BY DEF Keeps, Drops, EndsWell, PullsOK, WorkInv, RestInv, CacheFollowsPage, SettledIsGone

\* A read that only tells the user.
LEMMA TellsKeeps ==
    ASSUME WorkInv, RestInv, NEW p \in pulls, Tells(p)
    PROVE  EndsWell(p)
<1>1. PageOK(page')
  BY DEF Tells, WorkInv, PageOK, PageType
<1> QED
  BY <1>1 DEF Tells, Drops, EndsWell, PullsOK, WorkInv, RestInv, CacheFollowsPage, SettledIsGone,
              PageOK, PageType

\* A read that is tried again is a read.
LEMMA AgainIsTyped ==
    ASSUME RestInv, NEW p \in pulls, p.tries < Retries
    PROVE  Again(p) \subseteq PullType
<1>1. p \in PullType
  BY DEF RestInv
<1>2. p.tries + 1 \in 0..Retries
  BY <1>1, NumbersHold DEF PullType, Numbers
<1>3. [p EXCEPT !.tries = p.tries + 1, !.read = FALSE] \in PullType
  BY <1>1, <1>2 DEF PullType
<1> QED
  BY <1>3 DEF Again, Drops, RestInv

\* A read that found too little is tried again.
LEMMA TriesAgainKeeps ==
    ASSUME WorkInv, RestInv, NEW p \in pulls, p.tries < Retries, TriesAgain(p)
    PROVE  EndsWell(p)
<1>1. pulls' \subseteq PullType
  BY AgainIsTyped DEF TriesAgain
<1> QED
  BY <1>1 DEF TriesAgain, EndsWell, PullsOK, WorkInv, RestInv, CacheFollowsPage, SettledIsGone

\* A read that found no variant at all.
LEMMA RecoversEmptyKeeps ==
    ASSUME WorkInv, RestInv, NEW p \in pulls, RecoversEmpty(p)
    PROVE  EndsWell(p)
<1>1. [page EXCEPT !.arrived = 0] \in PageType
  BY NumbersHold DEF WorkInv, PageOK, PageType, Numbers
<1>2. WorkInv'
  BY <1>1, CleansUpKeeps DEF RecoversEmpty, WorkInv
<1> QED
  BY <1>2 DEF RecoversEmpty, CleansUp, Drops, EndsWell, PullsOK, RestInv

\* The gate of a start names a session, or none.
LEMMA GateIsTyped ==
    ASSUME RestInv
    PROVE  Gate \in Session \cup {None}
<1>1. CASE \E p \in posts : p.type = "generate" /\ p.at = "out"
  <2>1. PICK g : /\ g = CHOOSE p \in posts : p.type = "generate" /\ p.at = "out"
                 /\ g \in posts
    BY <1>1
  <2>2. g \in PostType
    BY <2>1 DEF RestInv
  <2> QED
    BY <1>1, <2>1, <2>2 DEF Gate, PostType
<1> QED
  BY <1>1 DEF Gate

\* What is posted is a request.
LEMMA PostIsTyped ==
    ASSUME RestInv, NEW s \in Session, NEW type \in {"generate", "checkpoint", "accept", "discard"}
    PROVE  Post(type, s) \in PostType
<1>1. PICK g \in Session \cup {None} : g = IF type = "generate" THEN None ELSE Gate
  BY GateIsTyped
<1> QED
  BY <1>1 DEF Post, PostType

\* A session whose wrapper is gone is discarded.
LEMMA DiscardOrphanedKeeps ==
    ASSUME WorkInv, RestInv, NEW p \in pulls, p.s = page.current, DiscardOrphaned(p)
    PROVE  EndsWell(p)
<1>1. page.current \in Session
  BY DEF RestInv, PullType
<1>2. Post("discard", page.current) \in PostType
  BY <1>1, PostIsTyped
<1>3. [Post("discard", page.current) EXCEPT !.heard = FALSE] \in PostType
  BY <1>2 DEF PostType
<1>4. handled' \subseteq Session
  BY <1>1, MarkStays DEF DiscardOrphaned, WorkInv
<1>5. WorkInv'
  BY <1>4, CleansUpKeeps DEF DiscardOrphaned, WorkInv, PageOK
<1> QED
  BY <1>3, <1>5 DEF DiscardOrphaned, CleansUp, Drops, EndsWell, PullsOK, RestInv

\* A read that found no wrapper.
LEMMA NoWrapperKeeps ==
    ASSUME WorkInv, RestInv, NEW p \in pulls, p.s = page.current, NoWrapper(p)
    PROVE  EndsWell(p)
  BY TriesAgainKeeps, DiscardOrphanedKeeps, NumbersHold DEF NoWrapper

\* A read that found no wrapper, of any session.
LEMMA WrapperGoneKeeps ==
    ASSUME WorkInv, RestInv, NEW p \in pulls, WrapperGone(p)
    PROVE  EndsWell(p)
  BY NoWrapperKeeps, KeepsKeeps DEF WrapperGone

\* Whoever is current: a session whose read has found variants has some to show.
LEMMA CompleteKeeps ==
    ASSUME WorkInv, RestInv, NEW p \in pulls, NEW n \in 0..Variants, Complete(p, n)
    PROVE  EndsWell(p)
<1>1. page \in PageType /\ Numbers
  BY NumbersHold DEF WorkInv, PageOK
<1>2. CASE /\ n > 0
           /\ Shows([page EXCEPT !.ui = "CYCLING", !.arrived = n,
                                 !.visible = Chosen(page, p.s, n)])
           /\ pulls' = {x \in NoAnchor : x # p} /\ UNCHANGED <<handled, queued, posts>>
  <2>1. PICK v : v = Chosen(page, p.s, n)
    OBVIOUS
  <2>2. v \in 1..n /\ v \in 0..Variants
    BY <1>1, <1>2, <2>1, ChosenIsThere DEF Numbers
  <2>3. PICK r : r = [page EXCEPT !.ui = "CYCLING", !.arrived = n, !.visible = v]
    OBVIOUS
  <2>4. r \in PageType /\ r.arrived = n /\ r.visible = v /\ r.current = page.current
    BY <1>1, <2>2, <2>3 DEF PageType
  <2>5. PageOK(r)
    BY <1>2, <2>2, <2>4 DEF PageOK
  <2>6. Shows(r)
    BY <1>2, <2>1, <2>3
  <2>7. WorkInv'
    BY <1>2, <2>4, <2>5, <2>6, ShowsKeeps DEF WorkInv, CacheFollowsPage, SettledIsGone
  <2> QED
    BY <1>2, <2>7 DEF NoAnchor, EndsWell, PullsOK, RestInv
<1>3. CASE /\ page.ui = "GENERATING"
           /\ page' = [page EXCEPT !.arrived = 0]
           /\ UNCHANGED <<stored, handled, queued, posts>>
           /\ pulls' \subseteq PullType
  <2>1. /\ page' \in PageType /\ page'.arrived = 0 /\ page'.ui = "GENERATING"
        /\ page'.current = page.current
    BY <1>1, <1>3 DEF PageType, Numbers
  <2>2. PageOK(page')
    BY <2>1 DEF PageOK
  <2> QED
    BY <1>3, <2>1, <2>2 DEF EndsWell, PullsOK, WorkInv, RestInv, CacheFollowsPage, SettledIsGone, PageOK
<1>4. CASE RecoversEmpty(p)
  BY <1>4, RecoversEmptyKeeps
<1>5. {x \in NoAnchor : x # p} \subseteq PullType
  BY DEF NoAnchor, RestInv
<1>6. p.tries < Retries => {x \in Again(p) : x.why # "anchor"} \subseteq PullType
  BY AgainIsTyped
<1> QED
  BY <1>2, <1>3, <1>4, <1>5, <1>6 DEF Complete

\* A read that found no place for the wrapper.
LEMMA WaitsForAnchorKeeps ==
    ASSUME WorkInv, RestInv, NEW p \in pulls, WaitsForAnchor(p)
    PROVE  EndsWell(p)
<1>1. PICK r : r = [page EXCEPT !.ui = "GENERATING"]
  OBVIOUS
<1>2. PageOK(r) /\ r.current = page.current
  BY <1>1 DEF WorkInv, PageOK, PageType
<1>3. WorkInv'
  BY <1>1, <1>2, ShowsKeeps DEF WaitsForAnchor, WorkInv, CacheFollowsPage, SettledIsGone
<1>4. Pull(p.s, "anchor", 0, FALSE) \in PullType
  BY NumbersHold DEF Pull, PullType, RestInv, Numbers
<1> QED
  BY <1>3, <1>4 DEF WaitsForAnchor, NoAnchor, EndsWell, PullsOK, RestInv

\* A refused accept, or an error, brings back a bar with something in it, or none.
LEMMA CyclesAgainKeeps ==
    ASSUME WorkInv, RestInv, NEW q \in PageType, q.current = page.current, CyclesAgain(q),
           handled' = handled
    PROVE  WorkInv' /\ pulls' \subseteq PullType
<1>1. CASE q.arrived = 0
  BY <1>1, CleansUpKeeps DEF CyclesAgain, CleansUp, WorkInv, RestInv
<1>2. CASE q.arrived # 0
  <2>1. q.arrived > 0
    BY <1>2, NumbersHold DEF PageType, Numbers
  <2>2. page' = Renders(q) /\ UNCHANGED <<stored, pulls>>
    BY <1>2 DEF CyclesAgain
  <2>3. PageOK(page') /\ page'.current = page.current
    BY <2>1, <2>2, RendersIsOK
  <2> QED
    BY <2>2, <2>3 DEF WorkInv, RestInv, CacheFollowsPage, SettledIsGone, PageOK
<1> QED
  BY <1>1, <1>2

-----------------------------------------------------------------------------
(* Every action keeps the invariant.                                       *)

\* The page moves within its session, and cache and marks stay.
LEMMA PageMoves ==
    ASSUME WorkInv, PageOK(page'), page'.current = page.current, UNCHANGED <<stored, handled>>
    PROVE  WorkInv'
  BY DEF WorkInv, CacheFollowsPage, SettledIsGone, PageOK

\* Nothing of the session's state is touched.
LEMMA WorkStays ==
    ASSUME WorkInv, UNCHANGED <<page, stored, handled>>
    PROVE  WorkInv'
  BY DEF WorkInv, CacheFollowsPage, SettledIsGone, PageOK

\* What the user does.
LEMMA UserKeeps ==
    ASSUME SessionIInv, User
    PROVE  SessionIInv'
<1> USE NumbersHold
<1>1. WorkInv /\ RestInv /\ page \in PageType
  BY DEF SessionIInv, WorkInv, PageOK
<1>2. CASE Pick \/ Unpick
  <2>1. PICK u \in {"CONFIGURING", "PICKING"} : page' = [page EXCEPT !.ui = u]
    BY <1>2 DEF Pick, Unpick
  <2>a. /\ page' \in PageType /\ page'.current = page.current /\ page'.ui = u
        /\ page'.arrived = page.arrived /\ page'.visible = page.visible
    BY <1>1, <2>1 DEF PageType
  <2>b. PageOK(page')
    BY <1>1, <2>a DEF PageOK, WorkInv
  <2>2. WorkInv'
    BY <1>1, <1>2, <2>a, <2>b, PageMoves DEF Pick, Unpick, UserOnly
  <2> QED
    BY <1>1, <1>2, <2>2 DEF Pick, Unpick, UserOnly, helper, SessionIInv, RestInv
<1>3. ASSUME NEW s \in Session, Go(s) \/ GoAnnotated(s) PROVE SessionIInv'
  <2>1. NewSession(s)
    BY <1>3 DEF Go, GoAnnotated
  <2>2. PageOK(Begins(s)) /\ Begins(s).current = s
    <3>1. PICK r : r = [page EXCEPT !.ui = "GENERATING", !.current = s, !.arrived = 0,
                                    !.visible = 0, !.pending = None, !.awaiting = None,
                                    !.obs = s, !.told = FALSE]
      OBVIOUS
    <3>a. 0 \in 0..Variants
      BY DEF Numbers
    <3>2. r \in PageType /\ r.current = s /\ r.arrived = 0 /\ r.ui = "GENERATING"
      BY <1>1, <3>1, <3>a DEF PageType
    <3>3. PageOK(r)
      BY <3>2 DEF PageOK
    <3>4. Begins(s) = r
      BY <3>1 DEF Begins
    <3> QED
      BY <3>2, <3>3, <3>4
  <2>3. s \notin handled
    BY <2>1, NewIsUnused DEF Used
  <2>4. WorkInv'
    BY <1>1, <2>1, <2>2, <2>3, ShowsKeeps DEF NewSession, UserOnly
  <2>5. posts' \subseteq PostType /\ capture' \subseteq Session
    BY <1>1, <1>3, PostIsTyped DEF Go, GoAnnotated, RestInv
  <2> QED
    BY <1>1, <2>1, <2>4, <2>5 DEF NewSession, UserOnly, helper, SessionIInv, RestInv
<1>4. CASE Accept
  <2>1. PICK r : r = [page EXCEPT !.ui = "SAVING", !.pending = page.current]
    OBVIOUS
  <2>2. PageOK(r) /\ r.current = page.current
    BY <1>1, <2>1 DEF PageOK, PageType, SessionIInv, WorkInv
  <2>3. page.current \in Session /\ page.current \notin handled
    BY <1>1, <1>4 DEF Accept, PageType, WorkInv, CacheFollowsPage, SettledIsGone
  <2>4. WorkInv'
    BY <1>1, <1>4, <2>1, <2>2, <2>3, ShowsKeeps DEF Accept, UserOnly
  <2>5. posts' \subseteq PostType
    BY <1>1, <1>4, <2>3, PostIsTyped DEF Accept, RestInv
  <2> QED
    BY <1>1, <1>4, <2>4, <2>5 DEF Accept, UserOnly, helper, SessionIInv, RestInv
<1>5. CASE Discard
  <2>1. page.current \in Session
    BY <1>1, <1>5 DEF Discard, PageType
  <2>2. posts' \subseteq PostType
    BY <1>1, <1>5, <2>1, PostIsTyped DEF Discard, RestInv
  <2>3. WorkInv'
    BY <1>1, <1>5, WorkStays DEF Discard, UserOnly
  <2> QED
    BY <1>1, <1>5, <2>2, <2>3 DEF Discard, UserOnly, helper, SessionIInv, RestInv
<1>6. ASSUME NEW n \in 1..Variants, SelectVariant(n) PROVE SessionIInv'
  <2>1. PICK r : r = [page EXCEPT !.visible = n]
    OBVIOUS
  <2>2. /\ r \in PageType /\ r.visible = n /\ r.arrived = page.arrived /\ r.ui = page.ui
        /\ r.current = page.current
    BY <1>1, <2>1 DEF PageType, Numbers
  <2>3. PageOK(r)
    BY <1>1, <1>6, <2>2 DEF PageOK, SelectVariant, WorkInv
  <2>4. WorkInv'
    BY <1>1, <1>6, <2>1, <2>2, <2>3, ShowsKeeps
       DEF SelectVariant, UserOnly, WorkInv, CacheFollowsPage, SettledIsGone
  <2> QED
    BY <1>1, <1>6, <2>4 DEF SelectVariant, UserOnly, helper, SessionIInv, RestInv
<1> QED
  BY <1>2, <1>3, <1>4, <1>5, <1>6 DEF User

\* An answered request is a request still.
LEMMA AnswersAreTyped ==
    ASSUME RestInv, NEW p \in posts, NEW a \in {"ok", "no", "unknown"}, Answered(p, a)
    PROVE  posts' \subseteq PostType
<1>1. [p EXCEPT !.at = a] \in PostType
  BY DEF RestInv, PostType
<1> QED
  BY <1>1 DEF Answered, RestInv

\* What becomes of a request on its way.
LEMMA PostKeeps ==
    ASSUME SessionIInv, NEW p \in posts, PostArrives(p) \/ PostFails(p)
    PROVE  SessionIInv'
<1>1. WorkInv /\ RestInv
  BY DEF SessionIInv
<1>2. p \in PostType
  BY <1>1 DEF RestInv
<1>3. \E a \in {"ok", "no", "unknown"} : Answered(p, a)
  BY DEF PostArrives, PostFails
<1>4. posts' \subseteq PostType
  BY <1>1, <1>3, AnswersAreTyped
<1>5. server' \in [Session -> Journal]
  BY <1>1, <1>2 DEF PostArrives, PostFails, RestInv, PostType, Journal
<1>6. WorkInv'
  BY <1>1, WorkStays DEF PostArrives, PostFails
<1> QED
  BY <1>1, <1>4, <1>5, <1>6 DEF PostArrives, PostFails, SessionIInv, RestInv

\* The answer to a request arrives.
LEMMA AnswerKeeps ==
    ASSUME SessionIInv, NEW p \in posts, Answer(p)
    PROVE  SessionIInv'
<1>1. WorkInv /\ RestInv /\ page \in PageType /\ p \in PostType
  BY DEF SessionIInv, WorkInv, PageOK, RestInv
<1>2. posts' \subseteq PostType /\ UNCHANGED <<capture, queued, events, helper>>
  BY <1>1 DEF Answer, GenerateAnswered, AbandonForeignSession, CheckpointAnswered,
              AcceptConfirmed, AcceptRefused, DiscardConfirmed, DiscardRefused, Reply, RestInv
<1>3. CASE UNCHANGED <<page, stored, handled, pulls>>
  <2>1. WorkInv'
    BY <1>1, <1>3, WorkStays
  <2> QED
    BY <1>1, <1>2, <1>3, <2>1 DEF SessionIInv, RestInv, helper
<1>4. ASSUME NEW s \in Session \cup {None}, handled' = Mark(s), CleansUp(page, pulls)
      PROVE  SessionIInv'
  <2>1. handled' \subseteq Session
    BY <1>1, <1>4, MarkStays DEF WorkInv
  <2>2. WorkInv'
    BY <1>1, <1>4, <2>1, CleansUpKeeps
  <2>3. pulls' \subseteq PullType
    BY <1>1, <1>4 DEF CleansUp, RestInv
  <2> QED
    BY <1>1, <1>2, <2>2, <2>3 DEF SessionIInv, RestInv, helper
<1>5. CASE AbandonForeignSession(p)
  BY <1>1, <1>4, <1>5 DEF AbandonForeignSession, PostType
<1>6. CASE DiscardConfirmed(p)
  BY <1>1, <1>4, <1>6 DEF DiscardConfirmed, PageType
<1>7. CASE AcceptConfirmed(p) /\ page.pending = p.s
  <2>1. [page EXCEPT !.awaiting = p.s] \in PageType
    BY <1>1 DEF PageType, PostType
  <2>2. handled' \subseteq Session
    BY <1>1, <1>7, MarkStays DEF AcceptConfirmed, WorkInv, PageType
  <2>3. PageOK(page') /\ page'.current = None
    BY <1>7, <2>1, NumbersHold DEF AcceptConfirmed, CleanedAccepted, Cleaned, PageOK, PageType
  <2>4. WorkInv'
    BY <1>1, <1>7, <2>2, <2>3, CleanKeeps DEF AcceptConfirmed, CleanedAccepted
  <2> QED
    BY <1>1, <1>2, <1>7, <2>4 DEF AcceptConfirmed, SessionIInv, RestInv, helper
<1>8. CASE AcceptRefused(p)
  <2>1. PICK q : q = Released(page, p.s)
    OBVIOUS
  <2>2. q \in PageType /\ q.current = page.current
    BY <1>1, <2>1 DEF Released, PageType
  <2>3. WorkInv' /\ pulls' \subseteq PullType
    BY <1>1, <1>8, <2>1, <2>2, CyclesAgainKeeps DEF AcceptRefused
  <2> QED
    BY <1>1, <1>2, <2>3 DEF SessionIInv, RestInv, helper
<1> QED
  BY <1>3, <1>5, <1>6, <1>7, <1>8
     DEF Answer, GenerateAnswered, CheckpointAnswered, AcceptConfirmed, DiscardRefused

\* The script is left, or starts anew in a page of which it knows nothing.
LEMMA LeavesAndReloadsKeep ==
    ASSUME SessionIInv, Exit \/ Reload
    PROVE  SessionIInv'
<1>1. WorkInv /\ RestInv /\ page \in PageType /\ Numbers
  BY NumbersHold DEF SessionIInv, WorkInv, PageOK
<1>2. CASE Exit
  <2>1. PICK q : q = [Cleaned(page) EXCEPT !.ui = "IDLE", !.line = "closed"]
    OBVIOUS
  <2>2. PageOK(q) /\ q.current = None
    BY <1>1, <2>1 DEF Cleaned, PageOK, PageType
  <2>3. page' = q /\ stored' = NoSaved /\ handled' = handled
    BY <1>2, <2>1 DEF Exit
  <2>4. WorkInv'
    BY <1>1, <2>2, <2>3, CleanKeeps DEF WorkInv
  <2>5. pulls' \subseteq PullType /\ events' \in Seq(EventType)
    BY <1>1, <1>2 DEF Exit, NoAnchor, RestInv
  <2> QED
    BY <1>1, <1>2, <2>4, <2>5 DEF Exit, SessionIInv, RestInv
<1>3. CASE Reload
  <2>1. PICK q : q = [page EXCEPT !.ui = "PICKING",
                          !.current = None, !.arrived = 0, !.visible = 0, !.pending = None,
                          !.awaiting = None, !.obs = None, !.scout = TRUE,
                          !.told = FALSE, !.line = "up"]
    OBVIOUS
  <2>a. 0 \in 0..Variants
    BY <1>1 DEF Numbers
  <2>2. q \in PageType /\ q.current = None
    BY <1>1, <2>1, <2>a DEF PageType
  <2>3. PageOK(q)
    BY <1>1, <2>2, <2>1 DEF PageOK, PageType
  <2>4. PICK d \in {source, [s \in Session |-> Missing]} :
           /\ dom' = d
           /\ \/ Wrapped(d) = {} /\ ResumeWithout(q, {}, FALSE)
              \/ \E s \in Wrapped(d) : ResumeAt(s, d[s], q, {}, FALSE)
    BY <1>3, <2>1 DEF Reload
  <2>5. UNCHANGED <<handled, server, source>> /\ capture' = {}
    BY <1>3 DEF Reload
  <2>6. dom' \in [Session -> Missing..Variants]
    BY <1>1, <2>4 DEF RestInv, Numbers
  <2>7. WorkInv' /\ queued' \in BOOLEAN /\ pulls' \subseteq PullType
    <3>1. CASE ResumeWithout(q, {}, FALSE)
      BY <1>1, <2>2, <2>3, <2>5, <3>1, ResumeWithoutKeeps
    <3>2. ASSUME NEW s \in Wrapped(d), ResumeAt(s, d[s], q, {}, FALSE)
          PROVE  WorkInv' /\ queued' \in BOOLEAN /\ pulls' \subseteq PullType
      <4>1. s \in Session /\ d[s] \in 0..Variants
        BY <1>1, <2>4, <2>6, <3>2 DEF Wrapped, Numbers
      <4> QED
        BY <1>1, <2>2, <2>3, <2>5, <3>2, <4>1, ResumeAtKeeps
    <3> QED
      BY <2>4, <3>1, <3>2
  <2>8. posts' \subseteq PostType
    <3>1. \A p \in posts : [p EXCEPT !.heard = FALSE] \in PostType
      BY <1>1 DEF RestInv, PostType
    <3> QED
      BY <1>3, <3>1 DEF Reload
  <2>9. events' \in Seq(EventType)
    <3>1. Event("connected", None) \in EventType
      BY <1>1 DEF Event, EventType, RestInv
    <3> QED
      BY <1>3, <3>1 DEF Reload
  <2> QED
    BY <1>1, <2>5, <2>6, <2>7, <2>8, <2>9 DEF SessionIInv, RestInv
<1> QED
  BY <1>2, <1>3

\* A page that observes its variants has the session it had.
LEMMA ObservedIsOK ==
    ASSUME PageOK(page), NEW s \in Session, NEW n \in 0..Variants
    PROVE  PageOK(Observed(page, s, n)) /\ Observed(page, s, n).current = page.current
<1>1. page \in PageType /\ Numbers
  BY NumbersHold DEF PageOK
<1>2. CASE page.obs # s \/ n <= page.arrived
  BY <1>2 DEF Observed
<1>3. CASE ~(page.obs # s \/ n <= page.arrived)
  <2>1. n \in 1..Variants
    BY <1>1, <1>3 DEF PageType, Numbers
  <2>2. PICK v : v = IF page.visible = 0 THEN Chosen(page, s, n) ELSE page.visible
    OBVIOUS
  <2>3. v \in 0..Variants
    BY <1>1, <2>1, <2>2, ChosenIsThere DEF PageType, Numbers
  <2>4. PICK r : r = [page EXCEPT !.arrived = n, !.visible = v]
    OBVIOUS
  <2>5. r \in PageType /\ r.arrived = n /\ r.current = page.current
    BY <1>1, <2>3, <2>4 DEF PageType
  <2>6. Observed(page, s, n) = Renders(r)
    BY <1>3, <2>2, <2>4 DEF Observed
  <2>7. r.arrived > 0
    BY <2>1, <2>5
  <2> QED
    BY <2>5, <2>6, <2>7, RendersIsOK
<1> QED
  BY <1>2, <1>3

\* The document changes under the page.
LEMMA DocumentKeeps ==
    ASSUME SessionIInv, NEW s \in Session, HotReload(s) \/ Unmount(s)
    PROVE  SessionIInv'
<1>1. WorkInv /\ RestInv /\ PageOK(page) /\ page \in PageType /\ Numbers
  BY NumbersHold DEF SessionIInv, WorkInv, PageOK
<1>2. CASE Unmount(s)
  <2>1. WorkInv'
    BY <1>1, <1>2, WorkStays DEF Unmount
  <2>2. dom' \in [Session -> Missing..Variants]
    BY <1>1, <1>2 DEF Unmount, RestInv, Numbers
  <2> QED
    BY <1>1, <1>2, <2>1, <2>2 DEF Unmount, SessionIInv, RestInv
<1>3. CASE HotReload(s)
  <2>1. dom' = [dom EXCEPT ![s] = source[s]] /\ dom' \in [Session -> Missing..Variants]
    BY <1>1, <1>3 DEF HotReload, RestInv
  <2>2. UNCHANGED <<handled, capture, posts, events, server, source>>
    BY <1>3 DEF HotReload
  <2>3. ASSUME NEW t \in Wrapped(dom'),
               ResumeAt(t, dom'[t], [page EXCEPT !.scout = FALSE], pulls, queued)
        PROVE  WorkInv' /\ queued' \in BOOLEAN /\ pulls' \subseteq PullType
    <3>1. PICK q : q = [page EXCEPT !.scout = FALSE]
      OBVIOUS
    <3>2. /\ q \in PageType /\ q.current = page.current /\ q.arrived = page.arrived
          /\ q.visible = page.visible /\ q.ui = page.ui
      BY <1>1, <3>1 DEF PageType
    <3>3. PageOK(q)
      BY <1>1, <3>2 DEF PageOK
    <3>4. t \in Session /\ dom'[t] \in 0..Variants
      BY <1>1, <2>1, <2>3 DEF Wrapped, Numbers
    <3>5. pulls \in SUBSET PullType /\ queued \in BOOLEAN
      BY <1>1 DEF RestInv
    <3> QED
      BY <1>1, <2>2, <2>3, <3>1, <3>2, <3>3, <3>4, <3>5, ResumeAtKeeps
  <2>4. ASSUME UNCHANGED <<page, stored, queued, pulls>>
        PROVE  WorkInv' /\ queued' \in BOOLEAN /\ pulls' \subseteq PullType
    BY <1>1, <2>2, <2>4, WorkStays DEF RestInv
  <2>5. ASSUME source[s] # Missing, Shows(Observed(page, s, source[s])),
               UNCHANGED <<queued, pulls>>
        PROVE  WorkInv' /\ queued' \in BOOLEAN /\ pulls' \subseteq PullType
    <3>1. source[s] \in 0..Variants
      BY <1>1, <2>5 DEF RestInv, Numbers
    <3>2. PICK r : r = Observed(page, s, source[s])
      OBVIOUS
    <3>3. PageOK(r) /\ r.current = page.current
      BY <1>1, <3>1, <3>2, ObservedIsOK
    <3>4. r.current \notin handled
      BY <1>1, <3>3 DEF WorkInv, CacheFollowsPage, SettledIsGone
    <3>5. WorkInv'
      BY <1>1, <2>2, <2>5, <3>2, <3>3, <3>4, ShowsKeeps
    <3> QED
      BY <1>1, <2>5, <3>5 DEF RestInv
  <2>6. WorkInv' /\ queued' \in BOOLEAN /\ pulls' \subseteq PullType
    BY <1>3, <2>3, <2>4, <2>5 DEF HotReload
  <2> QED
    BY <1>1, <2>1, <2>2, <2>6 DEF SessionIInv, RestInv
<1> QED
  BY <1>2, <1>3

\* Reads of the source file.
LEMMA PullKeeps ==
    ASSUME SessionIInv, NEW p \in pulls,
           PullStep(p) \/ AnchorAppears(p) \/ ReadFails(p) \/ ProbeFails(p)
    PROVE  SessionIInv'
<1>1. WorkInv /\ RestInv /\ p \in PullType /\ Numbers
  BY NumbersHold DEF SessionIInv, RestInv
<1>2. ASSUME EndsWell(p), UNCHANGED <<capture, events, server, source>>,
             dom' \in [Session -> Missing..Variants]
      PROVE  SessionIInv'
  BY <1>1, <1>2 DEF EndsWell, PullsOK, SessionIInv, RestInv
<1>3. CASE PullStarts(p) \/ AnchorAppears(p)
  <2>1. PICK why \in {"done", "orphan", "plain", "anchor"} :
           pulls' \in {Drops(p) \cup {[p EXCEPT !.read = TRUE, !.why = why]}, Drops(p)}
    <3>1. CASE AnchorAppears(p)
      BY <3>1 DEF AnchorAppears
    <3>2. CASE PullStarts(p) /\ p.why = "anchor"
      BY <3>2 DEF PullStarts
    <3>3. CASE PullStarts(p) /\ p.why # "anchor"
      BY <1>1, <3>3 DEF PullStarts, PullType
    <3> QED
      BY <1>3, <3>1, <3>2, <3>3
  <2>2. [p EXCEPT !.read = TRUE, !.why = why] \in PullType
    BY <1>1 DEF PullType
  <2>3. pulls' \subseteq PullType
    BY <1>1, <2>1, <2>2 DEF Drops, RestInv
  <2>4. UNCHANGED <<page, stored, handled, capture, queued, posts, events, server, source, dom>>
    BY <1>3 DEF PullStarts, AnchorAppears, helper
  <2>5. WorkInv'
    BY <1>1, <2>4, WorkStays
  <2> QED
    BY <1>1, <2>3, <2>4, <2>5 DEF SessionIInv, RestInv
<1>4. CASE HtmlRead(p)
  <2>1. UNCHANGED <<capture, events, server, source>>
    BY <1>4 DEF HtmlRead
  <2>2. CASE WrapperGone(p) /\ UNCHANGED dom
    BY <1>1, <1>2, <2>1, <2>2, WrapperGoneKeeps DEF RestInv
  <2>3. CASE /\ source[p.s] # Missing /\ dom' = [dom EXCEPT ![p.s] = source[p.s]]
             /\ Complete(p, source[p.s])
    <3>a. p.s \in Session /\ source[p.s] \in Missing..Variants
      BY <1>1 DEF RestInv, PullType
    <3>1. source[p.s] \in 0..Variants
      BY <1>1, <2>3, <3>a DEF Numbers
    <3>2. dom' \in [Session -> Missing..Variants]
      BY <1>1, <2>3 DEF RestInv, PullType
    <3> QED
      BY <1>1, <1>2, <2>1, <2>3, <3>1, <3>2, CompleteKeeps
  <2>4. CASE WaitsForAnchor(p) /\ UNCHANGED dom
    BY <1>1, <1>2, <2>1, <2>4, WaitsForAnchorKeeps DEF RestInv
  <2>5. CASE Keeps(p) /\ UNCHANGED dom
    BY <1>1, <1>2, <2>1, <2>5, KeepsKeeps DEF RestInv
  <2> QED
    BY <1>4, <2>2, <2>3, <2>4, <2>5 DEF HtmlRead
<1>5. CASE ReadFails(p)
  BY <1>1, <1>2, <1>5, TellsKeeps DEF ReadFails, RestInv
<1>6. CASE JsxLooks(p)
  <2>1. UNCHANGED <<capture, events, server, source, dom>>
    BY <1>6 DEF JsxLooks, helper
  <2>2. CASE Keeps(p)
    BY <1>1, <1>2, <2>1, <2>2, KeepsKeeps DEF RestInv
  <2>3. CASE dom[p.s] > 0 /\ Complete(p, dom[p.s])
    <3>1. dom[p.s] \in 0..Variants
      BY <1>1, <2>3 DEF RestInv, PullType, Numbers
    <3> QED
      BY <1>1, <1>2, <2>1, <2>3, <3>1, CompleteKeeps DEF RestInv
  <2>4. CASE p.tries < Retries /\ TriesAgain(p)
    BY <1>1, <1>2, <2>1, <2>4, TriesAgainKeeps DEF RestInv
  <2>5. CASE Tells(p)
    BY <1>1, <1>2, <2>1, <2>5, TellsKeeps DEF RestInv
  <2>6. CASE RecoversEmpty(p)
    BY <1>1, <1>2, <2>1, <2>6, RecoversEmptyKeeps DEF RestInv
  <2>7. CASE /\ pulls' = Drops(p) \cup {[p EXCEPT !.read = TRUE]}
             /\ UNCHANGED <<page, stored, handled, queued, posts>>
    <3>1. [p EXCEPT !.read = TRUE] \in PullType
      BY <1>1 DEF PullType
    <3>2. WorkInv'
      BY <1>1, <2>7, WorkStays
    <3> QED
      BY <1>1, <1>2, <2>1, <2>7, <3>1, <3>2 DEF Drops, EndsWell, PullsOK, RestInv
  <2> QED
    BY <1>6, <2>2, <2>3, <2>4, <2>5, <2>6, <2>7 DEF JsxLooks
<1>7. CASE JsxProbed(p)
  <2>1. UNCHANGED <<capture, events, server, source, dom>>
    BY <1>7 DEF JsxProbed, helper
  <2>2. CASE Keeps(p)
    BY <1>1, <1>2, <2>1, <2>2, KeepsKeeps DEF RestInv
  <2>3. CASE p.s = page.current /\ NoWrapper(p)
    BY <1>1, <1>2, <2>1, <2>3, NoWrapperKeeps DEF RestInv
  <2> QED
    BY <1>7, <2>2, <2>3 DEF JsxProbed, InSession
<1>8. CASE ProbeFails(p)
  <2>1. UNCHANGED <<capture, events, server, source, dom>>
    BY <1>8 DEF ProbeFails
  <2> QED
    BY <1>1, <1>2, <1>8, <2>1, KeepsKeeps, TriesAgainKeeps, TellsKeeps DEF ProbeFails, RestInv
<1> QED
  BY <1>3, <1>4, <1>5, <1>6, <1>7, <1>8 DEF PullStep

\* What is at the head of the stream, and what is left of it.
LEMMA HeadIsTyped ==
    ASSUME RestInv, events # <<>>
    PROVE  Head(events) \in EventType /\ Tail(events) \in Seq(EventType)
  BY DEF RestInv

\* The stream is up again.
LEMMA ConnectedKeeps ==
    ASSUME SessionIInv, Connected
    PROVE  SessionIInv'
<1>1. WorkInv /\ RestInv /\ Numbers /\ page \in PageType
  BY NumbersHold DEF SessionIInv, WorkInv, PageOK
<1>2. events' \in Seq(EventType) /\ UNCHANGED <<handled, capture, posts, helper>>
  BY <1>1, HeadIsTyped DEF Connected, Received
<1>3. PICK view : view = Head(events).view
  OBVIOUS
<1>4. ASSUME NEW q \in PageType, Missed(q, view)
      PROVE  Pull(q.current, "done", 0, FALSE) \in PullType
  <2>1. q.current \in Session
    BY <1>4 DEF Missed, PageType
  <2>2. 0 \in 0..Retries
    BY <1>1 DEF Numbers
  <2> QED
    BY <2>1, <2>2 DEF Pull, PullType
<1>5. CASE /\ pulls' = IF Missed(page, view)
                       THEN pulls \cup {Pull(page.current, "done", 0, FALSE)} ELSE pulls
           /\ UNCHANGED <<page, stored, queued>>
  <2>1. WorkInv'
    BY <1>1, <1>2, <1>5, WorkStays
  <2>2. pulls' \subseteq PullType
    BY <1>1, <1>4, <1>5 DEF RestInv
  <2> QED
    BY <1>1, <1>2, <1>5, <2>1, <2>2 DEF SessionIInv, RestInv, helper
<1>6. CASE \E ps \in {pulls} \cup {pulls \cup {Pull(s, "done", 0, FALSE)} : s \in Session} :
              RestoreWithoutWrapper(page, view, ps)
  <2>1. PICK ps \in {pulls} \cup {pulls \cup {Pull(s, "done", 0, FALSE)} : s \in Session} :
              RestoreWithoutWrapper(page, view, ps)
    BY <1>6
  <2>2. \A s \in Session : Pull(s, "done", 0, FALSE) \in PullType
    BY <1>1 DEF Pull, PullType, Numbers
  <2>3. ps \in SUBSET PullType
    BY <1>1, <2>1, <2>2 DEF RestInv
  <2>4. WorkInv' /\ queued' \in BOOLEAN /\ pulls' \subseteq PullType
    BY <1>1, <1>2, <2>1, <2>3, RestoreKeeps
  <2> QED
    BY <1>1, <1>2, <2>4 DEF SessionIInv, RestInv, helper
<1> QED
  BY <1>3, <1>5, <1>6 DEF Connected

\* The helper says that the variants are there.
LEMMA DoneKeeps ==
    ASSUME SessionIInv, DoneReceived
    PROVE  SessionIInv'
<1>1. WorkInv /\ RestInv /\ Numbers /\ page \in PageType /\ PageOK(page)
  BY NumbersHold DEF SessionIInv, WorkInv, PageOK
<1>2. events' \in Seq(EventType) /\ UNCHANGED <<stored, handled, capture, queued, posts, helper>>
  BY <1>1, HeadIsTyped DEF DoneReceived, Received
<1>3. Heard \in Session
  <2>1. Head(events) \in EventType /\ Head(events).type = "done"
    BY <1>1, HeadIsTyped DEF DoneReceived, Received
  <2> QED
    BY <2>1 DEF EventType, Heard
<1>4. pulls' \subseteq PullType
  <2>1. Pull(Heard, "done", 0, FALSE) \in PullType
    BY <1>1, <1>3 DEF Pull, PullType, Numbers
  <2> QED
    BY <1>1, <2>1 DEF DoneReceived, RestInv
<1>5. PageOK(page') /\ page'.current = page.current
  <2>1. CASE AllArrived /\ page' = Renders(page)
    <3>1. page.arrived > 0
      BY <1>1, <2>1 DEF AllArrived, PageType, Numbers
    <3> QED
      BY <1>1, <2>1, <3>1, RendersIsOK
  <2>2. CASE page' = page
    BY <1>1, <2>2
  <2>3. CASE page' = [page EXCEPT !.told = page.told \/ page.ui = "GENERATING"]
    <3>1. /\ page' \in PageType /\ page'.current = page.current /\ page'.arrived = page.arrived
          /\ page'.visible = page.visible /\ page'.ui = page.ui
      BY <1>1, <2>3 DEF PageType
    <3> QED
      BY <1>1, <3>1 DEF PageOK
  <2> QED
    BY <2>1, <2>2, <2>3 DEF DoneReceived
<1>6. WorkInv'
  BY <1>1, <1>2, <1>5, PageMoves
<1> QED
  BY <1>1, <1>2, <1>4, <1>6 DEF SessionIInv, RestInv, helper

\* The helper says that a session is over.
LEMMA EndKeeps ==
    ASSUME SessionIInv, AcceptReceived \/ DiscardedReceived \/ ErrorReceived
    PROVE  SessionIInv'
<1>1. WorkInv /\ RestInv /\ Numbers /\ page \in PageType /\ PageOK(page)
  BY NumbersHold DEF SessionIInv, WorkInv, PageOK
<1>2. events' \in Seq(EventType) /\ UNCHANGED <<capture, queued, posts, helper>>
  BY <1>1, HeadIsTyped DEF AcceptReceived, DiscardedReceived, ErrorReceived, Received
<1>3. Heard \in Session /\ Heard # None
  <2>1. Head(events) \in EventType /\ Head(events).type # "connected"
    BY <1>1, HeadIsTyped DEF AcceptReceived, DiscardedReceived, ErrorReceived, Received
  <2> QED
    BY <1>1, <2>1 DEF EventType, Heard, Numbers
<1>4. ASSUME WorkInv', pulls' \subseteq PullType
      PROVE  SessionIInv'
  BY <1>1, <1>2, <1>4 DEF SessionIInv, RestInv, helper
<1>5. ASSUME handled' = Mark(Heard), CleansUp(page, pulls)
      PROVE  SessionIInv'
  <2>1. handled' \subseteq Session
    BY <1>1, <1>3, <1>5, MarkStays DEF WorkInv
  <2>2. WorkInv'
    BY <1>1, <1>5, <2>1, CleansUpKeeps
  <2>3. pulls' \subseteq PullType
    BY <1>1, <1>5 DEF CleansUp, RestInv
  <2> QED
    BY <1>4, <2>2, <2>3
<1>6. CASE AcceptReceived
  <2>1. PICK v \in Session \cup {None} : v = IF page.awaiting = Heard THEN None ELSE page.awaiting
    BY <1>1 DEF PageType
  <2>2. PICK q : q = [page EXCEPT !.awaiting = v]
    OBVIOUS
  <2>3. /\ q \in PageType /\ q.current = page.current /\ q.arrived = page.arrived
        /\ q.visible = page.visible /\ q.ui = page.ui
    BY <1>1, <2>2 DEF PageType
  <2>4. PageOK(q)
    BY <1>1, <2>3 DEF PageOK
  <2>5. UNCHANGED pulls
    BY <1>6 DEF AcceptReceived
  <2>6. CASE page' = q /\ UNCHANGED <<stored, handled>>
    BY <1>1, <1>4, <2>3, <2>4, <2>5, <2>6, PageMoves DEF RestInv
  <2>7. CASE page' = [q EXCEPT !.pending = None] /\ UNCHANGED <<stored, handled>>
    <3>1. /\ page' \in PageType /\ page'.current = q.current /\ page'.arrived = q.arrived
          /\ page'.visible = q.visible /\ page'.ui = q.ui
      BY <2>3, <2>7 DEF PageType
    <3>2. PageOK(page')
      BY <2>4, <3>1 DEF PageOK
    <3> QED
      BY <1>1, <1>4, <2>3, <2>5, <2>7, <3>1, <3>2, PageMoves DEF RestInv
  <2>8. CASE handled' = Mark(page.current) /\ CleanedAccepted(q)
    <3>1. handled' \subseteq Session
      BY <1>1, <2>8, MarkStays DEF WorkInv, PageType
    <3>2. PageOK(page') /\ page'.current = None
      BY <2>3, <2>8, NumbersHold DEF CleanedAccepted, Cleaned, PageOK, PageType
    <3>3. WorkInv'
      BY <1>1, <2>8, <3>1, <3>2, CleanKeeps DEF CleanedAccepted
    <3> QED
      BY <1>1, <1>4, <2>5, <3>3 DEF RestInv
  <2> QED
    BY <1>6, <2>1, <2>2, <2>6, <2>7, <2>8 DEF AcceptReceived
<1>7. CASE DiscardedReceived
  <2>1. CASE UNCHANGED <<page, stored, handled, pulls>>
    BY <1>1, <1>4, <2>1, WorkStays DEF RestInv
  <2> QED
    BY <1>5, <1>7, <2>1 DEF DiscardedReceived
<1>8. CASE ErrorReceived
  <2>1. CASE /\ CyclesAgain([page EXCEPT !.pending = None, !.awaiting = None])
             /\ UNCHANGED handled
    <3>1. PICK q : q = [page EXCEPT !.pending = None, !.awaiting = None]
      OBVIOUS
    <3>2. q \in PageType /\ q.current = page.current
      BY <1>1, <3>1 DEF PageType
    <3> QED
      BY <1>1, <1>4, <2>1, <3>1, <3>2, CyclesAgainKeeps
  <2>2. CASE page' = [page EXCEPT !.awaiting = None] /\ UNCHANGED <<stored, handled, pulls>>
    <3>1. /\ page' \in PageType /\ page'.current = page.current /\ page'.arrived = page.arrived
          /\ page'.visible = page.visible /\ page'.ui = page.ui
      BY <1>1, <2>2 DEF PageType
    <3>2. PageOK(page')
      BY <1>1, <3>1 DEF PageOK
    <3> QED
      BY <1>1, <1>4, <2>2, <3>1, <3>2, PageMoves DEF RestInv
  <2>3. CASE /\ page.current # Heard
             /\ stored' = IF stored.id = Heard THEN NoSaved ELSE stored
             /\ page' = [page EXCEPT !.ui = "PICKING"]
             /\ UNCHANGED <<handled, pulls>>
    <3>1. /\ page' \in PageType /\ page'.current = page.current /\ page'.ui = "PICKING"
          /\ page'.arrived = page.arrived /\ page'.visible = page.visible
      BY <1>1, <2>3 DEF PageType
    <3>2. PageOK(page')
      BY <1>1, <3>1 DEF PageOK
    <3>3. NoSaved \in CacheType /\ NoSaved.id = None
      BY <1>1 DEF NoSaved, CacheType, UiStates, Numbers
    <3>4. WorkInv'
      BY <1>1, <2>3, <3>1, <3>2, <3>3
         DEF WorkInv, CacheFollowsPage, SettledIsGone, Numbers, PageOK
    <3> QED
      BY <1>1, <1>4, <2>3, <3>4 DEF RestInv
  <2> QED
    BY <1>5, <1>8, <2>1, <2>2, <2>3 DEF ErrorReceived
<1> QED
  BY <1>6, <1>7, <1>8

\* The line, the captures and the reports of progress.
LEMMA LineKeeps ==
    ASSUME SessionIInv,
           \/ LineBreaks \/ Reconnect \/ ServerLost \/ CheckpointFires
           \/ \E s \in capture : CaptureEnds(s)
    PROVE  SessionIInv'
<1>1. WorkInv /\ RestInv /\ Numbers /\ page \in PageType /\ PageOK(page)
  BY NumbersHold DEF SessionIInv, WorkInv, PageOK
<1>2. CASE LineBreaks \/ Reconnect
  <2>1. PICK l \in {"up", "down"} : page' = [page EXCEPT !.line = l]
    BY <1>2 DEF LineBreaks, Reconnect
  <2>2. /\ page' \in PageType /\ page'.current = page.current /\ page'.arrived = page.arrived
        /\ page'.visible = page.visible /\ page'.ui = page.ui
    BY <1>1, <2>1 DEF PageType
  <2>3. PageOK(page')
    BY <1>1, <2>2 DEF PageOK
  <2>4. WorkInv'
    BY <1>1, <1>2, <2>2, <2>3, PageMoves DEF LineBreaks, Reconnect
  <2>5. Event("connected", None) \in EventType
    BY <1>1 DEF Event, EventType, RestInv
  <2>6. events' \in Seq(EventType)
    <3>1. PICK e \in EventType : e = Event("connected", None)
      BY <2>5
    <3>2. events' = <<>> \/ events' = <<e>>
      BY <1>2, <3>1 DEF LineBreaks, Reconnect
    <3>3. <<e>> \in Seq(EventType) /\ <<>> \in Seq(EventType)
      OBVIOUS
    <3> QED
      BY <3>2, <3>3
  <2> QED
    BY <1>1, <1>2, <2>4, <2>6 DEF LineBreaks, Reconnect, helper, SessionIInv, RestInv
<1>3. CASE ServerLost
  <2>1. PICK u : u = IF page.current = None THEN "IDLE" ELSE page.ui
    OBVIOUS
  <2>2. PICK r : r = [page EXCEPT !.line = "closed", !.obs = None, !.told = TRUE, !.ui = u]
    OBVIOUS
  <2>3. /\ r \in PageType /\ r.current = page.current /\ r.arrived = page.arrived
        /\ r.visible = page.visible /\ r.ui = u
    BY <1>1, <2>1, <2>2 DEF PageType
  <2>4. PageOK(r)
    BY <1>1, <2>1, <2>3 DEF PageOK
  <2>5. Shows(r)
    BY <1>3, <2>1, <2>2 DEF ServerLost
  <2>6. WorkInv'
    BY <1>1, <1>3, <2>3, <2>4, <2>5, ShowsKeeps
       DEF ServerLost, WorkInv, CacheFollowsPage, SettledIsGone
  <2> QED
    BY <1>1, <1>3, <2>6 DEF ServerLost, SessionIInv, RestInv
<1>4. CASE CheckpointFires
  <2>1. \A s \in {t \in {page.current} \ {None} : server[t] = "none"} : Post("checkpoint", s) \in PostType
    BY <1>1, PostIsTyped DEF PageType
  <2>2. WorkInv'
    BY <1>1, <1>4, WorkStays DEF CheckpointFires
  <2>3. posts' \subseteq PostType
    BY <1>1, <1>4, <2>1 DEF CheckpointFires, RestInv
  <2> QED
    BY <1>1, <1>4, <2>2, <2>3 DEF CheckpointFires, SessionIInv, RestInv, helper
<1>5. ASSUME NEW s \in capture, CaptureEnds(s) PROVE SessionIInv'
  <2>1. s \in Session
    BY <1>1 DEF RestInv
  <2>2. posts' \subseteq PostType
    BY <1>1, <1>5, <2>1, PostIsTyped DEF CaptureEnds, RestInv
  <2>3. WorkInv'
    BY <1>1, <1>5, WorkStays DEF CaptureEnds, UserOnly
  <2> QED
    BY <1>1, <1>5, <2>2, <2>3 DEF CaptureEnds, UserOnly, SessionIInv, RestInv, helper
<1> QED
  BY <1>2, <1>3, <1>4, <1>5

\* What is broadcast is an event.
LEMMA BroadcastIsTyped ==
    ASSUME RestInv, NEW s \in Session, NEW type \in {"done", "accept", "discarded", "error"},
           Broadcast(type, s)
    PROVE  events' \in Seq(EventType)
<1>1. Event(type, s) \in EventType
  BY DEF Event, EventType, RestInv
<1> QED
  BY <1>1 DEF Broadcast, RestInv

\* The helper, the agent and whoever edits the file.
LEMMA AgentKeeps ==
    ASSUME SessionIInv, NEW s \in Session, Agent(s) \/ AgentFails(s) \/ SourceIsEdited(s)
    PROVE  SessionIInv'
<1>1. WorkInv /\ RestInv /\ Numbers
  BY NumbersHold DEF SessionIInv
<1>2. UNCHANGED <<page, stored, handled, capture, queued, pulls, posts, dom>>
  BY DEF Agent, AgentWrites, AgentDone, AgentPromotes, AgentDiscards, AgentFails, SourceIsEdited,
         AtWork, AgentOnly
<1>3. WorkInv'
  BY <1>1, <1>2, WorkStays
<1>4. events' \in Seq(EventType)
  <2>1. CASE UNCHANGED events
    BY <1>1, <2>1 DEF RestInv
  <2>2. CASE \E type \in {"done", "accept", "discarded", "error"} : Broadcast(type, s)
    BY <1>1, <2>2, BroadcastIsTyped
  <2>3. CASE Agent(s)
    BY <2>1, <2>2, <2>3 DEF Agent, AgentWrites, AgentDone, AgentPromotes, AgentDiscards
  <2> QED
    BY <2>1, <2>2, <2>3 DEF AgentFails, SourceIsEdited
<1>5. server' \in [Session -> Journal]
  BY <1>1 DEF RestInv, Journal, Agent, AgentWrites, AgentDone, AgentPromotes, AgentDiscards,
              AgentFails, SourceIsEdited
<1>6. source' \in [Session -> Missing..Variants]
  <2>1. CASE AgentWrites(s)
    <3>1. source[s] \in Missing..Variants /\ source[s] + 1 \in Missing..Variants
      BY <1>1, <2>1 DEF RestInv, AgentWrites, Numbers
    <3> QED
      BY <1>1, <2>1, <3>1 DEF RestInv, AgentWrites
  <2>2. Missing \in Missing..Variants
    BY <1>1 DEF Numbers
  <2> QED
    BY <1>1, <2>1, <2>2 DEF RestInv, Agent, AgentDone, AgentPromotes, AgentDiscards, AgentFails,
                            SourceIsEdited
<1> QED
  BY <1>1, <1>2, <1>3, <1>4, <1>5, <1>6 DEF SessionIInv, RestInv

\* A page begins with what the cache has.
LEMMA SessionStarts == Init => SessionIInv
<1> SUFFICES ASSUME Init PROVE SessionIInv
  OBVIOUS
<1>1. Numbers
  BY NumbersHold
<1>2. PageOK(page)
  BY <1>1 DEF Init, PageOK, PageType, Numbers
<1>3. stored \in CacheType
  BY <1>1 DEF Init, NoSaved, CacheType, UiStates, Numbers
<1>4. WorkInv
  BY <1>1, <1>2, <1>3 DEF Init, WorkInv, CacheFollowsPage, SettledIsGone, NoSaved, Numbers
<1>5. RestInv
  <2>1. Missing \in Missing..Variants
    BY <1>1 DEF Numbers
  <2>2. /\ source \in [Session -> Missing..Variants] /\ dom \in [Session -> Missing..Variants]
        /\ server \in [Session -> Journal]
    BY <2>1 DEF Init, Journal
  <2>3. events \in Seq(EventType)
    BY DEF Init
  <2> QED
    BY <2>2, <2>3 DEF Init, RestInv
<1> QED
  BY <1>4, <1>5 DEF SessionIInv

\* Every step of a session keeps the invariant.
LEMMA SessionStepKeeps == SessionIInv /\ [Next]_vars => SessionIInv'
<1> SUFFICES ASSUME SessionIInv, [Next]_vars PROVE SessionIInv'
  OBVIOUS
<1>1. CASE User
  BY <1>1, UserKeeps
<1>2. CASE World
  <2>1. CASE \E s \in Session : \/ HotReload(s) \/ Unmount(s)
                               \/ Agent(s) \/ AgentFails(s) \/ SourceIsEdited(s)
    BY <2>1, DocumentKeeps, AgentKeeps
  <2> QED
    BY <1>2, <2>1, LeavesAndReloadsKeep, LineKeeps DEF World
<1>3. CASE Script
  BY <1>3, ConnectedKeeps, DoneKeeps, EndKeeps, LineKeeps, PostKeeps, AnswerKeeps, PullKeeps
     DEF Script, Deliver
<1>4. CASE UNCHANGED vars
  <2>1. WorkInv'
    BY <1>4, WorkStays DEF vars, SessionIInv
  <2> QED
    BY <1>4, <2>1 DEF vars, helper, SessionIInv, RestInv
<1> QED
  BY <1>1, <1>2, <1>3, <1>4 DEF Next

\* The strengthening holds in every state of a session, for any number of them,
\* of variants and of retries.
THEOREM SessionInvariant == Spec => []SessionIInv
  BY SessionStarts, SessionStepKeeps, PTL DEF Spec

\* A reload at any moment finds in the cache the session that is worked on
\* (saveSession in every handler that changes it), and a session that was
\* settled here is neither worked on nor cached again (isSessionHandled).
THEOREM CacheStaysInStep == Spec => []CacheFollowsPage
<1>1. SessionIInv => CacheFollowsPage
  BY DEF SessionIInv, WorkInv
<1> QED
  BY <1>1, SessionInvariant, PTL

\* The cycling bar has a variant to show whatever the order of hot reloads,
\* reads of the source, answers and messages (ensureCyclingRenderable).
THEOREM TheBarIsNeverEmpty == Spec => []CyclingShowsSomething
<1>1. SessionIInv => CyclingShowsSomething
  BY DEF SessionIInv, WorkInv, PageOK, CyclingShowsSomething
<1> QED
  BY <1>1, SessionInvariant, PTL

-----------------------------------------------------------------------------
(* What is written off.  A message that a session is over is true, and     *)
(* stays true on its way: no request that would open the session (again)   *)
(* is under way.                                                           *)

Going(p) == p.type = "generate" /\ p.at = "out"

GoingInv ==
    /\ \A p \in posts : Going(p) => server[p.s] = "none"
    /\ \A p, q \in posts : Going(p) /\ Going(q) /\ p.s = q.s => p = q
    /\ \A s \in capture : server[s] = "none" /\ \A p \in posts : ~(Going(p) /\ p.s = s)

TellsEnd(e) == e.type \in {"accept", "discarded", "error"}

EventsInv == \A i \in 1..Len(events) : TellsEnd(events[i]) => server[events[i].s] \in Ended

\* A request that is posted is what was posted.
LEMMA PostedIs ==
    ASSUME NEW type, NEW s
    PROVE  LET p == Post(type, s) IN p.type = type /\ p.s = s /\ p.at = "out"
  BY DEF Post

\* Requests that start no session, and answers, leave the others as they were.
LEMMA OtherPostsKeep ==
    ASSUME GoingInv, \A p \in posts' : p \in posts \/ ~Going(p), capture' \subseteq capture,
           \A s \in Session : server[s] = "none" => server'[s] = "none",
           capture \subseteq Session, posts \subseteq PostType
    PROVE  GoingInv'
<1>1. \A p \in posts' : Going(p) => p \in posts /\ p.s \in Session
  BY DEF PostType
<1>2. \A p \in posts' : Going(p) => server'[p.s] = "none"
  BY <1>1 DEF GoingInv
<1>3. \A p, q \in posts' : Going(p) /\ Going(q) /\ p.s = q.s => p = q
  BY <1>1 DEF GoingInv
<1>4. \A s \in capture' : server'[s] = "none" /\ \A p \in posts' : ~(Going(p) /\ p.s = s)
  BY <1>1 DEF GoingInv
<1> QED
  BY <1>2, <1>3, <1>4 DEF GoingInv, Going

\* A session is begun once, and by one request.
LEMMA GoKeepsGoing ==
    ASSUME SessionIInv, GoingInv, NEW s \in Session,
           Go(s) \/ GoAnnotated(s) \/ (s \in capture /\ CaptureEnds(s))
    PROVE  GoingInv'
<1>0. (Go(s) \/ GoAnnotated(s)) => s \notin Used
  BY NewIsUnused DEF Go, GoAnnotated
<1>1. /\ server[s] = "none" /\ \A p \in posts : ~(Going(p) /\ p.s = s)
      /\ Go(s) => s \notin capture
  BY <1>0 DEF Used, GoingInv
<1>2. server' = server
  BY DEF Go, GoAnnotated, CaptureEnds, NewSession, UserOnly, helper
<1>3. CASE GoAnnotated(s)
  <2>1. posts' = posts /\ capture' = capture \cup {s}
    BY <1>3 DEF GoAnnotated
  <2> QED
    BY <1>1, <1>2, <2>1 DEF GoingInv, Going
<1>4. CASE Go(s) \/ CaptureEnds(s)
  <2>1. PICK n : n = Post("generate", s)
    OBVIOUS
  <2>2. n.s = s
    BY <2>1, PostedIs
  <2>3. posts' = posts \cup {n} /\ capture' \subseteq capture /\ s \notin capture'
    BY <1>1, <1>4, <2>1 DEF Go, CaptureEnds
  <2>4. \A p \in posts' : Going(p) => server'[p.s] = "none"
    BY <1>1, <1>2, <2>2, <2>3 DEF GoingInv
  <2>5. \A p, q \in posts' : Going(p) /\ Going(q) /\ p.s = q.s => p = q
    BY <1>1, <2>2, <2>3 DEF GoingInv
  <2>6. \A t \in capture' : server'[t] = "none" /\ \A p \in posts' : ~(Going(p) /\ p.s = t)
    BY <1>2, <2>2, <2>3 DEF GoingInv
  <2> QED
    BY <2>4, <2>5, <2>6 DEF GoingInv, Going
<1> QED
  BY <1>3, <1>4

\* A request reaches the helper.
LEMMA ArrivalKeepsGoing ==
    ASSUME SessionIInv, GoingInv, NEW p \in posts, PostArrives(p)
    PROVE  GoingInv'
<1>1. p \in PostType /\ posts \subseteq PostType /\ capture \subseteq Session
      /\ server \in [Session -> Journal]
  BY DEF SessionIInv, RestInv
<1>2. PICK a \in {"ok", "no", "unknown"} : Answered(p, a)
  BY DEF PostArrives
<1>3. \A x \in posts' : (x \in posts /\ x # p) \/ ~Going(x)
  <2>1. [p EXCEPT !.at = a].at = a
    BY <1>1 DEF PostType
  <2> QED
    BY <1>2, <2>1 DEF Answered, Going
<1>4. CASE p.type = "generate"
  <2>1. Going(p) /\ capture' = capture /\ server' = [server EXCEPT ![p.s] = "open"]
    BY <1>4 DEF PostArrives, Going
  <2>2. p.s \notin capture /\ \A x \in posts' : Going(x) => x \in posts /\ x.s # p.s /\ x.s \in Session
    BY <1>1, <1>3, <2>1 DEF GoingInv, PostType
  <2>3. \A x \in posts' : Going(x) => server'[x.s] = "none"
    BY <1>1, <2>1, <2>2 DEF GoingInv
  <2>4. \A x, y \in posts' : Going(x) /\ Going(y) /\ x.s = y.s => x = y
    BY <2>2 DEF GoingInv
  <2>5. \A s \in capture' : server'[s] = "none" /\ \A x \in posts' : ~(Going(x) /\ x.s = s)
    BY <1>1, <2>1, <2>2 DEF GoingInv
  <2> QED
    BY <2>3, <2>4, <2>5 DEF GoingInv, Going
<1>5. CASE p.type # "generate"
  <2>1. \A s \in Session : server[s] = "none" => server'[s] = "none"
    BY <1>1, <1>5 DEF PostArrives, Live
  <2>2. capture' = capture
    BY DEF PostArrives
  <2> QED
    BY <1>1, <1>3, <2>1, <2>2, OtherPostsKeep
<1> QED
  BY <1>4, <1>5

\* The page is loaded again.
LEMMA ReloadKeepsGoing ==
    ASSUME SessionIInv, GoingInv, Reload
    PROVE  GoingInv'
<1>1. posts \subseteq PostType
  BY DEF SessionIInv, RestInv
<1>2. /\ posts' = {[p EXCEPT !.heard = FALSE] : p \in {x \in posts : x.at = "out"}}
      /\ capture' = {} /\ server' = server
  BY DEF Reload
<1>3. \A p \in posts' : \E o \in posts :
         p = [o EXCEPT !.heard = FALSE] /\ p.s = o.s /\ p.type = o.type /\ o.at = "out"
  <2>1. ASSUME NEW p \in posts'
        PROVE  \E o \in posts :
                 p = [o EXCEPT !.heard = FALSE] /\ p.s = o.s /\ p.type = o.type /\ o.at = "out"
    <3>1. PICK o \in posts : p = [o EXCEPT !.heard = FALSE] /\ o.at = "out"
      BY <1>2, <2>1
    <3>2. p.s = o.s /\ p.type = o.type
      BY <1>1, <3>1 DEF PostType
    <3> QED
      BY <3>1, <3>2
  <2> QED
    BY <2>1
<1>4. \A p \in posts' : Going(p) => server'[p.s] = "none"
  BY <1>2, <1>3 DEF GoingInv, Going
<1>5. \A p, q \in posts' : Going(p) /\ Going(q) /\ p.s = q.s => p = q
  <2>1. ASSUME NEW p \in posts', NEW q \in posts', Going(p), Going(q), p.s = q.s
        PROVE  p = q
    <3>1. PICK o \in posts : p = [o EXCEPT !.heard = FALSE] /\ p.s = o.s /\ Going(o)
      BY <1>3, <2>1 DEF Going
    <3>2. PICK u \in posts : q = [u EXCEPT !.heard = FALSE] /\ q.s = u.s /\ Going(u)
      BY <1>3, <2>1 DEF Going
    <3>3. o = u
      BY <2>1, <3>1, <3>2 DEF GoingInv
    <3> QED
      BY <3>1, <3>2, <3>3
  <2> QED
    BY <2>1
<1> QED
  BY <1>2, <1>4, <1>5 DEF GoingInv, Going

\* The helper's word of a session never goes back to none, and an end is the end.
LEMMA ServerGoesOn ==
    ASSUME SessionIInv, GoingInv, Next, NEW s \in Session
    PROVE  server[s] \in Ended => server'[s] \in Ended
<1>1. server \in [Session -> Journal] /\ posts \subseteq PostType
  BY DEF SessionIInv, RestInv
<1>2. CASE UNCHANGED server
  BY <1>2
<1>3. ASSUME NEW p \in posts, PostArrives(p) PROVE server[s] \in Ended => server'[s] \in Ended
  <2>1. p.s \in Session
    BY <1>1 DEF PostType
  <2> QED
    BY <1>1, <1>3, <2>1 DEF PostArrives, GoingInv, Going, Ended, Live
<1>4. ASSUME NEW t \in Session, Agent(t) \/ AgentFails(t)
      PROVE  server[s] \in Ended => server'[s] \in Ended
  BY <1>1, <1>4 DEF Agent, AgentWrites, AgentDone, AgentPromotes, AgentDiscards, AgentFails,
                    Ended, AtWork
<1>5. CASE User
  BY <1>2, <1>5 DEF User, Pick, Unpick, Accept, Discard, Go, GoAnnotated, SelectVariant, NewSession,
                    UserOnly, helper
<1>6. CASE World
  BY <1>2, <1>4, <1>6
     DEF World, Exit, Reload, LineBreaks, Reconnect, ServerLost, HotReload, Unmount, SourceIsEdited,
         helper
<1>7. CASE Script
  <2>1. CASE Deliver \/ CheckpointFires \/ \E t \in capture : CaptureEnds(t)
    BY <1>2, <2>1 DEF Deliver, Connected, DoneReceived, AcceptReceived, DiscardedReceived,
                      ErrorReceived, CheckpointFires, CaptureEnds, UserOnly, helper
  <2>2. ASSUME NEW p \in posts, PostFails(p) \/ Answer(p) PROVE UNCHANGED server
    BY <2>2 DEF PostFails, Answer, GenerateAnswered, AbandonForeignSession, CheckpointAnswered,
                AcceptConfirmed, AcceptRefused, DiscardConfirmed, DiscardRefused, helper
  <2>3. ASSUME NEW p \in pulls,
               PullStep(p) \/ AnchorAppears(p) \/ ReadFails(p) \/ ProbeFails(p)
        PROVE  UNCHANGED server
    BY <2>3 DEF PullStep, PullStarts, HtmlRead, JsxLooks, JsxProbed, AnchorAppears, ReadFails,
                ProbeFails, helper
  <2> QED
    BY <1>2, <1>3, <1>7, <2>1, <2>2, <2>3 DEF Script
<1> QED
  BY <1>5, <1>6, <1>7 DEF Next

\* A read of the source posts a discard at most.
LEMMA PullPosts ==
    ASSUME SessionIInv, NEW p \in pulls,
           PullStep(p) \/ AnchorAppears(p) \/ ReadFails(p) \/ ProbeFails(p)
    PROVE  \A x \in posts' : x \in posts \/ ~Going(x)
<1>1. ASSUME posts' = posts PROVE \A x \in posts' : x \in posts \/ ~Going(x)
  BY <1>1
<1>2. ASSUME DiscardOrphaned(p) PROVE \A x \in posts' : x \in posts \/ ~Going(x)
  <2>1. [Post("discard", page.current) EXCEPT !.heard = FALSE].type = "discard"
    BY DEF Post
  <2> QED
    BY <1>2, <2>1 DEF DiscardOrphaned, Going
<1>3. ASSUME NoWrapper(p) PROVE \A x \in posts' : x \in posts \/ ~Going(x)
  BY <1>1, <1>2, <1>3 DEF NoWrapper, TriesAgain
<1>4. ASSUME NEW n, Complete(p, n) PROVE posts' = posts
  BY <1>4 DEF Complete, RecoversEmpty
<1>5. CASE PullStarts(p) \/ AnchorAppears(p) \/ ReadFails(p)
  BY <1>1, <1>5 DEF PullStarts, AnchorAppears, ReadFails, Tells
<1>6. CASE HtmlRead(p)
  BY <1>1, <1>3, <1>4, <1>6 DEF HtmlRead, WrapperGone, Keeps, WaitsForAnchor
<1>7. CASE JsxLooks(p)
  BY <1>1, <1>4, <1>7 DEF JsxLooks, Keeps, TriesAgain, Tells, RecoversEmpty
<1>8. CASE JsxProbed(p) \/ ProbeFails(p)
  BY <1>1, <1>3, <1>8 DEF JsxProbed, ProbeFails, Keeps, TriesAgain, Tells
<1> QED
  BY <1>5, <1>6, <1>7, <1>8 DEF PullStep

\* Requests to generate stay the only ones of unknown sessions.
LEMMA StepKeepsGoing ==
    ASSUME SessionIInv, GoingInv, Next
    PROVE  GoingInv'
<1>1. server \in [Session -> Journal] /\ posts \subseteq PostType /\ capture \subseteq Session
  BY DEF SessionIInv, RestInv
<1>2. ASSUME \A p \in posts' : p \in posts \/ ~Going(p), capture' \subseteq capture,
             \A s \in Session : server[s] = "none" => server'[s] = "none"
      PROVE  GoingInv'
  BY <1>1, <1>2, OtherPostsKeep
<1>3. CASE User
  <2>1. CASE Pick \/ Unpick \/ \E n \in 1..Variants : SelectVariant(n)
    BY <1>2, <2>1 DEF Pick, Unpick, SelectVariant, UserOnly, helper
  <2>2. ASSUME NEW type \in {"accept", "discard"}, NEW s, posts' = posts \cup {Post(type, s)},
               UNCHANGED <<capture, server>>
        PROVE  GoingInv'
    BY <1>2, <2>2, PostedIs DEF Going
  <2>3. CASE Accept
    BY <2>2, <2>3 DEF Accept, UserOnly, helper
  <2>4. CASE Discard
    BY <2>2, <2>4 DEF Discard, UserOnly, helper
  <2> QED
    BY <1>3, <2>1, <2>3, <2>4, GoKeepsGoing DEF User
<1>4. CASE World
  <2>1. ASSUME UNCHANGED <<posts, capture>>, UNCHANGED server PROVE GoingInv'
    BY <1>2, <2>1
  <2>2. CASE Exit \/ LineBreaks \/ Reconnect \/ ServerLost
    BY <2>1, <2>2 DEF Exit, LineBreaks, Reconnect, ServerLost, helper
  <2>3. ASSUME NEW s \in Session, HotReload(s) \/ Unmount(s) \/ SourceIsEdited(s) PROVE GoingInv'
    BY <2>1, <2>3 DEF HotReload, Unmount, SourceIsEdited, AgentOnly
  <2>4. ASSUME NEW s \in Session, Agent(s) \/ AgentFails(s) PROVE GoingInv'
    <3>1. posts' = posts /\ capture' = capture
      BY <2>4 DEF Agent, AgentWrites, AgentDone, AgentPromotes, AgentDiscards, AgentFails, AtWork,
                  AgentOnly
    <3>2. \A t \in Session : server[t] = "none" => server'[t] = "none"
      BY <1>1, <2>4 DEF Agent, AgentWrites, AgentDone, AgentPromotes, AgentDiscards, AgentFails
    <3> QED
      BY <1>2, <3>1, <3>2
  <2> QED
    BY <1>4, <2>2, <2>3, <2>4, ReloadKeepsGoing DEF World
<1>5. CASE Script
  <2>1. CASE Deliver
    BY <1>2, <2>1 DEF Deliver, Connected, DoneReceived, AcceptReceived, DiscardedReceived,
                      ErrorReceived, helper
  <2>2. CASE CheckpointFires
    BY <1>2, <2>2, PostedIs DEF CheckpointFires, Going, helper
  <2>3. ASSUME NEW s \in capture, CaptureEnds(s) PROVE GoingInv'
    BY <1>1, <2>3, GoKeepsGoing
  <2>4. ASSUME NEW p \in posts, PostFails(p) PROVE GoingInv'
    <3>1. [p EXCEPT !.at = "no"].at = "no"
      BY <1>1 DEF PostType
    <3>2. \A x \in posts' : x \in posts \/ ~Going(x)
      BY <2>4, <3>1 DEF PostFails, Answered, Going
    <3> QED
      BY <1>2, <2>4, <3>2 DEF PostFails
  <2>5. ASSUME NEW p \in posts, Answer(p) PROVE GoingInv'
    <3>1. posts' = posts \ {p} /\ UNCHANGED <<capture, server>>
      BY <2>5 DEF Answer, GenerateAnswered, AbandonForeignSession, CheckpointAnswered,
                  AcceptConfirmed, AcceptRefused, DiscardConfirmed, DiscardRefused, Reply, helper
    <3> QED
      BY <1>2, <3>1
  <2>6. ASSUME NEW p \in pulls,
               PullStep(p) \/ AnchorAppears(p) \/ ReadFails(p) \/ ProbeFails(p)
        PROVE  GoingInv'
    <3>1. UNCHANGED <<capture, server>>
      BY <2>6 DEF PullStep, PullStarts, HtmlRead, JsxLooks, JsxProbed, AnchorAppears, ReadFails,
                  ProbeFails, helper
    <3> QED
      BY <1>2, <2>6, <3>1, PullPosts
  <2> QED
    BY <1>5, <2>1, <2>2, <2>3, <2>4, <2>5, <2>6, ArrivalKeepsGoing DEF Script
<1> QED
  BY <1>3, <1>4, <1>5 DEF Next

\* What comes onto the stream is true when it comes.
LEMMA EventsAreTrue ==
    ASSUME SessionIInv, NEW s \in Session, Agent(s) \/ AgentFails(s)
    PROVE  events' = events \/ \E e \in EventType :
              events' = Append(events, e) /\ (TellsEnd(e) => server'[e.s] \in Ended)
<1>1. server \in [Session -> Journal]
  BY DEF SessionIInv, RestInv
<1>2. ASSUME NEW type \in {"done", "accept", "discarded", "error"},
             type # "done" => server'[s] \in Ended, Broadcast(type, s)
      PROVE  events' = events \/ \E e \in EventType :
                events' = Append(events, e) /\ (TellsEnd(e) => server'[e.s] \in Ended)
  <2>1. PICK e : e = Event(type, s)
    OBVIOUS
  <2>2. e \in EventType /\ e.s = s /\ (TellsEnd(e) => type # "done")
    BY <1>1, <2>1 DEF Event, EventType, TellsEnd
  <2> QED
    BY <1>2, <2>1, <2>2 DEF Broadcast
<1>3. CASE AgentWrites(s)
  BY <1>3 DEF AgentWrites
<1>4. CASE AgentDone(s)
  BY <1>2, <1>4 DEF AgentDone
<1>5. CASE AgentPromotes(s)
  BY <1>1, <1>2, <1>5 DEF AgentPromotes, Ended
<1>6. CASE AgentDiscards(s)
  BY <1>1, <1>2, <1>6 DEF AgentDiscards, Ended
<1>7. CASE AgentFails(s)
  BY <1>1, <1>2, <1>7 DEF AgentFails, Ended
<1> QED
  BY <1>3, <1>4, <1>5, <1>6, <1>7 DEF Agent

\* What tells the end of a session stays true on its way.
LEMMA StepKeepsEvents ==
    ASSUME SessionIInv, GoingInv, EventsInv, Next
    PROVE  EventsInv'
<1>1. events \in Seq(EventType) /\ server \in [Session -> Journal]
  BY DEF SessionIInv, RestInv
<1>2. \A e \in EventType : TellsEnd(e) /\ server[e.s] \in Ended => server'[e.s] \in Ended
  BY ServerGoesOn DEF EventType, TellsEnd
<1>3. \A i \in 1..Len(events) : TellsEnd(events[i]) => server'[events[i].s] \in Ended
  BY <1>1, <1>2 DEF EventsInv
<1>4. ASSUME events' = events PROVE EventsInv'
  BY <1>3, <1>4 DEF EventsInv, TellsEnd
<1>5. ASSUME events # <<>>, events' = Tail(events) PROVE EventsInv'
  <2>1. \A i \in 1..Len(events') : i + 1 \in 1..Len(events) /\ events'[i] = events[i + 1]
    BY <1>1, <1>5
  <2> QED
    BY <1>3, <2>1 DEF EventsInv, TellsEnd
<1>6. ASSUME events' = <<>> \/ events' = <<Event("connected", None)>> PROVE EventsInv'
  <2>1. PICK e : e = Event("connected", None)
    OBVIOUS
  <2>2. ~TellsEnd(e)
    BY <2>1 DEF Event, TellsEnd
  <2>3. events' = <<>> \/ events' = <<e>>
    BY <1>6, <2>1
  <2>4. \A i \in 1..Len(events') : events'[i] = e
    BY <2>3
  <2> QED
    BY <2>2, <2>4 DEF EventsInv, TellsEnd
<1>7. ASSUME NEW e \in EventType, events' = Append(events, e), TellsEnd(e) => server'[e.s] \in Ended
      PROVE  EventsInv'
  <2>1. \A i \in 1..Len(events') : (i \in 1..Len(events) /\ events'[i] = events[i]) \/ events'[i] = e
    BY <1>1, <1>7
  <2> QED
    BY <1>3, <1>7, <2>1 DEF EventsInv, TellsEnd
<1>8. CASE User
  BY <1>4, <1>8 DEF User, Pick, Unpick, Accept, Discard, Go, GoAnnotated, SelectVariant, NewSession,
                    UserOnly
<1>9. CASE World
  <2>1. CASE Exit \/ Reload \/ LineBreaks \/ Reconnect
    BY <1>6, <2>1 DEF Exit, Reload, LineBreaks, Reconnect
  <2>2. CASE ServerLost
    BY <1>4, <2>2 DEF ServerLost
  <2>3. ASSUME NEW s \in Session, HotReload(s) \/ Unmount(s) \/ SourceIsEdited(s) PROVE EventsInv'
    BY <1>4, <2>3 DEF HotReload, Unmount, SourceIsEdited
  <2>4. ASSUME NEW s \in Session, Agent(s) \/ AgentFails(s) PROVE EventsInv'
    BY <1>4, <1>7, <2>4, EventsAreTrue
  <2> QED
    BY <1>9, <2>1, <2>2, <2>3, <2>4 DEF World
<1>10. CASE Script
  <2>1. CASE Deliver
    BY <1>5, <2>1 DEF Deliver, Connected, DoneReceived, AcceptReceived, DiscardedReceived,
                      ErrorReceived, Received
  <2>2. CASE CheckpointFires \/ \E s \in capture : CaptureEnds(s)
    BY <1>4, <2>2 DEF CheckpointFires, CaptureEnds, UserOnly
  <2>3. ASSUME NEW p \in posts, PostArrives(p) \/ PostFails(p) \/ Answer(p) PROVE EventsInv'
    BY <1>4, <2>3 DEF PostArrives, PostFails, Answer, GenerateAnswered, AbandonForeignSession,
                      CheckpointAnswered, AcceptConfirmed, AcceptRefused, DiscardConfirmed,
                      DiscardRefused
  <2>4. ASSUME NEW p \in pulls,
               PullStep(p) \/ AnchorAppears(p) \/ ReadFails(p) \/ ProbeFails(p)
        PROVE  EventsInv'
    BY <1>4, <2>4 DEF PullStep, PullStarts, HtmlRead, JsxLooks, JsxProbed, AnchorAppears, ReadFails,
                      ProbeFails
  <2> QED
    BY <1>10, <2>1, <2>2, <2>3, <2>4 DEF Script
<1> QED
  BY <1>8, <1>9, <1>10 DEF Next

\* With the ends on their way, the strengthening of what is written off.
EndsInv == SessionIInv /\ GoingInv /\ EventsInv

\* What the page hears of the end of a session is true when it hears it.
LEMMA EndsInvariant == Spec => []EndsInv
<1>1. Init => EndsInv
  BY SessionStarts DEF Init, EndsInv, GoingInv, EventsInv
<1>2. EndsInv /\ [Next]_vars => EndsInv'
  <2> SUFFICES ASSUME EndsInv, [Next]_vars PROVE EndsInv'
    OBVIOUS
  <2>1. SessionIInv'
    BY SessionStepKeeps DEF EndsInv
  <2>2. CASE Next
    BY <2>1, <2>2, StepKeepsGoing, StepKeepsEvents DEF EndsInv
  <2>3. CASE UNCHANGED vars
    <3>1. UNCHANGED <<posts, capture, server, events>>
      BY <2>3 DEF vars, helper
    <3> QED
      BY <2>1, <3>1 DEF EndsInv, GoingInv, EventsInv, Going, TellsEnd
  <2> QED
    BY <2>2, <2>3
<1> QED
  BY <1>1, <1>2, PTL DEF Spec

OnlyOver == AnswersUser \/ \A s \in handled' \ handled :
               ~Live(server[s]) \/ source[s] = Missing \/ WasUnknown(s)

\* An answer that writes a session off is the user's, or says it is unknown.
LEMMA AnswersWriteOff ==
    ASSUME SessionIInv, NEW p \in posts, Answer(p)
    PROVE  OnlyOver
<1>1. CASE UNCHANGED handled
  BY <1>1 DEF OnlyOver
<1>2. CASE AbandonForeignSession(p)
  <2>1. p \in posts \ posts' /\ p.at = "unknown" /\ handled' \ handled \subseteq {p.s}
    BY <1>2 DEF AbandonForeignSession, Reply, Mark
  <2> QED
    BY <2>1 DEF OnlyOver, WasUnknown
<1>3. CASE AcceptConfirmed(p) \/ DiscardConfirmed(p)
  <2>1. p \in posts \ posts' /\ p.at = "ok" /\ p.type \in {"accept", "discard"}
    BY <1>3 DEF AcceptConfirmed, DiscardConfirmed, Reply
  <2> QED
    BY <2>1 DEF OnlyOver, AnswersUser
<1> QED
  BY <1>1, <1>2, <1>3 DEF Answer, GenerateAnswered, CheckpointAnswered, AcceptRefused, DiscardRefused

\* A read writes off the session whose wrapper it has not found.
LEMMA ReadsWriteOff ==
    ASSUME SessionIInv, NEW p \in pulls,
           PullStep(p) \/ AnchorAppears(p) \/ ReadFails(p) \/ ProbeFails(p)
    PROVE  OnlyOver
<1>1. ASSUME UNCHANGED handled PROVE OnlyOver
  BY <1>1 DEF OnlyOver
<1>2. ASSUME NoWrapper(p), p.s = page.current, source[p.s] = Missing PROVE OnlyOver
  BY <1>1, <1>2 DEF NoWrapper, TriesAgain, DiscardOrphaned, Mark, OnlyOver
<1>3. ASSUME NEW n, Complete(p, n) PROVE UNCHANGED handled
  BY <1>3 DEF Complete, RecoversEmpty
<1>4. CASE PullStarts(p) \/ AnchorAppears(p) \/ ReadFails(p) \/ ProbeFails(p)
  BY <1>1, <1>4 DEF PullStarts, AnchorAppears, ReadFails, ProbeFails, Tells, Keeps, TriesAgain
<1>5. CASE HtmlRead(p)
  BY <1>1, <1>2, <1>3, <1>5 DEF HtmlRead, WrapperGone, Keeps, WaitsForAnchor
<1>6. CASE JsxLooks(p)
  BY <1>1, <1>3, <1>6 DEF JsxLooks, Keeps, TriesAgain, Tells, RecoversEmpty
<1>7. CASE JsxProbed(p)
  BY <1>1, <1>2, <1>7 DEF JsxProbed, Keeps, InSession
<1> QED
  BY <1>4, <1>5, <1>6, <1>7 DEF PullStep

\* A message writes off the session whose end it tells.
LEMMA MessagesWriteOff ==
    ASSUME EndsInv, AcceptReceived \/ DiscardedReceived \/ ErrorReceived
    PROVE  OnlyOver
<1>1. events \in Seq(EventType) /\ events # <<>>
  BY DEF EndsInv, SessionIInv, RestInv, AcceptReceived, DiscardedReceived, ErrorReceived, Received
<1>2. 1 \in 1..Len(events) /\ Head(events) = events[1]
  BY <1>1
<1>3. TellsEnd(Head(events))
  BY DEF TellsEnd, AcceptReceived, DiscardedReceived, ErrorReceived, Received
<1>4. server[Heard] \in Ended
  BY <1>2, <1>3 DEF EndsInv, EventsInv, Heard
<1>5. handled' \ handled \subseteq {Heard}
  BY DEF AcceptReceived, DiscardedReceived, ErrorReceived, Mark
<1> QED
  BY <1>4, <1>5 DEF OnlyOver, Ended, Live

\* A step writes off only what is over.
LEMMA StepsWriteOff == EndsInv /\ [Next]_vars => OnlyOver
<1> SUFFICES ASSUME EndsInv, [Next]_vars PROVE OnlyOver
  OBVIOUS
<1>1. SessionIInv
  BY DEF EndsInv
<1>2. ASSUME UNCHANGED handled PROVE OnlyOver
  BY <1>2 DEF OnlyOver
<1>3. CASE User
  BY <1>2, <1>3 DEF User, Pick, Unpick, Accept, Discard, Go, GoAnnotated, SelectVariant, NewSession,
                    UserOnly
<1>4. CASE World
  BY <1>2, <1>4
     DEF World, Exit, Reload, LineBreaks, Reconnect, ServerLost, HotReload, Unmount, SourceIsEdited,
         Agent, AgentWrites, AgentDone, AgentPromotes, AgentDiscards, AgentFails, AtWork, AgentOnly
<1>5. CASE Script
  <2>1. CASE Connected \/ DoneReceived
    BY <1>2, <2>1 DEF Connected, DoneReceived
  <2>2. CASE CheckpointFires \/ \E s \in capture : CaptureEnds(s)
    BY <1>2, <2>2 DEF CheckpointFires, CaptureEnds, UserOnly
  <2>3. ASSUME NEW p \in posts, PostArrives(p) \/ PostFails(p) PROVE OnlyOver
    BY <1>2, <2>3 DEF PostArrives, PostFails
  <2> QED
    BY <1>1, <1>5, <2>1, <2>2, <2>3, AnswersWriteOff, ReadsWriteOff, MessagesWriteOff
       DEF Script, Deliver
<1>6. CASE UNCHANGED vars
  BY <1>2, <1>6 DEF vars
<1> QED
  BY <1>3, <1>4, <1>5, <1>6 DEF Next

\* No late read, stale message or answer of another session makes the page
\* write off a session that goes on at the helper and has its wrapper, unless
\* the user settled it or the helper answered that it does not know it.
THEOREM LiveWorkIsKept == Spec => OnlyOverIsWrittenOff
<1>1. EndsInv /\ [Next]_vars => [OnlyOver]_vars
  BY StepsWriteOff
<1>2. [][OnlyOver]_vars => OnlyOverIsWrittenOff
  BY DEF OnlyOver, OnlyOverIsWrittenOff
<1> QED
  BY <1>1, <1>2, EndsInvariant, PTL DEF Spec

-----------------------------------------------------------------------------
(* What is done about a settled session: the invariant of LiveRecovery.    *)

TimerType == [kind : {"accept", "settle", "discard", "linger", "reload"},
              id : Design, rev : 0 .. MaxRevisions]

PageData == [active : Design \cup {NoDesign}, configures : BOOLEAN, revision : 0 .. MaxRevisions,
             cached : Design \cup {NoDesign}, timers : SUBSET TimerType,
             stamps : [Design -> 0 .. 2]]

Pending(p, s) == \E r \in 0 .. MaxRevisions : Timer("reload", s, r) \in p.timers

\* A configuration has a revision of its own; what was set before is older.
RevisionsOK(p) ==
    /\ p.configures => p.active = NoDesign /\ p.revision > 0
    /\ \A x \in p.timers : x.rev <= p.revision /\ (p.configures => x.rev < p.revision)

\* Every reload but the first was stamped, the one that is pending included.
StampsOK(p, str) ==
    \A s \in Design : /\ str[s] <= p.stamps[s] + 1
                      /\ Pending(p, s) => str[s] <= p.stamps[s]

PageGood(p, str) == p \in PageData /\ RevisionsOK(p) /\ StampsOK(p, str)

Adds(p, q) == /\ p.timers \subseteq q.timers
              /\ \A x \in q.timers : x \in p.timers \/ x.kind = "reload"

Bounds == MaxRevisions \in Nat /\ MaxRefreshes \in Nat /\ Design \subseteq Nat /\ NoDesign \notin Design

\* The constants are numbers.
LEMMA BoundsHold == Bounds
  BY RecoveryAssumption DEF Bounds, NoDesign

\* Scouts that attempt a reload are of the revision that goes on: one per session.
LEMMA AttemptsAreCounted ==
    ASSUME NEW p \in PageData, NEW X \in SUBSET ScoutType, NEW s \in Design,
           NEW go, go = {x \in X : Attempts(p, x.id, x.rev)}
    PROVE  /\ Cardinality({x \in go : x.id = s}) \in {0, 1}
           /\ Cardinality({x \in go : x.id = s}) = 1 =>
                 p.stamps[s] < 2 /\ ~Pending(p, s)
           /\ (\E r \in 0 .. MaxRevisions : \E x \in go : Timer("reload", s, r) = Timer("reload", x.id, x.rev))
                 => Cardinality({x \in go : x.id = s}) = 1
<1>1. PICK c : c = [id |-> s, rev |-> p.revision]
  OBVIOUS
<1>2. \A x \in go : x.id = s => x = c
  <2>1. ASSUME NEW x \in go, x.id = s PROVE x = c
    <3>1. x \in ScoutType /\ x.rev = p.revision
      BY <2>1 DEF Attempts, Superseded
    <3> QED
      BY <1>1, <2>1, <3>1 DEF ScoutType
  <2> QED
    BY <2>1
<1>3. CASE {x \in go : x.id = s} = {}
  <2>1. Cardinality({x \in go : x.id = s}) = 0
    BY <1>3, FS_EmptySet
  <2>2. \A x \in go : x.id # s
    BY <1>3
  <2>3. \A r, x : Timer("reload", s, r) = Timer("reload", x.id, x.rev) => s = x.id
    BY DEF Timer
  <2> QED
    BY <2>1, <2>2, <2>3
<1>4. CASE {x \in go : x.id = s} # {}
  <2>1. {x \in go : x.id = s} = {c}
    BY <1>2, <1>4
  <2>2. Cardinality({x \in go : x.id = s}) = 1
    BY <2>1, FS_Singleton
  <2>3. Attempts(p, s, p.revision)
    BY <1>1, <2>1
  <2> QED
    BY <2>2, <2>3 DEF Attempts, Pending
<1> QED
  BY <1>3, <1>4

\* The scouts of a page that try may add reload timers, and nothing else.
LEMMA TriesIsGood ==
    ASSUME NEW str \in [Design -> Nat], NEW p, PageGood(p, str), NEW X \in SUBSET ScoutType,
           p.configures => \A x \in X : x.rev < p.revision
    PROVE  /\ PageGood(Tries(p, X), str) /\ Adds(p, Tries(p, X))
           /\ Tries(p, X).active = p.active /\ Tries(p, X).configures = p.configures
           /\ Tries(p, X).revision = p.revision
<1>1. p \in PageData /\ Bounds
  BY BoundsHold DEF PageGood
<1>2. PICK go : go = {x \in X : Attempts(p, x.id, x.rev)}
  OBVIOUS
<1>3. \A x \in go : x \in ScoutType /\ x.rev = p.revision
  BY <1>2 DEF Attempts, Superseded
<1>4. PICK ts : ts = p.timers \cup {Timer("reload", x.id, x.rev) : x \in go}
  OBVIOUS
<1>5. ts \in SUBSET TimerType
  BY <1>1, <1>3, <1>4 DEF PageData, Timer, TimerType, ScoutType
<1>6. PICK st : st = [s \in Design |-> p.stamps[s] + Cardinality({x \in go : x.id = s})]
  OBVIOUS
<1>7. \A s \in Design : /\ p.stamps[s] \in 0 .. 2 /\ st[s] \in 0 .. 2 /\ p.stamps[s] <= st[s]
                        /\ ~Pending(p, s) /\ Cardinality({x \in go : x.id = s}) = 1 =>
                              st[s] = p.stamps[s] + 1
                        /\ Cardinality({x \in go : x.id = s}) = 1 => ~Pending(p, s)
  <2>1. ASSUME NEW s \in Design
        PROVE  /\ p.stamps[s] \in 0 .. 2 /\ st[s] \in 0 .. 2 /\ p.stamps[s] <= st[s]
               /\ ~Pending(p, s) /\ Cardinality({x \in go : x.id = s}) = 1 =>
                              st[s] = p.stamps[s] + 1
               /\ Cardinality({x \in go : x.id = s}) = 1 => ~Pending(p, s)
    <3>1. PICK n \in {0, 1} : n = Cardinality({x \in go : x.id = s}) /\ (n = 1 => p.stamps[s] < 2 /\ ~Pending(p, s))
      BY <1>1, <1>2, AttemptsAreCounted
    <3>2. p.stamps[s] \in 0 .. 2
      BY <1>1 DEF PageData
    <3>3. st[s] = p.stamps[s] + n
      BY <1>6, <3>1
    <3> QED
      BY <3>1, <3>2, <3>3
  <2> QED
    BY <2>1
<1>8. PICK q : q = [p EXCEPT !.timers = ts, !.stamps = st]
  OBVIOUS
<1>9. st \in [Design -> 0 .. 2]
  BY <1>6, <1>7
<1>10. /\ q \in PageData /\ q.active = p.active /\ q.configures = p.configures
       /\ q.revision = p.revision /\ q.timers = ts /\ q.stamps = st
  BY <1>1, <1>5, <1>8, <1>9 DEF PageData
<1>11. Tries(p, X) = q
  BY <1>2, <1>4, <1>6, <1>8 DEF Tries
<1>12. Adds(p, q)
  BY <1>4, <1>10 DEF Adds, Timer
<1>13. RevisionsOK(q)
  <2>1. \A x \in ts : x \in p.timers \/ \E y \in go : x.rev = y.rev
    BY <1>4 DEF Timer
  <2>2. p.configures => go = {}
    BY <1>1, <1>2, <1>3 DEF ScoutType, PageData
  <2>3. p.revision \in Nat
    BY <1>1 DEF PageData, Bounds
  <2> QED
    BY <1>3, <1>10, <2>1, <2>2, <2>3 DEF RevisionsOK, PageGood
<1>14. StampsOK(q, str)
  <2>1. ASSUME NEW s \in Design
        PROVE  str[s] <= st[s] + 1 /\ (Pending(q, s) => str[s] <= st[s])
    <3>1. str[s] \in Nat /\ p.stamps[s] \in 0 .. 2 /\ st[s] \in 0 .. 2 /\ p.stamps[s] <= st[s]
      BY <1>7
    <3>2. str[s] <= p.stamps[s] + 1 /\ (Pending(p, s) => str[s] <= p.stamps[s])
      BY DEF PageGood, StampsOK
    <3>3. ASSUME Pending(q, s), ~Pending(p, s) PROVE st[s] = p.stamps[s] + 1
      <4>1. \E r \in 0 .. MaxRevisions : \E x \in go :
               Timer("reload", s, r) = Timer("reload", x.id, x.rev)
        BY <1>4, <1>10, <3>3 DEF Pending
      <4>2. Cardinality({x \in go : x.id = s}) = 1
        BY <1>1, <1>2, <4>1, AttemptsAreCounted
      <4> QED
        BY <1>7, <3>3, <4>2
    <3> QED
      BY <3>1, <3>2, <3>3
  <2> QED
    BY <1>10, <2>1 DEF StampsOK
<1> QED
  BY <1>10, <1>11, <1>12, <1>13, <1>14 DEF PageGood

\* The page goes on, possibly with one more reload ahead.
Moves(p, q) == Adds(p, q) /\ q.revision = p.revision /\ (q.configures => p.configures)

\* A session that opens leaves timers and stamps alone.
LEMMA OpensIsGood ==
    ASSUME NEW str \in [Design -> Nat], NEW p, PageGood(p, str), NEW s \in Design
    PROVE  PageGood(Opens(p, s), str) /\ Moves(p, Opens(p, s))
<1>1. p \in PageData /\ Bounds
  BY BoundsHold DEF PageGood
<1>2. PICK q : q = [p EXCEPT !.active = s, !.cached = s, !.configures = FALSE]
  OBVIOUS
<1>3. /\ q \in PageData /\ q.configures = FALSE
      /\ q.revision = p.revision /\ q.timers = p.timers /\ q.stamps = p.stamps
  BY <1>1, <1>2 DEF PageData
<1>4. RevisionsOK(q) /\ StampsOK(q, str)
  BY <1>3 DEF PageGood, RevisionsOK, StampsOK, Pending
<1>5. Opens(p, s) = q
  BY <1>2 DEF Opens
<1> QED
  BY <1>3, <1>4, <1>5 DEF PageGood, Moves, Adds

\* So does one that a page resumes.
LEMMA ResumptionsAreGood ==
    ASSUME NEW str \in [Design -> Nat], NEW p, PageGood(p, str), NEW d, NEW done,
           NEW q \in Resumptions(p, d, done)
    PROVE  PageGood(q, str) /\ Moves(p, q)
<1>1. p \in PageData /\ Bounds /\ (p.configures => p.revision > 0)
  BY BoundsHold DEF PageGood, RevisionsOK
<1>2. CASE \E s \in Design : q = Opens(p, s)
  BY <1>2, OpensIsGood
<1>3. CASE q = [p EXCEPT !.cached = NoDesign]
  <2>1. /\ q \in PageData /\ q.configures = p.configures /\ q.active = p.active
        /\ q.revision = p.revision /\ q.timers = p.timers /\ q.stamps = p.stamps
    BY <1>1, <1>3 DEF PageData
  <2>2. RevisionsOK(q) /\ StampsOK(q, str)
    BY <2>1 DEF PageGood, RevisionsOK, StampsOK, Pending
  <2> QED
    BY <2>1, <2>2 DEF PageGood, Moves, Adds
<1>4. CASE \E s \in Design : q = Tries(p, {[id |-> s, rev |-> 0]})
  <2>1. PICK s \in Design : q = Tries(p, {[id |-> s, rev |-> 0]})
    BY <1>4
  <2>2. PICK X : X = {[id |-> s, rev |-> 0]}
    OBVIOUS
  <2>3. X \in SUBSET ScoutType
    BY <1>1, <2>2 DEF ScoutType, Bounds
  <2>4. p.configures => \A x \in X : x.rev < p.revision
    BY <1>1, <2>2
  <2> QED
    BY <2>1, <2>2, <2>3, <2>4, TriesIsGood DEF Moves
<1>5. p.cached # NoDesign => p.cached \in Design
  BY <1>1 DEF PageData
<1>6. \/ \E s \in Design : q = Opens(p, s)
      \/ q = [p EXCEPT !.cached = NoDesign]
      \/ \E s \in Design : q = Tries(p, {[id |-> s, rev |-> 0]})
  <2>1. PICK saved : saved = (p.cached # NoDesign /\ p.cached \notin done)
    OBVIOUS
  <2>2. PICK first : first = IF {s \in Design : d[s] = "variants"} # {}
                             THEN {s \in Design : d[s] = "variants"}
                             ELSE {s \in Design : d[s] = "carbonize"}
    OBVIOUS
  <2>3. CASE first = {}
    <3>1. q = IF saved THEN Opens(p, p.cached) ELSE [p EXCEPT !.cached = NoDesign]
      BY <2>1, <2>2, <2>3 DEF Resumptions
    <3> QED
      BY <1>5, <2>1, <3>1
  <2>4. CASE first # {}
    <3>1. PICK s \in first : q = IF s \notin done THEN Opens(p, s)
                                 ELSE IF saved THEN Opens(p, p.cached)
                                 ELSE Tries(p, {[id |-> s, rev |-> 0]})
      BY <2>1, <2>2, <2>4 DEF Resumptions
    <3>2. s \in Design
      BY <2>2
    <3> QED
      BY <1>5, <2>1, <3>1, <3>2
  <2> QED
    BY <2>3, <2>4
<1> QED
  BY <1>2, <1>3, <1>4, <1>6

\* The scouts are no newer than the page.
ScoutsOK(p, sc) ==
    /\ sc \subseteq ScoutType
    /\ \A x \in sc : x.rev <= p.revision /\ (p.configures => x.rev < p.revision)

\* What is hidden has a timer or a watcher that restores it.
Guarded(p, gd, hd) ==
    \A s \in hd : s \in gd \/ \E x \in p.timers : x.id = s /\ x.kind \in {"discard", "linger"}

\* Where a timer of the settlement itself is left, nothing was reloaded yet.
Young(p, gd, str) ==
    (\E x \in p.timers : x.kind # "reload") \/ gd # {} => \A s \in Design : str[s] = 0

Sound(p, str, sc, gd, hd) ==
    PageGood(p, str) /\ ScoutsOK(p, sc) /\ Guarded(p, gd, hd) /\ Young(p, gd, str)

\* A page that moves on without new timers stays sound.
LEMMA MovesKeeps ==
    ASSUME NEW str, NEW sc, NEW gd, NEW hd, NEW p, NEW q,
           Sound(p, str, sc, gd, hd), Moves(p, q), PageGood(q, str)
    PROVE  Sound(q, str, sc, gd, hd)
<1>1. ScoutsOK(q, sc)
  BY DEF Sound, Moves, ScoutsOK
<1>2. Guarded(q, gd, hd)
  BY DEF Sound, Moves, Guarded, Adds
<1>3. Young(q, gd, str)
  BY DEF Sound, Moves, Young, Adds
<1> QED
  BY <1>1, <1>2, <1>3 DEF Sound

RestTypes ==
    /\ owned \in BOOLEAN /\ hydrates \in BOOLEAN /\ refreshes \in 0 .. MaxRefreshes
    /\ accepted \subseteq over /\ over \subseteq Design
    /\ hidden \subseteq Design /\ guards \subseteq Design
    /\ streak \in [Design -> Nat]
    /\ file \in [Design -> Content \ {"missing"}] /\ shown \in [Design -> Content]

RecIInv == RestTypes /\ Sound(Page, streak, scouts, guards, hidden)

\* A step is right if the page after it is.
LEMMA SoundAfter ==
    ASSUME NEW p, Adopts(p), Sound(p, streak', scouts', guards', hidden'), RestTypes'
    PROVE  RecIInv'
<1>1. p \in PageData
  BY DEF Sound, PageGood
<1>2. Page' = p
  BY <1>1 DEF Adopts, Page, PageData
<1> QED
  BY <1>2 DEF RecIInv, Sound, PageGood, RevisionsOK, StampsOK, Pending, ScoutsOK, Guarded, Young

\* Nothing has been settled when it begins.
LEMMA RecInitial == RecoveryInit => RecIInv
<1> SUFFICES ASSUME RecoveryInit PROVE RecIInv
  OBVIOUS
<1>1. Bounds
  BY BoundsHold
<1>2. Page \in PageData
  <2>1. /\ active \in Design \cup {NoDesign} /\ cached \in Design \cup {NoDesign}
        /\ revision \in 0 .. MaxRevisions /\ timers \in SUBSET TimerType
        /\ stamps \in [Design -> 0 .. 2]
    BY <1>1 DEF RecoveryInit, Bounds
  <2>2. configures \in BOOLEAN
    BY DEF RecoveryInit
  <2> QED
    BY <2>1, <2>2 DEF Page, PageData
<1>3. RevisionsOK(Page) /\ StampsOK(Page, streak)
  BY DEF RecoveryInit, Page, RevisionsOK, StampsOK, Pending
<1>4. RestTypes
  BY <1>1 DEF RecoveryInit, RestTypes, Content, Wrapper, Bounds
<1>5. ScoutsOK(Page, scouts) /\ Guarded(Page, guards, hidden) /\ Young(Page, guards, streak)
  BY DEF RecoveryInit, ScoutsOK, Guarded, Young, Page
<1> QED
  BY <1>2, <1>3, <1>4, <1>5 DEF RecIInv, Sound, PageGood

\* The document changes, and the page observes it.
LEMMA MutatesKeeps ==
    ASSUME RestTypes, NEW p, NEW hide, NEW d \in [Design -> Content], hide \subseteq hidden,
           Sound(p, streak, scouts, guards, hide), Mutates(p, d, hide), streak' = streak, Quiet \/ scouts' = scouts
    PROVE  /\ \E q : Adopts(q) /\ Sound(q, streak', scouts', guards', hidden')
           /\ shown' = d /\ guards' \subseteq guards /\ hidden' \subseteq hidden /\ hydrates' \in BOOLEAN
<1>1. scouts' = scouts
  BY DEF Quiet
<1>2. PICK looks \in BOOLEAN : looks = (hydrates /\ \E s \in Design : d[s] \in Wrapper)
  OBVIOUS
<1>3. PICK q \in IF looks THEN Resumptions(p, d, over) ELSE {p} :
         Adopts(Tries(q, {x \in scouts : d[x.id] \in Wrapper}))
  BY <1>2 DEF Mutates
<1>4. Sound(q, streak, scouts, guards, hide)
  <2>1. CASE looks
    <3>1. PageGood(q, streak) /\ Moves(p, q)
      BY <1>3, <2>1, ResumptionsAreGood DEF Sound, RestTypes
    <3> QED
      BY <3>1, MovesKeeps
  <2>2. CASE ~looks
    BY <1>3, <2>2
  <2> QED
    BY <2>1, <2>2
<1>5. PICK X : X = {x \in scouts : d[x.id] \in Wrapper}
  OBVIOUS
<1>6. X \in SUBSET ScoutType /\ (q.configures => \A x \in X : x.rev < q.revision)
  BY <1>4, <1>5 DEF Sound, ScoutsOK
<1>7. PICK r : r = Tries(q, X)
  OBVIOUS
<1>8. PageGood(r, streak) /\ Moves(q, r)
  BY <1>4, <1>6, <1>7, TriesIsGood DEF Sound, RestTypes, Moves
<1>9. Sound(r, streak, scouts, guards, hide)
  BY <1>4, <1>8, MovesKeeps
<1>10. Adopts(r)
  BY <1>3, <1>5, <1>7
<1>11. Sound(r, streak', scouts', guards', hidden')
  <2>1. guards' = {s \in guards : d[s] \in Wrapper} /\ hidden' = {s \in hide : s \in guards => d[s] \in Wrapper}
    BY DEF Mutates
  <2>2. Guarded(r, guards', hidden')
    BY <1>9, <2>1 DEF Sound, Guarded
  <2>3. Young(r, guards', streak)
    BY <1>9, <2>1 DEF Sound, Young
  <2> QED
    BY <1>1, <1>9, <2>2, <2>3 DEF Sound
<1>12. shown' = d /\ guards' \subseteq guards /\ hidden' \subseteq hidden /\ hydrates' \in BOOLEAN
  BY DEF Mutates, RestTypes
<1> QED
  BY <1>10, <1>11, <1>12

\* A page that is loaded again begins with the stamps alone.
LEMMA ReloadsPageKeeps ==
    ASSUME RestTypes, Page \in PageData, ReloadsPage, streak' \in [Design -> Nat],
           \A s \in Design : streak'[s] <= stamps[s] + 1
    PROVE  /\ \E q : Adopts(q) /\ Sound(q, streak', scouts', guards', hidden')
           /\ shown' \in [Design -> Content] /\ guards' = {} /\ hidden' = {} /\ hydrates' \in BOOLEAN
<1>1. PICK fresh : fresh = [Page EXCEPT !.active = NoDesign, !.configures = FALSE, !.revision = 0,
                                        !.timers = {}]
  OBVIOUS
<1>2. PICK d \in Served : \E p \in {Tries(q, {}) : q \in Resumptions(fresh, d, over)} :
          /\ shown' = d /\ Adopts(p)
          /\ hydrates' = (p.active = NoDesign \/ \A s \in Design : d[s] \notin Wrapper)
  BY <1>1 DEF ReloadsPage
<1>3. PICK q \in Resumptions(fresh, d, over) : Adopts(Tries(q, {})) /\ shown' = d /\ hydrates' \in BOOLEAN
  BY <1>2
<1>4. PageGood(fresh, streak')
  <2>1. /\ fresh \in PageData /\ fresh.active = NoDesign /\ fresh.configures = FALSE
        /\ fresh.revision = 0 /\ fresh.timers = {} /\ fresh.stamps = Page.stamps
    <3>1. 0 \in 0 .. MaxRevisions
      BY BoundsHold DEF Bounds
    <3> QED
      BY <1>1, <3>1 DEF PageData
  <2>2. Page.stamps = stamps
    BY DEF Page
  <2>3. RevisionsOK(fresh) /\ StampsOK(fresh, streak')
    BY <2>1, <2>2 DEF RevisionsOK, StampsOK, Pending
  <2> QED
    BY <2>1, <2>3 DEF PageGood
<1>5. PageGood(q, streak') /\ Moves(fresh, q)
  BY <1>4, ResumptionsAreGood
<1>6. PICK r : r = Tries(q, {})
  OBVIOUS
<1>7. PageGood(r, streak') /\ Moves(q, r)
  BY <1>5, <1>6, TriesIsGood DEF Moves
<1>8. \A x \in r.timers : x.kind = "reload"
  <2>1. fresh.timers = {}
    <3>1. fresh.timers = {} <=> [Page EXCEPT !.active = NoDesign, !.configures = FALSE, !.revision = 0,
                                        !.timers = {}].timers = {}
      BY <1>1
    <3> QED
      BY <3>1 DEF PageData
  <2> QED
    BY <1>5, <1>7, <2>1 DEF Moves, Adds
<1>9. scouts' = {} /\ guards' = {} /\ hidden' = {}
  BY DEF ReloadsPage
<1>10. Sound(r, streak', scouts', guards', hidden')
  BY <1>7, <1>8, <1>9 DEF Sound, ScoutsOK, Guarded, Young
<1>11. shown' \in [Design -> Content]
  BY <1>3 DEF Served
<1> QED
  BY <1>3, <1>6, <1>9, <1>10, <1>11

\* The page has its parts.
LEMMA PageFields ==
    /\ Page.active = active /\ Page.configures = configures /\ Page.revision = revision
    /\ Page.cached = cached /\ Page.timers = timers /\ Page.stamps = stamps
  BY DEF Page

\* What the user does ends a streak of reloads.
LEMMA ActedIsSound ==
    ASSUME Acted, NEW p \in PageData, RevisionsOK(p), NEW sc, NEW gd, NEW hd, ScoutsOK(p, sc),
           Guarded(p, gd, hd)
    PROVE  Sound(p, streak', sc, gd, hd) /\ streak' \in [Design -> Nat]
<1>1. StampsOK(p, streak')
  BY DEF Acted, StampsOK, PageData
<1>2. Young(p, gd, streak')
  BY DEF Acted, Young
<1> QED
  BY <1>1, <1>2 DEF Sound, PageGood, Acted

\* The user acts: what was reloaded on end is counted from here.
LEMMA ConfigureKeeps ==
    ASSUME RecIInv, Configure PROVE RecIInv'
<1>1. /\ Page \in PageData /\ Bounds /\ RevisionsOK(Page) /\ ScoutsOK(Page, scouts)
      /\ Guarded(Page, guards, hidden)
  BY BoundsHold DEF RecIInv, Sound, PageGood
<1>2. active = NoDesign /\ revision \in Nat /\ revision + 1 \in 0 .. MaxRevisions
  BY <1>1, PageFields DEF Configure, PageData, Bounds
<1>3. PICK p : p = [Page EXCEPT !.revision = revision + 1, !.configures = TRUE]
  OBVIOUS
<1>4. /\ p \in PageData /\ p.active = active /\ p.timers = timers /\ p.revision = revision + 1
  BY <1>1, <1>2, <1>3, PageFields DEF PageData
<1>5. Adopts(p) /\ Acted /\ Still /\ Quiet
  BY <1>3, PageFields DEF Configure
<1>6. RevisionsOK(p) /\ ScoutsOK(p, scouts)
  <2>1. \A x \in timers : x.rev \in Nat /\ x.rev <= revision
    BY <1>1, PageFields DEF PageData, TimerType, Bounds, RevisionsOK
  <2>2. \A x \in scouts : x.rev \in Nat /\ x.rev <= revision
    BY <1>1, PageFields DEF ScoutsOK, ScoutType, Bounds
  <2>3. scouts \subseteq ScoutType
    BY <1>1 DEF ScoutsOK
  <2> QED
    BY <1>2, <1>4, <2>1, <2>2, <2>3 DEF RevisionsOK, ScoutsOK
<1>7. Guarded(p, guards, hidden)
  BY <1>1, <1>4, PageFields DEF Guarded
<1>8. Sound(p, streak', scouts', guards', hidden') /\ streak' \in [Design -> Nat]
  BY <1>4, <1>5, <1>6, <1>7, ActedIsSound DEF Still, Quiet
<1>9. RestTypes'
  BY <1>5, <1>8 DEF RecIInv, RestTypes, Still, Quiet
<1> QED
  BY <1>5, <1>8, <1>9, SoundAfter

\* The configuration of the tool is dropped.
LEMMA UnconfigureKeeps ==
    ASSUME RecIInv, Unconfigure PROVE RecIInv'
<1>1. /\ Page \in PageData /\ RevisionsOK(Page) /\ ScoutsOK(Page, scouts)
      /\ Guarded(Page, guards, hidden)
  BY DEF RecIInv, Sound, PageGood
<1>2. PICK p : p = [Page EXCEPT !.configures = FALSE]
  OBVIOUS
<1>3. /\ p \in PageData /\ p.timers = timers /\ p.revision = revision /\ p.configures = FALSE
  BY <1>1, <1>2, PageFields DEF PageData
<1>4. Adopts(p) /\ Acted /\ Still /\ Quiet
  BY <1>2 DEF Unconfigure
<1>5. RevisionsOK(p) /\ ScoutsOK(p, scouts) /\ Guarded(p, guards, hidden)
  BY <1>1, <1>3, PageFields DEF RevisionsOK, ScoutsOK, Guarded
<1>6. Sound(p, streak', scouts', guards', hidden') /\ streak' \in [Design -> Nat]
  BY <1>3, <1>4, <1>5, ActedIsSound DEF Still, Quiet
<1>7. RestTypes'
  BY <1>4, <1>6 DEF RecIInv, RestTypes, Still, Quiet
<1> QED
  BY <1>4, <1>6, <1>7, SoundAfter

\* The user starts a session.
LEMMA StartKeeps ==
    ASSUME RecIInv, NEW s \in Design, Start(s) PROVE RecIInv'
<1>1. streak \in [Design -> Nat] /\ Sound(Page, streak, scouts, guards, hidden)
  BY DEF RecIInv, RestTypes
<1>2. PICK p : p = Opens(Page, s)
  OBVIOUS
<1>3. PageGood(p, streak) /\ Moves(Page, p)
  BY <1>1, <1>2, OpensIsGood DEF Sound
<1>4. Sound(p, streak, scouts, guards, hidden)
  BY <1>1, <1>3, MovesKeeps
<1>5. Adopts(p) /\ Acted /\ Still /\ Quiet
  BY <1>2 DEF Start
<1>6. Sound(p, streak', scouts', guards', hidden') /\ streak' \in [Design -> Nat]
  BY <1>4, <1>5, ActedIsSound DEF Still, Quiet, Sound, PageGood
<1>7. RestTypes'
  BY <1>5, <1>6 DEF RecIInv, RestTypes, Still, Quiet
<1> QED
  BY <1>5, <1>6, <1>7, SoundAfter

\* A session is accepted.
LEMMA AcceptedKeeps ==
    ASSUME RecIInv, NEW s \in Design, Accepted(s) PROVE RecIInv'
<1>1. /\ Page \in PageData /\ Bounds /\ RevisionsOK(Page) /\ ScoutsOK(Page, scouts)
      /\ Guarded(Page, guards, hidden)
  BY BoundsHold DEF RecIInv, Sound, PageGood
<1>2. revision \in 0 .. MaxRevisions /\ timers \in SUBSET TimerType
  BY <1>1, PageFields DEF PageData
<1>3. PICK ts : ts = timers \cup {Timer("accept", s, revision)}
                            \cup (IF shown[s] \in Wrapper THEN {Timer("reload", s, revision)} ELSE {})
  OBVIOUS
<1>4. ts \in SUBSET TimerType /\ \A x \in ts : x \in timers \/ x.rev = revision
  BY <1>2, <1>3 DEF TimerType, Timer
<1>5. PICK n \in 0 .. 2 : n = IF shown[s] \in Wrapper THEN 1 ELSE stamps[s]
  <2>1. stamps[s] \in 0 .. 2 /\ 1 \in 0 .. 2
    BY <1>1, PageFields DEF PageData
  <2> QED
    BY <2>1
<1>6. PICK p : p = [Page EXCEPT !.timers = ts, !.stamps[s] = n,
                                !.active = NoDesign, !.cached = NoDesign, !.configures = FALSE]
  OBVIOUS
<1>7. /\ p \in PageData /\ p.timers = ts /\ p.revision = revision /\ p.configures = FALSE
  BY <1>1, <1>4, <1>6, PageFields DEF PageData
<1>8. Adopts(p)
  <2>1. PICK o : o = [Page EXCEPT !.timers = ts, !.stamps[s] = n]
    OBVIOUS
  <2>2. /\ p = [o EXCEPT !.active = NoDesign, !.cached = NoDesign, !.configures = FALSE]
    BY <1>1, <1>6, <2>1 DEF PageData
  <2>3. o = [Page EXCEPT !.timers = @ \cup {Timer("accept", s, revision)}
                                          \cup (IF shown[s] \in Wrapper
                                                THEN {Timer("reload", s, revision)} ELSE {}),
                             !.stamps[s] = IF shown[s] \in Wrapper THEN 1 ELSE @]
    BY <1>1, <1>3, <1>5, <2>1, PageFields DEF PageData
  <2> QED
    BY <2>2, <2>3 DEF Accepted
<1>9. scouts' = {x \in scouts : x.id # s} \cup {[id |-> s, rev |-> revision]}
  BY DEF Accepted
<1>10. RevisionsOK(p) /\ ScoutsOK(p, scouts')
  <2>1. revision <= revision /\ revision \in Nat
    BY <1>1, <1>2 DEF Bounds
  <2>2. RevisionsOK(p)
    BY <1>1, <1>4, <1>7, <2>1, PageFields DEF RevisionsOK
  <2>3. scouts' \subseteq ScoutType
    BY <1>1, <1>2, <1>9 DEF ScoutsOK, ScoutType
  <2> QED
    BY <1>1, <1>7, <1>9, <2>1, <2>2, <2>3, PageFields DEF ScoutsOK
<1>11. Guarded(p, guards, hidden)
  BY <1>1, <1>3, <1>7, PageFields DEF Guarded
<1>12. guards' = guards /\ hidden' = hidden /\ Acted
  BY DEF Accepted, Still
<1>13. Sound(p, streak', scouts', guards', hidden') /\ streak' \in [Design -> Nat]
  BY <1>7, <1>10, <1>11, <1>12, ActedIsSound
<1>14. RestTypes'
  BY <1>13 DEF RecIInv, RestTypes, Accepted, Still
<1> QED
  BY <1>8, <1>13, <1>14, SoundAfter

\* A session is discarded.
LEMMA DiscardedKeeps ==
    ASSUME RecIInv, NEW s \in Design, Discarded(s) PROVE RecIInv'
<1>1. /\ Page \in PageData /\ Bounds /\ RevisionsOK(Page) /\ ScoutsOK(Page, scouts)
      /\ Guarded(Page, guards, hidden)
  BY BoundsHold DEF RecIInv, Sound, PageGood
<1>2. revision \in 0 .. MaxRevisions /\ timers \in SUBSET TimerType
  BY <1>1, PageFields DEF PageData
<1>3. PICK ts : ts = timers \cup {Timer("discard", s, revision)}
  OBVIOUS
<1>4. ts \in SUBSET TimerType /\ \A x \in ts : x \in timers \/ x.rev = revision
  BY <1>2, <1>3 DEF TimerType, Timer
<1>5. PICK p : p = [Page EXCEPT !.active = NoDesign, !.cached = NoDesign, !.configures = FALSE,
                                !.timers = ts]
  OBVIOUS
<1>6. p \in PageData /\ p.timers = ts /\ p.revision = revision /\ p.configures = FALSE
  BY <1>1, <1>4, <1>5, PageFields DEF PageData
<1>7. Adopts(p) /\ Acted /\ scouts' = scouts /\ guards' = guards
  BY <1>1, <1>3, <1>5, PageFields DEF Discarded, PageData
<1>8. RevisionsOK(p) /\ ScoutsOK(p, scouts)
  <2>1. revision <= revision
    BY <1>1, <1>2 DEF Bounds
  <2> QED
    BY <1>1, <1>4, <1>6, <2>1, PageFields DEF RevisionsOK, ScoutsOK
<1>9. Guarded(p, guards, hidden')
  <2>1. \A t \in hidden' : t \in hidden \/ t = s
    BY DEF Discarded
  <2>2. \E x \in p.timers : x.id = s /\ x.kind \in {"discard", "linger"}
    <3>1. PICK x : x = Timer("discard", s, revision)
      OBVIOUS
    <3>2. x \in p.timers
      BY <1>3, <1>6, <3>1
    <3> QED
      BY <3>1, <3>2 DEF Timer
  <2>3. Page.timers \subseteq p.timers
    BY <1>3, <1>6, PageFields
  <2> QED
    BY <1>1, <2>1, <2>2, <2>3 DEF Guarded
<1>10. Sound(p, streak', scouts', guards', hidden') /\ streak' \in [Design -> Nat]
  BY <1>6, <1>7, <1>8, <1>9, ActedIsSound
<1>11. RestTypes'
  BY <1>10 DEF RecIInv, RestTypes, Discarded
<1> QED
  BY <1>7, <1>10, <1>11, SoundAfter

\* A reload, by the user or for a session for which another one is allowed.
LEMMA ReloadsKeep ==
    ASSUME RecIInv, ReloadsPage, streak' \in [Design -> Nat],
           \A s \in Design : streak'[s] <= stamps[s] + 1,
           UNCHANGED <<owned, over, accepted, file>>, refreshes' \in 0 .. MaxRefreshes
    PROVE  RecIInv'
<1>1. Page \in PageData /\ RestTypes
  BY DEF RecIInv, Sound, PageGood
<1>2. PICK q : Adopts(q) /\ Sound(q, streak', scouts', guards', hidden')
  BY <1>1, ReloadsPageKeeps
<1>3. shown' \in [Design -> Content] /\ guards' = {} /\ hidden' = {} /\ hydrates' \in BOOLEAN
  BY <1>1, ReloadsPageKeeps
<1>4. RestTypes'
  BY <1>1, <1>3 DEF RestTypes
<1> QED
  BY <1>2, <1>4, SoundAfter

\* The user reloads the page.
LEMMA UserReloadsKeeps ==
    ASSUME RecIInv, UserReloads PROVE RecIInv'
<1>1. Page \in PageData /\ RestTypes /\ Bounds
  BY BoundsHold DEF RecIInv, Sound, PageGood
<1>2. streak' \in [Design -> Nat] /\ \A s \in Design : streak'[s] <= stamps[s] + 1
  <2>1. stamps \in [Design -> 0 .. 2]
    BY <1>1, PageFields DEF PageData
  <2> QED
    BY <2>1 DEF UserReloads, Acted
<1>3. refreshes' \in 0 .. MaxRefreshes
  BY <1>1 DEF UserReloads, RestTypes, Bounds
<1> QED
  BY <1>2, <1>3, ReloadsKeep DEF UserReloads

\* The page reloads for a session that has reloads left.
LEMMA ReloadsForKeeps ==
    ASSUME RecIInv, NEW s \in Design, ReloadsFor(s), streak[s] <= stamps[s] PROVE RecIInv'
<1>1. /\ Page \in PageData /\ RestTypes /\ StampsOK(Page, streak)
  BY DEF RecIInv, Sound, PageGood
<1>2. streak' \in [Design -> Nat] /\ \A t \in Design : streak'[t] <= stamps[t] + 1
  <2>1. stamps \in [Design -> 0 .. 2] /\ streak \in [Design -> Nat]
    BY <1>1, PageFields DEF PageData, RestTypes
  <2>2. \A t \in Design : streak[t] <= stamps[t] + 1
    BY <1>1, PageFields DEF StampsOK
  <2>3. streak' = [streak EXCEPT ![s] = @ + 1]
    BY DEF ReloadsFor
  <2> QED
    BY <2>1, <2>2, <2>3
<1>3. ReloadsPage /\ UNCHANGED <<owned, over, accepted, file>> /\ refreshes' \in 0 .. MaxRefreshes
  BY <1>1 DEF ReloadsFor, RestTypes
<1> QED
  BY <1>2, <1>3, ReloadsKeep

-----------------------------------------------------------------------------
(* The timers.                                                             *)

\* A timer that fired is gone.
LEMMA SpentIsSound ==
    ASSUME RecIInv, NEW x \in timers, NEW hd \in SUBSET hidden,
           x.kind \in {"discard", "linger"} => x.id \notin hd
    PROVE  /\ Sound(Spent(x), streak, scouts, guards, hd) /\ Spent(x) \in PageData
           /\ Spent(x).timers = timers \ {x} /\ Spent(x).revision = revision
           /\ Spent(x).configures = configures /\ Spent(x).stamps = stamps
           /\ Spent(x).active = active
<1>1. /\ Page \in PageData /\ RevisionsOK(Page) /\ StampsOK(Page, streak)
      /\ ScoutsOK(Page, scouts) /\ Guarded(Page, guards, hidden) /\ Young(Page, guards, streak)
  BY DEF RecIInv, Sound, PageGood
<1>2. PICK p : p = Spent(x)
  OBVIOUS
<1>3. /\ p \in PageData /\ p.timers = timers \ {x} /\ p.revision = revision
      /\ p.configures = configures /\ p.stamps = stamps /\ p.active = active
  BY <1>1, <1>2, PageFields DEF PageData, Spent
<1>4. RevisionsOK(p) /\ StampsOK(p, streak) /\ ScoutsOK(p, scouts)
  BY <1>1, <1>3, PageFields DEF RevisionsOK, StampsOK, ScoutsOK, Pending
<1>5. Young(p, guards, streak)
  BY <1>1, <1>3, PageFields DEF Young
<1>6. Guarded(p, guards, hd)
  BY <1>1, <1>3, PageFields DEF Guarded
<1> QED
  BY <1>2, <1>3, <1>4, <1>5, <1>6 DEF Sound, PageGood

\* A timer that has nothing to do.
LEMMA IgnoresKeeps ==
    ASSUME RecIInv, NEW x \in timers, x.kind \notin {"discard", "linger"}, Ignores(x), Quiet
    PROVE  RecIInv'
<1>1. Sound(Spent(x), streak, scouts, guards, hidden)
  BY SpentIsSound
<1>2. Adopts(Spent(x)) /\ Still /\ streak' = streak
  BY DEF Ignores
<1>3. PICK p : p = Spent(x)
  OBVIOUS
<1>4. Adopts(p) /\ Sound(p, streak', scouts', guards', hidden')
  BY <1>1, <1>2, <1>3 DEF Still, Quiet
<1>5. RestTypes'
  BY <1>2 DEF RecIInv, RestTypes, Still, Quiet
<1> QED
  BY <1>4, <1>5, SoundAfter

\* The next timer of the same settlement takes the place of x.
LEMMA LeavesKeeps ==
    ASSUME RecIInv, NEW x \in timers, x.kind # "reload", NEW k \in {"settle", "linger"},
           x.kind \in {"discard", "linger"} => k = "linger", Leaves(x, k), Quiet
    PROVE  RecIInv'
<1>1. /\ Page \in PageData /\ RevisionsOK(Page) /\ StampsOK(Page, streak)
      /\ ScoutsOK(Page, scouts) /\ Guarded(Page, guards, hidden) /\ Young(Page, guards, streak)
  BY DEF RecIInv, Sound, PageGood
<1>2. timers \in SUBSET TimerType
  BY <1>1, PageFields DEF PageData
<1>3. PICK y : y = Timer(k, x.id, x.rev)
  OBVIOUS
<1>4. y \in TimerType /\ y.id = x.id /\ y.rev = x.rev /\ y.kind = k
  BY <1>2, <1>3 DEF Timer, TimerType
<1>5. PICK p : p = [Page EXCEPT !.timers = (timers \ {x}) \cup {y}]
  OBVIOUS
<1>6. /\ p \in PageData /\ p.timers = (timers \ {x}) \cup {y} /\ p.revision = revision
      /\ p.configures = configures /\ p.stamps = stamps /\ p.active = active
  BY <1>1, <1>2, <1>4, <1>5, PageFields DEF PageData
<1>7. Adopts(p) /\ Still /\ streak' = streak
  BY <1>3, <1>5, PageFields DEF Leaves
<1>8. RevisionsOK(p) /\ ScoutsOK(p, scouts)
  BY <1>1, <1>4, <1>6, PageFields DEF RevisionsOK, ScoutsOK
<1>9. StampsOK(p, streak)
  <2>1. \A s \in Design : Pending(p, s) => Pending(Page, s)
    BY <1>4, <1>6, PageFields DEF Pending, Timer
  <2> QED
    BY <1>1, <1>6, <2>1, PageFields DEF StampsOK
<1>10. Young(p, guards, streak)
  BY <1>1, PageFields DEF Young
<1>11. Guarded(p, guards, hidden)
  <2>1. \A s \in hidden : s \in guards \/ \E z \in timers : z.id = s /\ z.kind \in {"discard", "linger"}
    BY <1>1, PageFields DEF Guarded
  <2>2. y \in p.timers /\ \A z \in timers : z \in p.timers \/ z = x
    BY <1>6
  <2> QED
    BY <1>4, <2>1, <2>2 DEF Guarded
<1>12. Sound(p, streak', scouts', guards', hidden')
  BY <1>6, <1>7, <1>8, <1>9, <1>10, <1>11 DEF Sound, PageGood, Still, Quiet
<1>13. RestTypes'
  BY <1>7 DEF RecIInv, RestTypes, Still, Quiet
<1> QED
  BY <1>7, <1>12, <1>13, SoundAfter

\* The page puts the document right by hand.
LEMMA MutatesIsSound ==
    ASSUME RecIInv, NEW p, NEW hide \in SUBSET hidden, NEW d \in [Design -> Content],
           Sound(p, streak, scouts, guards, hide), Mutates(p, d, hide),
           UNCHANGED <<owned, over, accepted, scouts, streak>>,
           file' \in [Design -> Content \ {"missing"}], refreshes' \in 0 .. MaxRefreshes
    PROVE  RecIInv'
<1>1. RestTypes
  BY DEF RecIInv
<1>2. /\ \E q : Adopts(q) /\ Sound(q, streak', scouts', guards', hidden')
      /\ shown' = d /\ guards' \subseteq guards /\ hidden' \subseteq hidden /\ hydrates' \in BOOLEAN
  BY <1>1, MutatesKeeps
<1>3. RestTypes'
  BY <1>1, <1>2 DEF RestTypes
<1> QED
  BY <1>2, <1>3, SoundAfter

\* A timer of the settlement itself is set before anything was reloaded.
LEMMA YoungTimers ==
    ASSUME RecIInv, NEW s \in Design,
           s \in guards \/ (\E x \in timers : x.kind # "reload") \/ Pending(Page, s)
    PROVE  streak[s] <= stamps[s]
<1>1. Page \in PageData /\ StampsOK(Page, streak) /\ Young(Page, guards, streak)
  BY DEF RecIInv, Sound, PageGood
<1>2. stamps[s] \in 0 .. 2
  BY <1>1, PageFields DEF PageData
<1> QED
  BY <1>1, <1>2, PageFields DEF Young, StampsOK

\* What the invariant says of timers and constants.
LEMMA TimersAreTyped == RecIInv => timers \in SUBSET TimerType /\ Bounds
  BY PageFields, BoundsHold DEF RecIInv, Sound, PageGood, PageData

\* The timer of an accepted session fires.
LEMMA AcceptTimerKeeps ==
    ASSUME RecIInv, NEW x \in timers, AcceptTimer(x) PROVE RecIInv'
<1>1. x \in TimerType /\ x.id \in Design /\ RestTypes
  BY TimersAreTyped DEF RecIInv, TimerType
<1>2. x.kind = "accept"
  BY DEF AcceptTimer
<1>3. CASE Ignores(x) /\ Quiet
  BY <1>2, <1>3, IgnoresKeeps
<1>4. CASE Leaves(x, "settle") /\ Quiet
  BY <1>2, <1>4, LeavesKeeps
<1>5. CASE Mutates(Spent(x), [shown EXCEPT ![x.id] = "clean"], hidden) /\ UNCHANGED streak /\ Quiet
  <2>1. PICK p : p = Spent(x)
    OBVIOUS
  <2>2. PICK d : d = [shown EXCEPT ![x.id] = "clean"]
    OBVIOUS
  <2>3. d \in [Design -> Content]
    BY <1>1, <2>2 DEF RestTypes, Content
  <2>4. Sound(p, streak, scouts, guards, hidden)
    BY <1>2, <2>1, SpentIsSound
  <2> QED
    BY <1>1, <1>5, <2>1, <2>2, <2>3, <2>4, MutatesIsSound DEF Quiet, RestTypes
<1>6. CASE ReloadsFor(x.id)
  BY <1>1, <1>2, <1>6, YoungTimers, ReloadsForKeeps
<1> QED
  BY <1>3, <1>4, <1>5, <1>6 DEF AcceptTimer

\* The timer of a settled session fires.
LEMMA SettleTimerKeeps ==
    ASSUME RecIInv, NEW x \in timers, SettleTimer(x) PROVE RecIInv'
<1>1. x.id \in Design
  BY TimersAreTyped DEF TimerType
<1>2. x.kind = "settle"
  BY DEF SettleTimer
<1>3. CASE Ignores(x) /\ Quiet
  BY <1>2, <1>3, IgnoresKeeps
<1>4. CASE ReloadsFor(x.id)
  BY <1>1, <1>2, <1>4, YoungTimers, ReloadsForKeeps
<1> QED
  BY <1>3, <1>4 DEF SettleTimer

\* The timer of a reload fires.
LEMMA ReloadTimerKeeps ==
    ASSUME RecIInv, NEW x \in timers, ReloadTimer(x) PROVE RecIInv'
<1>1. x \in TimerType /\ x.id \in Design /\ RestTypes
  BY TimersAreTyped DEF RecIInv, TimerType
<1>2. x.kind = "reload"
  BY DEF ReloadTimer
<1>3. CASE ReloadsFor(x.id)
  <2>1. x = Timer("reload", x.id, x.rev) /\ x.rev \in 0 .. MaxRevisions
    BY <1>1, <1>2 DEF TimerType, Timer
  <2>2. Pending(Page, x.id)
    BY <2>1, PageFields DEF Pending
  <2> QED
    BY <1>1, <1>3, <2>2, YoungTimers, ReloadsForKeeps
<1>4. CASE /\ Adopts([Spent(x) EXCEPT !.stamps[x.id] = 0])
           /\ streak' = [streak EXCEPT ![x.id] = 0]
           /\ Still /\ Quiet
  <2>1. PICK p : p = Spent(x)
    OBVIOUS
  <2>2. Sound(p, streak, scouts, guards, hidden) /\ p \in PageData
    BY <1>2, <2>1, SpentIsSound
  <2>3. PICK q : q = [p EXCEPT !.stamps[x.id] = 0]
    OBVIOUS
  <2>4. /\ q \in PageData /\ q.timers = p.timers /\ q.revision = p.revision
        /\ q.configures = p.configures /\ q.active = p.active
        /\ q.stamps = [p.stamps EXCEPT ![x.id] = 0]
    <3>1. 0 \in 0 .. 2 /\ p.stamps \in [Design -> 0 .. 2]
      BY <2>2 DEF PageData
    <3> QED
      BY <1>1, <2>2, <2>3, <3>1 DEF PageData
  <2>5. streak \in [Design -> Nat] /\ streak' \in [Design -> Nat]
    BY <1>1, <1>4 DEF RestTypes
  <2>6. StampsOK(q, streak')
    <3>1. \A s \in Design : Pending(q, s) <=> Pending(p, s)
      BY <2>4 DEF Pending
    <3>2. q.stamps[x.id] = 0 /\ streak'[x.id] = 0
      BY <1>1, <1>4, <2>2, <2>4, <2>5 DEF PageData
    <3>3. \A s \in Design : s # x.id => q.stamps[s] = p.stamps[s] /\ streak'[s] = streak[s]
      BY <1>1, <1>4, <2>2, <2>4, <2>5 DEF PageData
    <3>4. StampsOK(p, streak)
      BY <2>2 DEF Sound, PageGood
    <3> QED
      BY <3>1, <3>2, <3>3, <3>4 DEF StampsOK
  <2>7. RevisionsOK(q) /\ ScoutsOK(q, scouts) /\ Guarded(q, guards, hidden)
    BY <2>2, <2>4 DEF Sound, PageGood, RevisionsOK, ScoutsOK, Guarded
  <2>8. Young(q, guards, streak')
    <3>1. Young(p, guards, streak)
      BY <2>2 DEF Sound
    <3> QED
      BY <1>1, <1>4, <2>4, <2>5, <3>1 DEF Young
  <2>9. Sound(q, streak', scouts', guards', hidden')
    BY <1>4, <2>4, <2>6, <2>7, <2>8 DEF Sound, PageGood, Still, Quiet
  <2>10. RestTypes'
    BY <1>1, <1>4, <2>5 DEF RestTypes, Still, Quiet
  <2> QED
    BY <1>4, <2>1, <2>3, <2>9, <2>10, SoundAfter
<1> QED
  BY <1>3, <1>4 DEF ReloadTimer

\* What a discard has hidden is shown again.
LEMMA UnhidesKeeps ==
    ASSUME RecIInv, NEW x \in timers, Unhides(x) PROVE RecIInv'
<1>1. PICK p : p = Spent(x)
  OBVIOUS
<1>2. Sound(p, streak, scouts, guards, hidden \ {x.id})
  BY <1>1, SpentIsSound
<1>3. Adopts(p) /\ Sound(p, streak', scouts', guards', hidden')
  BY <1>1, <1>2 DEF Unhides, Quiet
<1>4. RestTypes'
  BY DEF RecIInv, RestTypes, Unhides, Quiet
<1> QED
  BY <1>3, <1>4, SoundAfter

\* What a discard has hidden is watched from now on.
LEMMA WatchedKeeps ==
    ASSUME RecIInv, NEW x \in timers, x.kind # "reload", Watched(x) PROVE RecIInv'
<1>1. PICK p : p = Spent(x)
  OBVIOUS
<1>2. Sound(p, streak, scouts, guards, hidden \ {x.id}) /\ x.id \in Design
  BY <1>1, SpentIsSound, TimersAreTyped DEF TimerType
<1>3. Adopts(p) /\ guards' = guards \cup {x.id} /\ hidden' = hidden /\ streak' = streak
      /\ scouts' = scouts
  BY <1>1 DEF Watched, Quiet
<1>4. Young(p, guards', streak)
  BY PageFields DEF RecIInv, Sound, Young
<1>5. Guarded(p, guards', hidden)
  BY <1>2, <1>3 DEF Sound, Guarded
<1>6. Sound(p, streak', scouts', guards', hidden')
  BY <1>2, <1>3, <1>4, <1>5 DEF Sound
<1>7. RestTypes'
  BY <1>2, <1>3 DEF RecIInv, RestTypes, Watched, Quiet
<1> QED
  BY <1>3, <1>6, <1>7, SoundAfter

\* What a discard has hidden is taken out of the document.
LEMMA LetsGoKeeps ==
    ASSUME RecIInv, NEW x \in timers, LetsGo(x) PROVE RecIInv'
<1>1. x.id \in Design /\ RestTypes
  BY TimersAreTyped DEF RecIInv, TimerType
<1>2. PICK p : p = Spent(x)
  OBVIOUS
<1>3. PICK d : d = [shown EXCEPT ![x.id] = "clean"]
  OBVIOUS
<1>4. d \in [Design -> Content]
  BY <1>1, <1>3 DEF RestTypes, Content
<1>5. PICK hd \in SUBSET hidden : hd = hidden \ {x.id}
  OBVIOUS
<1>6. Sound(p, streak, scouts, guards, hd)
  BY <1>2, <1>5, SpentIsSound
<1>7. Mutates(p, d, hd) /\ UNCHANGED streak /\ Quiet
  BY <1>2, <1>3, <1>5 DEF LetsGo
<1> QED
  BY <1>1, <1>4, <1>6, <1>7, MutatesIsSound DEF Quiet, RestTypes

\* The timers of a discarded session fire.
LEMMA DiscardTimersKeep ==
    ASSUME RecIInv, NEW x \in timers, DiscardTimer(x) \/ LingerTimer(x) PROVE RecIInv'
<1>1. x.id \in Design
  BY TimersAreTyped DEF TimerType
<1>2. x.kind \in {"discard", "linger"}
  BY DEF DiscardTimer, LingerTimer
<1>3. CASE Unhides(x)
  BY <1>3, UnhidesKeeps
<1>4. CASE LetsGo(x)
  BY <1>4, LetsGoKeeps
<1>5. CASE Watched(x)
  BY <1>2, <1>5, WatchedKeeps
<1>6. CASE Leaves(x, "linger") /\ Quiet
  BY <1>2, <1>6, LeavesKeeps
<1>7. CASE ReloadsFor(x.id)
  BY <1>1, <1>2, <1>7, YoungTimers, ReloadsForKeeps
<1> QED
  BY <1>3, <1>4, <1>5, <1>6, <1>7 DEF DiscardTimer, LingerTimer

\* The guard of what is hidden fires.
LEMMA GuardTimerKeeps ==
    ASSUME RecIInv, NEW s \in Design, GuardTimer(s) PROVE RecIInv'
  BY YoungTimers, ReloadsForKeeps DEF GuardTimer

\* A scout has its answer.
LEMMA ScoutEndsKeeps ==
    ASSUME RecIInv, NEW x \in scouts, ScoutEnds(x) PROVE RecIInv'
<1>1. PICK p : p = Page
  OBVIOUS
<1>2. Sound(p, streak, scouts, guards, hidden)
  BY <1>1 DEF RecIInv
<1>3. ScoutsOK(p, scouts')
  BY <1>2 DEF ScoutEnds, Sound, ScoutsOK
<1>4. Adopts(p) /\ Sound(p, streak', scouts', guards', hidden')
  BY <1>1, <1>2, <1>3 DEF ScoutEnds, Still, Sound
<1>5. RestTypes'
  BY DEF RecIInv, RestTypes, ScoutEnds, Still
<1> QED
  BY <1>4, <1>5, SoundAfter

\* The agent takes the variants out of the source.
LEMMA AgentCleansKeeps ==
    ASSUME RecIInv, NEW s \in Design, AgentCleans(s) PROVE RecIInv'
<1>1. PICK c \in {"variants", "carbonize", "clean"} : Writes(s, c)
  BY DEF AgentCleans
<1>2. PICK p : p = Page
  OBVIOUS
<1>3. Adopts(p) /\ Sound(p, streak', scouts', guards', hidden')
  BY <1>1, <1>2 DEF Writes, Still, RecIInv
<1>4. file' \in [Design -> Content \ {"missing"}]
  BY <1>1 DEF Writes, RecIInv, RestTypes, Content, Wrapper
<1>5. RestTypes'
  BY <1>1, <1>4 DEF RecIInv, RestTypes, Writes, Still
<1> QED
  BY <1>3, <1>5, SoundAfter

\* The document is refreshed, early or late.
LEMMA RefreshKeeps ==
    ASSUME RecIInv, NEW s \in Design, NEW c \in Content, Refresh(s, c) PROVE RecIInv'
<1>1. Bounds /\ RestTypes
  BY BoundsHold DEF RecIInv
<1>2. PICK p : p = Page
  OBVIOUS
<1>3. PICK d : d = [shown EXCEPT ![s] = c]
  OBVIOUS
<1>4. d \in [Design -> Content]
  BY <1>1, <1>3 DEF RestTypes
<1>5. Sound(p, streak, scouts, guards, hidden) /\ Mutates(p, d, hidden)
  BY <1>2, <1>3 DEF RecIInv, Refresh
<1>6. refreshes' \in 0 .. MaxRefreshes
  BY <1>1 DEF Refresh, RestTypes, Bounds
<1>7. UNCHANGED <<owned, over, accepted, file, scouts, streak>>
  BY DEF Refresh
<1> QED
  BY <1>1, <1>4, <1>5, <1>6, <1>7, MutatesIsSound DEF RestTypes

\* Every step of the recovery keeps the invariant.
LEMMA RecoveryStep ==
    ASSUME RecIInv, [RecoveryNext]_recoveryVars PROVE RecIInv'
<1>1. CASE Configure \/ Unconfigure \/ UserReloads
  BY <1>1, ConfigureKeeps, UnconfigureKeeps, UserReloadsKeeps
<1>2. CASE \E s \in Design : Start(s) \/ Accepted(s) \/ Discarded(s) \/ GuardTimer(s) \/ AgentCleans(s)
  BY <1>2, StartKeeps, AcceptedKeeps, DiscardedKeeps, GuardTimerKeeps, AgentCleansKeeps
<1>3. CASE \E s \in Design, c \in Content : Refresh(s, c)
  BY <1>3, RefreshKeeps
<1>4. CASE \E x \in timers : AcceptTimer(x) \/ SettleTimer(x) \/ ReloadTimer(x)
                             \/ DiscardTimer(x) \/ LingerTimer(x)
  BY <1>4, AcceptTimerKeeps, SettleTimerKeeps, ReloadTimerKeeps, DiscardTimersKeep
<1>5. CASE \E x \in scouts : ScoutEnds(x)
  BY <1>5, ScoutEndsKeeps
<1>6. CASE UNCHANGED recoveryVars
  BY <1>6 DEF recoveryVars, RecIInv, RestTypes, Page, Sound, PageGood, RevisionsOK, StampsOK,
              Pending, ScoutsOK, Guarded, Young
<1> QED
  BY <1>1, <1>2, <1>3, <1>4, <1>5, <1>6 DEF RecoveryNext

\* The invariant of LiveRecovery: timers are no newer than the page and older
\* than a configuration, every reload but the first of a session is stamped in
\* sessionStorage (MAX_RELOAD_ATTEMPTS), a timer of the settlement itself means
\* that nothing was reloaded yet, and what is hidden has who restores it.
THEOREM RecoveryInvariant == RecoverySpec => []RecIInv
<1>1. RecoveryInit => RecIInv
  BY RecInitial
<1>2. RecIInv /\ [RecoveryNext]_recoveryVars => RecIInv'
  BY RecoveryStep
<1> QED
  BY <1>1, <1>2, PTL DEF RecoverySpec

\* What a discard hid is watched until it is restored, and at most three reloads
\* on end follow one settled session, however the dev server answers and however
\* late the timers fire.
THEOREM RecoveryComesToAnEnd == RecoverySpec => []RecoveryEnds
<1>1. RecIInv => RecoveryEnds
  <2> SUFFICES ASSUME RecIInv PROVE RecoveryEnds
    OBVIOUS
  <2>1. Page \in PageData /\ StampsOK(Page, streak) /\ Guarded(Page, guards, hidden) /\ RestTypes
    BY DEF RecIInv, Sound, PageGood
  <2>2. HiddenIsWatched
    BY <2>1, PageFields DEF Guarded, HiddenIsWatched
  <2>3. ASSUME NEW s \in Design PROVE streak[s] <= 3
    <3>1. stamps[s] \in 0 .. 2 /\ streak[s] \in Nat /\ streak[s] <= stamps[s] + 1
      BY <2>1, PageFields DEF PageData, RestTypes, StampsOK
    <3> QED
      BY <3>1
  <2> QED
    BY <2>2, <2>3 DEF RecoveryEnds
<1> QED
  BY <1>1, RecoveryInvariant, PTL

\* A step that reloads the page for a session is not superseded: a timer that
\* fires on a configuration has an older revision.
LEMMA ReloadsSpareReplacement ==
    ASSUME RecIInv, [RecoveryNext]_recoveryVars, NEW s \in Design, streak'[s] > streak[s]
    PROVE  ~Replaced(s)
<1>1. /\ Page \in PageData /\ RevisionsOK(Page) /\ streak \in [Design -> Nat] /\ Bounds
      /\ timers \in SUBSET TimerType
  BY BoundsHold, TimersAreTyped DEF RecIInv, Sound, PageGood, RestTypes
<1>2. streak[s] \in Nat /\ ~(streak'[s] = streak[s]) /\ ~(streak'[s] = 0)
  BY <1>1
<1>3. ~Acted /\ streak' # streak
  BY <1>2 DEF Acted
<1>4. \A t \in Design : ReloadsFor(t) => t = s
  BY <1>1, <1>2 DEF ReloadsFor
<1>5. ASSUME NEW x \in timers, ~Stale(x), x.id = s PROVE ~Replaced(s)
  <2>1. revision = x.rev /\ active \in {NoDesign, s}
    BY <1>5, PageFields DEF Stale, Superseded
  <2>2. configures => x.rev < revision
    BY <1>1, PageFields DEF RevisionsOK
  <2>3. revision \in Nat
    BY <1>1, PageFields DEF PageData, Bounds
  <2> QED
    BY <2>1, <2>2, <2>3 DEF Replaced
<1>6. \A x \in timers : x.id \in Design
  BY <1>1 DEF TimerType
<1>7. CASE \E x \in timers : AcceptTimer(x) \/ SettleTimer(x) \/ LingerTimer(x) \/ DiscardTimer(x)
  <2>1. PICK x \in timers : AcceptTimer(x) \/ SettleTimer(x) \/ LingerTimer(x) \/ DiscardTimer(x)
    BY <1>7
  <2>2. ReloadsFor(x.id) /\ ~Stale(x)
    BY <1>3, <2>1 DEF AcceptTimer, SettleTimer, LingerTimer, DiscardTimer, Ignores, Leaves,
                      Unhides, Watched, LetsGo
  <2> QED
    BY <1>4, <1>5, <1>6, <2>2
<1>8. CASE \E x \in timers : ReloadTimer(x)
  <2>1. PICK x \in timers : ReloadTimer(x)
    BY <1>8
  <2>2. ~(streak' = [streak EXCEPT ![x.id] = 0])
    BY <1>1, <1>2, <1>6
  <2>3. ReloadsFor(x.id) /\ ~Stale(x)
    BY <2>1, <2>2 DEF ReloadTimer
  <2> QED
    BY <1>4, <1>5, <1>6, <2>3
<1>9. CASE \E t \in Design : GuardTimer(t)
  BY <1>4, <1>9 DEF GuardTimer, Replaced
<1>10. ~(Configure \/ Unconfigure \/ UserReloads)
  BY <1>3 DEF Configure, Unconfigure, UserReloads
<1>11. ~\E t \in Design : Start(t) \/ Accepted(t) \/ Discarded(t) \/ AgentCleans(t)
  BY <1>3 DEF Start, Accepted, Discarded, AgentCleans, Writes
<1>12. ~\E t \in Design, c \in Content : Refresh(t, c)
  BY <1>3 DEF Refresh
<1>13. ~(\E x \in scouts : ScoutEnds(x)) /\ ~(UNCHANGED recoveryVars)
  BY <1>3 DEF ScoutEnds, recoveryVars
<1> QED
  BY <1>7, <1>8, <1>9, <1>10, <1>11, <1>12, <1>13 DEF RecoveryNext

\* An older accept or discard never reloads the page over what the user is at
\* work on meanwhile (deferredRecoverySuperseded, resolveStillMounted).
THEOREM ReplacementsAreSpared == RecoverySpec => RecoverySparesReplacement
<1>1. RecIInv /\ [RecoveryNext]_recoveryVars =>
         [\A s \in Design : streak'[s] > streak[s] => ~Replaced(s)]_recoveryVars
  BY ReloadsSpareReplacement
<1> QED
  BY <1>1, RecoveryInvariant, PTL DEF RecoverySpec, RecoverySparesReplacement
=============================================================================
