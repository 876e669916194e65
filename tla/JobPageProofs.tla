--------------------------- MODULE JobPageProofs ----------------------------
(***************************************************************************)
(* What holds of the list of jobs for any number of jobs, of their states, *)
(* and of requests, faults and reloads.                                    *)
(***************************************************************************)
EXTENDS JobPage, SequenceTheorems, TLAPS

-----------------------------------------------------------------------------
(* Everything the page or an answer says of a job is in its history, of    *)
(* which the server forgets nothing.                                       *)

State == {"pending", "running", "succeeded", "stopped"}
OfJob == {"create", "cancel", "retry", "delete", "terminal", "transcripts"}
Kind == OfJob \cup {"load", "refresh", "listed"}
Places == {"closed", "connecting", "poll", "row", "confirm", "ended", "dead"}

RowType == [seq : Nat, ver : Nat]
TrackType == [known : BOOLEAN, active : BOOLEAN, gen : Nat, seq : Nat]

RowFor(h, j) == [seq : 0 .. Len(h[j]), ver : 0 .. Len(h[j])]
RowsFor(h) == {rs \in [Job -> RowType] : \A j \in Job : rs[j] \in RowFor(h, j)}
TracksFor(h) == {ts \in [Job -> TrackType] : \A j \in Job : ts[j].seq <= Len(h[j])}
StreamFor(h, j) == [at : Places, gen : Nat, after : 0 .. Len(h[j]), cursor : 0 .. Len(h[j]),
                    upto : 0 .. Len(h[j]), wire : Seq(RowFor(h, j))]
StreamType == [at : Places, gen : Nat, after : Nat, cursor : Nat, upto : Nat, wire : Seq(RowType)]
StreamsFor(h) == {ss \in [Job -> StreamType] : \A j \in Job : ss[j] \in StreamFor(h, j)}
RequestFor(h) == {r \in [kind : Kind, j : Job \cup {All}, gen : Nat,
                         at : {"sent", "acted", "counted", "answered", "failed"},
                         rows : RowsFor(h)] : r.kind \in OfJob => r.j \in Job}

HistOK(h) == h \in [Job -> Seq(State)] /\ \A j \in Job : Len(h[j]) <= MaxStates

JobData ==
    /\ HistOK(hist) /\ gone \subseteq Job /\ requests \subseteq RequestFor(hist)
    /\ rows \in RowsFor(hist) /\ track \in TracksFor(hist) /\ stream \in StreamsFor(hist)
    /\ told \in BOOLEAN /\ lapses \in 0 .. MaxFaults

\* Unless the button "refresh" is at work, nothing is shown that the tracker of
\* the job is not past.
Tracked == told \/ (\E r \in requests : r.kind = "listed")
           \/ \A j \in Job : rows[j].seq <= track[j].seq

JobIInv == JobData /\ Tracked

\* The step of RowsNeverGoBack.
Forwards == Unreconciled \/ \A j \in Job : rows'[j] # Absent => rows'[j].seq >= rows[j].seq

\* A job's history only grows.
Grows(h, g) == \A j \in Job : Len(h[j]) <= Len(g[j])

\* What a longer history allows, with its history.
LEMMA MoreIsKnown ==
    ASSUME NEW h, NEW g, HistOK(h), HistOK(g), Grows(h, g)
    PROVE  /\ RowsFor(h) \subseteq RowsFor(g) /\ TracksFor(h) \subseteq TracksFor(g)
           /\ StreamsFor(h) \subseteq StreamsFor(g) /\ RequestFor(h) \subseteq RequestFor(g)
<1>1. \A j \in Job : Len(h[j]) \in Nat /\ Len(g[j]) \in Nat /\ 0 .. Len(h[j]) \subseteq 0 .. Len(g[j])
  BY DEF HistOK, Grows
<1>2. \A j \in Job : RowFor(h, j) \subseteq RowFor(g, j)
  BY <1>1 DEF RowFor
<1>3. RowsFor(h) \subseteq RowsFor(g)
  BY <1>2 DEF RowsFor
<1>4. TracksFor(h) \subseteq TracksFor(g)
  <2>1. ASSUME NEW ts \in TracksFor(h), NEW j \in Job
        PROVE  ts[j].seq <= Len(g[j])
    BY <1>1 DEF TracksFor, TrackType, Grows
  <2> QED
    BY <2>1 DEF TracksFor
<1>5. \A j \in Job : StreamFor(h, j) \subseteq StreamFor(g, j)
  <2> SUFFICES ASSUME NEW j \in Job, NEW s \in StreamFor(h, j)
               PROVE  s \in StreamFor(g, j)
    OBVIOUS
  <2>1. RowFor(h, j) \subseteq RowFor(g, j)
    BY <1>2
  <2>2. s.wire \in Seq(RowFor(g, j))
    BY <2>1 DEF StreamFor
  <2>3. s \in [at : Places, gen : Nat, after : 0 .. Len(h[j]), cursor : 0 .. Len(h[j]),
               upto : 0 .. Len(h[j]), wire : Seq(RowFor(h, j))]
    BY DEF StreamFor
  <2>4. s \in [at : Places, gen : Nat, after : 0 .. Len(g[j]), cursor : 0 .. Len(g[j]),
               upto : 0 .. Len(g[j]), wire : Seq(RowFor(g, j))]
    BY <1>1, <2>2, <2>3
  <2> QED
    BY <2>4 DEF StreamFor
<1>6. StreamsFor(h) \subseteq StreamsFor(g)
  BY <1>5 DEF StreamsFor
<1>7. RequestFor(h) \subseteq RequestFor(g)
  BY <1>3 DEF RequestFor
<1> QED
  BY <1>3, <1>4, <1>6, <1>7

\* The parts of the page, job by job.
LEMMA PartsFor ==
    ASSUME NEW h, HistOK(h), NEW j \in Job
    PROVE  /\ Len(h[j]) \in Nat /\ Absent \in RowFor(h, j)
           /\ \A rs \in RowsFor(h) : rs[j] \in RowFor(h, j)
           /\ \A ts \in TracksFor(h) : ts[j] \in TrackType /\ ts[j].seq <= Len(h[j])
           /\ \A ss \in StreamsFor(h) : ss[j] \in StreamFor(h, j)
           /\ Unknown \in TrackType /\ Unknown.seq = 0
           /\ Closed \in StreamFor(h, j) /\ RowFor(h, j) \subseteq RowType
           /\ StreamFor(h, j) \subseteq StreamType
<1>1. Len(h[j]) \in Nat
  BY DEF HistOK
<1>2. Absent \in RowFor(h, j)
  BY <1>1 DEF Absent, RowFor
<1>3. Unknown \in TrackType /\ Unknown.seq = 0
  BY DEF Unknown, TrackType
<1>4. Closed \in StreamFor(h, j)
  BY <1>1 DEF Closed, StreamFor, Places
<1>5. RowFor(h, j) \subseteq RowType
  BY <1>1 DEF RowFor, RowType
<1>6. StreamFor(h, j) \subseteq StreamType
  <2> SUFFICES ASSUME NEW s \in StreamFor(h, j)
               PROVE  s \in StreamType
    OBVIOUS
  <2>1. s.wire \in Seq(RowType)
    BY <1>5 DEF StreamFor
  <2>2. 0 .. Len(h[j]) \subseteq Nat
    BY <1>1
  <2> QED
    BY <2>1, <2>2 DEF StreamFor, StreamType
<1> QED
  BY <1>1, <1>2, <1>3, <1>4, <1>5, <1>6 DEF RowsFor, TracksFor, StreamsFor

-----------------------------------------------------------------------------
(* connectActiveJobs.                                                      *)

\* What is seeded, begun and stopped.
LEMMA TrackerMoves ==
    ASSUME NEW t \in TrackType, NEW n \in Nat
    PROVE  /\ Seeded(t, n) \in TrackType /\ Seeded(t, n).seq = Greater(t.seq, n)
           /\ [t EXCEPT !.active = TRUE, !.gen = @ + 1] \in TrackType
           /\ [t EXCEPT !.active = TRUE, !.gen = @ + 1].seq = t.seq
           /\ Stopped(t) \in TrackType /\ Stopped(t).seq = t.seq
<1>1. PICK m \in Nat : m = Greater(t.seq, n)
  BY DEF Greater, TrackType
<1>2. PICK g \in Nat : g = t.gen + 1
  BY DEF TrackType
<1>3. PICK b \in BOOLEAN : b = TRUE
  OBVIOUS
<1>4. PICK c \in BOOLEAN : c = FALSE
  OBVIOUS
<1>5. Seeded(t, n) = [t EXCEPT !.known = b, !.seq = m]
  BY <1>1, <1>3 DEF Seeded
<1>6. [t EXCEPT !.active = TRUE, !.gen = @ + 1] = [t EXCEPT !.active = b, !.gen = g]
  BY <1>2, <1>3
<1>7. Stopped(t) = [t EXCEPT !.active = c, !.gen = g]
  BY <1>2, <1>4 DEF Stopped
<1>8. [t EXCEPT !.known = b, !.seq = m] \in TrackType /\ [t EXCEPT !.known = b, !.seq = m].seq = m
  BY DEF TrackType
<1>9. /\ [t EXCEPT !.active = b, !.gen = g] \in TrackType
      /\ [t EXCEPT !.active = b, !.gen = g].seq = t.seq
      /\ [t EXCEPT !.active = c, !.gen = g] \in TrackType
      /\ [t EXCEPT !.active = c, !.gen = g].seq = t.seq
  BY DEF TrackType
<1>10. Seeded(t, n) \in TrackType /\ Seeded(t, n).seq = Greater(t.seq, n)
  BY <1>1, <1>5, <1>8
<1>11. /\ [t EXCEPT !.active = TRUE, !.gen = @ + 1] \in TrackType
       /\ [t EXCEPT !.active = TRUE, !.gen = @ + 1].seq = t.seq
  BY <1>6, <1>9
<1>12. Stopped(t) \in TrackType /\ Stopped(t).seq = t.seq
  BY <1>7, <1>9
<1> QED
  BY <1>10, <1>11, <1>12

\* It makes the tracker of every job that is shown know what is shown of it.
LEMMA ConnectedType ==
    ASSUME NEW h, HistOK(h), NEW j \in Job, NEW r \in RowFor(h, j), NEW t \in TrackType,
           t.seq <= Len(h[j]), NEW s \in StreamFor(h, j)
    PROVE  /\ Connected(j, r, t, s).t \in TrackType /\ Connected(j, r, t, s).t.seq <= Len(h[j])
           /\ Connected(j, r, t, s).s \in StreamFor(h, j)
           /\ r.seq <= Connected(j, r, t, s).t.seq
<1>1. Len(h[j]) \in Nat /\ r.seq \in 0 .. Len(h[j])
  BY DEF HistOK, RowFor
<1>2. PICK seen : seen = IF r = Absent THEN Unknown ELSE Seeded(t, r.seq)
  OBVIOUS
<1>3. seen \in TrackType /\ r.seq <= seen.seq /\ seen.seq <= Len(h[j])
  <2>1. CASE r = Absent
    BY <1>1, <1>2, <2>1 DEF Unknown, TrackType, Absent
  <2>2. CASE r # Absent
    <3>1. r.seq \in Nat /\ seen = Seeded(t, r.seq)
      BY <1>1, <1>2, <2>2
    <3>2. seen \in TrackType /\ seen.seq = Greater(t.seq, r.seq)
      BY <3>1, TrackerMoves
    <3> QED
      BY <1>1, <3>2 DEF Greater, TrackType
  <2> QED
    BY <2>1, <2>2
<1>4. PICK begun : begun = [seen EXCEPT !.active = TRUE, !.gen = @ + 1]
  OBVIOUS
<1>5. begun \in TrackType /\ begun.seq = seen.seq
  <2>1. seen \in TrackType /\ 0 \in Nat
    BY <1>3
  <2> QED
    BY <1>4, <2>1, TrackerMoves
<1>6. PICK new : new = [Closed EXCEPT !.at = "connecting", !.gen = begun.gen, !.after = begun.seq]
  OBVIOUS
<1>7. new \in StreamFor(h, j)
  <2>1. PICK g \in Nat : g = begun.gen
    BY <1>5 DEF TrackType
  <2>2. PICK n \in 0 .. Len(h[j]) : n = begun.seq
    BY <1>1, <1>3, <1>5 DEF TrackType
  <2>3. new = [at |-> "connecting", gen |-> g, after |-> n, cursor |-> 0, upto |-> 0, wire |-> <<>>]
    BY <1>6, <2>1, <2>2 DEF Closed
  <2>4. 0 \in 0 .. Len(h[j]) /\ "connecting" \in Places /\ <<>> \in Seq(RowFor(h, j))
    BY <1>1 DEF Places
  <2> QED
    BY <2>3, <2>4 DEF StreamFor
<1>8. Stopped(seen) \in TrackType /\ Stopped(seen).seq = seen.seq
  <2>1. seen \in TrackType /\ 0 \in Nat
    BY <1>3
  <2> QED
    BY <2>1, TrackerMoves
<1>9. /\ Unknown \in TrackType /\ Unknown.seq = 0 /\ Closed \in StreamFor(h, j)
  BY PartsFor
<1>10. r = Absent => r.seq = 0
  BY DEF Absent
<1>11. Connected(j, r, t, s) =
          IF Working(j, r) /\ ~(s.at # "closed") THEN [t |-> begun, s |-> new]
          ELSE IF s.at # "closed" /\ ~Working(j, r)
          THEN [t |-> IF r = Absent THEN Unknown ELSE Stopped(seen), s |-> Closed]
          ELSE [t |-> seen, s |-> s]
  BY <1>2, <1>4, <1>6 DEF Connected
<1>12. CASE Working(j, r) /\ ~(s.at # "closed")
  <2>1. Connected(j, r, t, s).t = begun /\ Connected(j, r, t, s).s = new
    BY <1>11, <1>12
  <2> QED
    BY <1>3, <1>5, <1>7, <2>1
<1>13. CASE s.at # "closed" /\ ~Working(j, r)
  <2>1. /\ Connected(j, r, t, s).t = IF r = Absent THEN Unknown ELSE Stopped(seen)
        /\ Connected(j, r, t, s).s = Closed
    BY <1>11, <1>13
  <2> QED
    BY <1>1, <1>3, <1>8, <1>9, <1>10, <2>1
<1>14. CASE ~(Working(j, r) /\ ~(s.at # "closed")) /\ ~(s.at # "closed" /\ ~Working(j, r))
  <2>1. Connected(j, r, t, s).t = seen /\ Connected(j, r, t, s).s = s
    BY <1>11, <1>14
  <2> QED
    BY <1>3, <2>1
<1> QED
  BY <1>12, <1>13, <1>14

\* A step that connects shows what it is given, and knows of it.
LEMMA ConnectsType ==
    ASSUME HistOK(hist), NEW rs \in RowsFor(hist), NEW ts \in TracksFor(hist),
           NEW ss \in StreamsFor(hist), Connects(rs, ts, ss)
    PROVE  /\ rows' = rs /\ track' \in TracksFor(hist) /\ stream' \in StreamsFor(hist)
           /\ told' = FALSE /\ \A j \in Job : rows'[j].seq <= track'[j].seq
<1>1. /\ rows' = rs /\ told' = FALSE
      /\ track' = [j \in Job |-> Connected(j, rs[j], ts[j], ss[j]).t]
      /\ stream' = [j \in Job |-> Connected(j, rs[j], ts[j], ss[j]).s]
  BY DEF Connects
<1>2. ASSUME NEW j \in Job
      PROVE  /\ track'[j] \in TrackType /\ track'[j].seq <= Len(hist[j])
             /\ stream'[j] \in StreamFor(hist, j) /\ rows'[j].seq <= track'[j].seq
  <2>1. /\ rs[j] \in RowFor(hist, j) /\ ts[j] \in TrackType /\ ts[j].seq <= Len(hist[j])
        /\ ss[j] \in StreamFor(hist, j)
    BY PartsFor
  <2>2. /\ Connected(j, rs[j], ts[j], ss[j]).t \in TrackType
        /\ Connected(j, rs[j], ts[j], ss[j]).t.seq <= Len(hist[j])
        /\ Connected(j, rs[j], ts[j], ss[j]).s \in StreamFor(hist, j)
        /\ rs[j].seq <= Connected(j, rs[j], ts[j], ss[j]).t.seq
    BY <2>1, ConnectedType
  <2> QED
    BY <1>1, <2>2
<1>3. track' \in TracksFor(hist)
  BY <1>1, <1>2 DEF TracksFor
<1>4. stream' \in StreamsFor(hist)
  BY <1>1, <1>2, PartsFor DEF StreamsFor
<1> QED
  BY <1>1, <1>2, <1>3, <1>4

-----------------------------------------------------------------------------
(* Steps, by what they change.                                             *)

\* Outside the window of "refresh".
Calm == ~told /\ \A r \in requests : r.kind # "listed"

\* The page starts with nothing, and so does the server.
LEMMA JobsStart == JobInit => JobIInv
<1> SUFFICES ASSUME JobInit PROVE JobIInv
  OBVIOUS
<1>1. HistOK(hist)
  BY JobAssumption DEF JobInit, HistOK
<1>2. \A j \in Job : rows[j] \in RowFor(hist, j) /\ rows[j] \in RowType
  BY <1>1, PartsFor DEF JobInit
<1>3. \A j \in Job : track[j] \in TrackType /\ track[j].seq <= Len(hist[j]) /\ rows[j].seq <= track[j].seq
  BY <1>1, PartsFor DEF JobInit, Absent
<1>4. \A j \in Job : stream[j] \in StreamFor(hist, j) /\ stream[j] \in StreamType
  BY <1>1, PartsFor DEF JobInit
<1>5. rows \in RowsFor(hist) /\ track \in TracksFor(hist) /\ stream \in StreamsFor(hist)
  BY <1>2, <1>3, <1>4 DEF JobInit, RowsFor, TracksFor, StreamsFor
<1>6. Tracked
  BY <1>3 DEF Tracked
<1>7. told \in BOOLEAN /\ gone \subseteq Job /\ requests \subseteq RequestFor(hist)
  BY DEF JobInit
<1>8. lapses \in 0 .. MaxFaults
  BY JobAssumption DEF JobInit
<1> QED
  BY <1>1, <1>5, <1>6, <1>7, <1>8 DEF JobIInv, JobData

\* The page is left alone.
LEMMA QuietStep ==
    ASSUME JobIInv, UNCHANGED atPage, gone' \subseteq Job, HistOK(hist'), Grows(hist, hist'),
           requests' \subseteq RequestFor(hist'), lapses' \in 0 .. MaxFaults,
           \A r \in requests : r.kind = "listed" => \E q \in requests' : q.kind = "listed"
    PROVE  JobIInv' /\ Forwards
<1>1. rows' = rows /\ track' = track /\ stream' = stream /\ told' = told
  BY DEF atPage
<1>2. rows \in RowsFor(hist') /\ track \in TracksFor(hist') /\ stream \in StreamsFor(hist')
  BY MoreIsKnown DEF JobIInv, JobData
<1>3. JobData'
  BY <1>1, <1>2 DEF JobIInv, JobData
<1>4. Tracked'
  BY <1>1 DEF JobIInv, Tracked
<1>5. Forwards
  <2>1. \A j \in Job : rows[j].seq \in Int
    BY PartsFor DEF JobIInv, JobData, RowFor
  <2> QED
    BY <1>1, <2>1 DEF Forwards
<1> QED
  BY <1>3, <1>4, <1>5 DEF JobIInv

\* The page changes, and shows nothing that its trackers do not know.
LEMMA PageStep ==
    ASSUME JobIInv, UNCHANGED atServer, requests' \subseteq RequestFor(hist),
           lapses' \in 0 .. MaxFaults, told' \in BOOLEAN,
           rows' \in RowsFor(hist), track' \in TracksFor(hist), stream' \in StreamsFor(hist),
           Tracked', Forwards
    PROVE  JobIInv' /\ Forwards
  BY DEF JobIInv, JobData, atServer

\* The page connects, and only answers are gone.
LEMMA ConnectStep ==
    ASSUME JobIInv, UNCHANGED atServer, requests' \subseteq requests, UNCHANGED lapses,
           NEW rs \in RowsFor(hist), NEW ts \in TracksFor(hist), NEW ss \in StreamsFor(hist),
           Connects(rs, ts, ss),
           Calm => \A j \in Job : rs[j] # Absent => rs[j].seq >= rows[j].seq
    PROVE  JobIInv' /\ Forwards
<1>1. /\ HistOK(hist) /\ requests' \subseteq RequestFor(hist) /\ lapses' \in 0 .. MaxFaults
  BY DEF JobIInv, JobData
<1>2. /\ rows' = rs /\ track' \in TracksFor(hist) /\ stream' \in StreamsFor(hist)
      /\ told' = FALSE /\ \A j \in Job : rows'[j].seq <= track'[j].seq
  BY <1>1, ConnectsType
<1>3. Tracked' /\ told' \in BOOLEAN
  BY <1>2 DEF Tracked
<1>4. Forwards
  BY <1>2 DEF Forwards, Calm, Unreconciled
<1> QED
  BY <1>1, <1>2, <1>3, <1>4, PageStep

\* A commit adds a state.
LEMMA CommitGrows ==
    ASSUME HistOK(hist), NEW j \in Job, NEW x \in State, Commits(j, x)
    PROVE  HistOK(hist') /\ Grows(hist, hist')
<1>1. /\ hist' = [hist EXCEPT ![j] = Append(@, x)]
      /\ Len(hist[j]) + (IF Terminal(x) THEN 1 ELSE 2) <= MaxStates
  BY DEF Commits, Latest
<1>2. hist \in [Job -> Seq(State)] /\ \A k \in Job : Len(hist[k]) \in Nat /\ Len(hist[k]) <= MaxStates
  BY DEF HistOK
<1>3. PICK w : w = Append(hist[j], x)
  OBVIOUS
<1>4. w \in Seq(State) /\ Len(w) = Len(hist[j]) + 1
  BY <1>2, <1>3
<1>5. hist' = [hist EXCEPT ![j] = w]
  BY <1>1, <1>3
<1>6. Len(w) <= MaxStates
  BY <1>1, <1>2, <1>4, JobAssumption
<1>7. \A k \in Job : Len(hist'[k]) <= MaxStates /\ Len(hist[k]) <= Len(hist'[k])
  BY <1>2, <1>4, <1>5, <1>6
<1>8. hist' \in [Job -> Seq(State)]
  BY <1>2, <1>4, <1>5
<1> QED
  BY <1>7, <1>8 DEF HistOK, Grows

\* Nothing is committed.
LEMMA NothingGrows ==
    ASSUME HistOK(hist), UNCHANGED hist
    PROVE  HistOK(hist') /\ Grows(hist, hist')
<1>1. \A j \in Job : Len(hist[j]) \in Nat
  BY DEF HistOK
<1> QED
  BY <1>1 DEF HistOK, Grows

-----------------------------------------------------------------------------
(* Requests.                                                               *)

\* A request that is sent has no answer yet.
LEMMA RequestIs ==
    ASSUME HistOK(hist), NEW kind \in Kind, NEW j \in Job \cup {All}, NEW gen \in Nat,
           kind \in OfJob => j \in Job
    PROVE  Request(kind, j, gen) \in RequestFor(hist) /\ Request(kind, j, gen).kind = kind
<1>1. PICK f : f = [k \in Job |-> Absent]
  OBVIOUS
<1>2. f \in RowsFor(hist)
  BY <1>1, PartsFor DEF RowsFor
<1>3. Request(kind, j, gen) = [kind |-> kind, j |-> j, gen |-> gen, at |-> "sent", rows |-> f]
  BY <1>1 DEF Request
<1> QED
  BY <1>2, <1>3 DEF RequestFor

\* A request that goes on is of the same kind.
LEMMA RequestMoves ==
    ASSUME NEW h, NEW r \in RequestFor(h),
           NEW at \in {"sent", "acted", "counted", "answered", "failed"}, NEW f \in RowsFor(h)
    PROVE  /\ [r EXCEPT !.at = at] \in RequestFor(h) /\ [r EXCEPT !.at = at].kind = r.kind
           /\ [r EXCEPT !.at = at, !.rows = f] \in RequestFor(h)
           /\ [r EXCEPT !.at = at, !.rows = f].kind = r.kind
           /\ r.rows \in RowsFor(h) /\ r.gen \in Nat /\ r.kind \in Kind
           /\ r.kind \in OfJob => r.j \in Job
  BY DEF RequestFor

\* The user asks for something.
LEMMA AsksKeeps ==
    ASSUME JobIInv, NEW kind \in Kind, NEW j \in Job \cup {All}, kind \in OfJob => j \in Job,
           Asks(kind, j) \/ (LoadAll /\ kind = "load" /\ j = All)
    PROVE  JobIInv' /\ Forwards
<1>1. /\ HistOK(hist) /\ gone \subseteq Job /\ requests \subseteq RequestFor(hist)
      /\ lapses \in 0 .. MaxFaults
  BY DEF JobIInv, JobData
<1>2. PICK q \in RequestFor(hist) : q = Request(kind, j, 0)
  BY <1>1, RequestIs
<1>3. /\ UNCHANGED atPage /\ UNCHANGED <<hist, gone, lapses>>
      /\ \/ requests' = requests \cup {q}
         \/ requests' = {r \in requests : r.kind # "load"} \cup {q}
  BY <1>2 DEF Asks, LoadAll, NoLapse, atServer
<1>4. HistOK(hist') /\ Grows(hist, hist') /\ hist' = hist
  BY <1>1, <1>3, NothingGrows
<1>5. \A r \in requests : r.kind = "listed" => \E x \in requests' : x.kind = "listed"
  BY <1>3
<1> QED
  BY <1>1, <1>2, <1>3, <1>4, <1>5, QuietStep

\* A request goes on at the server.
LEMMA MoveStep ==
    ASSUME JobIInv, NEW r \in requests, NEW q \in RequestFor(hist'), q.kind = r.kind, Moves(r, q),
           HistOK(hist'), Grows(hist, hist'), gone' \subseteq Job, lapses' \in 0 .. MaxFaults,
           UNCHANGED atPage
    PROVE  JobIInv' /\ Forwards
<1>1. requests' = (requests \ {r}) \cup {q}
  BY DEF Moves
<1>2. requests \subseteq RequestFor(hist) /\ RequestFor(hist) \subseteq RequestFor(hist')
  BY MoreIsKnown DEF JobIInv, JobData
<1>3. \A x \in requests : x.kind = "listed" => \E y \in requests' : y.kind = "listed"
  BY <1>1
<1> QED
  BY <1>1, <1>2, <1>3, QuietStep

\* The server does what it was asked, or refuses it.
LEMMA ActsKeeps ==
    ASSUME JobIInv, NEW r \in requests, Acts(r)
    PROVE  JobIInv' /\ Forwards
<1>1. /\ HistOK(hist) /\ gone \subseteq Job /\ r \in RequestFor(hist) /\ lapses \in 0 .. MaxFaults
      /\ UNCHANGED atPage /\ UNCHANGED lapses /\ r.kind \in OfJob
  BY DEF JobIInv, JobData, Acts, NoLapse, OfJob
<1>2. r.j \in Job /\ r.rows \in RowsFor(hist)
  BY <1>1, RequestMoves DEF RequestFor
<1>3. /\ HistOK(hist') /\ Grows(hist, hist') /\ gone' \subseteq Job
      /\ \E at \in {"acted", "answered", "failed"} : Moves(r, [r EXCEPT !.at = at])
  <2>1. CASE \E x \in State : Commits(r.j, x) /\ UNCHANGED gone /\ Moves(r, [r EXCEPT !.at = "acted"])
    BY <1>1, <1>2, <2>1, CommitGrows
  <2>2. CASE /\ UNCHANGED hist /\ gone' \subseteq gone \cup {r.j}
             /\ \E at \in {"acted", "answered", "failed"} : Moves(r, [r EXCEPT !.at = at])
    BY <1>1, <1>2, <2>2, NothingGrows
  <2> QED
    BY <2>1, <2>2 DEF Acts, State, atServer
<1>4. r \in RequestFor(hist')
  BY <1>1, <1>3, MoreIsKnown
<1>5. PICK at \in {"sent", "acted", "counted", "answered", "failed"} : Moves(r, [r EXCEPT !.at = at])
  BY <1>3
<1>6. [r EXCEPT !.at = at] \in RequestFor(hist') /\ [r EXCEPT !.at = at].kind = r.kind
  BY <1>4 DEF RequestFor
<1> QED
  BY <1>1, <1>3, <1>5, <1>6, MoveStep

\* It reads cursors for an answer.
LEMMA CountsKeeps ==
    ASSUME JobIInv, NEW r \in requests, Counts(r)
    PROVE  JobIInv' /\ Forwards
<1>1. /\ HistOK(hist) /\ gone \subseteq Job /\ r \in RequestFor(hist) /\ lapses \in 0 .. MaxFaults
      /\ UNCHANGED atPage /\ UNCHANGED <<hist, gone, lapses>>
  BY DEF JobIInv, JobData, Counts, NoLapse, atServer
<1>2. PICK f : f = [j \in Job |-> IF Asked(r, j) /\ Exists(j) THEN [seq |-> Latest(j), ver |-> 0]
                                 ELSE Absent]
  OBVIOUS
<1>3. ASSUME NEW j \in Job
      PROVE  f[j] \in RowFor(hist, j) /\ f[j] \in RowType
  <2>1. Len(hist[j]) \in Nat /\ Absent \in RowFor(hist, j) /\ RowFor(hist, j) \subseteq RowType
    BY <1>1, PartsFor
  <2>2. [seq |-> Latest(j), ver |-> 0] \in RowFor(hist, j)
    BY <2>1 DEF RowFor, Latest
  <2> QED
    BY <1>2, <2>1, <2>2
<1>4. f \in RowsFor(hist)
  BY <1>2, <1>3 DEF RowsFor
<1>5. PICK at \in {"counted", "failed"} : Moves(r, [r EXCEPT !.at = at, !.rows = f])
  BY <1>2 DEF Counts
<1>6. /\ [r EXCEPT !.at = at, !.rows = f] \in RequestFor(hist)
      /\ [r EXCEPT !.at = at, !.rows = f].kind = r.kind
  BY <1>1, <1>4 DEF RequestFor
<1>7. HistOK(hist') /\ Grows(hist, hist') /\ hist' = hist
  BY <1>1, NothingGrows
<1> QED
  BY <1>1, <1>5, <1>6, <1>7, MoveStep

\* It reads the states to the cursors.
LEMMA SnapshotsKeeps ==
    ASSUME JobIInv, NEW r \in requests, Snapshots(r)
    PROVE  JobIInv' /\ Forwards
<1>1. /\ HistOK(hist) /\ gone \subseteq Job /\ r \in RequestFor(hist) /\ lapses \in 0 .. MaxFaults
      /\ UNCHANGED atPage /\ UNCHANGED <<hist, gone, lapses>> /\ r.rows \in RowsFor(hist)
  BY DEF JobIInv, JobData, Snapshots, NoLapse, atServer, RequestFor
<1>2. PICK now : now = [j \in Job |-> IF j \in gone THEN Greater(r.rows[j].seq, r.rows[j].ver)
                                     ELSE Latest(j)]
  OBVIOUS
<1>3. PICK f : f = [j \in Job |->
                     IF r.rows[j] = Absent THEN Absent
                     ELSE IF r.rows[j].ver = 0 THEN [r.rows[j] EXCEPT !.ver = now[j]]
                          ELSE [r.rows[j] EXCEPT !.seq = now[j]]]
  OBVIOUS
<1>4. ASSUME NEW j \in Job
      PROVE  f[j] \in RowFor(hist, j) /\ f[j] \in RowType
  <2>1. /\ Len(hist[j]) \in Nat /\ Absent \in RowFor(hist, j) /\ RowFor(hist, j) \subseteq RowType
        /\ r.rows[j] \in RowFor(hist, j)
    BY <1>1, PartsFor
  <2>2. now[j] \in 0 .. Len(hist[j])
    BY <1>2, <2>1 DEF RowFor, Greater, Latest
  <2>3. PICK x \in RowFor(hist, j) : x = r.rows[j]
    BY <2>1
  <2>4. [x EXCEPT !.ver = now[j]] \in RowFor(hist, j) /\ [x EXCEPT !.seq = now[j]] \in RowFor(hist, j)
    BY <2>2, <2>3 DEF RowFor
  <2> QED
    BY <1>3, <2>1, <2>3, <2>4
<1>5. f \in RowsFor(hist)
  BY <1>3, <1>4 DEF RowsFor
<1>6. Moves(r, [r EXCEPT !.at = "answered", !.rows = f])
  <2>1. f = [j \in Job |->
              IF r.rows[j] = Absent THEN Absent
              ELSE LET n == IF j \in gone THEN Greater(r.rows[j].seq, r.rows[j].ver) ELSE Latest(j)
                   IN  IF r.rows[j].ver = 0 THEN [r.rows[j] EXCEPT !.ver = n]
                       ELSE [r.rows[j] EXCEPT !.seq = n]]
    BY <1>2, <1>3
  <2> QED
    BY <2>1 DEF Snapshots
<1>7. /\ [r EXCEPT !.at = "answered", !.rows = f] \in RequestFor(hist)
      /\ [r EXCEPT !.at = "answered", !.rows = f].kind = r.kind
  BY <1>1, <1>5 DEF RequestFor
<1>8. HistOK(hist') /\ Grows(hist, hist') /\ hist' = hist
  BY <1>1, NothingGrows
<1> QED
  BY <1>1, <1>6, <1>7, <1>8, MoveStep

\* A request is lost.
LEMMA RequestFailsKeeps ==
    ASSUME JobIInv, NEW r \in requests, RequestFails(r)
    PROVE  JobIInv' /\ Forwards
<1>1. /\ HistOK(hist) /\ gone \subseteq Job /\ r \in RequestFor(hist) /\ lapses \in 0 .. MaxFaults
      /\ UNCHANGED atPage /\ UNCHANGED <<hist, gone>> /\ Moves(r, [r EXCEPT !.at = "failed"])
      /\ lapses < MaxFaults /\ lapses' = lapses + 1
  BY DEF JobIInv, JobData, RequestFails, Lapse, atServer
<1>2. /\ [r EXCEPT !.at = "failed"] \in RequestFor(hist) /\ [r EXCEPT !.at = "failed"].kind = r.kind
  BY <1>1 DEF RequestFor
<1>3. HistOK(hist') /\ Grows(hist, hist') /\ hist' = hist
  BY <1>1, NothingGrows
<1>4. lapses' \in 0 .. MaxFaults
  BY <1>1, JobAssumption
<1> QED
  BY <1>1, <1>2, <1>3, <1>4, MoveStep

\* The worker commits a state.
LEMMA WorkKeeps ==
    ASSUME JobIInv, NEW j \in Job, Work(j)
    PROVE  JobIInv' /\ Forwards
<1>1. /\ HistOK(hist) /\ gone \subseteq Job /\ requests \subseteq RequestFor(hist)
      /\ lapses \in 0 .. MaxFaults
      /\ UNCHANGED atPage /\ UNCHANGED <<gone, requests, lapses>> /\ \E x \in State : Commits(j, x)
  BY DEF JobIInv, JobData, Work, State
<1>2. HistOK(hist') /\ Grows(hist, hist')
  BY <1>1, CommitGrows
<1>3. RequestFor(hist) \subseteq RequestFor(hist')
  BY <1>1, <1>2, MoreIsKnown
<1> QED
  BY <1>1, <1>2, <1>3, QuietStep

-----------------------------------------------------------------------------
(* Answers.                                                                *)

\* What the types say of the page, an answer and the bound.
LEMMA AtHand ==
    ASSUME JobIInv
    PROVE  /\ HistOK(hist) /\ gone \subseteq Job /\ requests \subseteq RequestFor(hist)
           /\ rows \in RowsFor(hist) /\ track \in TracksFor(hist) /\ stream \in StreamsFor(hist)
           /\ told \in BOOLEAN /\ lapses \in 0 .. MaxFaults
           /\ Calm => \A j \in Job : rows[j].seq <= track[j].seq
  BY DEF JobIInv, JobData, Tracked, Calm

\* An answer that is taken up takes no row back.
LEMMA ReplacedKeeps ==
    ASSUME JobIInv, NEW j \in Job, NEW row \in RowFor(hist, j)
    PROVE  /\ Replaced(j, row) \in RowFor(hist, j)
           /\ Calm => Replaced(j, row).seq >= rows[j].seq
<1>1. /\ rows[j] \in RowFor(hist, j) /\ track[j].seq \in Nat
      /\ Calm => rows[j].seq <= track[j].seq
  BY AtHand, PartsFor DEF TrackType
<1>2. rows[j].seq \in Nat /\ row.seq \in Nat /\ (rows[j] = Absent => rows[j].seq = 0)
  BY <1>1 DEF RowFor, Absent
<1> QED
  BY <1>1, <1>2 DEF Replaced

\* One row and one tracker change.
LEMMA OneChanges ==
    ASSUME HistOK(hist), rows \in RowsFor(hist), track \in TracksFor(hist),
           NEW j \in Job, NEW row \in RowFor(hist, j), NEW t \in TrackType, t.seq <= Len(hist[j])
    PROVE  [rows EXCEPT ![j] = row] \in RowsFor(hist) /\ [track EXCEPT ![j] = t] \in TracksFor(hist)
<1>1. row \in RowType
  BY PartsFor
<1>2. [rows EXCEPT ![j] = row] \in RowsFor(hist)
  BY <1>1 DEF RowsFor
<1>3. [track EXCEPT ![j] = t] \in TracksFor(hist)
  BY DEF TracksFor
<1> QED
  BY <1>2, <1>3

\* One stream changes, and the streams are still streams.
LEMMA OneStreamChanges ==
    ASSUME HistOK(hist), stream \in StreamsFor(hist), NEW j \in Job, NEW x \in StreamFor(hist, j)
    PROVE  [stream EXCEPT ![j] = x] \in StreamsFor(hist)
<1>1. x \in StreamType
  BY PartsFor
<1> QED
  BY <1>1 DEF StreamsFor

\* A list is taken up.
LEMMA SnapshotKeeps ==
    ASSUME JobIInv, NEW answer \in RowsFor(hist), Snapshot(answer), UNCHANGED atServer,
           requests' \subseteq requests, UNCHANGED lapses
    PROVE  JobIInv' /\ Forwards
<1>1. PICK rs : rs = [j \in Job |-> IF answer[j] = Absent THEN Absent ELSE Replaced(j, answer[j])]
  OBVIOUS
<1>2. PICK ts : ts = [j \in Job |-> IF rs[j] = Absent THEN Unknown ELSE track[j]]
  OBVIOUS
<1>3. ASSUME NEW j \in Job
      PROVE  /\ rs[j] \in RowFor(hist, j) /\ rs[j] \in RowType
             /\ ts[j] \in TrackType /\ ts[j].seq <= Len(hist[j])
             /\ Calm /\ rs[j] # Absent => rs[j].seq >= rows[j].seq
  <2>1. /\ answer[j] \in RowFor(hist, j) /\ Absent \in RowFor(hist, j)
        /\ RowFor(hist, j) \subseteq RowType
        /\ track[j] \in TrackType /\ track[j].seq <= Len(hist[j]) /\ Len(hist[j]) \in Nat
        /\ Unknown \in TrackType /\ Unknown.seq = 0
    BY AtHand, PartsFor
  <2>2. /\ Replaced(j, answer[j]) \in RowFor(hist, j)
        /\ Calm => Replaced(j, answer[j]).seq >= rows[j].seq
    BY <2>1, ReplacedKeeps
  <2> QED
    BY <1>1, <1>2, <2>1, <2>2
<1>4. rs \in RowsFor(hist) /\ ts \in TracksFor(hist)
  BY <1>1, <1>2, <1>3 DEF RowsFor, TracksFor
<1>5. Connects(rs, ts, stream)
  BY <1>1, <1>2 DEF Snapshot
<1> QED
  BY <1>3, <1>4, <1>5, AtHand, ConnectStep

\* Rows that are there or gone connect.
LEMMA KeptRowsKeep ==
    ASSUME JobIInv, NEW rs \in RowsFor(hist), NEW ts \in TracksFor(hist), NEW ss \in StreamsFor(hist),
           \A j \in Job : rs[j] = Absent \/ rs[j] = rows[j],
           Connects(rs, ts, ss), UNCHANGED atServer, requests' \subseteq requests, UNCHANGED lapses
    PROVE  JobIInv' /\ Forwards
<1>1. \A j \in Job : rows[j].seq \in Int
  BY AtHand, PartsFor DEF RowFor
<1>2. Calm => \A j \in Job : rs[j] # Absent => rs[j].seq >= rows[j].seq
  BY <1>1
<1> QED
  BY <1>2, ConnectStep

\* A stream that is over is closed.
LEMMA ClosesKeeps ==
    ASSUME JobIInv, NEW j \in Job, Closes(j, rows, track), UNCHANGED atServer,
           requests' \subseteq requests, UNCHANGED lapses
    PROVE  JobIInv' /\ Forwards
<1>1. /\ HistOK(hist) /\ rows \in RowsFor(hist) /\ track \in TracksFor(hist)
      /\ stream \in StreamsFor(hist)
  BY AtHand
<1>2. /\ track[j] \in TrackType /\ track[j].seq <= Len(hist[j]) /\ 0 \in Nat
      /\ Closed \in StreamFor(hist, j) /\ rows[j] \in RowFor(hist, j)
  BY <1>1, PartsFor
<1>3. Stopped(track[j]) \in TrackType /\ Stopped(track[j]).seq = track[j].seq
  BY <1>2, TrackerMoves
<1>4. [track EXCEPT ![j] = Stopped(track[j])] \in TracksFor(hist)
  BY <1>1, <1>2, <1>3, OneChanges
<1>5. [stream EXCEPT ![j] = Closed] \in StreamsFor(hist)
  BY <1>1, <1>2, OneStreamChanges
<1>6. Connects(rows, [track EXCEPT ![j] = Stopped(track[j])], [stream EXCEPT ![j] = Closed])
  BY DEF Closes
<1> QED
  BY <1>1, <1>4, <1>5, <1>6, KeptRowsKeep

\* An answer that changes nothing of the page.
LEMMA DropStep ==
    ASSUME JobIInv, NEW r \in requests, Done(r), r.kind # "listed", UNCHANGED atPage
    PROVE  JobIInv' /\ Forwards
<1>1. /\ HistOK(hist) /\ gone \subseteq Job /\ requests \subseteq RequestFor(hist)
      /\ lapses \in 0 .. MaxFaults
  BY AtHand
<1>2. /\ requests' = requests \ {r} /\ UNCHANGED <<hist, gone, lapses>>
  BY DEF Done, NoLapse, atServer
<1>3. HistOK(hist') /\ Grows(hist, hist')
  BY <1>1, <1>2, NothingGrows
<1> QED
  BY <1>1, <1>2, <1>3, QuietStep

\* An answer changes a row and its tracker, which is then past it.
LEMMA RowAndTracker ==
    ASSUME JobIInv, NEW j \in Job, NEW row \in RowFor(hist, j)
    PROVE  /\ [rows EXCEPT ![j] = Replaced(j, row)] \in RowsFor(hist)
           /\ [track EXCEPT ![j] = Seeded(track[j], Replaced(j, row).seq)] \in TracksFor(hist)
           /\ Seeded(track[j], Replaced(j, row).seq).seq >= track[j].seq
           /\ Seeded(track[j], Replaced(j, row).seq).seq >= Replaced(j, row).seq
           /\ Replaced(j, row) \in RowFor(hist, j)
           /\ Calm => Replaced(j, row).seq >= rows[j].seq
<1>1. /\ HistOK(hist) /\ rows \in RowsFor(hist) /\ track \in TracksFor(hist)
  BY AtHand
<1>2. /\ Replaced(j, row) \in RowFor(hist, j) /\ (Calm => Replaced(j, row).seq >= rows[j].seq)
  BY ReplacedKeeps
<1>3. /\ track[j] \in TrackType /\ track[j].seq <= Len(hist[j]) /\ Len(hist[j]) \in Nat
  BY <1>1, PartsFor
<1>4. PICK n \in 0 .. Len(hist[j]) : n = Replaced(j, row).seq
  BY <1>2 DEF RowFor
<1>5. n \in Nat /\ track[j].seq \in Nat
  BY <1>3, <1>4 DEF TrackType
<1>6. Seeded(track[j], n) \in TrackType /\ Seeded(track[j], n).seq = Greater(track[j].seq, n)
  BY <1>3, <1>5, TrackerMoves
<1>7. /\ Seeded(track[j], n).seq <= Len(hist[j]) /\ Seeded(track[j], n).seq >= track[j].seq
      /\ Seeded(track[j], n).seq >= n
  BY <1>3, <1>4, <1>5, <1>6 DEF Greater
<1>8. PICK t \in TrackType : t = Seeded(track[j], n)
  BY <1>6
<1>9. [track EXCEPT ![j] = t] \in TracksFor(hist)
  BY <1>1, <1>2, <1>7, <1>8, OneChanges
<1>10. [rows EXCEPT ![j] = Replaced(j, row)] \in RowsFor(hist)
  BY <1>1, <1>2, <1>7, <1>8, OneChanges
<1> QED
  BY <1>2, <1>4, <1>7, <1>8, <1>9, <1>10

\* The list that was asked for, or none.
LEMMA LoadKeeps ==
    ASSUME JobIInv, NEW r \in requests, LoadAnswered(r) \/ LoadFailed(r)
    PROVE  JobIInv' /\ Forwards
<1>1. /\ Done(r) /\ r.kind = "load" /\ UNCHANGED atServer /\ requests' \subseteq requests
      /\ UNCHANGED lapses
  BY DEF LoadAnswered, LoadFailed, Done, NoLapse
<1>2. CASE UNCHANGED atPage
  BY <1>1, <1>2, DropStep
<1>3. CASE Snapshot(r.rows)
  <2>1. r.rows \in RowsFor(hist)
    BY AtHand DEF RequestFor
  <2> QED
    BY <1>1, <1>3, <2>1, SnapshotKeeps
<1>4. CASE Snapshot([j \in Job |-> Absent])
  <2>1. PICK f : f = [j \in Job |-> Absent]
    OBVIOUS
  <2>2. f \in RowsFor(hist)
    BY <2>1, AtHand, PartsFor DEF RowsFor
  <2>3. Snapshot(f)
    BY <1>4, <2>1
  <2> QED
    BY <1>1, <2>2, <2>3, SnapshotKeeps
<1> QED
  BY <1>2, <1>3, <1>4 DEF LoadAnswered, LoadFailed

\* The button "refresh": the list is shown as it came, and then made up for.
LEMMA RefreshKeeps ==
    ASSUME JobIInv, NEW r \in requests, RefreshAnswered(r) \/ RefreshEnds(r)
    PROVE  JobIInv' /\ Forwards
<1>1. /\ HistOK(hist) /\ rows \in RowsFor(hist) /\ track \in TracksFor(hist)
      /\ stream \in StreamsFor(hist) /\ requests \subseteq RequestFor(hist)
      /\ told \in BOOLEAN /\ lapses \in 0 .. MaxFaults
  BY AtHand
<1>2. CASE RefreshAnswered(r)
  <2>1. PICK q \in RequestFor(hist) : q = Request("listed", All, 0) /\ q.kind = "listed"
    BY <1>1, RequestIs DEF Kind, OfJob
  <2>2. /\ rows' = r.rows /\ requests' = (requests \ {r}) \cup {q} /\ UNCHANGED lapses
        /\ UNCHANGED atServer /\ UNCHANGED <<track, stream, told>>
    BY <1>2, <2>1 DEF RefreshAnswered, Moves, NoLapse
  <2>3. Tracked' /\ Forwards
    BY <2>1, <2>2 DEF Tracked, Forwards, Unreconciled
  <2>4. rows' \in RowsFor(hist)
    BY <1>1, <2>2 DEF RequestFor
  <2>5. requests' \subseteq RequestFor(hist)
    BY <1>1, <2>1, <2>2
  <2> QED
    BY <1>1, <2>2, <2>3, <2>4, <2>5, PageStep
<1>3. CASE RefreshEnds(r)
  <2>1. /\ Done(r) /\ UNCHANGED atServer /\ requests' \subseteq requests /\ UNCHANGED lapses
        /\ r.kind = "listed"
    BY <1>3 DEF RefreshEnds, Done, NoLapse
  <2>2. CASE Connects(rows, track, stream)
    BY <1>1, <2>1, <2>2, KeptRowsKeep
  <2>3. CASE told' = TRUE /\ UNCHANGED <<rows, track, stream>>
    <3>1. Tracked' /\ told' \in BOOLEAN
      BY <2>3 DEF Tracked
    <3>2. Forwards
      BY <2>1 DEF Forwards, Unreconciled
    <3>3. requests' \subseteq RequestFor(hist) /\ lapses' \in 0 .. MaxFaults
      BY <1>1, <2>1
    <3> QED
      BY <1>1, <2>1, <2>3, <3>1, <3>2, <3>3, PageStep
  <2> QED
    BY <1>3, <2>2, <2>3 DEF RefreshEnds
<1> QED
  BY <1>2, <1>3

\* What the user asked for was done, or not.
LEMMA CommandKeeps ==
    ASSUME JobIInv, NEW r \in requests, JobAnswered(r) \/ Deleted(r) \/ Refused(r)
    PROVE  JobIInv' /\ Forwards
<1>1. /\ HistOK(hist) /\ rows \in RowsFor(hist) /\ track \in TracksFor(hist)
      /\ stream \in StreamsFor(hist) /\ r \in RequestFor(hist)
  BY AtHand
<1>2. /\ Done(r) /\ UNCHANGED atServer /\ requests' \subseteq requests /\ UNCHANGED lapses
  BY DEF JobAnswered, Deleted, Refused, Done, NoLapse
<1>3. CASE JobAnswered(r)
  <2>1. r.j \in Job /\ r.rows \in RowsFor(hist)
    BY <1>1, <1>3 DEF JobAnswered, RequestFor, OfJob
  <2>2. PICK j \in Job : j = r.j
    BY <2>1
  <2>3. r.rows[j] \in RowFor(hist, j)
    BY <1>1, <2>1, <2>2, PartsFor
  <2>4. PICK row : row = Replaced(j, r.rows[j])
    OBVIOUS
  <2>5. PICK rs : rs = [rows EXCEPT ![j] = row]
    OBVIOUS
  <2>6. PICK ts : ts = [track EXCEPT ![j] = Seeded(track[j], row.seq)]
    OBVIOUS
  <2>7. /\ rs \in RowsFor(hist) /\ ts \in TracksFor(hist)
        /\ Calm => row.seq >= rows[j].seq
    BY <2>3, <2>4, <2>5, <2>6, RowAndTracker
  <2>8. Calm => \A k \in Job : rs[k] # Absent => rs[k].seq >= rows[k].seq
    <3>1. \A k \in Job : rows[k].seq \in Int
      BY <1>1, PartsFor DEF RowFor
    <3>2. rows \in [Job -> RowType]
      BY <1>1 DEF RowsFor
    <3> QED
      BY <2>5, <2>7, <3>1, <3>2
  <2>9. Connects(rs, ts, stream)
    BY <1>3, <2>2, <2>4, <2>5, <2>6 DEF JobAnswered
  <2> QED
    BY <1>1, <1>2, <2>7, <2>8, <2>9, ConnectStep
<1>4. CASE Deleted(r)
  <2>1. r.j \in Job
    BY <1>1, <1>4 DEF Deleted, RequestFor, OfJob
  <2>2. PICK j \in Job : j = r.j
    BY <2>1
  <2>3. /\ Absent \in RowFor(hist, j) /\ track[j] \in TrackType /\ track[j].seq <= Len(hist[j])
    BY <1>1, PartsFor
  <2>4. PICK rs : rs = [rows EXCEPT ![j] = Absent]
    OBVIOUS
  <2>5. rs \in RowsFor(hist)
    BY <1>1, <2>3, <2>4, OneChanges
  <2>6. \A k \in Job : rs[k] = Absent \/ rs[k] = rows[k]
    BY <1>1, <2>4 DEF RowsFor
  <2>7. Connects(rs, track, stream)
    BY <1>4, <2>2, <2>4 DEF Deleted
  <2> QED
    BY <1>1, <1>2, <2>5, <2>6, <2>7, KeptRowsKeep
<1>5. CASE Refused(r)
  BY <1>2, <1>5, DropStep DEF Refused
<1> QED
  BY <1>3, <1>4, <1>5

\* A job is over: its last answer, and the transcripts.
LEMMA OverKeeps ==
    ASSUME JobIInv, NEW r \in requests, TerminalAnswered(r) \/ TranscriptsAnswered(r)
    PROVE  JobIInv' /\ Forwards
<1>1. /\ HistOK(hist) /\ rows \in RowsFor(hist) /\ track \in TracksFor(hist)
      /\ stream \in StreamsFor(hist) /\ r \in RequestFor(hist)
      /\ told \in BOOLEAN /\ lapses \in 0 .. MaxFaults /\ requests \subseteq RequestFor(hist)
      /\ (Calm => \A k \in Job : rows[k].seq <= track[k].seq)
  BY AtHand
<1>2. r.kind \in {"terminal", "transcripts"}
  BY DEF TerminalAnswered, TranscriptsAnswered
<1>3. PICK j \in Job : j = r.j
  BY <1>1, <1>2 DEF RequestFor, OfJob
<1>4. Done(r) => UNCHANGED atServer /\ requests' \subseteq requests /\ UNCHANGED lapses
  BY DEF Done, NoLapse
<1>5. CASE Done(r) /\ UNCHANGED atPage
  BY <1>2, <1>5, DropStep
<1>6. CASE Done(r) /\ Closes(r.j, rows, track)
  BY <1>3, <1>4, <1>6, ClosesKeeps
<1>7. CASE \E row : /\ row = Replaced(r.j, r.rows[r.j])
                    /\ rows' = [rows EXCEPT ![r.j] = row]
                    /\ track' = [track EXCEPT ![r.j] = Seeded(@, row.seq)]
                    /\ Moves(r, Request("transcripts", r.j, r.gen))
                    /\ NoLapse /\ UNCHANGED atServer /\ UNCHANGED <<stream, told>>
  <2>1. r.rows \in RowsFor(hist) /\ r.gen \in Nat
    BY <1>1 DEF RequestFor
  <2>2. r.rows[j] \in RowFor(hist, j)
    BY <1>1, <2>1, PartsFor
  <2>3. PICK row : row = Replaced(j, r.rows[j])
    OBVIOUS
  <2>4. /\ rows' = [rows EXCEPT ![j] = row] /\ track' = [track EXCEPT ![j] = Seeded(track[j], row.seq)]
        /\ Moves(r, Request("transcripts", j, r.gen))
        /\ UNCHANGED lapses /\ UNCHANGED atServer /\ UNCHANGED <<stream, told>>
    BY <1>3, <1>7, <2>3 DEF NoLapse
  <2>5. PICK t : t = Seeded(track[j], row.seq)
    OBVIOUS
  <2>6. /\ rows' \in RowsFor(hist) /\ track' \in TracksFor(hist)
        /\ t.seq >= track[j].seq /\ t.seq >= row.seq /\ (Calm => row.seq >= rows[j].seq)
    BY <2>2, <2>3, <2>4, <2>5, RowAndTracker
  <2>7. "transcripts" \in Kind /\ "transcripts" \in OfJob
    BY DEF Kind, OfJob
  <2>8. PICK q \in RequestFor(hist) : q = Request("transcripts", j, r.gen)
    BY <1>1, <2>1, <2>7, RequestIs
  <2>9. requests' = (requests \ {r}) \cup {q} /\ requests' \subseteq RequestFor(hist)
    BY <1>1, <2>4, <2>8 DEF Moves
  <2>10. rows \in [Job -> RowType] /\ track \in [Job -> TrackType]
    BY <1>1 DEF RowsFor, TracksFor
  <2>11. \A k \in Job : rows[k].seq \in Int /\ (k # j => rows'[k] = rows[k] /\ track'[k] = track[k])
    BY <1>1, <2>4, <2>10, PartsFor DEF RowFor
  <2>12. rows'[j] = row /\ track'[j] = t
    BY <2>4, <2>5, <2>10
  <2>13. Calm => \A k \in Job : rows'[k].seq <= track'[k].seq /\ rows'[k].seq >= rows[k].seq
    <3>1. row.seq \in Int /\ t.seq \in Int
      BY <1>1, <2>2, <2>3, <2>6, <2>12, ReplacedKeeps DEF RowFor, TracksFor, TrackType
    <3> QED
      BY <1>1, <2>6, <2>11, <2>12, <3>1
  <2>14. (\E x \in requests : x.kind = "listed") => \E x \in requests' : x.kind = "listed"
    BY <1>2, <2>9
  <2>15. Forwards
    BY <2>13 DEF Forwards, Unreconciled, Calm
  <2>16. Tracked'
    BY <2>4, <2>13, <2>14 DEF Tracked, Calm
  <2>17. told' \in BOOLEAN /\ lapses' \in 0 .. MaxFaults /\ stream' \in StreamsFor(hist)
    BY <1>1, <2>4
  <2> QED
    BY <2>4, <2>6, <2>9, <2>15, <2>16, <2>17, PageStep
<1> QED
  BY <1>5, <1>6, <1>7 DEF TerminalAnswered, TranscriptsAnswered

-----------------------------------------------------------------------------
(* The streams.                                                            *)

\* One stream changes.
LEMMA StreamStep ==
    ASSUME JobIInv, NEW j \in Job, NEW x \in StreamFor(hist, j), stream' = [stream EXCEPT ![j] = x],
           UNCHANGED atServer, UNCHANGED <<requests, rows, track, told>>, lapses' \in 0 .. MaxFaults
    PROVE  JobIInv' /\ Forwards
<1>1. /\ HistOK(hist) /\ rows \in RowsFor(hist) /\ track \in TracksFor(hist)
      /\ stream \in StreamsFor(hist) /\ requests \subseteq RequestFor(hist) /\ told \in BOOLEAN
  BY AtHand
<1>2. stream' \in StreamsFor(hist)
  BY <1>1, OneStreamChanges
<1>3. Tracked'
  BY DEF JobIInv, Tracked
<1>4. Forwards
  <2>1. \A k \in Job : rows[k].seq \in Int
    BY <1>1, PartsFor DEF RowFor
  <2> QED
    BY <2>1 DEF Forwards
<1> QED
  BY <1>1, <1>2, <1>3, <1>4, PageStep

\* What is sent are events of the job, with its state by then.
LEMMA SendsType ==
    ASSUME HistOK(hist), NEW j \in Job, NEW s \in StreamFor(hist, j),
           NEW upto \in 0 .. Len(hist[j]), NEW ver \in 0 .. Len(hist[j]), NEW at \in Places
    PROVE  [Sends(s, upto, ver) EXCEPT !.at = at] \in StreamFor(hist, j)
<1>1. /\ s.cursor \in 0 .. Len(hist[j]) /\ s.wire \in Seq(RowFor(hist, j)) /\ Len(hist[j]) \in Nat
  BY DEF StreamFor, HistOK
<1>2. PICK n \in Int : n = upto - s.cursor
  BY <1>1
<1>3. PICK f : f = [i \in 1 .. n |-> [seq |-> s.cursor + i, ver |-> ver]]
  OBVIOUS
<1>4. PICK m \in Nat : 1 .. n = 1 .. m
  <2>1. CASE n >= 0
    BY <2>1
  <2>2. CASE n < 0
    <3>1. 1 .. n = 1 .. 0
      BY <2>2
    <3> QED
      BY <3>1
  <2> QED
    BY <2>1, <2>2
<1>5. \A i \in 1 .. n : f[i] \in RowFor(hist, j)
  <2> SUFFICES ASSUME NEW i \in 1 .. n
               PROVE  f[i] \in RowFor(hist, j)
    OBVIOUS
  <2>1. s.cursor + i \in 0 .. Len(hist[j])
    BY <1>1, <1>2
  <2> QED
    BY <1>3, <2>1 DEF RowFor
<1>6. f \in [1 .. m -> RowFor(hist, j)]
  BY <1>3, <1>4, <1>5
<1>7. f \in Seq(RowFor(hist, j))
  BY <1>6, SeqDef
<1>8. PICK w : w = s.wire \o f
  OBVIOUS
<1>9. w \in Seq(RowFor(hist, j))
  BY <1>1, <1>7, <1>8, ConcatProperties
<1>10. Sends(s, upto, ver) = [s EXCEPT !.cursor = upto, !.wire = w]
  BY <1>2, <1>3, <1>8 DEF Sends
<1>11. [[s EXCEPT !.cursor = upto, !.wire = w] EXCEPT !.at = at] \in StreamFor(hist, j)
  BY <1>9 DEF StreamFor
<1> QED
  BY <1>10, <1>11

\* The server serves a stream.
LEMMA ServesKeeps ==
    ASSUME JobIInv, NEW j \in Job, StreamServes(j)
    PROVE  JobIInv' /\ Forwards
<1>1. /\ HistOK(hist) /\ stream \in StreamsFor(hist) /\ lapses \in 0 .. MaxFaults
  BY AtHand
<1>2. PICK s \in StreamFor(hist, j) : s = stream[j]
  BY <1>1, PartsFor
<1>3. Latest(j) \in 0 .. Len(hist[j]) /\ s.after \in 0 .. Len(hist[j]) /\ s.upto \in 0 .. Len(hist[j])
  BY <1>1, <1>2 DEF Latest, HistOK, StreamFor
<1>4. {"poll", "row", "confirm", "ended", "dead", "connecting"} \subseteq Places
  BY DEF Places
<1>5. \A at \in Places, n \in 0 .. Len(hist[j]) :
         /\ [s EXCEPT !.at = at] \in StreamFor(hist, j)
         /\ [s EXCEPT !.at = at, !.cursor = n] \in StreamFor(hist, j)
         /\ [s EXCEPT !.at = at, !.upto = n] \in StreamFor(hist, j)
  BY DEF StreamFor
<1>6. \E x \in StreamFor(hist, j) : Streams(j, x)
  <2>1. CASE StreamOpens(j)
    <3>1. Streams(j, [s EXCEPT !.at = "poll", !.cursor = s.after]) \/ Streams(j, [s EXCEPT !.at = "dead"])
      BY <1>2, <2>1 DEF StreamOpens
    <3> QED
      BY <1>3, <1>4, <1>5, <3>1
  <2>2. CASE Polls(j)
    <3>1. Streams(j, [s EXCEPT !.at = "row", !.upto = Latest(j)]) \/ Streams(j, [s EXCEPT !.at = "ended"])
      BY <1>2, <2>2 DEF Polls
    <3> QED
      BY <1>3, <1>4, <1>5, <3>1
  <2>3. CASE SendsBatch(j)
    <3>1. \/ Streams(j, [Sends(s, s.upto, Latest(j)) EXCEPT !.at = "poll"])
          \/ Streams(j, [s EXCEPT !.at = "ended"])
      BY <1>2, <2>3 DEF SendsBatch
    <3>2. [Sends(s, s.upto, Latest(j)) EXCEPT !.at = "poll"] \in StreamFor(hist, j)
      BY <1>1, <1>3, <1>4, SendsType
    <3> QED
      BY <1>3, <1>4, <1>5, <3>1, <3>2
  <2>4. CASE Looks(j)
    <3>1. Streams(j, [s EXCEPT !.at = "confirm", !.upto = Latest(j)])
      BY <1>2, <2>4 DEF Looks
    <3> QED
      BY <1>3, <1>4, <1>5, <3>1
  <2>5. CASE Confirms(j)
    <3>1. \/ Streams(j, [Sends(s, Latest(j), s.upto) EXCEPT !.at = "ended"])
          \/ Streams(j, [s EXCEPT !.at = "ended"])
      BY <1>2, <2>5 DEF Confirms
    <3>2. [Sends(s, Latest(j), s.upto) EXCEPT !.at = "ended"] \in StreamFor(hist, j)
      BY <1>1, <1>3, <1>4, SendsType
    <3> QED
      BY <1>3, <1>4, <1>5, <3>1, <3>2
  <2>6. CASE StreamEnds(j)
    <3>1. Streams(j, [s EXCEPT !.at = "connecting"])
      BY <1>2, <2>6 DEF StreamEnds
    <3> QED
      BY <1>3, <1>4, <1>5, <3>1
  <2> QED
    BY <2>1, <2>2, <2>3, <2>4, <2>5, <2>6 DEF StreamServes
<1>7. PICK x \in StreamFor(hist, j) : Streams(j, x)
  BY <1>6
<1>8. /\ stream' = [stream EXCEPT ![j] = x] /\ UNCHANGED atServer /\ UNCHANGED lapses
      /\ UNCHANGED <<requests, rows, track, told>>
  BY <1>7 DEF Streams, NoLapse
<1> QED
  BY <1>1, <1>8, StreamStep

\* The connection of a stream is lost, with what was on its way.
LEMMA BreaksKeeps ==
    ASSUME JobIInv, NEW j \in Job, StreamBreaks(j)
    PROVE  JobIInv' /\ Forwards
<1>1. /\ HistOK(hist) /\ stream \in StreamsFor(hist) /\ lapses \in 0 .. MaxFaults
  BY AtHand
<1>2. PICK s \in StreamFor(hist, j) : s = stream[j]
  BY <1>1, PartsFor
<1>3. /\ stream' = [stream EXCEPT ![j].at = "connecting", ![j].wire = <<>>]
      /\ UNCHANGED atServer /\ UNCHANGED <<requests, rows, track, told>>
      /\ lapses < MaxFaults /\ lapses' = lapses + 1
  BY DEF StreamBreaks, Lapse
<1>4. PICK x : x = [s EXCEPT !.at = "connecting", !.wire = <<>>]
  OBVIOUS
<1>5. x \in StreamFor(hist, j)
  <2>1. "connecting" \in Places /\ <<>> \in Seq(RowFor(hist, j))
    BY DEF Places
  <2> QED
    BY <1>4, <2>1 DEF StreamFor
<1>6. stream' = [stream EXCEPT ![j] = x]
  <2>1. stream \in [Job -> StreamType]
    BY <1>1 DEF StreamsFor
  <2> QED
    BY <1>2, <1>3, <1>4, <2>1
<1>7. lapses' \in 0 .. MaxFaults
  BY <1>1, <1>3, JobAssumption
<1> QED
  BY <1>3, <1>5, <1>6, <1>7, StreamStep

\* An event is shown only when it is newer than all that was known.
LEMMA EventKeeps ==
    ASSUME JobIInv, NEW j \in Job, EventArrives(j)
    PROVE  JobIInv' /\ Forwards
<1>1. /\ HistOK(hist) /\ rows \in RowsFor(hist) /\ track \in TracksFor(hist)
      /\ stream \in StreamsFor(hist) /\ requests \subseteq RequestFor(hist)
      /\ told \in BOOLEAN /\ lapses \in 0 .. MaxFaults
      /\ (Calm => \A k \in Job : rows[k].seq <= track[k].seq)
  BY AtHand
<1>2. PICK s \in StreamFor(hist, j) : s = stream[j]
  BY <1>1, PartsFor
<1>3. PICK e : e = Head(s.wire)
  OBVIOUS
<1>4. s.wire \in Seq(RowFor(hist, j)) /\ s.wire # <<>>
  BY <1>2 DEF EventArrives, StreamFor
<1>5. e \in RowFor(hist, j) /\ Tail(s.wire) \in Seq(RowFor(hist, j))
  BY <1>3, <1>4, HeadTailProperties
<1>6. /\ stream' = [stream EXCEPT ![j].wire = Tail(@), ![j].after = e.seq]
      /\ UNCHANGED atServer /\ UNCHANGED lapses /\ UNCHANGED told
  BY <1>2, <1>3 DEF EventArrives, NoLapse
<1>7. stream' \in StreamsFor(hist)
  <2>1. PICK w \in Seq(RowFor(hist, j)) : w = Tail(s.wire)
    BY <1>5
  <2>2. PICK n \in 0 .. Len(hist[j]) : n = e.seq
    BY <1>5 DEF RowFor
  <2>3. PICK x : x = [s EXCEPT !.wire = w, !.after = n]
    OBVIOUS
  <2>4. x \in StreamFor(hist, j)
    BY <2>3 DEF StreamFor
  <2>5. stream \in [Job -> StreamType]
    BY <1>1 DEF StreamsFor
  <2>6. stream' = [stream EXCEPT ![j] = x]
    BY <1>2, <1>6, <2>1, <2>2, <2>3, <2>5
  <2> QED
    BY <1>1, <2>4, <2>6, OneStreamChanges
<1>8. CASE Accepts(j, s.gen, e.seq)
  <2>1. /\ track' = [track EXCEPT ![j].seq = e.seq]
        /\ rows' = IF rows[j] = Absent THEN rows ELSE [rows EXCEPT ![j] = e]
        /\ requests' = IF rows[j] # Absent /\ Terminal(Status(j, e))
                       THEN requests \cup {Request("terminal", j, s.gen)} ELSE requests
    BY <1>2, <1>3, <1>8 DEF EventArrives
  <2>2. PICK t \in TrackType : t = track[j] /\ t.seq <= Len(hist[j])
    BY <1>1, PartsFor
  <2>3. PICK n \in Nat : n = e.seq /\ n <= Len(hist[j])
    BY <1>1, <1>5 DEF RowFor, HistOK
  <2>4. PICK u : u = [t EXCEPT !.seq = n]
    OBVIOUS
  <2>5. u \in TrackType /\ u.seq = n
    BY <2>4 DEF TrackType
  <2>6. rows \in [Job -> RowType] /\ track \in [Job -> TrackType]
    BY <1>1 DEF RowsFor, TracksFor
  <2>7. track' = [track EXCEPT ![j] = u]
    BY <2>1, <2>2, <2>3, <2>4, <2>6
  <2>8. track' \in TracksFor(hist) /\ [rows EXCEPT ![j] = e] \in RowsFor(hist)
    BY <1>1, <1>5, <2>3, <2>5, <2>7, OneChanges
  <2>9. rows' \in RowsFor(hist)
    BY <1>1, <2>1, <2>8
  <2>10. s.gen \in Nat /\ "terminal" \in Kind /\ "terminal" \in OfJob
    BY DEF StreamFor, Kind, OfJob
  <2>11. PICK q \in RequestFor(hist) : q = Request("terminal", j, s.gen)
    BY <1>1, <2>10, RequestIs
  <2>12. requests \subseteq requests' /\ requests' \subseteq RequestFor(hist)
    BY <1>1, <2>1, <2>11
  <2>13. \A k \in Job : rows[k].seq \in Int /\ track[k].seq \in Int
    BY <1>1, PartsFor DEF RowFor, TrackType
  <2>14. e.seq > track[j].seq
    BY <1>8 DEF Accepts
  <2>15. \A k \in Job \ {j} : rows'[k] = rows[k] /\ track'[k] = track[k]
    BY <2>1, <2>6, <2>7
  <2>16. /\ track'[j].seq = n
         /\ \/ rows[j] = Absent /\ rows'[j] = Absent
            \/ rows'[j].seq = n
    BY <2>1, <2>3, <2>5, <2>6, <2>7
  <2>17. Calm => \A k \in Job : /\ rows'[k].seq <= track'[k].seq
                                /\ rows'[k] # Absent => rows'[k].seq >= rows[k].seq
    <3> SUFFICES ASSUME Calm, NEW k \in Job
                 PROVE  /\ rows'[k].seq <= track'[k].seq
                        /\ rows'[k] # Absent => rows'[k].seq >= rows[k].seq
      OBVIOUS
    <3>1. CASE k # j
      BY <1>1, <2>13, <2>15, <3>1
    <3>2. CASE k = j
      <4>1. Absent.seq = 0
        BY DEF Absent
      <4> QED
        BY <1>1, <2>3, <2>13, <2>14, <2>16, <3>2, <4>1
    <3> QED
      BY <3>1, <3>2
  <2>18. Forwards
    BY <2>17 DEF Forwards, Unreconciled, Calm
  <2>19. Tracked'
    BY <1>6, <2>12, <2>17 DEF Tracked, Calm
  <2> QED
    BY <1>1, <1>6, <1>7, <2>8, <2>9, <2>12, <2>18, <2>19, PageStep
<1>9. CASE ~Accepts(j, s.gen, e.seq)
  <2>1. UNCHANGED <<track, rows, requests>>
    BY <1>2, <1>3, <1>9 DEF EventArrives
  <2>2. Tracked'
    BY <1>6, <2>1 DEF JobIInv, Tracked
  <2>3. Forwards
    <3>1. \A k \in Job : rows[k].seq \in Int
      BY <1>1, PartsFor DEF RowFor
    <3> QED
      BY <2>1, <3>1 DEF Forwards
  <2> QED
    BY <1>1, <1>6, <1>7, <2>1, <2>2, <2>3, PageStep
<1> QED
  BY <1>8, <1>9

-----------------------------------------------------------------------------
(* Steps, and the theorems.                                                *)

\* The page begins anew with nothing.
LEMMA ReloadKeeps ==
    ASSUME JobIInv, PageReload
    PROVE  JobIInv' /\ Forwards
<1>1. HistOK(hist) /\ lapses \in 0 .. MaxFaults
  BY AtHand
<1>2. PICK q \in RequestFor(hist) : q = Request("load", All, 0)
  BY <1>1, RequestIs DEF Kind, OfJob
<1>3. /\ requests' = {q} /\ rows' = [j \in Job |-> Absent] /\ track' = [j \in Job |-> Unknown]
      /\ stream' = [j \in Job |-> Closed] /\ told' = FALSE /\ UNCHANGED atServer
      /\ lapses < MaxFaults /\ lapses' = lapses + 1
  BY <1>2 DEF PageReload, Lapse
<1>4. lapses' \in 0 .. MaxFaults
  BY <1>1, <1>3, JobAssumption
<1>5. \A j \in Job : /\ Absent \in RowFor(hist, j) /\ Absent \in RowType /\ Absent.seq = 0
                     /\ Unknown \in TrackType /\ Unknown.seq = 0 /\ Len(hist[j]) \in Nat
                     /\ Closed \in StreamFor(hist, j) /\ Closed \in StreamType
  BY <1>1, PartsFor DEF Absent
<1>6. rows' \in RowsFor(hist) /\ track' \in TracksFor(hist) /\ stream' \in StreamsFor(hist)
  BY <1>3, <1>5 DEF RowsFor, TracksFor, StreamsFor
<1>7. Tracked'
  BY <1>3, <1>5 DEF Tracked
<1>8. Forwards
  BY <1>3 DEF Forwards
<1>9. requests' \subseteq RequestFor(hist) /\ told' \in BOOLEAN
  BY <1>2, <1>3
<1> QED
  BY <1>3, <1>4, <1>6, <1>7, <1>8, <1>9, PageStep

\* Every step keeps the invariant, and takes no row back outside the window of
\* "refresh".
LEMMA JobStep ==
    ASSUME JobIInv, [JobNext]_jobVars
    PROVE  JobIInv' /\ Forwards
<1>1. CASE LoadAll \/ Refresh \/ \E j \in Job : \/ CreateJob(j) \/ CancelJob(j) \/ RetryJob(j)
                                                \/ DeleteRecording(j)
  <2>1. \E kind \in Kind, j \in Job \cup {All} :
           /\ kind \in OfJob => j \in Job
           /\ Asks(kind, j) \/ (LoadAll /\ kind = "load" /\ j = All)
    BY <1>1 DEF Refresh, CreateJob, CancelJob, RetryJob, DeleteRecording, Kind, OfJob
  <2> QED
    BY <2>1, AsksKeeps
<1>2. CASE PageReload
  BY <1>2, ReloadKeeps
<1>3. CASE \E j \in Job : Work(j)
  BY <1>3, WorkKeeps
<1>4. CASE \E j \in Job : StreamServes(j) \/ StreamBreaks(j) \/ EventArrives(j)
  BY <1>4, ServesKeeps, BreaksKeeps, EventKeeps
<1>5. CASE \E r \in requests : Acts(r) \/ Counts(r) \/ Snapshots(r) \/ RequestFails(r)
  BY <1>5, ActsKeeps, CountsKeeps, SnapshotsKeeps, RequestFailsKeeps
<1>6. CASE \E r \in requests : Answers(r)
  BY <1>6, LoadKeeps, RefreshKeeps, CommandKeeps, OverKeeps DEF Answers
<1>7. CASE UNCHANGED jobVars
  <2>1. /\ HistOK(hist) /\ requests \subseteq RequestFor(hist) /\ lapses \in 0 .. MaxFaults
        /\ gone \subseteq Job
    BY AtHand
  <2>2. UNCHANGED atPage /\ UNCHANGED <<hist, gone, requests, lapses>>
    BY <1>7 DEF jobVars, atPage
  <2>3. HistOK(hist') /\ Grows(hist, hist')
    BY <2>1, <2>2, NothingGrows
  <2> QED
    BY <2>1, <2>2, <2>3, QuietStep
<1> QED
  BY <1>1, <1>2, <1>3, <1>4, <1>5, <1>6, <1>7 DEF JobNext, Serves

\* Whatever the order of answers, events and commands: what is shown and known
\* of a job is in its history at the server, and unless the button "refresh" is
\* at work, no row is ahead of the tracker that decides which answers and which
\* events of it are taken.
THEOREM JobsInvariant == JobSpec => []JobIInv
<1>1. JobInit => JobIInv
  BY JobsStart
<1>2. JobIInv /\ [JobNext]_jobVars => JobIInv'
  BY JobStep
<1> QED
  BY <1>1, <1>2, PTL DEF JobSpec

\* The page claims no cursor and shows no state that the server has not reached.
THEOREM JobsAreTyped == JobSpec => []JobTypeOK
<1>1. JobIInv => JobTypeOK
  <2> SUFFICES ASSUME JobIInv PROVE JobTypeOK
    OBVIOUS
  <2>1. ASSUME NEW j \in Job
        PROVE  /\ Latest(j) <= MaxStates /\ rows[j].seq \in 0 .. Latest(j)
               /\ rows[j].ver \in 0 .. Latest(j) /\ track[j].seq \in 0 .. Latest(j)
    <3>1. /\ rows[j] \in RowFor(hist, j) /\ track[j] \in TrackType /\ track[j].seq <= Len(hist[j])
          /\ Len(hist[j]) \in Nat /\ Len(hist[j]) <= MaxStates
      BY AtHand, PartsFor DEF HistOK
    <3> QED
      BY <3>1 DEF RowFor, TrackType, Latest
  <2> QED
    BY <2>1, AtHand DEF JobTypeOK
<1> QED
  BY <1>1, JobsInvariant, PTL

\* Late answers and repeated events never take a row of the list back, except
\* around the button "refresh", for any number of jobs, of requests in flight and
\* of lost connections.
THEOREM RowsStayForward == JobSpec => RowsNeverGoBack
<1>1. JobIInv /\ [JobNext]_jobVars =>
         [\/ Unreconciled
          \/ \A j \in Job : rows'[j] # Absent => rows'[j].seq >= rows[j].seq]_jobVars
  BY JobStep DEF Forwards
<1> QED
  BY <1>1, JobsInvariant, PTL DEF JobSpec, RowsNeverGoBack
=============================================================================
