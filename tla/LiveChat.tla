------------------------------ MODULE LiveChat -------------------------------
(***************************************************************************)
(* The chat of live-browser.js in which the user steers the page: a        *)
(* message is sent and the chat locked until the agent answers, two        *)
(* minutes pass, or the request fails; it is typed or dictated; and a hint *)
(* tells that it waits behind a generation, which the page concludes from  *)
(* its own state and from what it last heard of the agent's polling.       *)
(*                                                                         *)
(* The helper, the agent, the speech engine and the flow of a design       *)
(* session (LiveSession) are external.  Focus, widths and wording are left *)
(* out, and so are the checkpoints of a steer, which nobody waits for.     *)
(***************************************************************************)
EXTENDS Naturals, Sequences, FiniteSets

CONSTANTS MaxSteers,  \* bounds the messages sent
          MaxHeard    \* bounds the messages of the helper under way

ASSUME ChatAssumption == MaxSteers \in Nat \ {0} /\ MaxHeard \in Nat \ {0}

VARIABLES chat,     \* the page, see ChatType
          voice,    \* the speech engine that is current, see VoiceType
          posts,    \* requests of steers on their way
          queued,   \* the steers that the helper or the agent holds
          parked,   \* a poll of the agent is parked at the helper
          looks,    \* answers to status requests, on their way
          heard,    \* messages of the helper on their way
          sent      \* steers sent

chatVars == <<chat, voice, posts, queued, parked, looks, heard, sent>>

Steer   == 1 .. MaxSteers
Working == {"GENERATING", "SAVING"}      \* agentHasWorkInFlight
States  == {"PICKING", "CONFIGURING", "CYCLING"} \cup Working

\* A message is named by the steer that sends it first; 0 is the empty one.
ChatType ==
    [ui      : States,
     text    : {0} \cup Steer,           \* pageChatInput
     locked  : BOOLEAN,                  \* steerLocked
     request : {0} \cup Steer,           \* steerRequestId
     pending : {0} \cup Steer,           \* steerPendingMessage
     timer   : {0} \cup Steer,           \* whose steerAwaitTimer runs
     polling : BOOLEAN,                  \* agentPollingConnected
     hint    : BOOLEAN]                  \* pageChatQueueHintEl

VoiceType == [mode : {"none", "steer", "configure"}, listening : BOOLEAN]
Silent == [mode |-> "none", listening |-> FALSE]

ChatInit ==
    /\ chat = [ui |-> "PICKING", text |-> 0, locked |-> FALSE, request |-> 0, pending |-> 0,
               timer |-> 0, polling |-> FALSE, hint |-> FALSE]
    /\ voice = Silent /\ posts = {} /\ queued = {} /\ parked = FALSE
    /\ looks = {} /\ heard = <<>> /\ sent = 0

-----------------------------------------------------------------------------
\* syncSteerQueueHint
Synced(c) == [c EXCEPT !.hint = c.locked /\ ~c.polling /\ c.ui \in Working]

\* Mutant of Shifts: the hint moves with the poll alone.
ShiftsUnsynced(c, u) == [c EXCEPT !.ui = u]

\* setLiveState
Shifts(c, u) == Synced([c EXCEPT !.ui = u])

\* syncAgentPollingUi
Learns(c, b) == Synced([c EXCEPT !.polling = b])

\* unlockSteerChat, with the message that an error puts back
Unlocked(c, restore) ==
    [c EXCEPT !.locked = FALSE, !.request = 0, !.timer = 0, !.hint = FALSE,
              !.text = restore, !.pending = restore]

\* submitSteerMessage with a text, on a chat that is not locked
Submitted(c, s) ==
    Synced([c EXCEPT !.locked = TRUE, !.request = s, !.pending = c.text, !.timer = s])

ByHelper == UNCHANGED <<queued, parked, looks, heard>>
Apart == UNCHANGED <<posts, sent>> /\ ByHelper

-----------------------------------------------------------------------------
(* The user.                                                               *)

TypesText(m) ==
    /\ ~chat.locked /\ m \in {0, sent + 1} \cap ({0} \cup Steer)
    /\ chat' = [chat EXCEPT !.text = m] /\ UNCHANGED voice /\ Apart

SteerSent(c) ==
    /\ sent < MaxSteers /\ sent' = sent + 1
    /\ chat' = Submitted(c, sent + 1)
    /\ posts' = posts \cup {[id |-> sent + 1, at |-> "sent", text |-> c.text]}
    /\ voice' = Silent /\ ByHelper

Submit == chat.text # 0 /\ ~chat.locked /\ SteerSent(chat)

\* toggleSteerVoice, toggleConfigureVoice; an engine that has not begun to
\* listen is released for the new one
TogglesVoice(mode) ==
    /\ \/ mode = "steer" /\ ~chat.locked
       \/ mode = "configure" /\ chat.ui = "CONFIGURING"
    /\ voice' = IF voice.listening THEN (IF voice.mode = mode THEN Silent ELSE voice)
                ELSE IF mode = "steer" /\ chat.ui = "CONFIGURING" THEN voice
                ELSE [mode |-> mode, listening |-> FALSE]
    /\ UNCHANGED chat /\ Apart

\* The flow of a session: hideBar, handleGo and handleInsertCreate stop the voice.
\* An agent's target is picked and gone for at once.
Flow == {<<"PICKING", "CONFIGURING">>, <<"CONFIGURING", "PICKING">>,
         <<"CONFIGURING", "GENERATING">>, <<"PICKING", "GENERATING">>, <<"GENERATING", "PICKING">>,
         <<"CYCLING", "SAVING">>, <<"CYCLING", "PICKING">>, <<"SAVING", "PICKING">>}

Moves(u, v) ==
    /\ chat.ui = u /\ <<u, v>> \in Flow
    /\ chat' = Shifts(chat, v)
    /\ voice' = IF v \in {"PICKING", "GENERATING"} THEN Silent ELSE voice
    /\ Apart

\* Variants arrive, a late answer or a refused accept brings the bar back, or a
\* session is restored (on connecting, by the scout, by a read of the source
\* file): whatever the user is at, and the voice goes on.
Restores(v) ==
    /\ v \in {"GENERATING", "CYCLING"}
    /\ chat' = Shifts(chat, v) /\ UNCHANGED voice /\ Apart

\* The card of a failed mount is dismissed, without a bar that could be hidden.
PutsCardAway ==
    /\ chat.ui = "GENERATING"
    /\ chat' = Shifts(chat, "PICKING") /\ UNCHANGED voice /\ Apart

-----------------------------------------------------------------------------
(* The speech engine.                                                      *)

VoiceStarts ==
    /\ voice.mode # "none" /\ voice' = [voice EXCEPT !.listening = TRUE]
    /\ UNCHANGED chat /\ Apart

VoiceHears(m) ==
    /\ voice.mode = "steer" /\ m = sent + 1 /\ m \in Steer
    /\ chat' = [chat EXCEPT !.text = m] /\ UNCHANGED voice /\ Apart

VoiceFails == voice.mode # "none" /\ voice' = Silent /\ UNCHANGED chat /\ Apart

\* finishVoiceSession; a dictated prompt is Go, which Moves covers
VoiceEnds ==
    /\ voice.mode # "none"
    /\ \/ voice.mode = "steer" /\ chat.text # 0 /\ ~chat.locked /\ SteerSent(chat)
       \/ /\ ~(voice.mode = "steer" /\ chat.text # 0 /\ ~chat.locked)
          /\ voice' = Silent /\ UNCHANGED chat /\ Apart

-----------------------------------------------------------------------------
(* Answers, timers and messages.                                           *)

\* The helper gets the request, or it gets lost; then the answer.
PostArrives(x) ==
    /\ x \in posts /\ x.at = "sent"
    /\ \E ok \in BOOLEAN, kept \in BOOLEAN :
       /\ ok => kept
       /\ posts' = (posts \ {x}) \cup {[x EXCEPT !.at = IF ok THEN "taken" ELSE "failed"]}
       /\ queued' = IF kept THEN queued \cup {x.id} ELSE queued
    /\ UNCHANGED <<chat, voice, parked, looks, heard, sent>>

\* Whatever the chat waits for by then.
PostAnswered(x) ==
    /\ x \in posts /\ x.at # "sent" /\ posts' = posts \ {x}
    /\ chat' = IF x.at = "failed" THEN Unlocked(chat, x.text) ELSE chat
    /\ UNCHANGED <<voice, sent>> /\ ByHelper

SteerTimesOut ==
    /\ chat.timer # 0
    /\ chat' = IF chat.locked /\ chat.request = chat.timer THEN Unlocked(chat, chat.pending)
               ELSE [chat EXCEPT !.timer = 0]
    /\ UNCHANGED voice /\ Apart

\* fetchAgentPollingStatus, every 5 s
Looks ==
    /\ Cardinality(looks) < MaxHeard /\ looks' = looks \cup {parked}
    /\ UNCHANGED <<chat, voice, posts, queued, parked, heard, sent>>

LookAnswered(b) ==
    /\ b \in looks /\ looks' = looks \ {b}
    /\ chat' = Learns(chat, b)
    /\ UNCHANGED <<voice, posts, queued, parked, heard, sent>>

\* The answer to another message than the one waited for: an error hides the
\* bar all the same.
Hear ==
    LET msg == Head(heard)
        mine == chat.request # 0 /\ msg.id = chat.request IN
    /\ heard # <<>> /\ heard' = Tail(heard)
    /\ \/ msg.type = "polling" /\ chat' = Learns(chat, msg.id = 1) /\ UNCHANGED voice
       \/ msg.type = "steer_done" /\ mine /\ chat' = Unlocked(chat, 0) /\ UNCHANGED voice
       \/ msg.type = "error" /\ mine /\ chat' = Unlocked(chat, chat.pending) /\ UNCHANGED voice
       \/ msg.type = "steer_done" /\ ~mine /\ UNCHANGED <<chat, voice>>
       \/ msg.type = "error" /\ ~mine /\ chat' = Shifts(chat, "PICKING") /\ voice' = Silent
    /\ UNCHANGED <<posts, queued, parked, looks, sent>>

-----------------------------------------------------------------------------
(* The helper and the agent.                                               *)

Tells(type, id) == Len(heard) < MaxHeard /\ heard' = Append(heard, [type |-> type, id |-> id])

AgentPolls ==
    /\ ~parked /\ parked' = TRUE /\ Tells("polling", 1)
    /\ UNCHANGED <<chat, voice, posts, queued, looks, sent>>

\* The poll is answered with a steer, or with other work, or breaks off.
AgentTakes ==
    /\ parked /\ parked' = FALSE /\ Tells("polling", 0)
    /\ UNCHANGED <<chat, voice, posts, queued, looks, sent>>

AgentAnswers ==
    /\ ~parked
    /\ \E s \in queued, type \in {"steer_done", "error"} :
          queued' = queued \ {s} /\ Tells(type, s)
    /\ UNCHANGED <<chat, voice, posts, parked, looks, sent>>

\* The stream breaks and connects again: the helper says how the agent is.
StreamReturns ==
    /\ heard # <<>> /\ heard' = <<[type |-> "polling", id |-> IF parked THEN 1 ELSE 0]>>
    /\ UNCHANGED <<chat, voice, posts, queued, parked, looks, sent>>

-----------------------------------------------------------------------------
ChatNext ==
    \/ Submit \/ VoiceStarts \/ VoiceFails \/ VoiceEnds
    \/ SteerTimesOut \/ Looks \/ Hear \/ AgentPolls \/ AgentTakes \/ AgentAnswers \/ StreamReturns
    \/ \E m \in {0} \cup Steer : TypesText(m) \/ VoiceHears(m)
    \/ \E mode \in {"steer", "configure"} : TogglesVoice(mode)
    \/ \E u, v \in States : Moves(u, v)
    \/ PutsCardAway \/ \E v \in States : Restores(v)
    \/ \E x \in posts : PostArrives(x) \/ PostAnswered(x)
    \/ \E b \in BOOLEAN : LookAnswered(b)

ChatSpec == ChatInit /\ [][ChatNext]_chatVars

-----------------------------------------------------------------------------
(* Properties.                                                             *)

ChatTypeOK ==
    /\ chat \in ChatType /\ voice \in VoiceType /\ sent \in 0 .. MaxSteers
    /\ posts \subseteq [id : Steer, at : {"sent", "taken", "failed"}, text : Steer]
    /\ queued \subseteq Steer /\ parked \in BOOLEAN
    /\ looks \subseteq BOOLEAN /\ Len(heard) <= MaxHeard

\* A chat that is locked is never left without a way out: the two minutes of
\* the very message it waits for are running.
WaitIsBounded == chat.locked => chat.request # 0 /\ chat.timer = chat.request

\* The hint tells of a queue if and only if, by what the page knows now, the
\* message waits behind a generation, whichever of lock, poll and state came
\* last (comment of setLiveState: "the hint has to move with it").
HintIsTrue == chat.hint <=> chat.locked /\ ~chat.polling /\ chat.ui \in Working

\* Dictation never runs on in a chat that is locked, where its end would try to
\* send a second message behind the one that is waited for.
VoiceHasItsPlace == voice.mode = "steer" => ~chat.locked

ChatAgrees == WaitIsBounded /\ HintIsTrue /\ VoiceHasItsPlace

\* Dictation into a configuration ends with it (startVoice and
\* finishVoiceSession ask for CONFIGURING).
DictationEndsInTime == voice.mode = "configure" => chat.ui = "CONFIGURING"
=============================================================================
