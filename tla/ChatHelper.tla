----------------------------- MODULE ChatHelper -----------------------------
(***************************************************************************)
(* The chat helper of chillerbot-ux and the away mode it answers for:      *)
(* CChatHelper (the stack of pings, the send buffers) and the part of      *)
(* CChillerBotUX that goes away and comes back.                            *)
(*                                                                         *)
(* A message is its number and whether it was queued with StayAfk.  The    *)
(* counter m_IgnoreChatAfk stands for the queued messages that must not    *)
(* end the away mode: it is raised when one is queued and lowered when     *)
(* any chat message is sent while away.                                    *)
(***************************************************************************)
EXTENDS Integers, Sequences, FiniteSetsExt

CONSTANTS
  BufferLen,    \* MAX_CHAT_BUFFER_LEN
  PingQueueSize,
  AwakeAt,      \* activity from which the player is not answered for any more
  ReturnAt,     \* activity that ends the away mode
  MaxMsgs,      \* bound: messages that arrive
  MaxOwn,       \* bound: messages the player types
  AutoReply,    \* cl_auto_reply
  SpamReply     \* cl_chat_spam_filter 2

VARIABLES
  afk,       \* m_AfkTill # 0
  activity,  \* m_AfkActivity, while away
  ignore,    \* m_IgnoreChatAfk
  buf,       \* m_aaaSendBuffer
  ready,     \* m_NextMessageSend has passed
  pings,     \* m_aLastPings up to the first empty one, newest first
  arrived,   \* messages that arrived, which numbers them
  typed,     \* messages the player typed
  said,      \* history: numbers of the last message each buffer sent
  mistaken,  \* history: lines that were counted as messages queued with StayAfk
  last       \* history: what the last step did: the buffers whose StayAfk message brought the
             \* player back, the ping that was answered and the ones passed over

vars == <<afk, activity, ignore, buf, ready, pings, arrived, typed, said, mistaken, last>>

Teams == {"all", "team"}
Nothing == [back |-> {}, answered |-> 0, passed |-> {}]

Init ==
  /\ afk = FALSE
  /\ activity = 0
  /\ ignore = 0
  /\ buf = [t \in Teams |-> <<>>]
  /\ ready = TRUE
  /\ pings = <<>>
  /\ arrived = 0
  /\ typed = 0
  /\ said = [t \in Teams |-> 0]
  /\ mistaken = 0
  /\ last = Nothing

(***************************************************************************)
(* CChillerBotUX::ReturnFromAfk on the record of the away mode; `chat' is  *)
(* "none" for an input event, "command" for a line that starts with '/',   *)
(* "stay" for a message queued with StayAfk and "line" for any other.      *)
(***************************************************************************)
Mode == [afk |-> afk, activity |-> activity, ignore |-> ignore, mistaken |-> mistaken]

ReturnFromAfk(m, chat) ==
  LET ignored == chat \in {"line", "stay"} /\ m.ignore > 0
      gain == IF chat \in {"line", "stay"} /\ ~ignored THEN ReturnAt + 1 ELSE 1
      back == m.activity + gain >= ReturnAt
  IN IF ~m.afk THEN m
     ELSE [afk |-> ~back,
           activity |-> IF back THEN 0 ELSE m.activity + gain,
           ignore |-> IF ignored THEN m.ignore - 1 ELSE m.ignore,
           mistaken |-> IF ignored /\ chat = "line" THEN m.mistaken + 1 ELSE m.mistaken]

SetMode(m) ==
  /\ afk' = m.afk
  /\ activity' = m.activity
  /\ ignore' = m.ignore
  /\ mistaken' = m.mistaken

\* Mutant of Pushed: the buffer has no end.
PushedUnbounded(b, msg) == Append(b, msg)

\* Mutant of Pushed: the oldest message is replaced where it stands.
PushedInPlace(b, msg) == IF Len(b) < BufferLen THEN Append(b, msg) ELSE [b EXCEPT ![1] = msg]

\* CChatHelper::SayBuffer: the oldest message makes room in a full buffer.
Pushed(b, msg) == IF Len(b) < BufferLen THEN Append(b, msg) ELSE Append(Tail(b), msg)

IsAfk == afk /\ activity < AwakeAt

-----------------------------------------------------------------------------
\* Mutant of PushPing: a ping is put below the ones there are.
PushPingBelow(msg) == SubSeq(pings \o <<msg>>, 1, Min({PingQueueSize, Len(pings) + 1}))

(***************************************************************************)
(* A chat message that names the player.  CChat runs FilterChat first,     *)
(* CChatHelper::OnMessage comes after it.                                  *)
(***************************************************************************)
PushPing(msg) == SubSeq(<<msg>> \o pings, 1, Min({PingQueueSize, Len(pings) + 1}))

\* FilterChat: a message it takes for spam is answered.
Filtered(b, msg) ==
  IF SpamReply /\ msg.spam /\ ~IsAfk THEN Pushed(b, [id |-> msg.id, stay |-> FALSE])
  ELSE b

\* The away note or the tabbed out note; if there is none, a reply of the player's own.
OnChatMessage(msg, tabbed) ==
  LET noted == IsAfk \/ tabbed
      filtered == Filtered(buf[msg.team], msg)
      note == [id |-> msg.id, stay |-> TRUE]
      queued == [Mode EXCEPT !.ignore = IF noted THEN @ + 1 ELSE @]
  IN /\ arrived < MaxMsgs
     /\ arrived' = arrived + 1
     /\ pings' = PushPing(msg)
     /\ buf' = [buf EXCEPT ![msg.team] = IF noted THEN Pushed(filtered, note)
                                         ELSE filtered]
     /\ SetMode(IF AutoReply /\ ~noted THEN ReturnFromAfk(queued, "line") ELSE queued)
     /\ last' = Nothing
     /\ UNCHANGED <<ready, typed, said>>

\* The same text again is filtered but neither kept nor answered.
OnRepeatedMessage ==
  /\ pings # <<>>
  /\ arrived < MaxMsgs
  /\ arrived' = arrived + 1
  /\ LET msg == [Head(pings) EXCEPT !.id = arrived + 1]
     IN buf' = [buf EXCEPT ![msg.team] = Filtered(@, msg)]
  /\ last' = Nothing
  /\ UNCHANGED <<afk, activity, ignore, ready, pings, typed, said, mistaken>>

\* The first message of a buffer is sent through CChat::SendChat.
Drain(m, team) ==
  IF buf[team] = <<>> THEN m
  ELSE ReturnFromAfk(m, IF Head(buf[team]).stay THEN "stay" ELSE "line")

\* OnRender, in a frame whose time is a multiple of 10: the buffers are looked at in no other.
FlushBuffers ==
  LET full == {t \in Teams : buf[t] # <<>>}
      m1 == Drain(Mode, "all")
      m2 == Drain(m1, "team")
      counted == (IF afk /\ ignore = 0 THEN {"all"} ELSE {})
                   \union (IF m1.afk /\ m1.ignore = 0 THEN {"team"} ELSE {})
  IN /\ ready
     /\ full # {}
     /\ SetMode(m2)
     /\ ready' = FALSE
     /\ buf' = [t \in Teams |-> IF t \in full THEN Tail(buf[t]) ELSE <<>>]
     /\ said' = [t \in Teams |-> IF t \in full THEN Head(buf[t]).id ELSE said[t]]
     /\ last' = [Nothing EXCEPT !.back = {t \in full \cap counted : Head(buf[t]).stay}]
     /\ UNCHANGED <<pings, arrived, typed>>

\* Mutant of BufferReady: the next message waits for the player to be away.
BufferReadyWhenAway ==
  /\ ~ready /\ afk
  /\ ready' = TRUE
  /\ last' = Nothing
  /\ UNCHANGED <<afk, activity, ignore, buf, pings, arrived, typed, said, mistaken>>

\* Five seconds after the last message.
BufferReady ==
  /\ ~ready
  /\ ready' = TRUE
  /\ last' = Nothing
  /\ UNCHANGED <<afk, activity, ignore, buf, pings, arrived, typed, said, mistaken>>

\* Pings older than a minute are forgotten.
ExpirePings ==
  /\ \E k \in 0 .. Len(pings) - 1 : pings' = SubSeq(pings, 1, k)
  /\ last' = Nothing
  /\ UNCHANGED <<afk, activity, ignore, buf, ready, arrived, typed, said, mistaken>>

\* reply_to_last_ping: pings are popped until one can be answered.
ReplyToLastPing ==
  LET able == {i \in DOMAIN pings : pings[i].able}
      i == IF able = {} THEN Len(pings) ELSE Min(able)
  IN /\ pings # <<>>
     /\ typed < MaxOwn
     /\ typed' = IF able = {} THEN typed ELSE typed + 1
     /\ pings' = SubSeq(pings, i + 1, Len(pings))
     /\ SetMode(IF able = {} THEN Mode ELSE ReturnFromAfk(Mode, "line"))
     /\ last' = [back |-> {}, answered |-> IF able = {} THEN 0 ELSE pings[i].id,
                 passed |-> {pings[j].id : j \in 1 .. i - 1}]
     /\ UNCHANGED <<buf, ready, arrived, said>>

-----------------------------------------------------------------------------
\* Mutant of GoAfk: the messages to ignore are forgotten although they are still queued.
GoAfkForgetting ==
  /\ SetMode([Mode EXCEPT !.afk = TRUE, !.activity = 0, !.ignore = 0])
  /\ last' = Nothing
  /\ UNCHANGED <<buf, ready, pings, arrived, typed, said>>

GoAfk ==
  /\ SetMode([Mode EXCEPT !.afk = TRUE, !.activity = 0])
  /\ last' = Nothing
  /\ UNCHANGED <<buf, ready, pings, arrived, typed, said>>

\* A key, or now and then the mouse.
OnInput ==
  /\ afk
  /\ SetMode(ReturnFromAfk(Mode, "none"))
  /\ last' = Nothing
  /\ UNCHANGED <<buf, ready, pings, arrived, typed, said>>

\* The player types a line or a command.
SendChat(chat) ==
  /\ typed < MaxOwn
  /\ typed' = typed + 1
  /\ SetMode(ReturnFromAfk(Mode, chat))
  /\ last' = Nothing
  /\ UNCHANGED <<buf, ready, pings, arrived, said>>

\* Activity fades while nothing happens.
FadeActivity ==
  /\ activity > 0
  /\ activity' = activity - 1
  /\ last' = Nothing
  /\ UNCHANGED <<afk, ignore, buf, ready, pings, arrived, typed, said, mistaken>>

Next ==
  \/ \E t \in Teams, able, spam, tabbed \in BOOLEAN :
       OnChatMessage([id |-> arrived + 1, team |-> t, able |-> able, spam |-> spam], tabbed)
  \/ OnRepeatedMessage
  \/ FlushBuffers
  \/ BufferReady
  \/ ExpirePings
  \/ ReplyToLastPing
  \/ GoAfk
  \/ OnInput
  \/ \E chat \in {"line", "command"} : SendChat(chat)
  \/ FadeActivity

Spec == Init /\ [][Next]_vars

\* CGameClient renders every component in every frame, and again and again in one whose time
\* is a multiple of 10.
FairSpec == Spec /\ WF_vars(FlushBuffers) /\ WF_vars(BufferReady)

-----------------------------------------------------------------------------
\* Type invariant: what the variables range over.
TypeOK ==
  /\ afk \in BOOLEAN
  /\ activity \in 0 .. ReturnAt - 1
  /\ ignore \in 0 .. MaxMsgs
  /\ \A t \in Teams : Len(buf[t]) <= BufferLen
  /\ ready \in BOOLEAN
  /\ Len(pings) <= PingQueueSize
  /\ typed \in 0 .. MaxOwn
  /\ mistaken \in 0 .. MaxOwn + MaxMsgs

Stays(t) == Cardinality({i \in DOMAIN buf[t] : buf[t][i].stay})

\* The queued messages that must not end the away mode are at most as many as the counter
\* shows and other lines, typed or queued without StayAfk, have used up of it: the counter
\* alone may well be lower than the messages it was raised for.
IgnoreCoversQueue == Stays("all") + Stays("team") <= ignore + mistaken

\* A message queued with StayAfk ends the away mode as a typed line does only if another line
\* was counted in the place of such a message before: overflows, messages sent while the player
\* is there and changes between the two only leave the counter too high.
BackByMistakeOnly == last.back # {} => mistaken > 0

\* Each buffer sends in the order of arrival, and what it still holds is newer than what it
\* sent and in order, also when messages overflow or a spam filter reply and an away note are
\* queued for one message.
SentInOrder ==
  \A t \in Teams :
    /\ \A i \in DOMAIN buf[t] : said[t] <= buf[t][i].id
    /\ \A i \in 1 .. Len(buf[t]) - 1 : buf[t][i].id <= buf[t][i + 1].id

\* The reply goes to the newest ping there is an answer to: every ping that is passed over was
\* newer, and none that is still on the stack is.
RepliesToNewest ==
  last.answered # 0 =>
    /\ \A p \in last.passed : p > last.answered
    /\ \A i \in DOMAIN pings : pings[i].id < last.answered

\* The two buffers run empty in the end: what was queued is sent, or has made room for newer
\* messages.
BufferDrains == <>[](\A t \in Teams : buf[t] = <<>>)

\* A message queued with StayAfk never ends the away mode as a line the player types does: its
\* comment in chathelper.h says that it does not deactivate afk mode.
StayNeverReturns == last.back = {}

=============================================================================
