-------------------------------- MODULE Chat --------------------------------
(***************************************************************************)
(* The chat of the client: the chat helper, ChatHelper, with the messages  *)
(* it queues in its two buffers, and CChat, ChatQueue, with the lines of   *)
(* the player that wait.  They share no state: what the helper sends is a  *)
(* line of another component for CChat, which only moves the second within *)
(* which nothing else is sent.                                             *)
(***************************************************************************)
EXTENDS Integers

CONSTANTS
  \* ChatHelper
  BufferLen, PingQueueSize, AwakeAt, ReturnAt, MaxMsgs, MaxOwn, AutoReply, SpamReply,
  \* ChatQueue
  MaxWaiting,  \* lines that can wait
  MaxLines     \* bound: lines that are typed

\* A full buffer has an oldest message; every line of the chat is an activity.
ASSUME ChatAssumption ==
  /\ BufferLen \in Nat \ {0} /\ PingQueueSize \in Nat \ {0} /\ ReturnAt \in Nat \ {0}
  /\ AwakeAt \in Nat /\ MaxMsgs \in Nat /\ MaxOwn \in Nat
  /\ MaxWaiting \in Nat /\ MaxLines \in Nat
  /\ AutoReply \in BOOLEAN /\ SpamReply \in BOOLEAN

VARIABLES
  \* ChatHelper
  afk, activity, ignore, buf, ready, pings, arrived, ownTyped, saidLast,
  mistaken, lastStep,
  \* ChatQueue
  history, pending, recent, typed, sent, overtook

helperVars ==
  <<afk, activity, ignore, buf, ready, pings, arrived, ownTyped, saidLast,
    mistaken, lastStep>>
queueVars == <<history, pending, recent, typed, sent, overtook>>

Helper == INSTANCE ChatHelper WITH
  typed <- ownTyped, said <- saidLast, last <- lastStep

Queue == INSTANCE ChatQueue WITH MaxPending <- MaxWaiting

ChatInit == Helper!Init /\ Queue!Init

\* Whatever the two do, one after the other or in one step, each follows its module.
ChatSpec == Helper!Spec /\ Queue!Spec

\* The messages of a buffer are sent in the order they were queued, and the newest
\* ping is answered first.  A note ends the away mode only after another line was
\* counted in the place of one.  The counter of waiting lines always names an entry
\* of the history, and the typed lines are sent in order, each once, until one is
\* sent at once while others wait; nothing is said of the lines after that.
ChatInOrder ==
  /\ Helper!TypeOK /\ Helper!SentInOrder /\ Helper!RepliesToNewest
  /\ Helper!IgnoreCoversQueue /\ Helper!BackByMistakeOnly
  /\ Queue!TypeOK /\ Queue!EntriesCounted /\ Queue!SentUntilOvertaken
=============================================================================
