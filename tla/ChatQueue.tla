------------------------------ MODULE ChatQueue ------------------------------
(***************************************************************************)
(* The lines a player types in the chat: CChat sends one at once when the  *)
(* last was sent more than a second ago and keeps up to three for later.   *)
(* What waits is not a queue of its own: m_PendingChatCounter counts the   *)
(* newest entries of the history, and OnRender takes the oldest of them.   *)
(***************************************************************************)
EXTENDS Naturals, Sequences, SequencesExt

CONSTANTS
  MaxPending,  \* lines that can wait
  MaxLines     \* bound: lines that are typed

VARIABLES
  history,  \* m_History: the lines that were accepted
  pending,  \* m_PendingChatCounter
  recent,   \* a line was sent less than a second ago
  typed,    \* lines typed so far, which numbers them
  sent,     \* history variable: the lines that were sent
  overtook  \* history variable: a line was sent at once while others waited

vars == <<history, pending, recent, typed, sent, overtook>>

Init ==
  /\ history = <<>>
  /\ pending = 0
  /\ recent = FALSE
  /\ typed = 0
  /\ sent = <<>>
  /\ overtook = FALSE

Type == typed < MaxLines /\ typed' = typed + 1

\* SendChatQueued, when the line can be sent at once.
SendNow ==
  /\ ~recent
  /\ Type
  /\ history' = Append(history, typed')
  /\ sent' = Append(sent, typed')
  /\ recent' = TRUE
  /\ overtook' = (overtook \/ pending > 0)
  /\ UNCHANGED pending

\* Mutant of SendLater: one line too many can wait.
SendLaterOneMore ==
  /\ recent
  /\ pending <= MaxPending
  /\ Type
  /\ history' = Append(history, typed')
  /\ pending' = pending + 1
  /\ UNCHANGED <<recent, sent, overtook>>

\* Mutant of SendLater: the line waits without an entry in the history.
SendLaterWithoutEntry ==
  /\ recent
  /\ pending < MaxPending
  /\ Type
  /\ pending' = pending + 1
  /\ UNCHANGED <<history, recent, sent, overtook>>

SendLater ==
  /\ recent
  /\ pending < MaxPending
  /\ Type
  /\ history' = Append(history, typed')
  /\ pending' = pending + 1
  /\ UNCHANGED <<recent, sent, overtook>>

Refuse ==
  /\ recent
  /\ pending >= MaxPending
  /\ Type
  /\ UNCHANGED <<history, pending, recent, sent, overtook>>

\* Mutant of SendPending: the last line that waits is left.
SendPendingButOne ==
  /\ ~recent
  /\ pending > 1
  /\ sent' = Append(sent, history[Len(history) - pending + 1])
  /\ pending' = pending - 1
  /\ recent' = TRUE
  /\ UNCHANGED <<history, typed, overtook>>

\* OnRender: the entry that stands m_PendingChatCounter from the end.
SendPending ==
  /\ ~recent
  /\ pending > 0
  /\ sent' = Append(sent, history[Len(history) - pending + 1])
  /\ pending' = pending - 1
  /\ recent' = TRUE
  /\ UNCHANGED <<history, typed, overtook>>

\* SendChat called by another component, the chat helper for one.
SendByOther ==
  /\ recent' = TRUE
  /\ UNCHANGED <<history, pending, typed, sent, overtook>>

SecondPasses ==
  /\ recent
  /\ recent' = FALSE
  /\ UNCHANGED <<history, pending, typed, sent, overtook>>

Next == SendNow \/ SendLater \/ Refuse \/ SendPending \/ SendByOther \/ SecondPasses

Spec == Init /\ [][Next]_vars

\* Frames are rendered and the second passes; other components do not send all the time.
FairSpec == Spec /\ WF_vars(SecondPasses) /\ SF_vars(SendPending)

-----------------------------------------------------------------------------
\* Type invariant: what the variables range over.
TypeOK ==
  /\ history \in Seq(1 .. MaxLines)
  /\ pending \in 0 .. MaxPending
  /\ recent \in BOOLEAN
  /\ typed \in 0 .. MaxLines
  /\ sent \in Seq(1 .. MaxLines)
  /\ overtook \in BOOLEAN

\* As many lines are sent or waiting as were accepted, so the counter always names an entry
\* of the history, also after a line that was sent at once has moved the entries it counts.
\* Which lines they are this does not say.
EntriesCounted == Len(sent) + pending = Len(history)

\* Until a line is sent at once while others wait, the lines are sent in the order they were
\* typed, each once, and the entries the counter names are the ones that wait.
SentUntilOvertaken == ~overtook => sent = SubSeq(history, 1, Len(history) - pending)

\* The counter of waiting lines runs to 0 in the end, also when other components keep sending
\* in between; unless a line overtook others, every accepted line has been sent then.
PendingDrains == <>[](pending = 0 /\ (overtook \/ sent = history))

\* The lines that were accepted are sent in their order, each once: OnRender says it sends
\* the pending chat messages.
SentAsTyped == IsPrefix(sent, history)

=============================================================================
