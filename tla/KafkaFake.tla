------------------------------- MODULE KafkaFake -------------------------------
(***************************************************************************)
(* The in-memory consumer, which the service runs on when no broker is     *)
(* configured (DEV_MODE): callers enqueue messages into a buffered channel, *)
(* Run hands them to the handler one by one, Stop closes the channel.      *)
(* Enqueue looks whether the consumer is stopped under the lock, and sends *)
(* after it has given the lock back.                                       *)
(***************************************************************************)
EXTENDS Sequences, SequencesExt, Naturals

CONSTANTS Callers,       \* goroutines that enqueue
          Messages,      \* by offset, each enqueued at most once
          Capacity,      \* of the feed
          None           \* no message

ASSUME FakeAssumption == Capacity \in Nat \ {0} /\ None \notin Messages

VARIABLES feed,          \* the channel
          stopped,       \* Stop was called: the channel is closed
          sending,       \* per caller, the message it is about to send
          hand,          \* the message the handler has
          loop,          \* "running" or "ended"
          committed,     \* the offsets committed, in order
          cancelled,     \* the context of Run is cancelled
          panicked,      \* a send on the closed channel
          \* History: what was sent to the channel and what was taken from it, in
          \* order, and what was taken by a test or refused by its handler.
          accepted, taken, uncommitted

fakeVars == <<feed, stopped, sending, hand, loop, committed, cancelled, panicked,
              accepted, taken, uncommitted>>
historyVars == <<accepted, taken, uncommitted>>

-------------------------------------------------------------------------------
Known == ToSet(accepted) \cup {sending[c] : c \in Callers}

\* Enqueue, up to the unlock.  A stopped consumer answers with an error.
EnqueueChecks(c, m) ==
    /\ sending[c] = None /\ m \notin Known /\ ~stopped
    /\ sending' = [sending EXCEPT ![c] = m]
    /\ UNCHANGED <<feed, stopped, hand, loop, committed, cancelled, panicked, historyVars>>

\* The send.  It does not wait: a full feed is an error.
EnqueueSends(c) ==
    /\ sending[c] # None /\ ~stopped /\ Len(feed) < Capacity
    /\ feed' = Append(feed, sending[c])
    /\ accepted' = Append(accepted, sending[c])
    /\ sending' = [sending EXCEPT ![c] = None]
    /\ UNCHANGED <<stopped, hand, loop, committed, cancelled, panicked, taken, uncommitted>>

EnqueueFindsFeedFull(c) ==
    /\ sending[c] # None /\ ~stopped /\ Len(feed) = Capacity
    /\ sending' = [sending EXCEPT ![c] = None]
    /\ UNCHANGED <<feed, stopped, hand, loop, committed, cancelled, panicked, historyVars>>

\* Stop came in between.
EnqueuePanics(c) ==
    /\ sending[c] # None /\ stopped
    /\ panicked' = TRUE
    /\ UNCHANGED <<feed, stopped, sending, hand, loop, committed, cancelled, historyVars>>

Take ==
    /\ feed # <<>>
    /\ feed' = Tail(feed)
    /\ taken' = Append(taken, Head(feed))

AtSelect == loop = "running" /\ hand = None

\* The select of Run: a message is there.  If the context is cancelled as well,
\* either may be chosen.
Receive ==
    /\ AtSelect /\ Take
    /\ hand' = Head(feed)
    /\ UNCHANGED <<stopped, sending, loop, committed, cancelled, panicked, accepted, uncommitted>>

\* Faulty variant of EndOfFeed: a closed channel is left with what is in it.
EndOnceStopped ==
    /\ AtSelect /\ stopped
    /\ loop' = "ended"
    /\ UNCHANGED <<feed, stopped, sending, hand, committed, cancelled, panicked, historyVars>>

\* The channel is closed and drained.
EndOfFeed ==
    /\ AtSelect /\ stopped /\ feed = <<>>
    /\ loop' = "ended"
    /\ UNCHANGED <<feed, stopped, sending, hand, committed, cancelled, panicked, historyVars>>

SeeCancel ==
    /\ AtSelect /\ cancelled
    /\ loop' = "ended"
    /\ UNCHANGED <<feed, stopped, sending, hand, committed, cancelled, panicked, historyVars>>

\* The handler returns nil.
HandlerReturns ==
    /\ hand # None
    /\ committed' = Append(committed, hand)
    /\ hand' = None
    /\ UNCHANGED <<feed, stopped, sending, loop, cancelled, panicked, historyVars>>

\* The handler returns an error.  The message is not committed, and not delivered
\* again either.  The service's handler never does this.
HandlerFails ==
    /\ hand # None
    /\ uncommitted' = uncommitted \cup {hand}
    /\ hand' = None
    /\ UNCHANGED <<feed, stopped, sending, loop, committed, cancelled, panicked, accepted, taken>>

\* PollFeed, with which a test takes a message past Run.
Poll ==
    /\ Take
    /\ uncommitted' = uncommitted \cup {Head(feed)}
    /\ UNCHANGED <<stopped, sending, hand, loop, committed, cancelled, panicked, accepted>>

\* Faulty variant of Stop: what is in the feed is discarded.
StopNow ==
    /\ stopped' = TRUE
    /\ feed' = <<>>
    /\ UNCHANGED <<sending, hand, loop, committed, cancelled, panicked, historyVars>>

\* Stop does not wait for Run.
Stop ==
    /\ stopped' = TRUE
    /\ UNCHANGED <<feed, sending, hand, loop, committed, cancelled, panicked, historyVars>>

Cancel ==
    /\ cancelled' = TRUE
    /\ UNCHANGED <<feed, stopped, sending, hand, loop, committed, panicked, historyVars>>

FakeInit ==
    /\ feed = <<>> /\ stopped = FALSE /\ hand = None /\ loop = "running"
    /\ sending = [c \in Callers |-> None]
    /\ committed = <<>> /\ cancelled = FALSE /\ panicked = FALSE
    /\ accepted = <<>> /\ taken = <<>> /\ uncommitted = {}

-------------------------------------------------------------------------------
FakeTypeOK ==
    /\ feed \in Seq(Messages) /\ accepted \in Seq(Messages)
    /\ taken \in Seq(Messages) /\ committed \in Seq(Messages)
    /\ Len(feed) <= Capacity
    /\ stopped \in BOOLEAN /\ cancelled \in BOOLEAN /\ panicked \in BOOLEAN
    /\ hand \in Messages \cup {None} /\ loop \in {"running", "ended"}
    /\ sending \in [Callers -> Messages \cup {None}]
    /\ uncommitted \subseteq Messages

\* Each message that Enqueue accepted is still in the feed or was taken once, in
\* the order in which it was accepted.  Inductive.
NothingIsLost ==
    /\ FakeTypeOK
    /\ accepted = taken \o feed
    /\ panicked => stopped

\* The messages that were committed, and the one that will be when the handler
\* returns: all that were taken but those set aside, in the order they were taken.
Sent == IF hand = None THEN committed ELSE Append(committed, hand)
InOrder ==
    /\ ToSet(Sent) = ToSet(taken) \ uncommitted
    /\ \A i, j \in 1..Len(Sent), m, n \in 1..Len(taken) :
         i < j /\ taken[m] = Sent[i] /\ taken[n] = Sent[j] => m < n

\* Through every interleaving of Enqueue, Stop, Run and its context no accepted
\* message is lost; what was taken is committed in the order it was accepted in,
\* unless a handler refused it; and a send panics only on a channel that Stop closed.
NothingVanishes == NothingIsLost /\ InOrder
===============================================================================
