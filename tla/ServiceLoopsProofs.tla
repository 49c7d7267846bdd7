--------------------------- MODULE ServiceLoopsProofs ---------------------------
(***************************************************************************)
(* What modules KafkaFake and ServiceLoops claim of every step, for any    *)
(* number of callers and messages, any capacity of the feed and any number *)
(* of requests.  The consumer commits in order because no message is ever  *)
(* accepted twice, so that a message has one place among those taken.      *)
(***************************************************************************)
EXTENDS ServiceLoops, TLAPS

-------------------------------------------------------------------------------
(* The service.                                                            *)

\* When Shutdown has returned no handler, no run of the anchor job and no request
\* that was given its five seconds is under way (Server.Shutdown, Server.Run).
THEOREM NothingIsCutOffInvariance == ServiceSpec => []NothingIsCutOff
<1>1. ServiceInit => NothingIsCutOff
  <2> SUFFICES ASSUME ServiceInit PROVE NothingIsCutOff
    OBVIOUS
  <2> USE DEF ServiceInit, FakeInit
  <2>1. ServiceTypeOK
    <3>1. requests \in 0..MaxRequests BY RequestsAssumption
    <3>2. timedOut \in BOOLEAN /\ exited \in BOOLEAN OBVIOUS
    <3> QED BY <3>1, <3>2 DEF ServiceTypeOK
  <2>2. exited = FALSE /\ loop = "running" /\ run = "serving" OBVIOUS
  <2> QED BY <2>1, <2>2 DEF NothingIsCutOff
<1>2. NothingIsCutOff /\ [ServiceNext]_serviceVars => NothingIsCutOff'
  <2> SUFFICES ASSUME NothingIsCutOff, [ServiceNext]_serviceVars PROVE NothingIsCutOff'
    OBVIOUS
  <2> USE DEF NothingIsCutOff, ServiceTypeOK
  <2>1. ASSUME NEW c \in Callers, ConsumerDo(Enqueue(c)) PROVE NothingIsCutOff'
    BY <2>1 DEF ConsumerDo, serverVars, Enqueue, EnqueueChecks, EnqueueSends,
       EnqueueFindsFeedFull, EnqueuePanics
  <2>2. CASE ConsumerDo(Receive)
    BY <2>2 DEF ConsumerDo, serverVars, Receive, AtSelect
  <2>3. CASE ConsumerDo(HandlerEnds)
    BY <2>3 DEF ConsumerDo, serverVars, HandlerEnds, HandlerReturns, HandlerFails
  <2>4. CASE ConsumerDo(EndOfFeed) \/ ConsumerDo(SeeCancel)
    BY <2>4 DEF ConsumerDo, serverVars, EndOfFeed, SeeCancel, AtSelect
  <2>5. CASE ConsumerDo(Poll) \/ ConsumerDo(Stop)
    BY <2>5 DEF ConsumerDo, serverVars, Poll, Stop
  <2>6. CASE ServerDo(Tick) \/ ServerDo(AnchorReturns) \/ ServerDo(AnchorSeesCancel)
    BY <2>6 DEF ServerDo, fakeVars, Tick, AnchorReturns, AnchorSeesCancel
  <2>7. CASE ServerDo(RequestComes) \/ ServerDo(RequestEnds)
    BY <2>7, RequestsAssumption DEF ServerDo, fakeVars, RequestComes, RequestEnds
  <2>8. CASE ServerDo(RequestsDrained) \/ ServerDo(RequestsTimeOut)
    <3>1. /\ run = "draining" /\ run' = "waiting"
          /\ UNCHANGED <<exited, anchor, requests, loop, hand>>
      BY <2>8 DEF ServerDo, fakeVars, RequestsDrained, RequestsTimeOut
    <3>2. (requests = 0 /\ timedOut' = timedOut) \/ timedOut' = TRUE
      BY <2>8 DEF ServerDo, RequestsDrained, RequestsTimeOut
    <3> QED BY <3>1, <3>2
  <2>9. CASE ServerDo(LoopsEnded) \/ ServerDo(ListenFails)
    BY <2>9 DEF ServerDo, fakeVars, LoopsEnded, ListenFails
  <2>10. CASE SignalComes
    BY <2>10 DEF SignalComes, Cancel
  <2>12. CASE Exit
    <3>1. /\ run \in {"returned", "failed"} /\ exited' = TRUE
          /\ UNCHANGED <<loop, hand, run, anchor, requests, timedOut>>
      BY <2>12 DEF Exit, fakeVars
    <3> QED BY <3>1
  <2>11. CASE UNCHANGED serviceVars
    BY <2>11 DEF serviceVars, serverVars, fakeVars
  <2> QED BY <2>1, <2>2, <2>3, <2>4, <2>5, <2>6, <2>7, <2>8, <2>9, <2>10, <2>11, <2>12 DEF ServiceNext
<1> QED BY <1>1, <1>2, PTL DEF ServiceSpec

-------------------------------------------------------------------------------
(* The in-memory consumer.                                                 *)

\* The message at the head of the feed moves to the end of what was taken.
LEMMA TakeKeepsOrder ==
    ASSUME NEW S, NEW t \in Seq(S), NEW f \in Seq(S), f # <<>>
    PROVE  /\ Append(t, Head(f)) \o Tail(f) = t \o f
           /\ Tail(f) \in Seq(S) /\ Head(f) \in S /\ Len(Tail(f)) = Len(f) - 1
OBVIOUS

\* Enqueue keeps the invariant: before the send, and with the send.
LEMMA EnqueueStep ==
    ASSUME NothingIsLost, NEW c \in Callers, Enqueue(c)
    PROVE  NothingIsLost'
<1> USE FakeAssumption DEF NothingIsLost, FakeTypeOK
<1>1. CASE \E m \in Messages : EnqueueChecks(c, m)
  BY <1>1 DEF EnqueueChecks, historyVars
<1>2. CASE EnqueueSends(c)
  <2>1. sending[c] \in Messages
    BY <1>2 DEF EnqueueSends
  <2>2. /\ feed' \in Seq(Messages) /\ Len(feed') <= Capacity
        /\ accepted' = taken' \o feed' /\ accepted' \in Seq(Messages)
    <3>1. /\ feed' = Append(feed, sending[c]) /\ accepted' = Append(accepted, sending[c])
          /\ taken' = taken /\ Len(feed) < Capacity
      BY <1>2 DEF EnqueueSends
    <3>2. /\ Append(taken \o feed, sending[c]) = taken \o Append(feed, sending[c])
          /\ Append(feed, sending[c]) \in Seq(Messages)
          /\ Len(Append(feed, sending[c])) = Len(feed) + 1
      <4>1. taken \in Seq(Messages) /\ feed \in Seq(Messages) OBVIOUS
      <4> DEFINE m == sending[c]
      <4>2. m \in Messages BY <2>1
      <4> HIDE DEF m
      <4>3. /\ Append(taken \o feed, m) = taken \o Append(feed, m)
            /\ Append(feed, m) \in Seq(Messages) /\ Len(Append(feed, m)) = Len(feed) + 1
        BY ONLY <4>1, <4>2
      <4> QED BY ONLY <4>3 DEF m
    <3>3. Append(accepted, sending[c]) \in Seq(Messages) /\ Len(feed) \in Nat
      BY <2>1
    <3> QED BY <3>1, <3>2, <3>3
  <2> QED BY <1>2, <2>2 DEF EnqueueSends
<1>3. CASE EnqueueFindsFeedFull(c)
  BY <1>3 DEF EnqueueFindsFeedFull, historyVars
<1>4. CASE EnqueuePanics(c)
  BY <1>4 DEF EnqueuePanics, historyVars
<1> QED BY <1>1, <1>2, <1>3, <1>4 DEF Enqueue

\* Run keeps it, and so does a test that polls.
LEMMA ConsumerStep ==
    ASSUME NothingIsLost, Receive \/ HandlerEnds \/ EndOfFeed \/ SeeCancel \/ Poll
    PROVE  NothingIsLost'
<1> USE FakeAssumption DEF NothingIsLost, FakeTypeOK
<1>1. ASSUME Take
      PROVE  /\ feed' \in Seq(Messages) /\ Len(feed') <= Capacity
             /\ taken' \in Seq(Messages) /\ accepted = taken' \o feed'
             /\ Head(feed) \in Messages
  BY <1>1, TakeKeepsOrder DEF Take
<1>2. CASE Receive
  BY <1>1, <1>2 DEF Receive
<1>3. CASE Poll
  BY <1>1, <1>3 DEF Poll
<1>4. CASE HandlerReturns
  BY <1>4 DEF HandlerReturns, historyVars
<1>5. CASE HandlerFails
  BY <1>5 DEF HandlerFails
<1>6. CASE EndOfFeed \/ SeeCancel
  <2>1. /\ UNCHANGED <<feed, stopped, sending, hand, committed, cancelled, panicked>>
        /\ UNCHANGED <<accepted, taken, uncommitted>> /\ loop' = "ended"
    BY <1>6 DEF EndOfFeed, SeeCancel, historyVars
  <2> QED BY <2>1
<1> QED BY <1>2, <1>3, <1>4, <1>5, <1>6 DEF HandlerEnds

\* No message that Enqueue accepted is lost or taken twice, and none overtakes
\* another, whenever Stop closes the channel and the context is cancelled.
THEOREM NothingIsLostInvariance == ServiceSpec => []NothingIsLost
<1>1. ServiceInit => NothingIsLost
  <2> SUFFICES ASSUME ServiceInit PROVE NothingIsLost
    OBVIOUS
  <2> USE DEF ServiceInit, FakeInit
  <2>1. /\ feed \in Seq(Messages) /\ accepted \in Seq(Messages) /\ taken \in Seq(Messages)
        /\ committed \in Seq(Messages) /\ accepted = taken \o feed
        /\ Len(feed) <= Capacity
    BY FakeAssumption
  <2>2. /\ stopped \in BOOLEAN /\ cancelled \in BOOLEAN /\ panicked \in BOOLEAN
        /\ panicked => stopped
    OBVIOUS
  <2>3. /\ hand \in Messages \cup {None} /\ loop \in {"running", "ended"}
        /\ sending \in [Callers -> Messages \cup {None}] /\ uncommitted \subseteq Messages
    OBVIOUS
  <2> QED BY <2>1, <2>2, <2>3 DEF NothingIsLost, FakeTypeOK
<1>2. NothingIsLost /\ [ServiceNext]_serviceVars => NothingIsLost'
  <2> SUFFICES ASSUME NothingIsLost, [ServiceNext]_serviceVars PROVE NothingIsLost'
    OBVIOUS
  <2>1. CASE Stop
    BY <2>1 DEF Stop, historyVars, NothingIsLost, FakeTypeOK
  <2>2. CASE Cancel
    BY <2>2 DEF Cancel, historyVars, NothingIsLost, FakeTypeOK
  <2>3. CASE UNCHANGED fakeVars
    BY <2>3 DEF fakeVars, NothingIsLost, FakeTypeOK
  <2> QED BY <2>1, <2>2, <2>3, EnqueueStep, ConsumerStep
          DEF ServiceNext, ConsumerDo, ServerDo, SignalComes, Exit, serviceVars
<1> QED BY <1>1, <1>2, PTL DEF ServiceSpec

-------------------------------------------------------------------------------
(* The order of the commits.                                               *)

\* Every message is accepted at most once: none that was accepted is about to be
\* sent, and no two callers are about to send the same.
SentOnce ==
    /\ \A i, j \in 1..Len(accepted) : accepted[i] = accepted[j] => i = j
    /\ \A c \in Callers : sending[c] # None =>
         /\ \A i \in 1..Len(accepted) : accepted[i] # sending[c]
         /\ \A d \in Callers : sending[d] = sending[c] => d = c

ConsumerInv == NothingIsLost /\ InOrder /\ SentOnce /\ uncommitted \subseteq ToSet(taken)

\* Appending a message.
LEMMA AppendFacts ==
    ASSUME NEW S, NEW s \in Seq(S), NEW m \in S
    PROVE  /\ Append(s, m) \in Seq(S) /\ Len(s) \in Nat
           /\ Len(Append(s, m)) = Len(s) + 1 /\ Append(s, m)[Len(s) + 1] = m
           /\ \A i \in 1..Len(s) : Append(s, m)[i] = s[i]
           /\ ToSet(Append(s, m)) = ToSet(s) \cup {m}
<1>1. /\ Append(s, m) \in Seq(S) /\ Len(s) \in Nat
      /\ Len(Append(s, m)) = Len(s) + 1 /\ Append(s, m)[Len(s) + 1] = m
      /\ \A i \in 1..Len(s) : Append(s, m)[i] = s[i]
  OBVIOUS
<1>2. DOMAIN s = 1..Len(s) /\ DOMAIN Append(s, m) = 1..(Len(s) + 1) BY <1>1
<1>3. ToSet(Append(s, m)) \subseteq ToSet(s) \cup {m}
  <2> SUFFICES ASSUME NEW i \in 1..(Len(s) + 1) PROVE Append(s, m)[i] \in ToSet(s) \cup {m}
    BY <1>2 DEF ToSet
  <2>1. i \in 1..Len(s) \/ i = Len(s) + 1 BY <1>1
  <2> QED BY <1>1, <1>2, <2>1 DEF ToSet
<1>4. ToSet(s) \cup {m} \subseteq ToSet(Append(s, m))
  BY <1>1, <1>2 DEF ToSet
<1> QED BY <1>1, <1>3, <1>4

\* The message at the head of the feed was not taken before.
LEMMA HeadIsNew ==
    ASSUME ConsumerInv, feed # <<>>
    PROVE  /\ Head(feed) \in Messages /\ Head(feed) \notin ToSet(taken)
           /\ Head(feed) \notin uncommitted
<1>1. /\ feed \in Seq(Messages) /\ taken \in Seq(Messages) /\ accepted = taken \o feed
      /\ Len(feed) \in Nat /\ Len(taken) \in Nat /\ Len(feed) >= 1
  BY DEF ConsumerInv, NothingIsLost, FakeTypeOK
<1>2. /\ Len(accepted) = Len(taken) + Len(feed)
      /\ accepted[Len(taken) + 1] = feed[1]
      /\ \A i \in 1..Len(taken) : accepted[i] = taken[i]
  BY <1>1
<1>3. Head(feed) = feed[1] /\ Head(feed) \in Messages BY <1>1
<1>4. \A i \in 1..Len(taken) : taken[i] # Head(feed)
  BY <1>1, <1>2, <1>3 DEF ConsumerInv, SentOnce
<1>5. DOMAIN taken = 1..Len(taken) BY <1>1
<1>6. Head(feed) \notin ToSet(taken) BY <1>4, <1>5 DEF ToSet
<1> QED BY <1>3, <1>6 DEF ConsumerInv

\* What was committed and what is in hand, as sequences and as sets.
LEMMA SentFacts ==
    ASSUME ConsumerInv
    PROVE  /\ Sent \in Seq(Messages) /\ committed \in Seq(Messages)
           /\ taken \in Seq(Messages) /\ Len(taken) \in Nat /\ Len(Sent) \in Nat
           /\ DOMAIN Sent = 1..Len(Sent) /\ DOMAIN taken = 1..Len(taken)
           /\ \A i \in 1..Len(Sent) : Sent[i] \in ToSet(taken)
           /\ \A i, j \in 1..Len(Sent) : i < j => Sent[i] # Sent[j]
<1>1. /\ committed \in Seq(Messages) /\ taken \in Seq(Messages)
      /\ hand \in Messages \cup {None}
  BY DEF ConsumerInv, NothingIsLost, FakeTypeOK
<1>2. Sent \in Seq(Messages) BY <1>1 DEF Sent
<1>3. /\ DOMAIN Sent = 1..Len(Sent) /\ DOMAIN taken = 1..Len(taken)
      /\ Len(taken) \in Nat /\ Len(Sent) \in Nat
  BY <1>1, <1>2
<1>4. \A i \in 1..Len(Sent) : Sent[i] \in ToSet(taken)
  BY <1>3 DEF ConsumerInv, InOrder, ToSet
<1>5. ASSUME NEW i \in 1..Len(Sent), NEW j \in 1..Len(Sent), i < j PROVE Sent[i] # Sent[j]
  <2> SUFFICES ASSUME Sent[i] = Sent[j] PROVE FALSE
    OBVIOUS
  <2>1. PICK m \in 1..Len(taken) : taken[m] = Sent[i] BY <1>3, <1>4 DEF ToSet
  <2>2. m < m BY <1>5, <2>1 DEF ConsumerInv, InOrder
  <2> QED BY <2>2
<1> QED BY <1>1, <1>2, <1>3, <1>4, <1>5

\* Accepting a message, once.
LEMMA EnqueueKeepsSentOnce ==
    ASSUME ConsumerInv, NEW c \in Callers, Enqueue(c)
    PROVE  SentOnce'
<1>1. /\ sending \in [Callers -> Messages \cup {None}] /\ accepted \in Seq(Messages)
      /\ SentOnce
  BY DEF ConsumerInv, NothingIsLost, FakeTypeOK
<1>2. DOMAIN accepted = 1..Len(accepted) BY <1>1
<1>3. ASSUME NEW m \in Messages, EnqueueChecks(c, m) PROVE SentOnce'
  <2>1. /\ sending' = [sending EXCEPT ![c] = m] /\ accepted' = accepted
        /\ \A i \in 1..Len(accepted) : accepted[i] # m
        /\ \A d \in Callers : sending[d] # m
    BY <1>2, <1>3 DEF EnqueueChecks, historyVars, Known, ToSet
  <2> QED BY <1>1, <2>1 DEF SentOnce
<1>4. CASE EnqueueSends(c)
  <2>1. /\ sending[c] \in Messages /\ sending[c] # None
        /\ accepted' = Append(accepted, sending[c])
        /\ sending' = [sending EXCEPT ![c] = None]
    BY <1>1, <1>4 DEF EnqueueSends
  <2>2. /\ Len(accepted) \in Nat /\ Len(accepted') = Len(accepted) + 1
        /\ accepted'[Len(accepted) + 1] = sending[c]
        /\ \A i \in 1..Len(accepted) : accepted'[i] = accepted[i]
    BY <1>1, <2>1, AppendFacts
  <2>3. \A i \in 1..Len(accepted') : i \in 1..Len(accepted) \/ i = Len(accepted) + 1
    BY <2>2
  <2>4. \A i \in 1..Len(accepted) : accepted[i] # sending[c] BY <1>1, <2>1 DEF SentOnce
  <2>5. \A i, j \in 1..Len(accepted') : accepted'[i] = accepted'[j] => i = j
    BY <1>1, <2>2, <2>3, <2>4 DEF SentOnce
  <2>6. ASSUME NEW d \in Callers, sending'[d] # None
        PROVE  /\ \A i \in 1..Len(accepted') : accepted'[i] # sending'[d]
               /\ \A e \in Callers : sending'[e] = sending'[d] => e = d
    <3>1. d # c /\ sending'[d] = sending[d] BY <1>1, <2>1, <2>6
    <3>2. sending[d] # sending[c] BY <1>1, <2>1, <3>1 DEF SentOnce
    <3>3. /\ \A i \in 1..Len(accepted) : accepted[i] # sending[d]
          /\ \A e \in Callers : sending[e] = sending[d] => e = d
      BY <1>1, <2>6, <3>1 DEF SentOnce
    <3>4. \A i \in 1..Len(accepted') : accepted'[i] # sending[d]
      BY <2>2, <2>3, <3>2, <3>3
    <3>5. \A e \in Callers : sending'[e] = sending[d] => e = d
      BY <1>1, <2>1, <2>6, <3>1, <3>3
    <3> QED BY <3>1, <3>4, <3>5
  <2> QED BY <2>5, <2>6 DEF SentOnce
<1>5. CASE EnqueueFindsFeedFull(c)
  BY <1>1, <1>5 DEF EnqueueFindsFeedFull, historyVars, SentOnce
<1>6. CASE EnqueuePanics(c)
  BY <1>1, <1>6 DEF EnqueuePanics, historyVars, SentOnce
<1> QED BY <1>3, <1>4, <1>5, <1>6 DEF Enqueue

\* A message taken into the hand is the last of those taken, and the last to be
\* committed.
LEMMA ReceiveKeepsOrder ==
    ASSUME ConsumerInv, Receive
    PROVE  InOrder' /\ uncommitted' \subseteq ToSet(taken')
<1> DEFINE h == Head(feed)
<1>1. /\ h \in Messages /\ h \notin ToSet(taken) /\ h \notin uncommitted
      /\ hand = None /\ hand' = h /\ taken' = Append(taken, h)
      /\ UNCHANGED <<committed, uncommitted>>
  BY HeadIsNew DEF Receive, Take, AtSelect
<1> HIDE DEF h
<1>2. Sent = committed /\ Sent' = Append(Sent, h)
  BY <1>1, FakeAssumption DEF Sent
<1>3. /\ Sent \in Seq(Messages) /\ taken \in Seq(Messages)
      /\ DOMAIN Sent = 1..Len(Sent) /\ DOMAIN taken = 1..Len(taken)
      /\ \A i \in 1..Len(Sent) : Sent[i] \in ToSet(taken)
  BY SentFacts
<1>4. /\ Len(Sent) \in Nat /\ Len(Sent') = Len(Sent) + 1 /\ Sent'[Len(Sent) + 1] = h
      /\ \A i \in 1..Len(Sent) : Sent'[i] = Sent[i]
      /\ ToSet(Sent') = ToSet(Sent) \cup {h}
  BY <1>1, <1>2, <1>3, AppendFacts
<1>5. /\ Len(taken) \in Nat /\ Len(taken') = Len(taken) + 1 /\ taken'[Len(taken) + 1] = h
      /\ \A i \in 1..Len(taken) : taken'[i] = taken[i]
      /\ ToSet(taken') = ToSet(taken) \cup {h}
  BY <1>1, <1>3, AppendFacts
<1>6. ToSet(Sent') = ToSet(taken') \ uncommitted'
  BY <1>1, <1>4, <1>5 DEF ConsumerInv, InOrder
<1>7. ASSUME NEW i \in 1..Len(Sent'), NEW j \in 1..Len(Sent'),
             NEW m \in 1..Len(taken'), NEW n \in 1..Len(taken'),
             i < j, taken'[m] = Sent'[i], taken'[n] = Sent'[j]
      PROVE  m < n
  <2>1. i \in 1..Len(Sent) /\ Sent'[i] = Sent[i] /\ Sent[i] # h
    BY <1>1, <1>3, <1>4, <1>7
  <2>2. m \in 1..Len(taken) /\ taken'[m] = taken[m] BY <1>5, <1>7, <2>1
  <2>3. CASE j = Len(Sent) + 1
    <3>1. n \notin 1..Len(taken)
      BY <1>1, <1>3, <1>4, <1>5, <1>7, <2>3 DEF ToSet
    <3> QED BY <1>5, <2>2, <3>1
  <2>4. CASE j \in 1..Len(Sent)
    <3>1. Sent'[j] = Sent[j] /\ Sent[j] # h BY <1>1, <1>3, <1>4, <2>4
    <3>2. n \in 1..Len(taken) /\ taken'[n] = taken[n] BY <1>5, <1>7, <3>1
    <3> QED BY <1>7, <2>1, <2>2, <2>4, <3>1, <3>2 DEF ConsumerInv, InOrder
  <2> QED BY <1>4, <2>3, <2>4
<1>8. uncommitted' \subseteq ToSet(taken') BY <1>1, <1>5 DEF ConsumerInv
<1> QED BY <1>6, <1>7, <1>8 DEF InOrder

\* A message that a test takes is set aside; what is committed keeps its order.
LEMMA PollKeepsOrder ==
    ASSUME ConsumerInv, Poll
    PROVE  InOrder' /\ uncommitted' \subseteq ToSet(taken')
<1> DEFINE h == Head(feed)
<1>1. /\ h \in Messages /\ h \notin ToSet(taken) /\ h \notin uncommitted
      /\ taken' = Append(taken, h) /\ uncommitted' = uncommitted \cup {h}
      /\ UNCHANGED <<committed, hand>>
  BY HeadIsNew DEF Poll, Take
<1> HIDE DEF h
<1>2. Sent' = Sent BY <1>1 DEF Sent
<1>3. /\ taken \in Seq(Messages)
      /\ DOMAIN Sent = 1..Len(Sent) /\ DOMAIN taken = 1..Len(taken)
      /\ \A i \in 1..Len(Sent) : Sent[i] \in ToSet(taken)
  BY SentFacts
<1>4. /\ Len(taken) \in Nat /\ Len(taken') = Len(taken) + 1 /\ taken'[Len(taken) + 1] = h
      /\ \A i \in 1..Len(taken) : taken'[i] = taken[i]
      /\ ToSet(taken') = ToSet(taken) \cup {h}
  BY <1>1, <1>3, AppendFacts
<1>5. ToSet(Sent') = ToSet(taken') \ uncommitted'
  BY <1>1, <1>2, <1>4 DEF ConsumerInv, InOrder
<1>6. ASSUME NEW i \in 1..Len(Sent), NEW n \in 1..Len(taken'), taken'[n] = Sent[i]
      PROVE  n \in 1..Len(taken) /\ taken[n] = Sent[i]
  BY <1>1, <1>3, <1>4, <1>6
<1>7. \A i, j \in 1..Len(Sent'), m, n \in 1..Len(taken') :
        i < j /\ taken'[m] = Sent'[i] /\ taken'[n] = Sent'[j] => m < n
  BY <1>2, <1>6 DEF ConsumerInv, InOrder
<1>8. uncommitted' \subseteq ToSet(taken') BY <1>1, <1>4 DEF ConsumerInv
<1> QED BY <1>5, <1>7, <1>8 DEF InOrder

\* The message in hand is committed, or set aside when its handler fails.
LEMMA HandlerKeepsOrder ==
    ASSUME ConsumerInv, HandlerEnds
    PROVE  InOrder' /\ uncommitted' \subseteq ToSet(taken')
<1>1. hand # None /\ hand' = None /\ UNCHANGED taken
  BY DEF HandlerEnds, HandlerReturns, HandlerFails, historyVars
<1>2. CASE HandlerReturns
  <2>1. Sent' = Sent /\ uncommitted' = uncommitted
    BY <1>1, <1>2 DEF HandlerReturns, historyVars, Sent
  <2> QED BY <1>1, <2>1 DEF ConsumerInv, InOrder
<1>3. CASE HandlerFails
  <2>1. /\ Sent = Append(committed, hand) /\ Sent' = committed
        /\ uncommitted' = uncommitted \cup {hand} /\ hand \in Messages
    BY <1>1, <1>3 DEF HandlerFails, Sent, ConsumerInv, NothingIsLost, FakeTypeOK
  <2>2. /\ committed \in Seq(Messages)
        /\ \A i, j \in 1..Len(Sent) : i < j => Sent[i] # Sent[j]
    BY SentFacts
  <2>3. /\ Len(committed) \in Nat /\ Len(Sent) = Len(committed) + 1
        /\ Sent[Len(committed) + 1] = hand
        /\ \A i \in 1..Len(committed) : Sent[i] = committed[i]
        /\ ToSet(Sent) = ToSet(committed) \cup {hand}
    BY <2>1, <2>2, AppendFacts
  <2>4. hand \notin ToSet(committed)
    <3>1. DOMAIN committed = 1..Len(committed) BY <2>2
    <3>2. \A i \in 1..Len(committed) : committed[i] # hand BY <2>2, <2>3
    <3> QED BY <3>1, <3>2 DEF ToSet
  <2>5. ToSet(Sent') = ToSet(taken') \ uncommitted'
    BY <1>1, <2>1, <2>3, <2>4 DEF ConsumerInv, InOrder
  <2>6. \A i, j \in 1..Len(Sent'), m, n \in 1..Len(taken') :
          i < j /\ taken'[m] = Sent'[i] /\ taken'[n] = Sent'[j] => m < n
    BY <1>1, <2>1, <2>3 DEF ConsumerInv, InOrder
  <2>7. hand \in ToSet(taken) BY <2>3 DEF ConsumerInv, InOrder
  <2> QED BY <1>1, <2>1, <2>5, <2>6, <2>7 DEF ConsumerInv, InOrder
<1> QED BY <1>2, <1>3 DEF HandlerEnds

\* Whatever callers, Run, Stop, the context and tests do in whatever order, messages
\* are committed in the order in which they were accepted, and each at most once.
THEOREM NothingVanishesInvariance == ServiceSpec => []NothingVanishes
<1>1. ServiceInit => InOrder /\ SentOnce /\ uncommitted \subseteq ToSet(taken)
  <2> SUFFICES ASSUME ServiceInit PROVE InOrder /\ SentOnce /\ uncommitted \subseteq ToSet(taken)
    OBVIOUS
  <2>1. /\ Sent = <<>> /\ taken = <<>> /\ accepted = <<>> /\ uncommitted = {}
        /\ sending = [c \in Callers |-> None]
    BY DEF ServiceInit, FakeInit, Sent
  <2> QED BY <2>1 DEF InOrder, SentOnce, ToSet
<1>2. ConsumerInv /\ NothingIsLost' /\ [ServiceNext]_serviceVars => ConsumerInv'
  <2> SUFFICES ASSUME ConsumerInv, NothingIsLost', [ServiceNext]_serviceVars
               PROVE  InOrder' /\ SentOnce' /\ uncommitted' \subseteq ToSet(taken')
    BY DEF ConsumerInv
  <2>1. ASSUME UNCHANGED <<committed, hand, taken, uncommitted>>
        PROVE  InOrder' /\ uncommitted' \subseteq ToSet(taken')
    BY <2>1 DEF ConsumerInv, InOrder, Sent
  <2>2. ASSUME UNCHANGED <<accepted, sending>> PROVE SentOnce'
    BY <2>2 DEF ConsumerInv, SentOnce
  <2>3. ASSUME NEW c \in Callers, Enqueue(c)
        PROVE  InOrder' /\ SentOnce' /\ uncommitted' \subseteq ToSet(taken')
    <3>1. UNCHANGED <<committed, hand, taken, uncommitted>>
      BY <2>3 DEF Enqueue, EnqueueChecks, EnqueueSends, EnqueueFindsFeedFull, EnqueuePanics,
         historyVars
    <3> QED BY <2>1, <2>3, <3>1, EnqueueKeepsSentOnce
  <2>4. CASE Receive BY <2>2, <2>4, ReceiveKeepsOrder DEF Receive
  <2>5. CASE Poll BY <2>2, <2>5, PollKeepsOrder DEF Poll
  <2>6. CASE HandlerEnds
    BY <2>2, <2>6, HandlerKeepsOrder
       DEF HandlerEnds, HandlerReturns, HandlerFails, historyVars
  <2>7. CASE EndOfFeed \/ SeeCancel \/ Stop \/ Cancel
    <3>1. UNCHANGED <<committed, hand, taken, uncommitted, accepted, sending>>
      BY <2>7 DEF EndOfFeed, SeeCancel, Stop, Cancel, historyVars
    <3> QED BY <2>1, <2>2, <3>1
  <2>8. CASE UNCHANGED fakeVars
    BY <2>1, <2>2, <2>8 DEF fakeVars
  <2> QED BY <2>3, <2>4, <2>5, <2>6, <2>7, <2>8
          DEF ServiceNext, ConsumerDo, ServerDo, SignalComes, Exit, serviceVars
<1>3. ConsumerInv => NothingVanishes BY DEF ConsumerInv, NothingVanishes
<1> QED BY <1>1, <1>2, <1>3, NothingIsLostInvariance, PTL DEF ServiceSpec, ConsumerInv
===============================================================================
