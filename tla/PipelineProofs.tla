---------------------------- MODULE PipelineProofs ----------------------------
(***************************************************************************)
(* What module IngestPipeline claims, for any number of workers, messages  *)
(* and failures, and events of any kinds.  The argument: a message is in   *)
(* the hand of one worker from its read until its handler returns, so each *)
(* property is one of the handler's paths, and what the paths of others do *)
(* meanwhile only adds to the index, to the bucket and to the dead letters.*)
(***************************************************************************)
EXTENDS IngestPipeline, EventStoreProofs

-------------------------------------------------------------------------------
(* Messages, hands and the index.                                          *)

\* A hand holds the last message its worker read.
HandIsLastRead ==
    \A w \in Workers :
        /\ Len(read[w]) <= MaxReads
        /\ hand[w] # None => read[w] # <<>> /\ hand[w].event = read[w][Len(read[w])]

\* What all the other invariants rest on.
Basics ==
    /\ SpineInv /\ PipelineTypeOK /\ HandIsLastRead
    /\ versions \in [Ids -> Seq({"plain", "redacted"})]
    /\ faults \in Nat /\ deadLetters \subseteq Handled

\* A worker with a message in hand, and that message.
LEMMA HandFacts ==
    ASSUME Basics, NEW w \in Workers, hand[w] # None
    PROVE  /\ hand[w] \in InHand /\ hand[w].event \in Content /\ hand[w].event.id \in Ids
           /\ running[w] /\ read[w] \in Seq(Content) /\ Len(read[w]) \in 1..MaxReads
           /\ Offset(w) \in Workers \X (1..MaxReads) /\ EventOf(Offset(w)) = hand[w].event
           /\ Offset(w) \notin Handled /\ Offset(w) \notin deadLetters
           /\ Kind(w) \in Kinds
<1>1. /\ hand[w] \in InHand /\ running[w] /\ read[w] \in Seq(Content)
      /\ Len(read[w]) <= MaxReads /\ read[w] # <<>>
      /\ hand[w].event = read[w][Len(read[w])]
  BY DEF Basics, PipelineTypeOK, HandIsLastRead
<1>2. hand[w].event \in Content /\ hand[w].event.id \in Ids
  BY <1>1 DEF InHand, Content
<1>3. Len(read[w]) \in 1..MaxReads
  BY <1>1, IngestAssumption
<1>4. Offset(w) \notin Handled
  BY <1>3 DEF Handled, Offset
<1> QED BY <1>1, <1>2, <1>3, <1>4, IngestAssumption DEF Basics, Offset, EventOf, Kind

\* What an insert does: nothing, or one chained row with its columns.
LEMMA InsertRowFacts ==
    ASSUME Basics, NEW w \in Workers, hand[w] # None, InsertRow(w)
    PROVE  /\ SpineInv' /\ {col.id : col \in columns'} = {row.id : row \in events'}
           /\ \E row \in events' : row.id = hand[w].event.id
           /\ \A id : Stored(id) => Stored(id)'
           /\ events \subseteq events'
           /\ \/ UNCHANGED <<events, columns>> /\ Stored(hand[w].event.id)
              \/ /\ ~Stored(hand[w].event.id)
                 /\ events' = events \cup {Chained(hand[w].event, HeadHash)}
                 /\ columns' = columns \cup {[id |-> hand[w].event.id, ref |-> HasPayload(w),
                                              redacted |-> hand[w].redacted]}
<1> DEFINE c == hand[w].event
           new == Chained(c, HeadHash)
<1>1. c \in Content /\ SpineInv BY HandFacts DEF Basics
<1>2. CASE Stored(c.id)
  <2>1. UNCHANGED <<events, columns>> BY <1>2 DEF InsertRow, InsertChained
  <2>2. {col.id : col \in columns'} = {row.id : row \in events'}
    BY <2>1 DEF Basics, PipelineTypeOK
  <2>3. \A id : Stored(id) => Stored(id)' BY <2>1 DEF Stored
  <2> QED BY <1>1, <1>2, <2>1, <2>2, <2>3, SpineStays DEF Stored
<1>3. CASE ~Stored(c.id)
  <2>1. /\ events' = events \cup {new}
        /\ columns' = columns \cup {[id |-> c.id, ref |-> HasPayload(w),
                                     redacted |-> hand[w].redacted]}
    BY <1>3 DEF InsertRow, InsertChained
  <2>2. SpineInv' BY <1>1, <1>3, <2>1, InsertPreserves
  <2>3. HeadHash \in Digest BY <1>1, HeadFacts DEF SpineInv
  <2>4. new.id = c.id BY <1>1, <2>3, ChainedIsRow
  <2>5. {col.id : col \in columns} = {row.id : row \in events}
    BY DEF Basics, PipelineTypeOK
  <2> HIDE DEF new, c
  <2>6. {col.id : col \in columns'} = {col.id : col \in columns} \cup {c.id}
    <3> DEFINE added == [id |-> c.id, ref |-> HasPayload(w), redacted |-> hand[w].redacted]
    <3>1. added.id = c.id OBVIOUS
    <3>2. columns' = columns \cup {added} BY <2>1
    <3> HIDE DEF added
    <3> QED BY <3>1, <3>2
  <2>7. {row.id : row \in events'} = {row.id : row \in events} \cup {c.id}
    BY <2>1, <2>4
  <2>8. (\E row \in events' : row.id = c.id) /\ \A id : Stored(id) => Stored(id)'
    BY <2>1, <2>4 DEF Stored
  <2> QED BY <1>3, <2>1, <2>2, <2>5, <2>6, <2>7, <2>8 DEF new, c
<1> QED BY <1>2, <1>3

-------------------------------------------------------------------------------
(* What each kind of step does to the messages.                            *)

\* A step that leaves reads and dead letters alone, and takes no message into
\* a hand or out of one.
Quiet ==
    /\ UNCHANGED <<read, deadLetters>>
    /\ \A w \in Workers : hand'[w] = None <=> hand[w] = None

\* The handler of worker w is done with the message it had in hand.
Returned(w) ==
    /\ hand[w] # None /\ hand' = [hand EXCEPT ![w] = None]
    /\ UNCHANGED read
    /\ deadLetters' \in {deadLetters, deadLetters \cup {Offset(w)}}

\* Worker w takes its next message into its hand.
Fetched(w, c) ==
    /\ hand[w] = None /\ Len(read[w]) < MaxReads
    /\ hand' = [hand EXCEPT ![w] = [event |-> c, step |-> "decode", redacted |-> FALSE]]
    /\ read' = [read EXCEPT ![w] = Append(@, c)]
    /\ UNCHANGED deadLetters

\* A quiet step handles nothing, a fetch handles nothing, and a return handles
\* the message that was in hand; the events of messages stay what they are.
LEMMA HandledFacts ==
    ASSUME Basics, HandIsLastRead'
    PROVE  /\ Quiet => Handled' = Handled /\ \A m \in Handled : EventOf(m)' = EventOf(m)
           /\ \A w \in Workers, c \in Content : Fetched(w, c) =>
                Handled' = Handled /\ \A m \in Handled : EventOf(m)' = EventOf(m)
           /\ \A w \in Workers : Returned(w) =>
                /\ Handled' = Handled \cup {Offset(w)}
                /\ \A m \in Handled' : EventOf(m)' = EventOf(m)
<1>1. /\ read \in [Workers -> Seq(Content)] /\ hand \in [Workers -> InHand \cup {None}]
      /\ MaxReads \in Nat
  BY IngestAssumption DEF Basics, PipelineTypeOK
<1>2. Quiet => Handled' = Handled /\ \A m \in Handled : EventOf(m)' = EventOf(m)
  BY DEF Quiet, Handled, EventOf
<1>3. ASSUME NEW w \in Workers, NEW c \in Content, Fetched(w, c)
      PROVE  Handled' = Handled /\ \A m \in Handled : EventOf(m)' = EventOf(m)
  <2>1. [event |-> c, step |-> "decode", redacted |-> FALSE] # None
    <3>1. [event |-> c, step |-> "decode", redacted |-> FALSE] \in InHand BY DEF InHand
    <3> QED BY <3>1, IngestAssumption
  <2>2. /\ \A v \in Workers \ {w} : hand'[v] = hand[v] /\ read'[v] = read[v]
        /\ hand'[w] # None /\ hand[w] = None
        /\ read'[w] = Append(read[w], c) /\ Len(read'[w]) = Len(read[w]) + 1
        /\ \A n \in 1..Len(read[w]) : read'[w][n] = read[w][n]
        /\ Len(read[w]) \in Nat
    BY <1>1, <1>3, <2>1 DEF Fetched
  <2>3. \A m \in Workers \X (1..MaxReads) : m \in Handled' <=> m \in Handled
    BY <2>2 DEF Handled
  <2>4. Handled' = Handled
    BY <2>3 DEF Handled
  <2>5. ASSUME NEW m \in Handled
        PROVE  EventOf(m)' = EventOf(m)
    <3>1. m[1] \in Workers /\ m[2] \in 1..Len(read[m[1]])
      BY <1>1 DEF Handled
    <3>2. EventOf(m)' = read'[m[1]][m[2]]
      BY DEF EventOf
    <3> QED BY <2>2, <3>1, <3>2 DEF EventOf
  <2> QED BY <2>4, <2>5
<1>4. ASSUME NEW w \in Workers, Returned(w)
      PROVE  /\ Handled' = Handled \cup {Offset(w)}
             /\ \A m \in Handled' : EventOf(m)' = EventOf(m)
  <2>1. /\ \A v \in Workers \ {w} : hand'[v] = hand[v]
        /\ hand'[w] = None /\ hand[w] # None /\ read' = read
    BY <1>1, <1>4 DEF Returned
  <2>2. Offset(w) \in Workers \X (1..MaxReads) BY <1>4, HandFacts DEF Returned
  <2>3. \A m \in Workers \X (1..MaxReads) : m \in Handled' <=> m \in Handled \/ m = Offset(w)
    BY <2>1 DEF Handled, Offset
  <2> QED BY <2>1, <2>2, <2>3 DEF Handled, EventOf
<1> QED BY <1>2, <1>3, <1>4

\* Each step is a fetch, a return or quiet; and what is stored stays stored.
LEMMA StepKinds ==
    ASSUME Basics, [PipelineNext]_pipelineVars
    PROVE  /\ \/ Quiet
              \/ \E w \in Workers, c \in Content : Fetched(w, c)
              \/ \E w \in Workers : Returned(w)
           /\ SpineInv' /\ \A id : Stored(id) => Stored(id)'
<1>1. ASSUME UNCHANGED events PROVE SpineInv' /\ \A id : Stored(id) => Stored(id)'
  BY <1>1, SpineStays DEF Basics, Stored
<1>2. hand \in [Workers -> InHand \cup {None}]
  BY DEF Basics, PipelineTypeOK
<1>3. CASE UNCHANGED pipelineVars
  BY <1>1, <1>3 DEF pipelineVars, Quiet
<1>4. CASE ReloadPolicy BY <1>1, <1>4 DEF ReloadPolicy, Quiet
<1>5. ASSUME NEW w \in Workers, NEW c \in Content, Read(w, c)
      PROVE  Fetched(w, c) /\ UNCHANGED events
  BY <1>5 DEF Read, Fetched
<1>6. ASSUME NEW w \in Workers, ReadError(w) \/ Restart(w)
      PROVE  Quiet /\ UNCHANGED events
  BY <1>6 DEF ReadError, Restart, Quiet
<1>7. ASSUME NEW w \in Workers, NEW h \in InHand, hand[w] # None, hand' = [hand EXCEPT ![w] = h],
             UNCHANGED <<read, deadLetters>>
      PROVE  Quiet
  <2>1. \A v \in Workers : hand'[v] = IF v = w THEN h ELSE hand[v] BY <1>2, <1>7
  <2> QED BY <1>7, <2>1, IngestAssumption DEF Quiet
<1>8. ASSUME NEW w \in Workers, Accept(w)
      PROVE  Quiet /\ UNCHANGED events
  <2>1. hand[w] \in InHand /\ hand[w] # None BY <1>8, HandFacts DEF Accept, At
  <2> DEFINE h == [hand[w] EXCEPT !.step = IF HasPayload(w) THEN "put" ELSE "insert",
                                  !.redacted = Kind(w) = "object" /\ rules]
  <2>2. h \in InHand BY <2>1 DEF InHand
  <2>3. hand' = [hand EXCEPT ![w] = h] BY <1>2, <1>8, <2>1 DEF Accept
  <2> HIDE DEF h
  <2> QED BY <1>7, <1>8, <2>1, <2>2, <2>3 DEF Accept
<1>9. ASSUME NEW w \in Workers, Put(w)
      PROVE  Quiet /\ UNCHANGED events
  <2>1. hand[w] \in InHand /\ hand[w] # None BY <1>9, HandFacts DEF Put, At
  <2> DEFINE h == [hand[w] EXCEPT !.step = "insert"]
  <2>2. h \in InHand BY <2>1 DEF InHand
  <2>3. hand' = [hand EXCEPT ![w] = h] BY <1>2, <1>9, <2>1 DEF Put, GoTo
  <2> HIDE DEF h
  <2> QED BY <1>7, <1>9, <2>1, <2>2, <2>3 DEF Put
<1>10. ASSUME NEW w \in Workers,
              Reject(w) \/ RejectFails(w) \/ PutRefused(w) \/ PutFails(w) \/ InsertRefused(w)
       PROVE  Returned(w) /\ UNCHANGED events
  BY <1>10 DEF Reject, RejectFails, PutRefused, PutFails, InsertRefused, Returned, Return, At
<1>11. ASSUME NEW w \in Workers, Stop(w)
       PROVE  (Quiet \/ Returned(w)) /\ UNCHANGED events
  <2>1. CASE hand[w] = None
    <3>1. hand' = hand BY <1>2, <1>11, <2>1 DEF Stop, Return
    <3> QED BY <1>11, <3>1 DEF Stop, Quiet
  <2> QED BY <1>11, <2>1 DEF Stop, Return, Returned
<1>12. ASSUME NEW w \in Workers, Insert(w) \/ InsertFails(w)
       PROVE  Returned(w) /\ (InsertRow(w) \/ UNCHANGED events)
  BY <1>12 DEF Insert, InsertFails, Returned, Return, At
<1>13. ASSUME NEW w \in Workers, Insert(w) \/ InsertFails(w)
       PROVE  Returned(w) /\ SpineInv' /\ \A id : Stored(id) => Stored(id)'
  BY <1>1, <1>12, <1>13, InsertRowFacts DEF Returned
<1> QED
  BY <1>1, <1>3, <1>4, <1>5, <1>6, <1>8, <1>9, <1>10, <1>11, <1>13 DEF PipelineNext

-------------------------------------------------------------------------------
(* Types.                                                                  *)

\* A hand still holds the last message that was read.
LEMMA HandStaysLastRead ==
    ASSUME Basics, Quiet \/ (\E w \in Workers, c \in Content : Fetched(w, c))
                         \/ (\E w \in Workers : Returned(w)),
           \A w \in Workers : hand[w] # None /\ hand'[w] # None => hand'[w].event = hand[w].event
    PROVE  HandIsLastRead'
<1>1. /\ read \in [Workers -> Seq(Content)] /\ hand \in [Workers -> InHand \cup {None}]
      /\ MaxReads \in Nat /\ HandIsLastRead
  BY IngestAssumption DEF Basics, PipelineTypeOK
<1>2. CASE Quiet BY <1>1, <1>2 DEF Quiet, HandIsLastRead
<1>3. ASSUME NEW w \in Workers, NEW c \in Content, Fetched(w, c)
      PROVE  HandIsLastRead'
  <2>1. /\ \A v \in Workers \ {w} : hand'[v] = hand[v] /\ read'[v] = read[v]
        /\ hand'[w] = [event |-> c, step |-> "decode", redacted |-> FALSE]
        /\ read'[w] = Append(read[w], c) /\ Len(read[w]) < MaxReads
    BY <1>1, <1>3 DEF Fetched
  <2>2. /\ Len(read'[w]) = Len(read[w]) + 1 /\ read'[w][Len(read[w]) + 1] = c
        /\ Len(read[w]) \in Nat
    BY <1>1, <2>1
  <2> QED BY <1>1, <2>1, <2>2 DEF HandIsLastRead
<1>4. ASSUME NEW w \in Workers, Returned(w)
      PROVE  HandIsLastRead'
  <2>1. \A v \in Workers : hand'[v] = IF v = w THEN None ELSE hand[v] BY <1>1, <1>4 DEF Returned
  <2> QED BY <1>1, <1>4, <2>1 DEF Returned, HandIsLastRead
<1> QED BY <1>2, <1>3, <1>4

\* Every row has its columns.
ColumnsMatch == {col.id : col \in columns} = {row.id : row \in events}

\* The variables that have a type of their own; which messages are handled is the
\* matter of HandledFacts.
Typed ==
    /\ read \in [Workers -> Seq(Content)] /\ hand \in [Workers -> InHand \cup {None}]
    /\ running \in [Workers -> BOOLEAN] /\ rules \in BOOLEAN /\ overwrites \in BOOLEAN
    /\ versions \in [Ids -> Seq({"plain", "redacted"})] /\ faults \in Nat
    /\ ColumnsMatch /\ \A w \in Workers : hand[w] # None => running[w]

\* Basics is Typed together with what relates the messages.
LEMMA BasicsIsTyped ==
    Basics <=> SpineInv /\ Typed /\ HandIsLastRead /\ deadLetters \subseteq Handled
<1>1. Typed => \A id \in Ids : ToSet(versions[id]) \subseteq {"plain", "redacted"}
  BY DEF Typed, ToSet
<1>2. Typed /\ deadLetters \subseteq Handled =>
        \A letter \in deadLetters : letter[2] \in 1..Len(read[letter[1]])
  <2> SUFFICES ASSUME Typed, NEW letter \in Handled
               PROVE  letter[2] \in 1..Len(read[letter[1]])
    OBVIOUS
  <2>1. letter[1] \in Workers /\ letter[2] \in 1..MaxReads /\ letter[2] <= Len(read[letter[1]])
    <3>1. letter \in Workers \X (1..MaxReads) BY DEF Handled
    <3>2. letter[1] \in Workers /\ letter[2] \in 1..MaxReads BY <3>1
    <3>3. Len(read[letter[1]]) \in Nat BY <3>2 DEF Typed
    <3> QED BY <3>2, <3>3, IngestAssumption DEF Handled
  <2> QED BY <2>1, IngestAssumption DEF Typed
<1>3. SpineInv => TypeOK BY DEF SpineInv
<1> QED BY <1>1, <1>2, <1>3 DEF Basics, Typed, ColumnsMatch, PipelineTypeOK

\* Every step keeps the types, and an event in a hand stays the one it is.
LEMMA StepTypes ==
    ASSUME Basics, [PipelineNext]_pipelineVars
    PROVE  /\ Typed'
           /\ \A w \in Workers :
                hand[w] # None /\ hand'[w] # None => hand'[w].event = hand[w].event
<1>1. Typed /\ SpineInv BY BasicsIsTyped
<1>0. UNCHANGED <<events, columns>> => ColumnsMatch'
  BY <1>1 DEF Typed, ColumnsMatch
<1>2. CASE UNCHANGED pipelineVars \/ ReloadPolicy
  BY <1>1, <1>2, <1>0 DEF pipelineVars, ReloadPolicy, Typed
<1>3. ASSUME NEW w \in Workers, NEW c \in Content, Read(w, c)
      PROVE  Typed' /\ \A v \in Workers \ {w} : hand'[v] = hand[v]
  <2>1. [event |-> c, step |-> "decode", redacted |-> FALSE] \in InHand BY DEF InHand
  <2>2. read' \in [Workers -> Seq(Content)] BY <1>1, <1>3 DEF Read, Typed
  <2> QED BY <1>0, <1>1, <1>3, <2>1, <2>2 DEF Read, Typed
<1>4. ASSUME NEW w \in Workers, hand' = [hand EXCEPT ![w] = None],
             UNCHANGED <<read, rules, overwrites, versions>>,
             running' \in {running, [running EXCEPT ![w] = FALSE]},
             faults' \in {faults, faults + 1},
             ColumnsMatch'
      PROVE  Typed' /\ \A v \in Workers : hand'[v] # None => hand'[v] = hand[v]
  <2>1. \A v \in Workers : hand'[v] = IF v = w THEN None ELSE hand[v]
    BY <1>1, <1>4 DEF Typed
  <2>2. running' \in [Workers -> BOOLEAN] /\ \A v \in Workers \ {w} : running'[v] = running[v]
    BY <1>1, <1>4 DEF Typed
  <2>3. hand' \in [Workers -> InHand \cup {None}] BY <1>1, <1>4 DEF Typed
  <2> QED BY <1>1, <1>4, <2>1, <2>2, <2>3 DEF Typed
<1>5. ASSUME NEW w \in Workers,
             \/ Reject(w) \/ RejectFails(w) \/ PutRefused(w) \/ PutFails(w)
             \/ InsertRefused(w) \/ Stop(w)
      PROVE  Typed' /\ \A v \in Workers : hand'[v] # None => hand'[v] = hand[v]
  <2>1. ColumnsMatch'
    BY <1>0, <1>5 DEF Reject, RejectFails, PutRefused, PutFails, InsertRefused, Stop
  <2> QED BY <1>4, <1>5, <2>1 DEF Reject, RejectFails, PutRefused, PutFails, InsertRefused,
             Stop, Return, Fault
<1>6. ASSUME NEW w \in Workers, Insert(w) \/ InsertFails(w)
      PROVE  Typed' /\ \A v \in Workers : hand'[v] # None => hand'[v] = hand[v]
  <2>1. hand[w] # None BY <1>6 DEF Insert, InsertFails, At
  <2>2. ColumnsMatch'
    BY <1>0, <1>6, <2>1, InsertRowFacts DEF Insert, InsertFails, ColumnsMatch
  <2> QED BY <1>4, <1>6, <2>2 DEF Insert, InsertFails, Return, Fault
<1>7. ASSUME NEW w \in Workers, ReadError(w) \/ Restart(w)
      PROVE  Typed' /\ UNCHANGED hand
  <2>1. /\ UNCHANGED <<read, hand, rules, overwrites, versions, columns, events>>
        /\ faults' \in {faults, faults + 1}
        /\ running' \in [Workers -> BOOLEAN]
        /\ \A v \in Workers : hand[v] # None => running'[v] = running[v]
    BY <1>1, <1>7 DEF ReadError, Restart, Fault, Typed
  <2> QED BY <1>0, <1>1, <2>1 DEF Typed
<1>8. ASSUME NEW w \in Workers, Accept(w) \/ Put(w)
      PROVE  /\ Typed'
             /\ \A v \in Workers : hand'[v] # None => hand'[v].event = hand[v].event
  <2>1. hand[w] \in InHand /\ hand[w] # None /\ hand[w].event.id \in Ids /\ running[w]
    BY <1>8, HandFacts DEF Accept, Put, At
  <2>2. PICK h \in InHand : hand' = [hand EXCEPT ![w] = h] /\ h.event = hand[w].event
    <3>1. CASE Accept(w)
      <4> DEFINE h == [hand[w] EXCEPT !.step = IF HasPayload(w) THEN "put" ELSE "insert",
                                      !.redacted = Kind(w) = "object" /\ rules]
      <4>1. h \in InHand /\ h.event = hand[w].event BY <2>1 DEF InHand
      <4>2. hand' = [hand EXCEPT ![w] = h] BY <1>1, <3>1, <2>1 DEF Accept, Typed
      <4> HIDE DEF h
      <4> QED BY <4>1, <4>2
    <3>2. CASE Put(w)
      <4> DEFINE h == [hand[w] EXCEPT !.step = "insert"]
      <4>1. h \in InHand /\ h.event = hand[w].event BY <2>1 DEF InHand
      <4>2. hand' = [hand EXCEPT ![w] = h] BY <1>1, <3>2, <2>1 DEF Put, GoTo, Typed
      <4> HIDE DEF h
      <4> QED BY <4>1, <4>2
    <3> QED BY <1>8, <3>1, <3>2
  <2>3. /\ \A v \in Workers : hand'[v] = IF v = w THEN h ELSE hand[v]
        /\ hand' \in [Workers -> InHand \cup {None}]
    BY <1>1, <2>2 DEF Typed
  <2>4. versions' \in [Ids -> Seq({"plain", "redacted"})]
    <3>1. versions[hand[w].event.id] \in Seq({"plain", "redacted"}) BY <1>1, <2>1 DEF Typed
    <3>2. Append(versions[hand[w].event.id], IF hand[w].redacted THEN "redacted" ELSE "plain")
            \in Seq({"plain", "redacted"})
      BY <3>1
    <3> QED BY <1>1, <1>8, <2>1, <3>2 DEF Accept, Put, Typed
  <2>5. UNCHANGED <<events, columns, read, running, rules, overwrites, faults>>
    BY <1>8 DEF Accept, Put
  <2> QED BY <1>0, <1>1, <2>1, <2>2, <2>3, <2>4, <2>5 DEF Typed
<1> QED
  <2>1. CASE \E w \in Workers, c \in Content : Read(w, c)
    BY <1>3, <2>1 DEF Read
  <2>2. CASE UNCHANGED pipelineVars \/ ReloadPolicy
    BY <1>2, <2>2 DEF pipelineVars, ReloadPolicy
  <2> QED BY <1>5, <1>6, <1>7, <1>8, <2>1, <2>2 DEF PipelineNext

\* The basics are inductive.
LEMMA BasicsStep ==
    ASSUME Basics, [PipelineNext]_pipelineVars
    PROVE  Basics'
<1>1. SpineInv' /\ (\/ Quiet \/ (\E w \in Workers, c \in Content : Fetched(w, c))
                    \/ (\E w \in Workers : Returned(w)))
  BY StepKinds
<1>2. Typed' BY StepTypes
<1>3. HandIsLastRead' BY <1>1, StepTypes, HandStaysLastRead
<1>4. deadLetters' \subseteq Handled'
  <2>1. deadLetters \subseteq Handled BY DEF Basics
  <2>2. CASE Quiet BY <1>3, <2>1, <2>2, HandledFacts DEF Quiet
  <2>3. CASE \E w \in Workers, c \in Content : Fetched(w, c)
    BY <1>3, <2>1, <2>3, HandledFacts DEF Fetched
  <2>4. CASE \E w \in Workers : Returned(w)
    BY <1>3, <2>1, <2>4, HandledFacts DEF Returned
  <2> QED BY <1>1, <2>2, <2>3, <2>4
<1>5. (SpineInv /\ Typed /\ HandIsLastRead /\ deadLetters \subseteq Handled)'
  BY <1>1, <1>2, <1>3, <1>4
<1> QED BY <1>5, BasicsIsTyped, PTL

\* Types, and that a hand holds the last message read, hold of every state.
THEOREM BasicsInvariance == PipelineSpec => []Basics
<1>1. PipelineInit => Basics
  <2> SUFFICES ASSUME PipelineInit PROVE Basics OBVIOUS
  <2>1. SpineInv
    BY DEF PipelineInit, Init, SpineInv, TypeOK, OneRowPerId, HashesSound, HeadExists, HeadHash,
           HashAfter, ZeroHash, SpineSorted, LinksIntoSpine, OnTimeOnSpine, SpineStored
  <2>2. ColumnsMatch BY DEF PipelineInit, Init, ColumnsMatch
  <2>3. running \in [Workers -> BOOLEAN] BY DEF PipelineInit
  <2>4. \A w \in Workers : read[w] = <<>> /\ hand[w] = None BY DEF PipelineInit
  <2>5. HandIsLastRead BY <2>4, IngestAssumption DEF HandIsLastRead
  <2>6. Typed BY <2>2, <2>3, <2>4 DEF PipelineInit, Typed
  <2>7. deadLetters \subseteq Handled BY DEF PipelineInit
  <2> QED BY <2>1, <2>5, <2>6, <2>7, BasicsIsTyped
<1>2. Basics /\ [PipelineNext]_pipelineVars => Basics' BY BasicsStep
<1> QED BY <1>1, <1>2, PTL DEF PipelineSpec

\* The type invariant of the pipeline; only a running loop has a message in hand.
THEOREM PipelineTypeCorrectness == PipelineSpec => []PipelineTypeOK
<1>1. Basics => PipelineTypeOK BY DEF Basics
<1> QED BY <1>1, BasicsInvariance, PTL

-------------------------------------------------------------------------------
(* The object precedes the row.                                            *)

Form(redacted) == IF redacted THEN "redacted" ELSE "plain"
HasVersion(id, form) == \E n \in 1..Len(versions[id]) : versions[id][n] = form

\* A handler that is about to insert has put the object its row will describe.
PutBeforeInsert ==
    \A w \in Workers : At(w, "insert") /\ HasPayload(w) =>
        HasVersion(hand[w].event.id, Form(hand[w].redacted))

\* No step takes a version of an object away.
LEMMA VersionsStay ==
    ASSUME Basics, [PipelineNext]_pipelineVars, NEW id \in Ids, NEW form, HasVersion(id, form)
    PROVE  HasVersion(id, form)'
<1>1. CASE UNCHANGED versions BY <1>1 DEF HasVersion
<1>2. ASSUME NEW w \in Workers, Put(w)
      PROVE  HasVersion(id, form)'
  <2> DEFINE e == hand[w].event.id
             added == Form(hand[w].redacted)
  <2>1. versions[id] \in Seq({"plain", "redacted"}) BY DEF Basics
  <2>2. versions'[id] = IF id = e THEN Append(versions[id], added) ELSE versions[id]
    BY <1>2 DEF Put, Form, Basics
  <2>3. Len(versions[id]) \in Nat
        /\ \A n \in 1..Len(versions[id]) :
             n \in 1..Len(versions'[id]) /\ versions'[id][n] = versions[id][n]
    <3> HIDE DEF added, e
    <3>1. Len(versions[id]) \in Nat BY <2>1
    <3>2. CASE id = e
      <4>1. versions'[id] = Append(versions[id], added) BY <2>2, <3>2
      <4>2. /\ Len(Append(versions[id], added)) = Len(versions[id]) + 1
            /\ \A n \in 1..Len(versions[id]) : Append(versions[id], added)[n] = versions[id][n]
        BY <2>1
      <4> QED BY <3>1, <4>1, <4>2
    <3> QED BY <2>2, <3>1, <3>2
  <2> QED BY <2>3 DEF HasVersion
<1> QED
  BY <1>1, <1>2 DEF PipelineNext, pipelineVars, ReloadPolicy, Read, ReadError, Stop, Restart,
     Accept, Reject, RejectFails, PutRefused, PutFails, Insert, InsertFails, InsertRefused

\* Only a put, or decoding an event without a payload, brings a handler to its
\* insert.
LEMMA HandMoves ==
    ASSUME Basics, [PipelineNext]_pipelineVars, NEW v \in Workers, At(v, "insert")'
    PROVE  hand'[v] = hand[v] \/ Accept(v) \/ Put(v)
<1>1. hand \in [Workers -> InHand \cup {None}] /\ hand'[v] # None /\ hand'[v].step = "insert"
  BY DEF Basics, PipelineTypeOK, At
<1>2. ASSUME NEW w \in Workers, NEW c \in Content, Read(w, c)
      PROVE  hand'[v] = hand[v]
  BY <1>1, <1>2 DEF Read
<1>3. ASSUME NEW w \in Workers, hand' = [hand EXCEPT ![w] = None]
      PROVE  hand'[v] = hand[v]
  BY <1>1, <1>3
<1>4. ASSUME NEW w \in Workers, Accept(w) \/ Put(w), w # v
      PROVE  hand'[v] = hand[v]
  BY <1>1, <1>4 DEF Accept, Put, GoTo
<1>5. CASE UNCHANGED hand BY <1>5
<1> QED
  BY <1>2, <1>3, <1>4, <1>5 DEF PipelineNext, pipelineVars, ReloadPolicy, ReadError, Stop, Restart,
     Reject, RejectFails, PutRefused, PutFails, Insert, InsertFails, InsertRefused, Return

\* An insert adds at most the row of its message, and no other step adds any.
LEMMA RowsAdded ==
    ASSUME Basics, [PipelineNext]_pipelineVars
    PROVE  \/ UNCHANGED <<events, columns>>
           \/ \E w \in Workers :
                /\ At(w, "insert") /\ Returned(w)
                /\ ~Stored(hand[w].event.id)
                /\ events' = events \cup {Chained(hand[w].event, HeadHash)}
                /\ columns' = columns \cup {[id |-> hand[w].event.id, ref |-> HasPayload(w),
                                             redacted |-> hand[w].redacted]}
<1>1. ASSUME NEW w \in Workers, Insert(w) \/ InsertFails(w)
      PROVE  At(w, "insert") /\ Returned(w) /\ (InsertRow(w) \/ UNCHANGED <<events, columns>>)
  BY <1>1 DEF Insert, InsertFails, Returned, Return, At
<1>2. CASE \E w \in Workers : Insert(w) \/ InsertFails(w)
  BY <1>1, <1>2, InsertRowFacts DEF At
<1> QED
  BY <1>2 DEF PipelineNext, pipelineVars, ReloadPolicy, Read, ReadError, Stop, Restart,
     Accept, Put, Reject, RejectFails, PutRefused, PutFails, InsertRefused

\* The form of an index row's object is stored with it or was stored before it,
\* whichever workers put and insert the same event under whichever policy.
THEOREM RowDescribesAVersionInvariance == PipelineSpec => []RowDescribesAVersion
<1> DEFINE Inv == PutBeforeInsert /\ RowDescribesAVersion
<1>1. PipelineInit => Inv
  BY DEF PipelineInit, PutBeforeInsert, RowDescribesAVersion, At
<1>2. Basics /\ Inv /\ [PipelineNext]_pipelineVars => Inv'
  <2> SUFFICES ASSUME Basics, Inv, [PipelineNext]_pipelineVars PROVE Inv'
    OBVIOUS
  <2>1. ASSUME NEW v \in Workers, At(v, "insert")', HasPayload(v)'
        PROVE  HasVersion(hand[v].event.id, Form(hand[v].redacted))'
    <3>1. CASE hand'[v] = hand[v]
      <4>1. At(v, "insert") /\ HasPayload(v) BY <2>1, <3>1 DEF At, HasPayload, Kind
      <4>2. HasVersion(hand[v].event.id, Form(hand[v].redacted)) BY <4>1 DEF PutBeforeInsert
      <4>3. hand[v].event.id \in Ids BY <4>1, HandFacts DEF At
      <4> DEFINE id == hand[v].event.id
                 form == Form(hand[v].redacted)
      <4>4. \E n \in 1..Len(versions'[id]) : versions'[id][n] = form
        BY <4>2, <4>3, VersionsStay DEF HasVersion
      <4> QED BY <3>1, <4>4 DEF HasVersion, Form
    <3>2. CASE Accept(v)
      <4>1. hand[v] # None /\ hand[v] \in InHand BY <3>2, HandFacts DEF Accept, At
      <4>2. /\ hand'[v].event = hand[v].event
            /\ hand'[v].step = IF HasPayload(v) THEN "put" ELSE "insert"
        BY <3>2, <4>1 DEF Accept, InHand, Basics, PipelineTypeOK
      <4>3. ~HasPayload(v) BY <2>1, <4>2 DEF At
      <4> QED BY <2>1, <4>2, <4>3 DEF HasPayload, Kind
    <3>3. CASE Put(v)
      <4> DEFINE id == hand[v].event.id
                 form == Form(hand[v].redacted)
      <4>1. hand[v] # None /\ hand[v] \in InHand /\ id \in Ids
        BY <3>3, HandFacts DEF Put, At
      <4>2. hand'[v].event = hand[v].event /\ hand'[v].redacted = hand[v].redacted
        BY <3>3, <4>1 DEF Put, GoTo, InHand, Basics, PipelineTypeOK
      <4>3. versions[id] \in Seq({"plain", "redacted"}) /\ form \in {"plain", "redacted"}
        BY <4>1 DEF Basics, Form
      <4>4. versions'[id] = Append(versions[id], form)
        BY <3>3, <4>1 DEF Put, Form, Basics
      <4>5. \E n \in 1..Len(versions'[id]) : versions'[id][n] = form
        <5> HIDE DEF form, id
        <5>1. Len(versions[id]) + 1 \in 1..Len(versions'[id])
              /\ versions'[id][Len(versions[id]) + 1] = form
          BY <4>3, <4>4
        <5> QED BY <5>1
      <4> QED BY <4>2, <4>5 DEF HasVersion, Form
    <3> QED BY <2>1, <3>1, <3>2, <3>3, HandMoves
  <2>2. \A col \in columns : col.ref => HasVersion(col.id, Form(col.redacted))
    BY DEF RowDescribesAVersion, HasVersion, Form
  <2>3. \A col \in columns : col.id \in Ids
    <3>1. \A row \in events : row.id \in Ids BY DEF Basics, SpineInv, TypeOK, Row
    <3>2. {col.id : col \in columns} = {row.id : row \in events}
      BY DEF Basics, PipelineTypeOK
    <3> QED BY <3>1, <3>2
  <2>4. \A col \in columns : col.ref => \E n \in 1..Len(versions'[col.id]) :
                                          versions'[col.id][n] = Form(col.redacted)
    BY <2>2, <2>3, VersionsStay DEF HasVersion
  <2>5. ASSUME NEW w \in Workers, At(w, "insert"), HasPayload(w)
        PROVE  \E n \in 1..Len(versions'[hand[w].event.id]) :
                 versions'[hand[w].event.id][n] = Form(hand[w].redacted)
    <3>1. hand[w].event.id \in Ids BY <2>5, HandFacts DEF At
    <3>2. HasVersion(hand[w].event.id, Form(hand[w].redacted)) BY <2>5 DEF PutBeforeInsert
    <3> QED BY <3>1, <3>2, VersionsStay DEF HasVersion
  <2>6. ASSUME NEW col \in columns', col.ref
        PROVE  \E n \in 1..Len(versions'[col.id]) : versions'[col.id][n] = Form(col.redacted)
    <3>1. CASE col \in columns BY <2>4, <2>6, <3>1
    <3>2. CASE col \notin columns
      <4>1. PICK w \in Workers : /\ At(w, "insert")
                                 /\ col = [id |-> hand[w].event.id, ref |-> HasPayload(w),
                                           redacted |-> hand[w].redacted]
        BY <2>6, <3>2, RowsAdded
      <4>2. /\ col.id = hand[w].event.id /\ col.redacted = hand[w].redacted /\ HasPayload(w)
        BY <2>6, <4>1
      <4> QED BY <2>5, <4>1, <4>2
    <3> QED BY <3>1, <3>2
  <2> QED BY <2>1, <2>6 DEF PutBeforeInsert, RowDescribesAVersion, Form
<1> QED BY <1>1, <1>2, BasicsInvariance, PTL DEF PipelineSpec

-------------------------------------------------------------------------------
(* One partition in order.                                                 *)

\* What is in the index was read from some partition.
RowsWereRead ==
    \A row \in events : \E w \in Workers : \E n \in 1..Len(read[w]) : read[w][n] = ContentOf(row)

\* All there is to ingest comes from the partition of w, and in order.
OnlyInOrder(w) ==
    /\ \A i, j \in 1..Len(read[w]) : i < j => Before(read[w][i], read[w][j])
    /\ \A other \in Workers \ {w} : read[other] = <<>>

\* What has been read stays read.
LEMMA ReadsStay ==
    ASSUME Basics, [PipelineNext]_pipelineVars, NEW w \in Workers
    PROVE  /\ read[w] \in Seq(Content) /\ read'[w] \in Seq(Content)
           /\ Len(read[w]) <= Len(read'[w])
           /\ \A n \in 1..Len(read[w]) : read'[w][n] = read[w][n]
<1>1. read \in [Workers -> Seq(Content)] /\ read' \in [Workers -> Seq(Content)]
  BY BasicsStep DEF Basics, PipelineTypeOK
<1>2. CASE UNCHANGED read BY <1>1, <1>2
<1>3. ASSUME NEW v \in Workers, NEW c \in Content, Fetched(v, c)
      PROVE  /\ Len(read[w]) <= Len(read'[w])
             /\ \A n \in 1..Len(read[w]) : read'[w][n] = read[w][n]
  <2>1. read'[w] = IF w = v THEN Append(read[w], c) ELSE read[w] BY <1>1, <1>3 DEF Fetched
  <2>2. read[w] \in Seq(Content) BY <1>1
  <2>3. /\ Len(Append(read[w], c)) = Len(read[w]) + 1 /\ Len(read[w]) \in Nat
        /\ \A n \in 1..Len(read[w]) : Append(read[w], c)[n] = read[w][n]
    BY <2>2
  <2> QED BY <2>1, <2>3
<1> QED BY <1>1, <1>2, <1>3, StepKinds DEF Quiet, Returned

\* Partitions that are in order after a step were so before it.
LEMMA WasInOrder ==
    ASSUME Basics, [PipelineNext]_pipelineVars, NEW w \in Workers, OnlyInOrder(w)'
    PROVE  OnlyInOrder(w)
<1>1. ASSUME NEW i \in 1..Len(read[w]), NEW j \in 1..Len(read[w]), i < j
      PROVE  Before(read[w][i], read[w][j])
  <2>1. i \in 1..Len(read'[w]) /\ j \in 1..Len(read'[w]) BY <1>1, ReadsStay
  <2>2. Before(read'[w][i], read'[w][j]) BY <1>1, <2>1 DEF OnlyInOrder, Before
  <2> QED BY <1>1, <2>2, ReadsStay
<1>2. ASSUME NEW other \in Workers \ {w} PROVE read[other] = <<>>
  <2>1. read'[other] = <<>> BY DEF OnlyInOrder
  <2>2. read[other] \in Seq(Content) /\ Len(read[other]) <= 0 BY <2>1, ReadsStay
  <2> QED BY <2>2
<1> QED BY <1>1, <1>2 DEF OnlyInOrder

\* As long as one partition that is in order is all there is to ingest, no event is
\* late, for any number of messages and whatever fails: a message is handled, or
\* lost, before the next one is read.
THEOREM OrderedPartitionTheorem == PipelineSpec => []OrderedPartitionIsNeverLate
<1> DEFINE Inv == RowsWereRead /\ OrderedPartitionIsNeverLate
<1>1. PipelineInit => Inv
  BY DEF PipelineInit, Init, RowsWereRead, OrderedPartitionIsNeverLate
<1>2. Basics /\ Inv /\ [PipelineNext]_pipelineVars => Inv'
  <2> SUFFICES ASSUME Basics, Inv, [PipelineNext]_pipelineVars PROVE Inv'
    OBVIOUS
  <2>1. ASSUME NEW row \in events
        PROVE  \E w \in Workers : \E n \in 1..Len(read'[w]) : read'[w][n] = ContentOf(row)
    <3>1. PICK w \in Workers : \E n \in 1..Len(read[w]) : read[w][n] = ContentOf(row)
      BY <2>1 DEF RowsWereRead
    <3> QED BY <3>1, ReadsStay
  <2>2. CASE UNCHANGED events
    <3>1. RowsWereRead' BY <2>1, <2>2 DEF RowsWereRead, ContentOf
    <3>2. ASSUME NEW w \in Workers, OnlyInOrder(w)' PROVE \A row \in events' : ~Late(row)
      BY <2>2, <3>2, WasInOrder DEF OrderedPartitionIsNeverLate, OnlyInOrder
    <3> QED BY <3>1, <3>2 DEF OrderedPartitionIsNeverLate, OnlyInOrder, Late, Before
  <2>3. ASSUME NEW v \in Workers, Returned(v), ~Stored(hand[v].event.id),
               events' = events \cup {Chained(hand[v].event, HeadHash)}
        PROVE  Inv'
    <3> DEFINE c == hand[v].event
               new == Chained(c, HeadHash)
    <3>1. /\ SpineInv /\ c \in Content /\ Len(read[v]) \in 1..MaxReads
          /\ c = read[v][Len(read[v])] /\ read[v] \in Seq(Content) /\ read' = read
      BY <2>3, HandFacts DEF Returned, Basics, HandIsLastRead
    <3>2. HeadHash \in Digest BY <3>1, HeadFacts DEF SpineInv
    <3>3. ContentOf(new) = c /\ new.prev = HeadHash /\ new.id = c.id /\ new.ts = c.ts
      BY <3>1, <3>2, ChainedIsRow
    <3> HIDE DEF new, c
    <3>4. events' = events \cup {new} BY <2>3 DEF new, c
    <3>5. RowsWereRead'
      <4>1. Len(read[v]) \in 1..Len(read[v]) BY <3>1, IngestAssumption
      <4>2. \E w \in Workers : \E n \in 1..Len(read'[w]) : read'[w][n] = ContentOf(new)
        BY <3>1, <3>3, <4>1
      <4> QED BY <2>1, <3>4, <4>2 DEF RowsWereRead, ContentOf
    <3>6. ASSUME NEW w \in Workers, OnlyInOrder(w)'
          PROVE  \A row \in events' : ~Late(row)
      <4>1. OnlyInOrder(w) BY <3>6, WasInOrder
      <4>2. \A row \in events : ~Late(row)
        BY <4>1 DEF OrderedPartitionIsNeverLate, OnlyInOrder
      <4>3. v = w
        <5>1. read[v] # <<>> BY <3>1, IngestAssumption
        <5> QED BY <4>1, <5>1 DEF OnlyInOrder
      <4>4. ~Late(new)
        <5> SUFFICES ASSUME HeadHash # ZeroHash, Before(new, Last(HeadHash)) PROVE FALSE
          BY <3>3 DEF Late
        <5>1. events # {} BY DEF HeadHash, HashAfter
        <5>2. ChainHead \in events /\ ChainHead \in Row /\ Last(HeadHash) = ContentOf(ChainHead)
          BY <3>1, <5>1, SpineEndsWithHead
        <5>3. PICK u \in Workers : \E n \in 1..Len(read[u]) : read[u][n] = ContentOf(ChainHead)
          BY <5>2 DEF RowsWereRead
        <5>4. u = w
          <6>1. CASE read[u] = <<>> BY <5>3, <6>1
          <6> QED BY <4>1, <6>1 DEF OnlyInOrder
        <5>5. PICK n \in 1..Len(read[w]) : read[w][n] = ContentOf(ChainHead) BY <5>3, <5>4
        <5>6. ContentOf(ChainHead).id # c.id
          BY <2>3, <5>2 DEF Stored, ContentOf, c
        <5>7. n # Len(read[w]) BY <3>1, <4>3, <5>5, <5>6
        <5>8. Len(read[w]) \in Nat BY <3>1, <4>3
        <5>9. Before(ContentOf(ChainHead), c)
          BY <3>1, <4>1, <4>3, <5>5, <5>7, <5>8 DEF OnlyInOrder
        <5>10. ContentOf(ChainHead) \in Content BY <5>2, RowFacts
        <5> QED BY <3>1, <3>3, <5>2, <5>9, <5>10, ContentFacts DEF Before
      <4> QED BY <3>4, <4>2, <4>4
    <3> QED BY <3>5, <3>6 DEF OrderedPartitionIsNeverLate, OnlyInOrder, Late, Before
  <2> QED BY <2>2, <2>3, RowsAdded
<1> QED BY <1>1, <1>2, BasicsInvariance, PTL DEF PipelineSpec

-------------------------------------------------------------------------------
(* What is lost.                                                           *)

\* What a step does to the events that are lost: one that is lost stays lost until
\* it is stored, and the only one that can be lost anew is that of a message whose
\* handler returns.
LEMMA LossFacts ==
    ASSUME Basics, [PipelineNext]_pipelineVars
    PROVE  /\ \A id \in LostEvents : id \in LostEvents' \/ Stored(id)'
           /\ \A id \in LostEvents' : id \in LostEvents \/
                \E w \in Workers :
                  /\ Returned(w) /\ hand[w].event.id = id /\ KindOf[id] # "refused"
                  /\ Offset(w) \notin deadLetters' /\ ~(Stored(id)')
<1>1. HandIsLastRead' BY BasicsStep DEF Basics
<1>2. \A id : Stored(id) => Stored(id)' BY StepKinds
<1>3. \A w \in Workers : Returned(w) =>
        Offset(w) \notin Handled /\ EventOf(Offset(w)) = hand[w].event
  BY HandFacts DEF Returned
<1>4. /\ deadLetters \subseteq deadLetters'
      /\ \A m \in Handled : m \in Handled' /\ EventOf(m)' = EventOf(m)
      /\ \A m \in Handled : m \in deadLetters' => m \in deadLetters
      /\ \A m \in Handled' : m \in Handled \/
           \E w \in Workers : Returned(w) /\ m = Offset(w) /\ EventOf(m)' = EventOf(m)
  <2>1. CASE Quiet BY <1>1, <2>1, HandledFacts DEF Quiet
  <2>2. CASE \E w \in Workers, c \in Content : Fetched(w, c)
    BY <1>1, <2>2, HandledFacts DEF Fetched
  <2>3. ASSUME NEW w \in Workers, Returned(w)
        PROVE  /\ Handled' = Handled \cup {Offset(w)}
               /\ \A m \in Handled' : EventOf(m)' = EventOf(m)
               /\ deadLetters \subseteq deadLetters'
               /\ \A m \in deadLetters' : m \in deadLetters \/ m = Offset(w)
    BY <1>1, <2>3, HandledFacts DEF Returned
  <2>4. CASE \E w \in Workers : Returned(w)
    BY <1>3, <2>3, <2>4
  <2> QED BY <2>1, <2>2, <2>4, StepKinds
<1>5. ASSUME NEW id \in LostEvents, ~(Stored(id)')
      PROVE  id \in LostEvents'
  <2>1. PICK m \in Lost : EventOf(m).id = id BY <1>5 DEF LostEvents
  <2>2. m \in Handled /\ m \notin deadLetters BY <2>1 DEF Lost
  <2>3. m \in Handled' /\ m \notin deadLetters' /\ EventOf(m)' = EventOf(m) BY <1>4, <2>2
  <2>4. m \in Lost' BY <1>5, <2>1, <2>3 DEF Lost, Stored
  <2> QED BY <1>5, <2>1, <2>3, <2>4 DEF LostEvents
<1>6. ASSUME NEW id \in LostEvents', id \notin LostEvents
      PROVE  \E w \in Workers :
               /\ Returned(w) /\ hand[w].event.id = id /\ KindOf[id] # "refused"
               /\ Offset(w) \notin deadLetters' /\ ~(Stored(id)')
  <2>1. PICK m \in Lost' : EventOf(m)'.id = id BY <1>6 DEF LostEvents
  <2>2. m \in Handled' /\ m \notin deadLetters' /\ ~(Stored(id)')
    BY <2>1 DEF Lost, Stored
  <2>3. id \in Ids /\ KindOf[id] # "refused" BY <1>6 DEF LostEvents
  <2>4. m \notin Handled
    <3>1. SUFFICES ASSUME m \in Handled PROVE FALSE OBVIOUS
    <3>2. m \notin deadLetters /\ EventOf(m).id = id /\ ~Stored(id)
      BY <1>2, <1>4, <2>1, <2>2, <3>1
    <3>3. m \in Lost BY <3>1, <3>2 DEF Lost
    <3> QED BY <1>6, <2>3, <3>2, <3>3 DEF LostEvents
  <2>5. PICK w \in Workers : Returned(w) /\ m = Offset(w) /\ EventOf(m)' = EventOf(m)
    BY <1>4, <2>2, <2>4
  <2>6. hand[w].event.id = id BY <1>3, <2>1, <2>5
  <2> QED BY <2>2, <2>3, <2>5, <2>6
<1> QED BY <1>5, <1>6

\* One process runs without a bucket, so that an object which is in the way belongs
\* to an event that is stored, or lost already, or about to be inserted.
MemoryClient ==
    ~overwrites =>
        /\ \A v, w \in Workers : running[v] /\ running[w] => v = w
        /\ \A id \in Ids : versions[id] # <<>> /\ KindOf[id] # "refused" =>
             Stored(id) \/ id \in LostEvents
             \/ \E w \in Workers : At(w, "insert") /\ hand[w].event.id = id

\* A step that is no failure loses nothing.
LEMMA OnlyFaultsLose ==
    ASSUME Basics, MemoryClient, [PipelineNext]_pipelineVars
    PROVE  /\ faults' \in {faults, faults + 1}
           /\ faults' = faults => LostEvents' \subseteq LostEvents
           /\ \E e : LostEvents' \subseteq LostEvents \cup {e}
<1>1. hand \in [Workers -> InHand \cup {None}] BY DEF Basics, PipelineTypeOK
<1>2. \A u, w \in Workers : Returned(u) /\ Returned(w) => u = w
  BY <1>1 DEF Returned
<1>3. \E e : LostEvents' \subseteq LostEvents \cup {e}
  <2>1. CASE \E w \in Workers : Returned(w)
    <3>1. PICK w \in Workers : Returned(w) BY <2>1
    <3>2. LostEvents' \subseteq LostEvents \cup {hand[w].event.id} BY <1>2, <3>1, LossFacts
    <3> QED BY <3>2
  <2>2. CASE ~\E w \in Workers : Returned(w)
    <3>1. LostEvents' \subseteq LostEvents \cup {None} BY <2>2, LossFacts
    <3> QED BY <3>1
  <2> QED BY <2>1, <2>2
<1>4. ASSUME Quiet PROVE LostEvents' \subseteq LostEvents
  <2>1. ~\E w \in Workers : Returned(w) BY <1>1, <1>4 DEF Quiet, Returned
  <2> QED BY <2>1, LossFacts
<1>5. ASSUME NEW w \in Workers, NEW c \in Content, Fetched(w, c)
      PROVE  LostEvents' \subseteq LostEvents
  <2>1. \A v \in Workers : v # w => hand'[v] = hand[v] BY <1>1, <1>5 DEF Fetched
  <2>2. ~\E v \in Workers : Returned(v)
    <3> SUFFICES ASSUME NEW v \in Workers, Returned(v) PROVE FALSE
      OBVIOUS
    <3>1. v # w BY <1>5 DEF Fetched, Returned
    <3>2. hand'[v] = None /\ hand[v] # None BY <1>1 DEF Returned
    <3> QED BY <2>1, <3>1, <3>2
  <2> QED BY <2>2, LossFacts
<1>6. ASSUME NEW w \in Workers, Reject(w) PROVE LostEvents' \subseteq LostEvents
  <2>1. Returned(w) /\ Offset(w) \in deadLetters' BY <1>6 DEF Reject, Returned, Return, At
  <2> QED BY <1>2, <2>1, LossFacts
<1>7. ASSUME NEW w \in Workers, Insert(w) PROVE LostEvents' \subseteq LostEvents
  <2>1. Returned(w) /\ InsertRow(w) BY <1>7 DEF Insert, Returned, Return, At
  <2>2. Stored(hand[w].event.id) \/ \E row \in events' : row.id = hand[w].event.id
    BY <2>1, InsertRowFacts DEF Returned
  <2>3. \A id : id = hand[w].event.id => Stored(id)' BY <2>2, StepKinds DEF Stored
  <2> QED BY <1>2, <2>1, <2>3, LossFacts
<1>8. ASSUME NEW w \in Workers, InsertRefused(w) PROVE LostEvents' \subseteq LostEvents
  <2>1. Returned(w) /\ KindOf[hand[w].event.id] = "refused"
    BY <1>8 DEF InsertRefused, Returned, Return, At, Kind
  <2> QED BY <1>2, <2>1, LossFacts
<1>9. ASSUME NEW w \in Workers, PutRefused(w) PROVE LostEvents' \subseteq LostEvents
  <2> DEFINE e == hand[w].event.id
  <2>1. /\ Returned(w) /\ ~overwrites /\ versions[e] # <<>> /\ At(w, "put")
        /\ e \in Ids /\ running[w]
    BY <1>9, HandFacts DEF PutRefused, Returned, Return, At
  <2>2. ~\E v \in Workers : At(v, "insert") /\ hand[v].event.id = e
    <3> SUFFICES ASSUME NEW v \in Workers, At(v, "insert") PROVE FALSE
      OBVIOUS
    <3>1. v = w BY <2>1, HandFacts DEF MemoryClient, At
    <3> QED BY <2>1, <3>1 DEF At
  <2>3. KindOf[e] # "refused" => Stored(e) \/ e \in LostEvents
    BY <2>1, <2>2 DEF MemoryClient
  <2>4. \A id : Stored(id) => Stored(id)' BY StepKinds
  <2> HIDE DEF e
  <2>5. \A u \in Workers : Returned(u) => hand[u].event.id = e BY <1>2, <2>1 DEF e
  <2> QED BY <2>3, <2>4, <2>5, LossFacts
<1>10. faults \in Nat BY DEF Basics
<1>11. CASE faults' = faults + 1 BY <1>3, <1>10, <1>11
<1>12. CASE UNCHANGED faults
  <2>1. ASSUME \/ \E w \in Workers : Insert(w) \/ Reject(w) \/ PutRefused(w) \/ InsertRefused(w)
               \/ \E w \in Workers, c \in Content : Fetched(w, c)
               \/ Quiet
        PROVE  LostEvents' \subseteq LostEvents
    BY <1>4, <1>5, <1>6, <1>7, <1>8, <1>9, <2>1
  <2>2. ASSUME NEW w \in Workers,
               RejectFails(w) \/ PutFails(w) \/ InsertFails(w) \/ Stop(w) \/ ReadError(w)
        PROVE  FALSE
    BY <1>10, <1>12, <2>2 DEF RejectFails, PutFails, InsertFails, Stop, ReadError, Fault
  <2>3. ASSUME NEW w \in Workers, Accept(w) \/ Put(w) \/ Restart(w)
        PROVE  Quiet
    <3>1. CASE Restart(w) BY <3>1 DEF Restart, Quiet
    <3>2. CASE Accept(w) \/ Put(w)
      <4>1. hand[w] # None /\ hand[w] \in InHand BY <3>2, HandFacts DEF Accept, Put, At
      <4>2. ~Returned(w)
        <5>1. hand'[w].event = hand[w].event /\ hand'[w] \in InHand
          BY <1>1, <3>2, <4>1 DEF Accept, Put, GoTo, InHand
        <5> QED BY <1>1, <5>1, IngestAssumption DEF Returned
      <4>3. \A v \in Workers : v # w => hand'[v] = hand[v]
        BY <1>1, <3>2 DEF Accept, Put, GoTo
      <4>4. ~\E v \in Workers : Returned(v)
        BY <1>1, <4>2, <4>3 DEF Returned
      <4>5. ~\E v \in Workers, c \in Content : Fetched(v, c)
        <5> SUFFICES ASSUME NEW v \in Workers, NEW c \in Content, Fetched(v, c) PROVE FALSE
          OBVIOUS
        <5>1. read[v] \in Seq(Content) /\ read'[v] = Append(read[v], c)
          BY DEF Fetched, Basics, PipelineTypeOK
        <5>2. read' = read BY <3>2 DEF Accept, Put
        <5> QED BY <5>1, <5>2
      <4> QED BY <4>4, <4>5, StepKinds
    <3> QED BY <2>3, <3>1, <3>2
  <2>4. ASSUME ReloadPolicy \/ UNCHANGED pipelineVars PROVE Quiet
    BY <2>4 DEF ReloadPolicy, pipelineVars, Quiet
  <2>5. ASSUME NEW w \in Workers, NEW c \in Content, Read(w, c) PROVE Fetched(w, c)
    BY <2>5 DEF Read, Fetched
  <2> QED BY <1>3, <1>12, <2>1, <2>2, <2>3, <2>4, <2>5 DEF PipelineNext
<1>13. faults' \in {faults, faults + 1}
  BY DEF PipelineNext, pipelineVars, ReloadPolicy, Read, ReadError, Stop, Restart,
     Accept, Put, Reject, RejectFails, PutRefused, PutFails, Insert, InsertFails, InsertRefused,
     Fault
<1> QED BY <1>11, <1>12, <1>13

\* The state of a put object stays what MemoryClient says.
LEMMA MemoryClientStep ==
    ASSUME Basics, MemoryClient, [PipelineNext]_pipelineVars
    PROVE  MemoryClient'
<1>1. overwrites' = overwrites
  BY DEF PipelineNext, pipelineVars, ReloadPolicy, Read, ReadError, Stop, Restart,
     Accept, Put, Reject, RejectFails, PutRefused, PutFails, Insert, InsertFails, InsertRefused
<1> SUFFICES ASSUME ~overwrites
             PROVE  /\ \A v, w \in Workers : running'[v] /\ running'[w] => v = w
                    /\ \A id \in Ids : versions'[id] # <<>> /\ KindOf[id] # "refused" =>
                         Stored(id)' \/ id \in LostEvents'
                         \/ \E w \in Workers : At(w, "insert")' /\ hand'[w].event.id = id
  BY <1>1 DEF MemoryClient
<1>2. hand \in [Workers -> InHand \cup {None}] /\ running \in [Workers -> BOOLEAN]
  BY DEF Basics, PipelineTypeOK
<1>3. \A v \in Workers : running'[v] => running[v]
  <2>1. ASSUME NEW w \in Workers, ReadError(w) \/ Stop(w)
        PROVE  \A v \in Workers : running'[v] => running[v]
    BY <1>2, <2>1 DEF ReadError, Stop
  <2>2. CASE UNCHANGED running BY <2>2
  <2> QED
    BY <2>1, <2>2 DEF PipelineNext, pipelineVars, ReloadPolicy, Read, Restart,
       Accept, Put, Reject, RejectFails, PutRefused, PutFails, Insert, InsertFails, InsertRefused
<1>4. ASSUME NEW w \in Workers, Put(w)
      PROVE  /\ At(w, "insert")' /\ hand'[w].event.id = hand[w].event.id
             /\ \A id \in Ids : id # hand[w].event.id => versions'[id] = versions[id]
  <2>1. hand[w] # None /\ hand[w] \in InHand BY <1>4, HandFacts DEF Put, At
  <2>2. hand'[w] = [hand[w] EXCEPT !.step = "insert"] BY <1>2, <1>4 DEF Put, GoTo
  <2>3. hand'[w] \in InHand /\ hand'[w].step = "insert" /\ hand'[w].event = hand[w].event
    BY <2>1, <2>2 DEF InHand
  <2>4. \A id \in Ids : id # hand[w].event.id => versions'[id] = versions[id]
    BY <1>4 DEF Put, Basics
  <2> QED BY <2>3, <2>4, IngestAssumption DEF At
<1>5. (\E w \in Workers : Put(w)) \/ UNCHANGED versions
  BY DEF PipelineNext, pipelineVars, ReloadPolicy, Read, ReadError, Stop, Restart,
     Accept, Reject, RejectFails, PutRefused, PutFails, Insert, InsertFails, InsertRefused
<1>6. ASSUME NEW id \in Ids, versions'[id] # <<>>, versions[id] = <<>>
      PROVE  \E w \in Workers : At(w, "insert")' /\ hand'[w].event.id = id
  BY <1>4, <1>5, <1>6
\* A handler that was to insert still is, or returns without a dead letter.
<1>7. ASSUME NEW w \in Workers, At(w, "insert"), hand'[w] # hand[w]
      PROVE  Returned(w) /\ UNCHANGED deadLetters
  <2>1. hand[w] # None BY <1>7 DEF At
  <2>2. ASSUME NEW v \in Workers, NEW c \in Content, Read(v, c) PROVE FALSE
    BY <1>2, <1>7, <2>1, <2>2 DEF Read
  <2>3. ASSUME NEW v \in Workers, Accept(v) \/ Put(v) \/ Reject(v) PROVE FALSE
    BY <1>2, <1>7, <2>3 DEF Accept, Put, Reject, GoTo, Return, At
  <2>4. ASSUME NEW v \in Workers,
               \/ RejectFails(v) \/ PutRefused(v) \/ PutFails(v) \/ Insert(v)
               \/ InsertFails(v) \/ InsertRefused(v) \/ Stop(v)
        PROVE  Returned(w) /\ UNCHANGED deadLetters
    <3>1. hand' = [hand EXCEPT ![v] = None] /\ UNCHANGED <<read, deadLetters>>
      BY <2>4 DEF RejectFails, PutRefused, PutFails, Insert, InsertFails, InsertRefused,
         Stop, Return
    <3>2. v = w BY <1>2, <1>7, <3>1
    <3> QED BY <2>1, <3>1, <3>2 DEF Returned
  <2>5. ~(UNCHANGED hand) BY <1>7
  <2> QED
    BY <2>2, <2>3, <2>4, <2>5 DEF PipelineNext, pipelineVars, ReloadPolicy, ReadError, Restart
<1>8. ASSUME NEW w \in Workers, Returned(w), UNCHANGED deadLetters,
             NEW id \in Ids, hand[w].event.id = id, KindOf[id] # "refused", ~(Stored(id)')
      PROVE  id \in LostEvents'
  <2>1. /\ Offset(w) \notin deadLetters /\ EventOf(Offset(w)).id = id
    BY <1>8, HandFacts DEF Returned
  <2>2. HandIsLastRead' BY BasicsStep DEF Basics
  <2>3. PICK m : m = Offset(w) OBVIOUS
  <2>4. m \in Handled' /\ EventOf(m)' = EventOf(m) BY <1>8, <2>2, <2>3, HandledFacts
  <2>5. m \in Lost' BY <1>8, <2>1, <2>3, <2>4 DEF Lost, Stored
  <2> QED BY <1>8, <2>1, <2>3, <2>4, <2>5 DEF LostEvents
<1>9. ASSUME NEW id \in Ids, versions[id] # <<>>, KindOf[id] # "refused"
      PROVE  Stored(id)' \/ id \in LostEvents'
             \/ \E w \in Workers : At(w, "insert")' /\ hand'[w].event.id = id
  <2>1. CASE Stored(id) BY <2>1, StepKinds
  <2>2. CASE id \in LostEvents BY <2>2, LossFacts
  <2>3. ASSUME NEW w \in Workers, At(w, "insert"), hand[w].event.id = id,
               ~(Stored(id)'), id \notin LostEvents'
        PROVE  At(w, "insert")' /\ hand'[w].event.id = id
    <3>1. hand'[w] = hand[w] BY <1>7, <1>8, <1>9, <2>3
    <3> QED BY <2>3, <3>1 DEF At
  <2> QED BY <1>9, <2>1, <2>2, <2>3 DEF MemoryClient
<1> QED BY <1>3, <1>6, <1>9 DEF MemoryClient

\* Each failed call and each stop with a message in hand loses at most one event,
\* and nothing else does: whatever else is read is stored, or is a dead letter, or
\* is what the index refuses.
THEOREM LossTheorem == PipelineSpec => []LossBoundedByFaults
<1> DEFINE Inv == /\ MemoryClient
                  /\ IsFiniteSet(LostEvents) /\ Cardinality(LostEvents) <= faults
<1>1. PipelineInit => Inv
  <2> SUFFICES ASSUME PipelineInit PROVE Inv OBVIOUS
  <2>1. \A w \in Workers : read[w] = <<>> BY DEF PipelineInit
  <2>2. Handled = {} BY <2>1, IngestAssumption DEF Handled
  <2>3. LostEvents = {} BY <2>2 DEF LostEvents, Lost
  <2>4. IsFiniteSet(LostEvents) /\ Cardinality(LostEvents) <= faults
    BY <2>3, FS_EmptySet DEF PipelineInit
  <2>5. MemoryClient BY DEF PipelineInit, MemoryClient
  <2> QED BY <2>4, <2>5
<1>2. Basics /\ Inv /\ [PipelineNext]_pipelineVars => Inv'
  <2> SUFFICES ASSUME Basics, Inv, [PipelineNext]_pipelineVars PROVE Inv'
    OBVIOUS
  <2>1. MemoryClient' BY MemoryClientStep
  <2>2. /\ faults' \in {faults, faults + 1}
        /\ faults' = faults => LostEvents' \subseteq LostEvents
    BY OnlyFaultsLose
  <2>3. PICK e : LostEvents' \subseteq LostEvents \cup {e} BY OnlyFaultsLose
  <2>4. /\ IsFiniteSet(LostEvents \cup {e})
        /\ Cardinality(LostEvents) \in Nat /\ Cardinality(LostEvents \cup {e}) \in Nat
        /\ Cardinality(LostEvents \cup {e}) <= Cardinality(LostEvents) + 1
    BY FS_AddElement, FS_CardinalityType
  <2>5. IsFiniteSet(LostEvents') /\ Cardinality(LostEvents') \in Nat
        /\ Cardinality(LostEvents') <= Cardinality(LostEvents) + 1
    BY <2>3, <2>4, FS_Subset, FS_CardinalityType
  <2>6. LostEvents' \subseteq LostEvents => Cardinality(LostEvents') <= Cardinality(LostEvents)
    BY FS_Subset
  <2>7. faults \in Nat BY DEF Basics
  <2>8. Cardinality(LostEvents') <= faults' BY <2>2, <2>4, <2>5, <2>6, <2>7
  <2> QED BY <2>1, <2>5, <2>8
<1>3. Inv => LossBoundedByFaults BY DEF LossBoundedByFaults
<1> QED BY <1>1, <1>2, <1>3, BasicsInvariance, PTL DEF PipelineSpec

-------------------------------------------------------------------------------
(* The log under the pipeline.                                             *)

\* A step inserts the event in some worker's hand, or leaves the rows as they are.
LEMMA StepsInsertOrNothing ==
    ASSUME Basics, [PipelineNext]_pipelineVars
    PROVE  (\E c \in Content : InsertChained(c)) \/ UNCHANGED events
<1>1. ASSUME NEW w \in Workers, Insert(w) \/ InsertFails(w), ~UNCHANGED events
      PROVE  \E c \in Content : InsertChained(c)
  <2>1. hand[w] \in InHand BY <1>1, HandFacts DEF Insert, InsertFails, At
  <2>2. hand[w].event \in Content BY <2>1 DEF InHand
  <2> QED BY <1>1, <2>2 DEF Insert, InsertFails, InsertRow
<1> QED
  BY <1>1 DEF PipelineNext, pipelineVars, ReloadPolicy, Read, ReadError, Restart, Accept, Reject,
     RejectFails, Put, PutRefused, PutFails, InsertRefused, Stop

\* Consumer loops that read, handle, fail, stop and start again keep the promise of
\* AuditLog: IngestMessage changes the log by InsertChained alone, one event at most
\* per message, and a failed insert that was committed is a step of the log too.
THEOREM PipelineImplementsAuditLog == PipelineSpec => ImplementsAuditLog
<1>1. PipelineInit => Log!LogInit
  BY DEF PipelineInit, Init, Log!LogInit, HeadHash, HashAfter, LateLeaves, Log!ZeroHash, ZeroHash
<1>2. Basics /\ [PipelineNext]_pipelineVars => [Log!LogNext]_<<HeadHash, LateLeaves, {}>>
  BY StepsInsertOrNothing, InsertIsLogStep, TableStaysIsLogStutter DEF Basics
<1> QED
  BY <1>1, <1>2, BasicsInvariance, PTL
  DEF PipelineSpec, ImplementsAuditLog, Log!LogSpec, Log!logVars
===============================================================================
