---------------------------- MODULE IngestPipeline ----------------------------
(***************************************************************************)
(* The ingest pipeline: each replica's consumer loop reads a message of    *)
(* its partition, and the handler decodes it, redacts the payload, puts it *)
(* to S3 and inserts the row, or appends a dead letter.  The reader        *)
(* commits the offset when it reads and the handler never returns an       *)
(* error, so each message is handled at most once: what goes wrong in      *)
(* between is not tried again.                                             *)
(*                                                                         *)
(* The broker and S3 are modelled from their use.  A message may be        *)
(* published again, to any partition.  A put to an existing key adds a     *)
(* version, as it does in a bucket with Object Lock, and readers get the   *)
(* last one.  The S3 client in memory, with which one process runs without *)
(* a bucket until it ends, refuses to overwrite a retained object instead. *)
(***************************************************************************)
EXTENDS EventStore, FiniteSets

CONSTANTS Workers,     \* consumer loops, one per replica, each with a partition
          None,        \* no message in hand
          KindOf,      \* what each event's message holds, see Kinds
          MaxReads,    \* bound: messages read from one partition
          MaxFaults    \* bound: failed calls and stops with a message in hand

\* "object" and "scalar": a payload that is a JSON object or not; "bare": only a
\* payload_hash; "invalid": an envelope that is rejected; "refused": one that is
\* not, though its id is no UUID and the index will refuse it.
Kinds == {"object", "scalar", "bare", "invalid", "refused"}

\* What a worker has in hand: an event, the next step of its handler, and whether
\* its payload was redacted.
InHand == [event : Content, step : {"decode", "put", "insert"}, redacted : BOOLEAN]

ASSUME IngestAssumption ==
    /\ None \notin InHand
    /\ KindOf \in [Ids -> Kinds]
    /\ MaxReads \in Nat /\ MaxFaults \in Nat

VARIABLES read,         \* per worker, the messages read, all their offsets committed
          hand,         \* per worker, the event it handles and how far it is
          running,      \* per worker, whether its consumer loop runs
          rules,        \* whether the live policy redacts (service, action)
          overwrites,   \* whether the bucket takes a put to an existing key
          versions,     \* per event id, the versions of its S3 object
          columns,      \* payload_ref (as: is there one) and redacted, per row
          deadLetters,  \* <<worker, offset>> of the dead letters
          faults        \* failed calls and stops so far

pipelineVars == <<events, read, hand, running, rules, overwrites, versions, columns,
                  deadLetters, faults>>

-------------------------------------------------------------------------------
Kind(w) == KindOf[hand[w].event.id]
HasPayload(w) == Kind(w) \in {"object", "scalar", "refused"}
At(w, step) == hand[w] # None /\ hand[w].step = step
Offset(w) == <<w, Len(read[w])>>

\* The handler returns.  Its result is dropped and the loop reads on.
Return(w) == hand' = [hand EXCEPT ![w] = None]
GoTo(w, step) == hand' = [hand EXCEPT ![w].step = step]

Fault == faults < MaxFaults /\ faults' = faults + 1

PipelineInit ==
    /\ Init
    /\ read = [w \in Workers |-> <<>>]
    /\ hand = [w \in Workers |-> None]
    /\ overwrites \in BOOLEAN
    /\ IF overwrites THEN running = [w \in Workers |-> TRUE]
       ELSE \E v \in Workers : running = [w \in Workers |-> w = v]
    /\ rules \in BOOLEAN
    /\ versions = [id \in Ids |-> <<>>]
    /\ columns = {} /\ deadLetters = {} /\ faults = 0

\* ReadMessage: fetch the next message and commit its offset.
Read(w, c) ==
    /\ running[w] /\ hand[w] = None /\ Len(read[w]) < MaxReads
    /\ read' = [read EXCEPT ![w] = Append(@, c)]
    /\ hand' = [hand EXCEPT ![w] = [event |-> c, step |-> "decode", redacted |-> FALSE]]
    /\ UNCHANGED <<events, running, rules, overwrites, versions, columns, deadLetters, faults>>

\* A read error: Run returns it, it is logged and the loop is over.
ReadError(w) ==
    /\ running[w] /\ hand[w] = None
    /\ running' = [running EXCEPT ![w] = FALSE]
    /\ Fault
    /\ UNCHANGED <<events, read, hand, rules, overwrites, versions, columns, deadLetters>>

\* Decoding, the payload_hash checks and redaction, under the policy that is
\* live now.  Redaction cannot take apart a payload that is not an object.
Rejected(w) == Kind(w) = "invalid" \/ (Kind(w) = "scalar" /\ rules)

\* Faulty variant of Accept: the index row is inserted without a put before it.
AcceptForInsert(w) ==
    /\ At(w, "decode") /\ ~Rejected(w)
    /\ hand' = [hand EXCEPT ![w].step = "insert",
                            ![w].redacted = Kind(w) = "object" /\ rules]
    /\ UNCHANGED <<events, read, running, rules, overwrites, versions, columns, deadLetters, faults>>

Accept(w) ==
    /\ At(w, "decode") /\ ~Rejected(w)
    /\ hand' = [hand EXCEPT ![w].step = IF HasPayload(w) THEN "put" ELSE "insert",
                            ![w].redacted = Kind(w) = "object" /\ rules]
    /\ UNCHANGED <<events, read, running, rules, overwrites, versions, columns, deadLetters, faults>>

\* Faulty variant of Reject: a reject path that appends no dead letter.
Drop(w) ==
    /\ At(w, "decode") /\ Rejected(w)
    /\ Return(w)
    /\ UNCHANGED <<events, read, running, rules, overwrites, versions, columns, deadLetters, faults>>

Reject(w) ==
    /\ At(w, "decode") /\ Rejected(w)
    /\ deadLetters' = deadLetters \cup {Offset(w)}
    /\ Return(w)
    /\ UNCHANGED <<events, read, running, rules, overwrites, versions, columns, faults>>

\* The dead letter cannot be stored, and the error is ignored.
RejectFails(w) ==
    /\ At(w, "decode") /\ Rejected(w)
    /\ Return(w) /\ Fault
    /\ UNCHANGED <<events, read, running, rules, overwrites, versions, columns, deadLetters>>

\* The payload goes to S3 before the row is inserted, under the event's id.
Put(w) ==
    /\ At(w, "put")
    /\ overwrites \/ versions[hand[w].event.id] = <<>>
    /\ versions' = [versions EXCEPT ![hand[w].event.id] =
                      Append(@, IF hand[w].redacted THEN "redacted" ELSE "plain")]
    /\ GoTo(w, "insert")
    /\ UNCHANGED <<events, read, running, rules, overwrites, columns, deadLetters, faults>>

\* The object of an event that was put before, and then perhaps not inserted.
PutRefused(w) ==
    /\ At(w, "put")
    /\ ~overwrites /\ versions[hand[w].event.id] # <<>>
    /\ Return(w)
    /\ UNCHANGED <<events, read, running, rules, overwrites, versions, columns, deadLetters, faults>>

\* A failed put ends the handler: no row and no dead letter.
PutFails(w) ==
    /\ At(w, "put")
    /\ Return(w) /\ Fault
    /\ UNCHANGED <<events, read, running, rules, overwrites, versions, columns, deadLetters>>

\* InsertChained of the row and its two columns; a duplicate changes neither.
InsertRow(w) ==
    LET c == hand[w].event
    IN  /\ InsertChained(c)
        /\ columns' = IF Stored(c.id) THEN columns
                      ELSE columns \cup {[id |-> c.id, ref |-> HasPayload(w),
                                          redacted |-> hand[w].redacted]}

\* Faulty variant of Insert: an earlier message that failed is tried again.
InsertThenRetry(w) ==
    /\ At(w, "insert") /\ Kind(w) # "refused"
    /\ InsertRow(w)
    /\ LET failed == {n \in 1..Len(read[w]) - 1 : ~Stored(read[w][n].id)}
       IN  IF failed = {} THEN Return(w)
           ELSE \E n \in failed :
                  hand' = [hand EXCEPT ![w] = [event |-> read[w][n], step |-> "decode",
                                               redacted |-> FALSE]]
    /\ UNCHANGED <<read, running, rules, overwrites, versions, deadLetters, faults>>

Insert(w) ==
    /\ At(w, "insert") /\ Kind(w) # "refused"
    /\ InsertRow(w)
    /\ Return(w)
    /\ UNCHANGED <<read, running, rules, overwrites, versions, deadLetters, faults>>

\* An insert that fails ends the handler the same way: the transaction was
\* rolled back, or it was committed and the answer is lost.
InsertFails(w) ==
    /\ At(w, "insert") /\ Kind(w) # "refused"
    /\ InsertRow(w) \/ UNCHANGED <<events, columns>>
    /\ Return(w) /\ Fault
    /\ UNCHANGED <<read, running, rules, overwrites, versions, deadLetters>>

\* PostgreSQL cannot store the id: no row and no dead letter, every time.
InsertRefused(w) ==
    /\ At(w, "insert") /\ Kind(w) = "refused"
    /\ Return(w)
    /\ UNCHANGED <<events, read, running, rules, overwrites, versions, columns, deadLetters, faults>>

\* Faulty variant of Stop: the handler outlives its loop.
StopLoopOnly(w) ==
    /\ running[w]
    /\ running' = [running EXCEPT ![w] = FALSE]
    /\ Fault
    /\ UNCHANGED <<events, read, hand, rules, overwrites, versions, columns, deadLetters>>

\* The process dies, or Shutdown cancels the context of the calls in progress.
Stop(w) ==
    /\ running[w]
    /\ running' = [running EXCEPT ![w] = FALSE]
    /\ Return(w) /\ Fault
    /\ UNCHANGED <<events, read, rules, overwrites, versions, columns, deadLetters>>

\* A new process joins the consumer group after the committed offset.
Restart(w) ==
    /\ ~running[w] /\ overwrites
    /\ running' = [running EXCEPT ![w] = TRUE]
    /\ UNCHANGED <<events, read, hand, rules, overwrites, versions, columns, deadLetters, faults>>

\* POST /v1/admin/redaction/reload swaps the policy under the handlers.
ReloadPolicy ==
    /\ rules' = ~rules
    /\ UNCHANGED <<events, read, hand, running, overwrites, versions, columns, deadLetters, faults>>

PipelineNext ==
    \/ \E w \in Workers :
         \/ \E c \in Content : Read(w, c)
         \/ ReadError(w) \/ Stop(w) \/ Restart(w)
         \/ Accept(w) \/ Reject(w) \/ RejectFails(w)
         \/ Put(w) \/ PutRefused(w) \/ PutFails(w)
         \/ Insert(w) \/ InsertFails(w) \/ InsertRefused(w)
    \/ ReloadPolicy

PipelineSpec == PipelineInit /\ [][PipelineNext]_pipelineVars

-------------------------------------------------------------------------------
\* Type invariant; every row has its two columns, and only a running loop has a
\* message in hand.
PipelineTypeOK ==
    /\ TypeOK
    /\ read \in [Workers -> Seq(Content)]
    /\ hand \in [Workers -> InHand \cup {None}]
    /\ running \in [Workers -> BOOLEAN]
    /\ rules \in BOOLEAN /\ overwrites \in BOOLEAN
    /\ \A id \in Ids : ToSet(versions[id]) \subseteq {"plain", "redacted"}
    /\ {col.id : col \in columns} = {row.id : row \in events}
    /\ \A w \in Workers : hand[w] # None => running[w]
    /\ \A letter \in deadLetters : letter[2] \in 1..Len(read[letter[1]])

\* Messages that were read, and their handler is done with them.
Handled ==
    {m \in Workers \X (1..MaxReads) :
        m[2] < Len(read[m[1]]) \/ (m[2] = Len(read[m[1]]) /\ hand[m[1]] = None)}
EventOf(message) == read[message[1]][message[2]]

\* Messages whose event is neither indexed nor kept as a dead letter.  They are
\* committed, so the broker does not deliver them again.
Lost == {m \in Handled \ deadLetters : ~Stored(EventOf(m).id)}

LostEvents == {id \in Ids : KindOf[id] # "refused" /\ \E m \in Lost : EventOf(m).id = id}

\* Each failure loses at most one event, and without one nothing is lost but
\* what the index refuses: what is rejected is a dead letter, everything else is
\* indexed.
LossBoundedByFaults == Cardinality(LostEvents) <= faults

\* The S3 write precedes the index commit: a row with a payload_ref has an
\* object, and a version of it is in the form that its redacted column says,
\* whoever else ingests the same event under whichever policy.
RowDescribesAVersion ==
    \A col \in columns : col.ref =>
        \E n \in 1..Len(versions[col.id]) :
            versions[col.id][n] = (IF col.redacted THEN "redacted" ELSE "plain")

\* One partition that is in order, with nothing else to ingest, never makes a
\* row late, whatever fails.
OrderedPartitionIsNeverLate ==
    \A w \in Workers :
        /\ \A i, j \in 1..Len(read[w]) : i < j => Before(read[w][i], read[w][j])
        /\ \A other \in Workers \ {w} : read[other] = <<>>
        => \A row \in events : ~Late(row)

\* What package kafka documents: a message is committed only when it has been
\* handled, so none is ever lost.
AtLeastOnce == Lost = {}
===============================================================================
