------------------------------ MODULE EventStore ------------------------------
(***************************************************************************)
(* The event index: the rows of audit_events and the operations that       *)
(* change them.  Each operation is one atomic step, as it is under the     *)
(* mutex of the in-memory store; module PgChain breaks InsertChained into  *)
(* the steps of a PostgreSQL transaction.                                  *)
(*                                                                         *)
(* An event may be delivered late, with a (ts, id) below the head of the   *)
(* chain: nothing in the code rejects it or waits for it.  InsertChained   *)
(* links every new event to the head, so the rows form a spine, which the  *)
(* digest of the head commits to, with the late rows as leaves hanging off *)
(* it.  The invariants below say exactly that.                             *)
(***************************************************************************)
EXTENDS AuditEvents

CONSTANT LegalHoldDefault   \* whether new events start under legal hold

ASSUME HoldAssumption == LegalHoldDefault \in BOOLEAN

VARIABLE events   \* the set of stored rows

-------------------------------------------------------------------------------
Stored(id) == \E row \in events : row.id = id

\* The head of the chain, and the prev_hash of the next event.
IsHead(row) == IsLastRow(row, events)
ChainHead == LastRow(events)
HeadHash == HashAfter(events)

\* Faulty variant of Chained: legal_hold is left out.
ChainedWithoutHold(c, prev) ==
    [id |-> c.id, ts |-> c.ts, body |-> c.body, prev |-> prev,
     this |-> CanonicalHash(c, prev), anchored |-> FALSE]

\* The row InsertChained stores for content c after hash prev.
Chained(c, prev) ==
    [id |-> c.id, ts |-> c.ts, body |-> c.body, prev |-> prev,
     this |-> CanonicalHash(c, prev), anchored |-> FALSE, hold |-> LegalHoldDefault]

Init == events = {}

\* Faulty variant of InsertChained: a re-delivery is not recognised.
InsertEveryDelivery(c) == events' = events \cup {Chained(c, HeadHash)}

\* A re-delivery, recognised by its id, changes nothing.
InsertChained(c) ==
    \/ Stored(c.id) /\ UNCHANGED events
    \/ ~Stored(c.id) /\ events' = events \cup {Chained(c, HeadHash)}

SetLegalHold(id, hold) ==
    /\ Stored(id)
    /\ events' = {IF row.id = id THEN [row EXCEPT !.hold = hold] ELSE row : row \in events}

\* Faulty variant of MarkAnchored: anchored is recomputed, so that it can be
\* taken back.
RecomputeAnchored(upTo) ==
    events' = {[row EXCEPT !.anchored = ~Before(upTo, row)] : row \in events}

\* anchored = true for every row up to and including (upTo.ts, upTo.id).
MarkAnchored(upTo) ==
    events' = {IF Before(upTo, row) THEN row ELSE [row EXCEPT !.anchored = TRUE] :
               row \in events}

Next ==
    \/ \E c \in Content : InsertChained(c)
    \/ \E id \in Ids, hold \in BOOLEAN : SetLegalHold(id, hold)
    \/ \E row \in events : MarkAnchored(row)

Spec == Init /\ [][Next]_events

-------------------------------------------------------------------------------
\* Type invariant: the store holds rows.
TypeOK == events \subseteq Row

\* A late row was linked to a head that follows it in (ts, id) order.
Late(row) == row.prev # ZeroHash /\ Before(row, Last(row.prev))

\* The parts of the inductive invariant from which the properties follow.
\* One row per event id, whatever is delivered again under that id.
OneRowPerId == \A a, b \in events : a.id = b.id => a = b

\* What a verifier recomputes from a stored row is the hash stored in it.
HashesSound == \A row \in events : row.this = EventHash(row)

\* A non-empty log has a last row.
HeadExists == events # {} => \E row \in events : IsHead(row)

\* The contents the head commits to are in (ts, id) order.
SpineSorted ==
    \A i, j \in 1..Len(HeadHash) : i < j => Before(HeadHash[i], HeadHash[j])

\* Every prev_hash is a prefix of the spine, and so is the this_hash of every
\* row that was not late; each prefix is the this_hash of some row.
LinksIntoSpine == \A row \in events : CommitsTo(HeadHash, row.prev)
OnTimeOnSpine == \A row \in events : ~Late(row) => CommitsTo(HeadHash, row.this)
SpineStored ==
    \A n \in 1..Len(HeadHash) :
        \E row \in events : Len(row.this) = n /\ CommitsTo(HeadHash, row.this)

SpineInv ==
    /\ TypeOK /\ OneRowPerId /\ HashesSound /\ HeadExists
    /\ SpineSorted /\ LinksIntoSpine /\ OnTimeOnSpine /\ SpineStored

-------------------------------------------------------------------------------
\* The head's hash commits to exactly the rows that were not late, so a
\* signature over it says nothing about the late ones.
HeadCommitsToSpine ==
    ToSet(HeadHash) = {ContentOf(row) : row \in {r \in events : ~Late(r)}}

\* No fork survives: prev_hash is zero or the this_hash of a stored row that
\* was not late, and two rows share a predecessor only if one of them is late.
LateRowsAreLeaves ==
    /\ \A row \in events :
         row.prev = ZeroHash \/ \E p \in events : p.this = row.prev /\ ~Late(p)
    /\ \A a, b \in events : a.prev = b.prev /\ ~Late(a) /\ ~Late(b) => a = b

\* p is the row just before row in the walk over the log.
IsPredecessor(p, row) ==
    /\ p \in events
    /\ Before(p, row)
    /\ \A other \in events : ~(Before(p, other) /\ Before(other, row))

\* The linkage VerifyChain checks: every row but the first names the row just
\* before it.
Contiguous == \A row, p \in events : IsPredecessor(p, row) => row.prev = p.this

\* The walk over an untouched log finds no gap exactly when no event was late.
WalkIsContiguousUnlessLate == Contiguous <=> \A row \in events : ~Late(row)

\* The log is append-only: no step removes a row or changes a hashed column,
\* prev_hash or this_hash, and none takes anchored back.
AppendOnly ==
    [][\A row \in events : \E kept \in events' :
         /\ ContentOf(kept) = ContentOf(row)
         /\ kept.prev = row.prev /\ kept.this = row.this
         /\ row.anchored => kept.anchored]_events

-------------------------------------------------------------------------------
\* The store keeps the promise of AuditLog: the spine is what the head commits
\* to, the late rows are its leaves.  Publishing roots is the anchor job's.
LateLeaves ==
    {[content |-> ContentOf(row), prev |-> row.prev] : row \in {r \in events : Late(r)}}

Log == INSTANCE AuditLog WITH spine <- HeadHash, late <- LateLeaves, roots <- {}

ImplementsAuditLog == Log!LogSpec
===============================================================================
