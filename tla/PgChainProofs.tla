---------------------------- MODULE PgChainProofs ----------------------------
(***************************************************************************)
(* InsertChained on PostgreSQL keeps the chain whole, for any number of    *)
(* workers and events.  The argument: a snapshot is a former state of the  *)
(* table, so the hash it is chained to is a prefix of the spine.  If the   *)
(* spine has grown since, the row that extended that prefix was missed,    *)
(* and its head query read the range above the prefix; so the commit is    *)
(* refused unless the new row lies below, and then it is late.             *)
(*                                                                         *)
(* All of it is for TsPrecision = 1: PostgreSQL truncates a timestamp that *)
(* is finer than its own, and then not even HashesSound holds.             *)
(***************************************************************************)
EXTENDS PgChain, EventStoreProofs

-------------------------------------------------------------------------------
\* What is known of the rows S that a transaction sees.
Snapshot(S) ==
    /\ S \subseteq events
    /\ S # {} => \E row \in S : IsLastRow(row, S)
    /\ CommitsTo(HeadHash, HashAfter(S))
    /\ \A row \in S : ~Late(row) => CommitsTo(HashAfter(S), row.this)

Snapshots == \A w \in Workers : Open(w) => Snapshot(tx[w].sees)

\* The inductive invariant.
PgInv == SpineInv /\ PgTypeOK /\ Snapshots

-------------------------------------------------------------------------------
\* The hash after a snapshot is zero, or that of its last row.
LEMMA SnapshotHash ==
    ASSUME SpineInv, NEW S, Snapshot(S)
    PROVE  /\ HashAfter(S) \in Digest
           /\ S = {} => HashAfter(S) = ZeroHash
           /\ S # {} => /\ LastRow(S) \in S /\ LastRow(S) \in events /\ LastRow(S) \in Row
                        /\ HashAfter(S) = LastRow(S).this
                        /\ HashAfter(S) # ZeroHash
                        /\ Last(HashAfter(S)) = ContentOf(LastRow(S))
<1>1. CASE S = {}
  BY <1>1 DEF HashAfter, ZeroHash, Digest
<1>2. CASE S # {}
  <2>1. PICK row \in S : IsLastRow(row, S)
    BY <1>2 DEF Snapshot
  <2>2. S \subseteq Row /\ row \in events
    BY DEF Snapshot, SpineInv, TypeOK
  <2>3. LastRow(S) = row /\ HashAfter(S) = row.this
    BY <2>1, <2>2, LastRowUnique
  <2>4. row.this = CanonicalHash(ContentOf(row), row.prev) /\ row.prev \in Digest
        /\ ContentOf(row) \in Content
    BY <2>2, RowHash DEF SpineInv, HashesSound, EventHash
  <2> QED BY <1>2, <2>2, <2>3, <2>4, HashExtends
<1> QED BY <1>1, <1>2

\* The table as it is makes a snapshot.
LEMMA EventsAreSnapshot ==
    ASSUME SpineInv
    PROVE  Snapshot(events)
<1>1. HeadHash \in Digest
  BY HeadFacts DEF SpineInv
<1> QED BY <1>1, CommitsReflexive DEF Snapshot, SpineInv, HeadExists, IsHead, HeadHash, OnTimeOnSpine

\* A snapshot stays one while rows are added and the spine grows.
LEMMA SnapshotStays ==
    ASSUME SpineInv, NEW S, Snapshot(S), events \subseteq events',
           HeadHash' \in Digest, CommitsTo(HeadHash', HeadHash)
    PROVE  Snapshot(S)'
<1>1. HashAfter(S) \in Digest /\ HeadHash \in Digest
  BY SnapshotHash, HeadFacts DEF SpineInv
<1>2. CommitsTo(HeadHash', HashAfter(S))
  BY <1>1, CommitsTransitive DEF Snapshot
<1> QED BY <1>2 DEF Snapshot

\* A spine that has grown since the snapshot did so by a row that the snapshot
\* misses, linked to the snapshot's last row.
LEMMA SpineGrewByMissedRow ==
    ASSUME SpineInv, NEW w \in Workers, Snapshot(tx[w].sees), SeenHash(w) # HeadHash
    PROVE  \E row \in Missed(w) :
              /\ row.prev = SeenHash(w)
              /\ tx[w].sees # {} => Before(LastRow(tx[w].sees), row)
<1> DEFINE S == tx[w].sees
           n == Len(HashAfter(S)) + 1
<1> HIDE DEF S
<1>1. HashAfter(S) \in Digest /\ HeadHash \in Digest /\ CommitsTo(HeadHash, HashAfter(S))
  BY SnapshotHash, HeadFacts DEF Snapshot, SpineInv, S
<1>2. Len(HashAfter(S)) \in Nat /\ Len(HeadHash) \in Nat /\ n \in 1..Len(HeadHash)
  BY <1>1 DEF CommitsTo, Digest, SeenHash, S
<1>3. PICK row \in events :
         /\ Len(row.this) = n /\ CommitsTo(HeadHash, row.this)
         /\ Len(row.prev) = n - 1 /\ ContentOf(row) = HeadHash[n] /\ ~Late(row)
  BY <1>2, SpineRow
<1>4. row.prev = HashAfter(S)
  <2>1. row.prev \in Digest /\ CommitsTo(HeadHash, row.prev)
    BY RowHash DEF SpineInv, LinksIntoSpine
  <2> QED BY <1>1, <1>2, <1>3, <2>1, CommitsUnique
<1>5. row \in Missed(w)
  <2> SUFFICES ASSUME NEW seen \in S, seen.id = row.id PROVE FALSE
    BY DEF Missed, Sees, S
  <2>1. seen = row
    BY DEF SpineInv, OneRowPerId, Snapshot, S
  <2>2. CommitsTo(HashAfter(S), row.this)
    BY <1>3, <2>1 DEF Snapshot, S
  <2> QED BY <1>2, <1>3, <2>2 DEF CommitsTo
<1>6. ASSUME S # {} PROVE Before(LastRow(S), row)
  <2>1. /\ LastRow(S) \in Row /\ HashAfter(S) # ZeroHash
        /\ Last(HashAfter(S)) = ContentOf(LastRow(S))
    BY <1>6, SnapshotHash DEF S
  <2>2. n - 1 \in 1..Len(HashAfter(S)) /\ HashAfter(S)[n - 1] = ContentOf(LastRow(S))
    BY <1>1, <1>2, <2>1, LastFacts
  <2>3. HeadHash[n - 1] = ContentOf(LastRow(S)) /\ n - 1 \in 1..Len(HeadHash) /\ n - 1 < n
    BY <1>1, <1>2, <2>2 DEF CommitsTo
  <2>4. Before(ContentOf(LastRow(S)), ContentOf(row))
    BY <1>2, <1>3, <2>3 DEF SpineInv, SpineSorted
  <2>5. row \in Row
    BY DEF SpineInv, TypeOK
  <2> QED BY <2>1, <2>4, <2>5, RowFacts DEF Before
<1> QED BY <1>4, <1>5, <1>6 DEF SeenHash, S

-------------------------------------------------------------------------------
(* A row linked to a prefix of the spine that ends after it.               *)

\* It is late, and the head stays the head.
LEMMA LateInsertKeepsHead ==
    ASSUME SpineInv, NEW c \in Content, ~Stored(c.id), NEW d \in Digest, d # ZeroHash,
           CommitsTo(HeadHash, d), Before(c, Last(d)),
           NEW new, new = Chained(c, d), events' = events \cup {new}
    PROVE  /\ new \in Row /\ Late(new) /\ HeadHash' = HeadHash
           /\ \E row \in events : IsHead(row) /\ IsHead(row)'
<1>1. /\ new \in Row /\ new.prev = d /\ new.id = c.id /\ new.ts = c.ts
  BY ChainedIsRow
<1>2. Late(new)
  BY <1>1 DEF Late, Before
<1>3. HeadHash \in Digest /\ Len(d) \in 1..Len(HeadHash) /\ Last(d) = HeadHash[Len(d)]
      /\ Len(HeadHash) \in Nat
  <2>1. HeadHash \in Digest
    BY HeadFacts DEF SpineInv
  <2> QED BY <2>1, LastFacts, CommitsReflexive DEF CommitsTo
<1>4. events # {} /\ HeadHash # ZeroHash
  BY <1>3 DEF HeadHash, HashAfter, ZeroHash
<1>5. PICK head \in events : IsHead(head) /\ HeadHash = head.this /\ Last(HeadHash) = ContentOf(head)
  BY <1>4, SpineEndsWithHead, HeadFacts DEF SpineInv, IsHead, IsLastRow
<1>6. Before(c, ContentOf(head))
  <2>1. Last(HeadHash) = HeadHash[Len(HeadHash)]
    BY <1>3, <1>4, LastFacts
  <2>2. HeadHash[Len(d)] = Last(HeadHash) \/ Before(HeadHash[Len(d)], Last(HeadHash))
    BY <1>3, <2>1 DEF SpineInv, SpineSorted
  <2>3. HeadHash[Len(d)] \in Content /\ Last(HeadHash) \in Content
    BY <1>3, <1>4, LastFacts
  <2> QED BY <1>3, <1>5, <2>2, <2>3, ContentFacts DEF Before
<1>7. Before(new, head)
  <2>1. head \in Row
    BY DEF SpineInv, TypeOK
  <2> QED BY <1>1, <1>6, <2>1, RowFacts DEF Before
<1>8. IsHead(head)'
  BY <1>5, <1>7 DEF IsHead, IsLastRow
<1>9. HeadHash' = head.this
  <2>1. events' \subseteq Row
    BY <1>1 DEF SpineInv, TypeOK
  <2> QED BY <1>8, <2>1, LastRowUnique DEF IsHead, HeadHash
<1> QED BY <1>1, <1>2, <1>5, <1>8, <1>9

\* It keeps the invariant.
LEMMA LateInsertPreserves ==
    ASSUME SpineInv, NEW c \in Content, ~Stored(c.id), NEW d \in Digest, d # ZeroHash,
           CommitsTo(HeadHash, d), Before(c, Last(d)),
           NEW new, new = Chained(c, d), events' = events \cup {new}
    PROVE  SpineInv'
<1>1. /\ new \in Row /\ new.prev = d /\ new.id = c.id
      /\ new.this = CanonicalHash(c, d) /\ EventHash(new) = CanonicalHash(c, d)
  BY ChainedIsRow
<1>2. /\ Late(new) /\ HeadHash' = HeadHash
      /\ \E row \in events : IsHead(row)'
  BY LateInsertKeepsHead
<1> USE DEF SpineInv
<1>3. TypeOK'
  BY <1>1 DEF TypeOK
<1>4. OneRowPerId'
  BY <1>1 DEF OneRowPerId, Stored
<1>5. HashesSound'
  BY <1>1 DEF HashesSound
<1>6. HeadExists'
  BY <1>2 DEF HeadExists
<1>7. SpineSorted'
  BY <1>2 DEF SpineSorted
<1>8. LinksIntoSpine'
  BY <1>1, <1>2 DEF LinksIntoSpine
<1>9. OnTimeOnSpine'
  <2> SUFFICES ASSUME NEW row \in events', ~Late(row) PROVE CommitsTo(HeadHash, row.this)
    BY <1>2 DEF OnTimeOnSpine, Late, Before
  <2> QED BY <1>2 DEF OnTimeOnSpine
<1>10. SpineStored'
  BY <1>2 DEF SpineStored
<1> QED BY <1>3, <1>4, <1>5, <1>6, <1>7, <1>8, <1>9, <1>10

-------------------------------------------------------------------------------
(* The commit of an insert.                                                *)

\* Without truncation the row is the chained one.
LEMMA NewRowIsChained ==
    ASSUME SpineInv, TsPrecision = 1, NEW c \in Content, NEW w \in Workers,
           tx[w].event = c, Snapshot(tx[w].sees)
    PROVE  NewRow(w) = Chained(c, SeenHash(w))
<1>1. SeenHash(w) \in Digest
  BY SnapshotHash DEF SeenHash
<1>2. Chained(c, SeenHash(w)) \in Row /\ Chained(c, SeenHash(w)).ts \in Nat
  BY <1>1, ChainedIsRow, RowFacts
<1>3. \A t \in Nat : t - (t % 1) = t
  OBVIOUS
<1>4. NewRow(w) = [Chained(c, SeenHash(w)) EXCEPT !.ts = Chained(c, SeenHash(w)).ts]
  BY <1>2, <1>3 DEF NewRow
<1> QED BY <1>2, <1>4 DEF Row

\* Either the transaction saw the head, or the event is late.
LEMMA CommitSeesHeadOrIsLate ==
    ASSUME SpineInv, TsPrecision = 1, NEW w \in Workers, Snapshot(tx[w].sees),
           tx[w].event \in Content, ~Stored(tx[w].event.id), ~Dangerous(w)
    PROVE  \/ SeenHash(w) = HeadHash
           \/ SeenHash(w) # ZeroHash /\ Before(tx[w].event, Last(SeenHash(w)))
<1> SUFFICES ASSUME SeenHash(w) # HeadHash
             PROVE  SeenHash(w) # ZeroHash /\ Before(tx[w].event, Last(SeenHash(w)))
  OBVIOUS
<1> DEFINE S == tx[w].sees
           c == tx[w].event
<1>1. PICK row \in Missed(w) :
         /\ row.prev = SeenHash(w)
         /\ S # {} => Before(LastRow(S), row)
  BY SpineGrewByMissedRow
<1>2. ~WasMissed(w)
  BY <1>1 DEF MissedARead, Dangerous
<1>3. /\ SeenHash(w) # ZeroHash
      /\ \A p \in events : p.this = SeenHash(w) => ~Before(p, NewRow(w))
  BY <1>1, <1>2 DEF WasMissed
<1>4. /\ S # {} /\ LastRow(S) \in events /\ LastRow(S) \in Row
      /\ LastRow(S).this = SeenHash(w) /\ Last(SeenHash(w)) = ContentOf(LastRow(S))
  BY <1>3, SnapshotHash DEF SeenHash
<1>5. ~Before(LastRow(S), NewRow(w))
  BY <1>3, <1>4
<1>6. NewRow(w) = Chained(c, SeenHash(w)) /\ SeenHash(w) \in Digest
  BY NewRowIsChained, SnapshotHash DEF SeenHash
<1>7. NewRow(w).id = c.id /\ NewRow(w).ts = c.ts
  BY <1>6, ChainedIsRow
<1>8. LastRow(S).id # c.id
  BY <1>4 DEF Stored
<1> HIDE DEF S, c
<1>9. Before(c, ContentOf(LastRow(S)))
  <2>1. c.id \in Nat /\ c.ts \in Nat
    BY ContentFacts DEF c
  <2>2. /\ LastRow(S).id \in Nat /\ LastRow(S).ts \in Nat
        /\ ContentOf(LastRow(S)).id = LastRow(S).id /\ ContentOf(LastRow(S)).ts = LastRow(S).ts
    BY <1>4, RowFacts
  <2> QED BY <1>5, <1>7, <1>8, <2>1, <2>2 DEF Before
<1> QED BY <1>3, <1>4, <1>9 DEF c

\* What a commit does to the spine.
LEMMA CommitFacts ==
    ASSUME SpineInv, TsPrecision = 1, NEW w \in Workers, Snapshot(tx[w].sees),
           tx[w].event \in Content, CommitInsert(w)
    PROVE  /\ SpineInv' /\ events \subseteq events'
           /\ HeadHash' \in Digest /\ CommitsTo(HeadHash', HeadHash)
           /\ Late(NewRow(w)) \/ NewRow(w).prev = HeadHash
<1> DEFINE c == tx[w].event
           d == SeenHash(w)
<1>1. /\ ~Stored(c.id) /\ ~Dangerous(w) /\ events' = events \cup {NewRow(w)}
      /\ NewRow(w) = Chained(c, d) /\ d \in Digest /\ CommitsTo(HeadHash, d)
  BY NewRowIsChained, SnapshotHash DEF CommitInsert, SeenHash, Snapshot
<1>2. NewRow(w).prev = d
  BY <1>1, ChainedIsRow
<1>3. HeadHash \in Digest /\ CommitsTo(HeadHash, HeadHash)
  BY HeadFacts, CommitsReflexive DEF SpineInv
<1>4. CASE d = HeadHash
  <2>1. SpineInv'
    BY <1>1, <1>4, InsertPreserves
  <2>2. HeadHash' = Append(HeadHash, c) \/ HeadHash' = HeadHash
    BY <1>1, <1>4, InsertExtendsOrAttaches
  <2>3. HeadHash' \in Digest /\ CommitsTo(HeadHash', HeadHash)
    BY <1>3, <2>2, HashExtends DEF CanonicalHash
  <2> QED BY <1>1, <1>2, <1>4, <2>1, <2>3
<1>5. CASE d # ZeroHash /\ Before(c, Last(d))
  <2> HIDE DEF c, d
  <2>1. SpineInv' /\ Late(NewRow(w)) /\ HeadHash' = HeadHash
    <3>1. c \in Content
      BY DEF c
    <3> QED BY <1>1, <1>5, <3>1, LateInsertPreserves, LateInsertKeepsHead
  <2> QED BY <1>1, <1>3, <2>1
<1> QED BY <1>1, <1>4, <1>5, CommitSeesHeadOrIsLate

\* The transactions that go on are those of the other workers.
LEMMA EndFacts ==
    ASSUME PgTypeOK, NEW w \in Workers, End(w), TypeOK'
    PROVE  /\ PgTypeOK'
           /\ \A v \in Workers : Open(v)' => Open(v) /\ tx'[v] = tx[v]
BY PgAssumption DEF PgTypeOK, End, Holds, Open

\* Every step keeps the invariant.
LEMMA PgStep ==
    ASSUME PgInv, TsPrecision = 1, [PgNext]_pgVars
    PROVE  PgInv'
<1>1. SpineInv /\ PgTypeOK /\ Snapshots /\ TypeOK
  BY DEF PgInv, SpineInv
<1>2. ASSUME NEW S, Snapshot(S), UNCHANGED events PROVE Snapshot(S)'
  BY <1>2 DEF Snapshot, HeadHash, HashAfter, LastRow, IsLastRow, Late, Before
<1>3. ASSUME UNCHANGED events PROVE SpineInv' /\ TypeOK'
  BY <1>1, <1>3, SpineStays DEF SpineInv
<1>4. ASSUME NEW w \in Workers, NEW c \in Content, Begin(w, c) PROVE PgInv'
  <2>1. Snapshot(events)
    BY <1>1, EventsAreSnapshot
  <2>2. /\ UNCHANGED <<events, lock>>
        /\ tx' = [tx EXCEPT ![w] = [locked |-> FALSE, event |-> c, sees |-> events]]
    BY <1>4 DEF Begin
  <2>3. PgTypeOK'
    BY <1>1, <1>3, <1>4, <2>2 DEF Begin, PgTypeOK, TypeOK, Transaction, Holds, Open
  <2>4. Snapshots'
    BY <1>1, <1>2, <2>1, <2>2 DEF Snapshots, Open, PgTypeOK
  <2> QED BY <1>3, <2>2, <2>3, <2>4 DEF PgInv
<1>5. ASSUME NEW w \in Workers, AcquireLock(w) PROVE PgInv'
  <2>1. /\ UNCHANGED events /\ lock = None /\ lock' = w /\ Open(w)
        /\ tx' = [tx EXCEPT ![w].locked = TRUE]
    BY <1>5 DEF AcquireLock
  <2>2. tx[w] \in Transaction /\ tx'[w] \in Transaction /\ tx'[w].locked /\ tx'[w].sees = tx[w].sees
    BY <1>1, <2>1 DEF PgTypeOK, Open, Transaction
  <2>3. tx' \in [Workers -> Transaction \cup {None}]
    BY <1>1, <2>1, <2>2 DEF PgTypeOK
  <2>4. \A v \in Workers \ {w} : tx'[v] = tx[v]
    BY <1>1, <2>1 DEF PgTypeOK
  <2>5. PgTypeOK'
    BY <1>1, <1>3, <2>1, <2>2, <2>3, <2>4, PgAssumption DEF PgTypeOK, Holds, Open
  <2>6. Snapshots'
    BY <1>1, <1>2, <2>1, <2>2, <2>4 DEF Snapshots, Open
  <2> QED BY <1>3, <2>1, <2>5, <2>6 DEF PgInv
<1>6. ASSUME NEW w \in Workers, UNCHANGED events, End(w) PROVE PgInv'
  <2>1. /\ PgTypeOK' /\ SpineInv'
        /\ \A v \in Workers : Open(v)' => Open(v) /\ tx'[v] = tx[v]
    BY <1>1, <1>3, <1>6, EndFacts
  <2>2. Snapshots'
    BY <1>1, <1>2, <1>6, <2>1 DEF Snapshots
  <2> QED BY <2>1, <2>2 DEF PgInv
<1>7. ASSUME NEW w \in Workers, CommitInsert(w) PROVE PgInv'
  <2>1. End(w) /\ Snapshot(tx[w].sees) /\ tx[w].event \in Content
    BY <1>1, <1>7 DEF CommitInsert, Snapshots, Holds, Open, PgTypeOK, Transaction
  <2>2. /\ SpineInv' /\ events \subseteq events'
        /\ HeadHash' \in Digest /\ CommitsTo(HeadHash', HeadHash)
    BY <1>1, <1>7, <2>1, CommitFacts
  <2>3. /\ PgTypeOK'
        /\ \A v \in Workers : Open(v)' => Open(v) /\ tx'[v] = tx[v]
    BY <1>1, <2>1, <2>2, EndFacts DEF SpineInv
  <2>4. Snapshots'
    BY <1>1, <2>2, <2>3, SnapshotStays DEF Snapshots
  <2> QED BY <2>2, <2>3, <2>4 DEF PgInv
<1>8. CASE UNCHANGED pgVars
  BY <1>1, <1>2, <1>3, <1>8 DEF pgVars, PgInv, PgTypeOK, Snapshots, Holds, Open
<1> QED
  BY <1>4, <1>5, <1>6, <1>7, <1>8 DEF PgNext, Finish, CommitDuplicate, SerializationFailure,
     LoseTransaction

-------------------------------------------------------------------------------
(* The theorems.                                                           *)

\* The inductive invariant: the spine, the lock and the snapshots.
THEOREM PgInvariance == TsPrecision = 1 /\ PgSpec => []PgInv
<1>1. PgInit => PgInv
  <2> SUFFICES ASSUME PgInit PROVE PgInv
    OBVIOUS
  <2>1. SpineInv
    BY DEF PgInit, Init, SpineInv, TypeOK, OneRowPerId, HashesSound, HeadExists, HeadHash,
           HashAfter, ZeroHash, SpineSorted, LinksIntoSpine, OnTimeOnSpine, SpineStored
  <2>2. PgTypeOK
    BY PgAssumption DEF PgInit, Init, PgTypeOK, TypeOK, Holds, Open
  <2>3. Snapshots
    BY DEF PgInit, Snapshots, Open
  <2> QED BY <2>1, <2>2, <2>3 DEF PgInv
<1>2. TsPrecision = 1 /\ PgInv /\ [PgNext]_pgVars => PgInv'
  BY PgStep
<1>3. CASE TsPrecision = 1
  BY <1>1, <1>2, <1>3, PTL DEF PgSpec
<1> QED BY <1>3

\* The lock is held by exactly the worker that is past it, and the table holds rows.
THEOREM PgTypeCorrectness == TsPrecision = 1 /\ PgSpec => []PgTypeOK
<1>1. PgInv => PgTypeOK
  BY DEF PgInv
<1> QED BY <1>1, PgInvariance, PTL

\* However many replicas insert at once, with whatever stale heads: the chain
\* stays one spine with late leaves (InsertChained).
THEOREM PgSpineInvariance == TsPrecision = 1 /\ PgSpec => []SpineInv
<1>1. PgInv => SpineInv
  BY DEF PgInv
<1> QED BY <1>1, PgInvariance, PTL

\* So the verifier's walk over what concurrent transactions committed is contiguous
\* exactly when none of the events was late: conflicts leave no trace in the chain.
THEOREM PgWalkTheorem == TsPrecision = 1 /\ PgSpec => []WalkIsContiguousUnlessLate
<1>1. SpineInv => WalkIsContiguousUnlessLate
  BY OnTimeWalk, LateBreaksWalk DEF WalkIsContiguousUnlessLate
<1> QED BY <1>1, PgSpineInvariance, PTL

\* A committed insert is linked to the head of the table, or late, although its
\* transaction may have read an older head (InsertChained).
THEOREM NoStaleLinkSafety == TsPrecision = 1 /\ PgSpec => NoStaleLink
<1>1. TsPrecision = 1 /\ PgInv /\ [PgNext]_pgVars
        => [\A row \in events' \ events : Late(row) \/ row.prev = HeadHash]_pgVars
  <2> SUFFICES ASSUME TsPrecision = 1, PgInv, PgNext, NEW row \in events' \ events
               PROVE  Late(row) \/ row.prev = HeadHash
    OBVIOUS
  <2>1. PICK w \in Workers : CommitInsert(w)
    BY DEF PgNext, Begin, AcquireLock, Finish, CommitDuplicate, SerializationFailure,
           LoseTransaction
  <2>2. /\ SpineInv /\ Snapshot(tx[w].sees) /\ tx[w].event \in Content
        /\ row = NewRow(w)
    BY <2>1 DEF CommitInsert, PgInv, Snapshots, Holds, Open, PgTypeOK, Transaction
  <2> QED BY <2>1, <2>2, CommitFacts
<1>2. CASE TsPrecision = 1
  BY <1>1, <1>2, PgInvariance, PTL DEF PgSpec, NoStaleLink
<1> QED BY <1>2

\* Every commit extends the spine of AuditLog or attaches a late event to it.
LEMMA CommitIsLogStep ==
    ASSUME SpineInv, TsPrecision = 1, NEW w \in Workers, Snapshot(tx[w].sees),
           tx[w].event \in Content, CommitInsert(w)
    PROVE  [Log!LogNext]_<<HeadHash, LateLeaves, {}>>
<1> DEFINE c == tx[w].event
           d == SeenHash(w)
<1>1. /\ ~Stored(c.id) /\ ~Dangerous(w) /\ events' = events \cup {NewRow(w)}
      /\ NewRow(w) = Chained(c, d) /\ d \in Digest /\ CommitsTo(HeadHash, d)
  BY NewRowIsChained, SnapshotHash DEF CommitInsert, SeenHash, Snapshot
<1>2. CASE d = HeadHash
  <2>1. events' = events \cup {Chained(c, HeadHash)}
    BY <1>1, <1>2
  <2>2. c \in Content
    OBVIOUS
  <2>3. Log!Extend(c) \/ Log!Attach(c)
    BY <1>1, <2>1, <2>2, FreshInsertIsLogStep
  <2> QED BY <2>2, <2>3 DEF Log!LogNext, Log!Content, Content
<1>3. CASE d # ZeroHash /\ Before(c, Last(d))
  <2> DEFINE new == Chained(c, d)
  <2> HIDE DEF c, d
  <2>1. c \in Content
    BY DEF c
  <2>2. /\ HeadHash' = HeadHash /\ Late(new) /\ ContentOf(new) = c /\ new.prev = d
    BY <1>1, <1>3, <2>1, LateInsertKeepsHead, ChainedIsRow
  <2>3. LateLeaves' = LateLeaves \cup {[content |-> c, prev |-> d]}
    BY <1>1, <2>2 DEF LateLeaves, Late, Before
  <2>4. ~Log!Logged(c.id)
    BY <1>1, LoggedIsStored
  <2>5. HeadHash \in Digest /\ Len(d) \in 1..Len(HeadHash) /\ HeadHash[Len(d)] = Last(d)
    <3>1. HeadHash \in Digest
      BY HeadFacts DEF SpineInv
    <3> QED BY <1>1, <1>3, <3>1, LastFacts, CommitsReflexive DEF CommitsTo
  <2>6. SubSeq(HeadHash, 1, Len(d)) = d
    BY <1>1, <2>5 DEF CommitsTo, Digest
  <2>7. Log!Attach(c)
    BY <1>3, <2>2, <2>3, <2>4, <2>5, <2>6 DEF Log!Attach, Log!Before, Before
  <2> QED BY <2>1, <2>7 DEF Log!LogNext, Log!Content, Content
<1> QED BY <1>1, <1>2, <1>3, CommitSeesHeadOrIsLate

\* However many replicas insert at once, the table of PostgreSQL keeps the promise
\* of AuditLog: every committed insert extends the spine or attaches a late event,
\* and nothing else changes the log (InsertChained, under the advisory lock).
THEOREM PgImplementsAuditLog == TsPrecision = 1 /\ PgSpec => ImplementsAuditLog
<1>1. PgInit => Log!LogInit
  BY DEF PgInit, Init, Log!LogInit, HeadHash, HashAfter, LateLeaves, Log!ZeroHash, ZeroHash
<1>2. TsPrecision = 1 /\ PgInv /\ [PgNext]_pgVars
        => [Log!LogNext]_<<HeadHash, LateLeaves, {}>>
  <2> SUFFICES ASSUME TsPrecision = 1, PgInv, [PgNext]_pgVars
               PROVE  [Log!LogNext]_<<HeadHash, LateLeaves, {}>>
    OBVIOUS
  <2>1. CASE UNCHANGED events
    BY <2>1 DEF HeadHash, HashAfter, ChainHead, LastRow, IsHead, IsLastRow, LateLeaves
  <2>2. ASSUME NEW w \in Workers, CommitInsert(w)
        PROVE  [Log!LogNext]_<<HeadHash, LateLeaves, {}>>
    <3>1. SpineInv /\ Snapshot(tx[w].sees) /\ tx[w].event \in Content
      BY <2>2 DEF CommitInsert, PgInv, Snapshots, Holds, Open, PgTypeOK, Transaction
    <3> QED BY <2>2, <3>1, CommitIsLogStep
  <2> QED BY <2>1, <2>2 DEF PgNext, pgVars, Begin, AcquireLock, Finish, CommitDuplicate,
             SerializationFailure, LoseTransaction
<1>3. CASE TsPrecision = 1
  BY <1>1, <1>2, <1>3, PgInvariance, PTL DEF PgSpec, ImplementsAuditLog, Log!LogSpec, Log!logVars
<1> QED BY <1>3
===============================================================================
