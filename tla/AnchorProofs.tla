----------------------------- MODULE AnchorProofs -----------------------------
(***************************************************************************)
(* What module AnchorJob claims, for any number of replicas and every set  *)
(* of events.  The argument: the head that a job read, however long ago,   *)
(* is still a row of the log with the same hash, and the head of now       *)
(* commits to that hash.  So whatever the job signs, stores or marks       *)
(* afterwards belongs to the one spine.                                    *)
(***************************************************************************)
EXTENDS AnchorJob, EventStoreProofs

-------------------------------------------------------------------------------
(* The inductive invariant.                                                *)

\* The row that was read as up is stored, its flags apart, and is on the spine.
OnSpine(up) ==
    /\ CommitsTo(HeadHash, up.this)
    /\ \E row \in events : SameColumns(up, row)

JobsSawHead == \A r \in Replicas : job[r] # None => OnSpine(job[r][1])

StoredHaveAnchor ==
    \A r \in Replicas : job[r] # None /\ job[r][2] = "stored" =>
        [root |-> job[r][1].this, last |-> job[r][1].id] \in anchors

RootsOnSpine == \A a \in anchors : CommitsTo(HeadHash, a.root)

AnchorInv ==
    /\ SpineInv /\ AnchorTypeOK /\ JobsSawHead /\ StoredHaveAnchor
    /\ RootsOnSpine /\ AnchorsMatchRows /\ OnlyLateRowsAnchoredUncovered

\* What no step takes back: the rows are kept, their flags apart, anchors are
\* only added, and the head goes on committing to what it committed to.
Forward ==
    /\ SpineInv'
    /\ \A row \in events : \E kept \in events' : SameColumns(row, kept)
    /\ anchors \subseteq anchors'
    /\ HeadHash' \in Digest /\ CommitsTo(HeadHash', HeadHash)

-------------------------------------------------------------------------------
(* The steps on the rows.                                                  *)

\* An insert keeps every row, and the row it adds is not anchored.
LEMMA IngestFacts ==
    ASSUME SpineInv, NEW c \in Content, Ingest(c)
    PROVE  /\ Forward /\ UNCHANGED <<anchors, job>>
           /\ events' = events \cup {Chained(c, HeadHash)}
           /\ ~Chained(c, HeadHash).anchored
<1>1. /\ ~Stored(c.id) /\ UNCHANGED <<anchors, job>>
      /\ events' = events \cup {Chained(c, HeadHash)}
  BY DEF Ingest, InsertChained
<1>2. SpineInv'
  BY <1>1, InsertPreserves
<1>3. /\ HeadHash \in Digest /\ CommitsTo(HeadHash, HeadHash)
      /\ Append(HeadHash, c) \in Digest /\ CommitsTo(Append(HeadHash, c), HeadHash)
  BY HeadFacts, CommitsReflexive, HashExtends DEF SpineInv, CanonicalHash
<1>4. HeadHash' \in Digest /\ CommitsTo(HeadHash', HeadHash)
  BY <1>1, <1>3, InsertExtendsOrAttaches
<1>5. \A row \in events : SameColumns(row, row) /\ row \in events'
  BY <1>1 DEF SameColumns
<1>6. ~Chained(c, HeadHash).anchored
  BY DEF Chained
<1> QED BY <1>1, <1>2, <1>4, <1>5, <1>6 DEF Forward

\* A mark keeps every row, and flags only rows up to the one it was given.
LEMMA MarkFacts ==
    ASSUME SpineInv, NEW upTo, MarkAnchored(upTo), UNCHANGED anchors
    PROVE  /\ Forward /\ FlagsOnly /\ HeadHash' = HeadHash
           /\ \A kept \in events' : \E row \in events :
                /\ SameColumns(row, kept)
                /\ kept.anchored => row.anchored \/ ~Before(upTo, row)
<1>1. FlagsOnly
  BY MarkAnchoredIsFlagsOnly DEF SpineInv
<1>2. SpineInv' /\ HeadHash' = HeadHash
  BY <1>1, FlagsOnlyPreserves
<1>3. HeadHash' \in Digest /\ CommitsTo(HeadHash', HeadHash)
  BY <1>2, HeadFacts, CommitsReflexive DEF SpineInv
<1>4. \A kept \in events' : \E row \in events :
        /\ SameColumns(row, kept)
        /\ kept.anchored => row.anchored \/ ~Before(upTo, row)
  <2> DEFINE marked(row) == IF Before(upTo, row) THEN row ELSE [row EXCEPT !.anchored = TRUE]
  <2>1. \A row \in events : /\ SameColumns(row, marked(row))
                            /\ marked(row).anchored => row.anchored \/ ~Before(upTo, row)
    BY DEF SpineInv, TypeOK, Row, SameColumns
  <2>2. events' = {marked(row) : row \in events}
    BY DEF MarkAnchored
  <2> HIDE DEF marked
  <2> QED BY <2>1, <2>2
<1> QED BY <1>1, <1>2, <1>3, <1>4 DEF Forward, FlagsOnly

\* The head that ChainHead returns is on the spine.
LEMMA HeadOnSpine ==
    ASSUME SpineInv, events # {}
    PROVE  ChainHead \in Row /\ OnSpine(ChainHead)
<1>1. IsHead(ChainHead) /\ HeadHash = ChainHead.this /\ HeadHash \in Digest
  BY HeadFacts DEF SpineInv
<1>2. ChainHead \in events /\ SameColumns(ChainHead, ChainHead)
  BY <1>1 DEF IsHead, IsLastRow, SameColumns
<1> QED BY <1>1, <1>2, CommitsReflexive DEF OnSpine, SpineInv, TypeOK

\* A row on the spine stays on it, whatever is inserted and marked meanwhile.
LEMMA OnSpineStays ==
    ASSUME SpineInv, Forward, NEW up \in Row, OnSpine(up)
    PROVE  OnSpine(up)'
<1>1. HeadHash \in Digest /\ HeadHash' \in Digest /\ up.this \in Digest
  BY HeadFacts, RowFacts DEF SpineInv, Forward
<1>2. CommitsTo(HeadHash', up.this)
  BY <1>1, CommitsTransitive DEF Forward, OnSpine
<1>3. \E row \in events' : SameColumns(up, row)
  BY DEF Forward, OnSpine, SameColumns
<1> QED BY <1>2, <1>3 DEF OnSpine

\* A row up to a row of the spine is committed to by that row's hash, or late.
LEMMA UpToIsCommittedOrLate ==
    ASSUME SpineInv, NEW up \in Row, OnSpine(up), NEW row \in events, ~Before(up, row)
    PROVE  \/ ContentOf(row) \in ToSet(up.this)
           \/ Late(row) /\ Before(row, up)
<1>1. PICK last \in events : SameColumns(up, last)
  BY DEF OnSpine
<1>2. ~Late(last)
  BY <1>1, LateOffSpine DEF OnSpine, SameColumns
<1> DEFINE n == Len(row.prev) + 1
           m == Len(last.prev) + 1
<1>3. /\ m \in 1..Len(HeadHash) /\ HeadHash[m] = ContentOf(last)
      /\ m = Len(up.this) /\ up.this \in Digest /\ Len(HeadHash) \in Nat
  BY <1>1, <1>2, OnTimePosition, RowHash DEF SameColumns
<1>4. /\ row.id \in Nat /\ row.ts \in Nat /\ last.id \in Nat /\ last.ts \in Nat
      /\ ContentOf(row).id = row.id /\ ContentOf(row).ts = row.ts
      /\ ContentOf(last).id = last.id /\ ContentOf(last).ts = last.ts
      /\ up.id = last.id /\ up.ts = last.ts
  BY <1>1, RowHash, RowFacts DEF SameColumns
<1>5. CASE Late(row)
  <2>1. row.id # last.id
    BY <1>2, <1>5 DEF SpineInv, OneRowPerId
  <2> QED BY <1>4, <1>5, <2>1 DEF Before
<1>6. CASE ~Late(row)
  <2>1. n \in 1..Len(HeadHash) /\ HeadHash[n] = ContentOf(row)
    BY <1>6, OnTimePosition
  <2> HIDE DEF n, m
  <2>2. ~(m < n)
    BY <1>3, <1>4, <2>1 DEF SpineInv, SpineSorted, Before
  <2>3. n \in 1..Len(up.this) /\ up.this[n] = ContentOf(row)
    BY <1>3, <2>1, <2>2 DEF OnSpine, CommitsTo
  <2>4. DOMAIN up.this = 1..Len(up.this)
    BY <1>3 DEF Digest
  <2> QED BY <2>3, <2>4 DEF ToSet
<1> QED BY <1>5, <1>6

-------------------------------------------------------------------------------
(* Every action keeps the invariant.                                       *)

\* What Forward keeps: jobs that did not move and anchors that were there.
LEMMA ForwardKeeps ==
    ASSUME AnchorInv, Forward
    PROVE  /\ \A r \in Replicas : job'[r] = job[r] /\ job[r] # None => OnSpine(job[r][1])'
           /\ \A a \in anchors : /\ CommitsTo(HeadHash', a.root)
                                  /\ \E row \in events' : row.id = a.last /\ row.this = a.root
           /\ \A row \in events, kept \in events' :
                SameColumns(row, kept) /\ row.anchored =>
                    \/ Covered(kept)'
                    \/ /\ Late(kept)
                       /\ \E a \in anchors', last \in events' :
                            last.id = a.last /\ Before(kept, last)
<1>1. SpineInv /\ AnchorTypeOK /\ JobsSawHead /\ RootsOnSpine /\ AnchorsMatchRows
      /\ OnlyLateRowsAnchoredUncovered
  BY DEF AnchorInv
<1>2. \A r \in Replicas : job[r] # None => job[r][1] \in Row
  BY <1>1 DEF AnchorTypeOK
<1>3. \A r \in Replicas : job'[r] = job[r] /\ job[r] # None => OnSpine(job[r][1])'
  <2>1. \A up \in Row : OnSpine(up) => /\ CommitsTo(HeadHash', up.this)
                                      /\ \E row \in events' : SameColumns(up, row)
    BY <1>1, OnSpineStays DEF OnSpine
  <2> QED BY <1>1, <1>2, <2>1 DEF JobsSawHead, OnSpine
<1>4. ASSUME NEW a \in anchors
      PROVE  /\ CommitsTo(HeadHash', a.root)
             /\ \E row \in events' : row.id = a.last /\ row.this = a.root
  <2>1. a.root \in Digest /\ HeadHash \in Digest /\ CommitsTo(HeadHash, a.root)
    BY <1>1, HeadFacts DEF AnchorTypeOK, Anchor, SpineInv, RootsOnSpine
  <2>2. CommitsTo(HeadHash', a.root)
    BY <2>1, CommitsTransitive DEF Forward
  <2>3. \E row \in events' : row.id = a.last /\ row.this = a.root
    BY <1>1 DEF AnchorsMatchRows, Forward, SameColumns
  <2> QED BY <2>2, <2>3
<1>5. ASSUME NEW row \in events, NEW kept \in events', SameColumns(row, kept), row.anchored
      PROVE  \/ Covered(kept)'
             \/ /\ Late(kept)
                /\ \E a \in anchors', last \in events' : last.id = a.last /\ Before(kept, last)
  <2>1. CASE Covered(row)
    BY <1>5, <2>1 DEF Covered, Forward, SameColumns, ContentOf
  <2>2. ASSUME Late(row), NEW a \in anchors, NEW last \in events,
               last.id = a.last, Before(row, last)
        PROVE  Late(kept) /\ \E b \in anchors', up \in events' : up.id = b.last /\ Before(kept, up)
    <3>1. PICK up \in events' : SameColumns(last, up)
      BY DEF Forward
    <3>2. Late(kept)
      BY <1>5, <2>2 DEF SameColumns, Late, Before
    <3>3. up.id = a.last /\ Before(kept, up) /\ a \in anchors'
      BY <1>5, <2>2, <3>1 DEF Forward, SameColumns, Before
    <3> QED BY <3>2, <3>3
  <2> QED BY <1>1, <1>5, <2>1, <2>2 DEF OnlyLateRowsAnchoredUncovered
<1> QED BY <1>3, <1>4, <1>5

\* An event that arrives between any two calls of a job disturbs nothing.
LEMMA IngestStep ==
    ASSUME AnchorInv, NEW c \in Content, Ingest(c)
    PROVE  AnchorInv'
<1>1. /\ SpineInv /\ AnchorTypeOK /\ StoredHaveAnchor
      /\ Forward /\ UNCHANGED <<anchors, job>>
      /\ events' = events \cup {Chained(c, HeadHash)}
      /\ ~Chained(c, HeadHash).anchored
  BY IngestFacts DEF AnchorInv
<1>2. SpineInv' /\ AnchorTypeOK'
  BY <1>1 DEF Forward, AnchorTypeOK, SpineInv
<1>3. JobsSawHead' /\ RootsOnSpine' /\ AnchorsMatchRows'
  BY <1>1, ForwardKeeps DEF JobsSawHead, RootsOnSpine, AnchorsMatchRows, OnSpine
<1>4. StoredHaveAnchor'
  BY <1>1 DEF StoredHaveAnchor
<1>5. OnlyLateRowsAnchoredUncovered'
  BY <1>1, ForwardKeeps DEF OnlyLateRowsAnchoredUncovered, SameColumns, Late, Before
<1> QED BY <1>2, <1>3, <1>4, <1>5 DEF AnchorInv

\* The steps that leave the rows alone go forward.
LEMMA SameRowsForward ==
    ASSUME SpineInv, UNCHANGED events, anchors \subseteq anchors'
    PROVE  Forward /\ HeadHash' = HeadHash /\ LateLeaves' = LateLeaves
<1>1. HeadHash' = HeadHash /\ LateLeaves' = LateLeaves
  BY DEF HeadHash, HashAfter, LastRow, IsLastRow, LateLeaves
<1>2. SpineInv'
  BY SpineStays
<1>3. HeadHash \in Digest /\ CommitsTo(HeadHash, HeadHash)
  BY HeadFacts, CommitsReflexive DEF SpineInv
<1> QED BY <1>1, <1>2, <1>3 DEF Forward, SameColumns

\* ReadHead: the job remembers the head of now.
LEMMA ReadHeadStep ==
    ASSUME AnchorInv, NEW r \in Replicas, ReadHead(r)
    PROVE  AnchorInv'
<1>1. /\ SpineInv /\ AnchorTypeOK /\ JobsSawHead /\ StoredHaveAnchor /\ RootsOnSpine
      /\ AnchorsMatchRows /\ OnlyLateRowsAnchoredUncovered
      /\ events # {} /\ UNCHANGED <<events, anchors>>
      /\ job' = [job EXCEPT ![r] = <<ChainHead, "signed">>]
  BY DEF AnchorInv, ReadHead
<1>2. Forward /\ HeadHash' = HeadHash
  BY <1>1, SameRowsForward
<1>3. ChainHead \in Row /\ OnSpine(ChainHead)
  BY <1>1, HeadOnSpine
<1>4. job'[r] = <<ChainHead, "signed">> /\ \A q \in Replicas \ {r} : job'[q] = job[q]
  BY <1>1 DEF AnchorTypeOK
<1>5. SpineInv' /\ AnchorTypeOK'
  BY <1>1, <1>2, <1>3 DEF Forward, AnchorTypeOK, TypeOK
<1>6. JobsSawHead'
  BY <1>1, <1>2, <1>3, <1>4 DEF JobsSawHead, OnSpine
<1>7. StoredHaveAnchor'
  BY <1>1, <1>4 DEF StoredHaveAnchor
<1>8. RootsOnSpine' /\ AnchorsMatchRows' /\ OnlyLateRowsAnchoredUncovered'
  BY <1>1, <1>2 DEF RootsOnSpine, AnchorsMatchRows, OnlyLateRowsAnchoredUncovered, Covered, Late, Before
<1> QED BY <1>5, <1>6, <1>7, <1>8 DEF AnchorInv

\* InsertAnchor: the signed digest is that of the row the job read.
LEMMA InsertAnchorStep ==
    ASSUME AnchorInv, NEW r \in Replicas, InsertAnchor(r)
    PROVE  AnchorInv'
<1> DEFINE up == job[r][1]
           new == [root |-> up.this, last |-> up.id]
<1>1. /\ SpineInv /\ AnchorTypeOK /\ JobsSawHead /\ StoredHaveAnchor /\ RootsOnSpine
      /\ AnchorsMatchRows /\ OnlyLateRowsAnchoredUncovered
      /\ job[r] # None /\ UNCHANGED events
      /\ anchors' = anchors \cup {new} /\ job' = [job EXCEPT ![r][2] = "stored"]
  BY DEF AnchorInv, InsertAnchor
<1>2. Forward /\ HeadHash' = HeadHash
  BY <1>1, SameRowsForward
<1>3. job[r] \in Row \X {"signed", "stored"} /\ up \in Row /\ OnSpine(up)
  BY <1>1 DEF AnchorTypeOK, JobsSawHead
<1>4. /\ job'[r] = <<up, "stored">> /\ job'[r] # None
      /\ \A q \in Replicas \ {r} : job'[q] = job[q]
  BY <1>1, <1>3, AnchorAssumption DEF AnchorTypeOK
<1>5. new \in Anchor
  BY <1>3, RowFacts DEF Anchor, Row
<1> HIDE DEF up, new
<1>6. SpineInv' /\ AnchorTypeOK'
  <2>1. job' \in [Replicas -> (Row \X {"signed", "stored"}) \cup {None}]
    BY <1>1, <1>3, <1>4 DEF AnchorTypeOK
  <2> QED BY <1>1, <1>2, <1>5, <2>1 DEF Forward, AnchorTypeOK, TypeOK
<1>7. JobsSawHead'
  BY <1>1, <1>2, <1>3, <1>4 DEF JobsSawHead, OnSpine
<1>8. StoredHaveAnchor'
  BY <1>1, <1>4 DEF StoredHaveAnchor, new
<1>9. RootsOnSpine' /\ AnchorsMatchRows'
  BY <1>1, <1>2, <1>3 DEF RootsOnSpine, AnchorsMatchRows, OnSpine, SameColumns, new
<1>10. OnlyLateRowsAnchoredUncovered'
  BY <1>1 DEF OnlyLateRowsAnchoredUncovered, Covered, Late, Before
<1> QED BY <1>6, <1>7, <1>8, <1>9, <1>10 DEF AnchorInv

\* MarkCovered: what it flags is committed to by the stored anchor, or late.
LEMMA MarkCoveredStep ==
    ASSUME AnchorInv, NEW r \in Replicas, MarkCovered(r)
    PROVE  AnchorInv'
<1> DEFINE up == job[r][1]
<1>1. /\ SpineInv /\ AnchorTypeOK /\ JobsSawHead /\ StoredHaveAnchor /\ RootsOnSpine
      /\ AnchorsMatchRows /\ OnlyLateRowsAnchoredUncovered
      /\ job[r] # None /\ job[r][2] = "stored" /\ MarkAnchored(up) /\ UNCHANGED anchors
      /\ job' = [job EXCEPT ![r] = None]
  BY DEF AnchorInv, MarkCovered
<1>2. up \in Row /\ OnSpine(up) /\ [root |-> up.this, last |-> up.id] \in anchors
  BY <1>1 DEF AnchorTypeOK, JobsSawHead, StoredHaveAnchor
<1> HIDE DEF up
<1>3. /\ Forward /\ HeadHash' = HeadHash
      /\ \A kept \in events' : \E row \in events :
           /\ SameColumns(row, kept)
           /\ kept.anchored => row.anchored \/ ~Before(up, row)
  BY <1>1, MarkFacts
<1>4. job'[r] = None /\ \A q \in Replicas \ {r} : job'[q] = job[q]
  BY <1>1 DEF AnchorTypeOK
<1>5. SpineInv' /\ AnchorTypeOK'
  BY <1>1, <1>3 DEF Forward, AnchorTypeOK, SpineInv
<1>6. JobsSawHead' /\ StoredHaveAnchor'
  BY <1>1, <1>3, <1>4, ForwardKeeps DEF JobsSawHead, StoredHaveAnchor, OnSpine
<1>7. RootsOnSpine' /\ AnchorsMatchRows'
  BY <1>1, <1>3, ForwardKeeps DEF RootsOnSpine, AnchorsMatchRows
<1>8. OnlyLateRowsAnchoredUncovered'
  <2> SUFFICES ASSUME NEW kept \in events', kept.anchored
               PROVE  \/ Covered(kept)'
                      \/ /\ Late(kept)
                         /\ \E a \in anchors', last \in events' :
                              last.id = a.last /\ Before(kept, last)
    BY DEF OnlyLateRowsAnchoredUncovered, Late, Before
  <2>1. PICK row \in events : /\ SameColumns(row, kept)
                              /\ row.anchored \/ ~Before(up, row)
    BY <1>3
  <2>2. CASE row.anchored
    BY <1>3, <2>1, <2>2, ForwardKeeps
  <2>3. CASE ContentOf(row) \in ToSet(up.this)
    BY <1>1, <1>2, <2>1, <2>3 DEF Covered, SameColumns, ContentOf
  <2>4. CASE Late(row) /\ Before(row, up)
    <3>1. PICK last \in events' : SameColumns(up, last)
      BY <1>2, <1>3 DEF OnSpine, Forward, SameColumns
    <3>2. Late(kept) /\ Before(kept, last)
      BY <2>1, <2>4, <3>1 DEF SameColumns, Late, Before
    <3> QED BY <1>1, <1>2, <3>1, <3>2 DEF SameColumns
  <2> QED BY <1>1, <1>2, <2>1, <2>2, <2>3, <2>4, UpToIsCommittedOrLate
<1> QED BY <1>5, <1>6, <1>7, <1>8 DEF AnchorInv

\* Abandon, and a step that changes nothing: a job is dropped where it is.
LEMMA DropStep ==
    ASSUME AnchorInv, UNCHANGED <<events, anchors>>,
           \A r \in Replicas : job'[r] \in {job[r], None},
           job' \in [Replicas -> (Row \X {"signed", "stored"}) \cup {None}]
    PROVE  AnchorInv'
<1>1. SpineInv /\ Forward /\ HeadHash' = HeadHash
  BY SameRowsForward DEF AnchorInv
<1>2. SpineInv' /\ AnchorTypeOK'
  BY <1>1 DEF AnchorInv, AnchorTypeOK, TypeOK, Forward
<1>3. JobsSawHead' /\ StoredHaveAnchor' /\ RootsOnSpine'
  BY <1>1 DEF AnchorInv, JobsSawHead, StoredHaveAnchor, RootsOnSpine, OnSpine
<1>4. AnchorsMatchRows' /\ OnlyLateRowsAnchoredUncovered'
  BY DEF AnchorInv, AnchorsMatchRows, OnlyLateRowsAnchoredUncovered, Covered, Late, Before
<1> QED BY <1>2, <1>3, <1>4 DEF AnchorInv

-------------------------------------------------------------------------------
(* The theorems.                                                           *)

\* Nothing is anchored or under way at the start.
LEMMA AnchorInitHolds ==
    ASSUME AnchorInit
    PROVE  AnchorInv
<1>1. SpineInv
  BY DEF AnchorInit, Init, SpineInv, TypeOK, OneRowPerId, HashesSound, HeadExists, HeadHash,
         HashAfter, ZeroHash, SpineSorted, LinksIntoSpine, OnTimeOnSpine, SpineStored
<1> QED BY <1>1 DEF AnchorInit, Init, AnchorInv, AnchorTypeOK, TypeOK, JobsSawHead,
           StoredHaveAnchor, RootsOnSpine, AnchorsMatchRows, OnlyLateRowsAnchoredUncovered

\* Each step of the log and the job.
LEMMA AnchorStepHolds ==
    ASSUME AnchorInv, [AnchorNext]_anchorVars
    PROVE  AnchorInv'
<1>1. ASSUME NEW r \in Replicas, Abandon(r) PROVE AnchorInv'
  <2>1. /\ job' \in [Replicas -> (Row \X {"signed", "stored"}) \cup {None}]
        /\ \A q \in Replicas : job'[q] \in {job[q], None}
    BY <1>1 DEF Abandon, AnchorInv, AnchorTypeOK
  <2> QED BY <1>1, <2>1, DropStep DEF Abandon
<1>2. CASE UNCHANGED anchorVars
  BY <1>2, DropStep DEF anchorVars, AnchorInv, AnchorTypeOK
<1> QED BY <1>1, <1>2, IngestStep, ReadHeadStep, InsertAnchorStep, MarkCoveredStep
        DEF AnchorNext

\* The inductive invariant: whatever a job read is still on the spine.
THEOREM AnchorInvariance == AnchorSpec => []AnchorInv
<1>1. AnchorInit => AnchorInv
  BY AnchorInitHolds
<1>2. AnchorInv /\ [AnchorNext]_anchorVars => AnchorInv'
  BY AnchorStepHolds
<1> QED BY <1>1, <1>2, PTL DEF AnchorSpec

\* Anchors name a digest and an event, a running job holds a row.
THEOREM AnchorTypeCorrectness == AnchorSpec => []AnchorTypeOK
<1>1. AnchorInv => AnchorTypeOK BY DEF AnchorInv
<1> QED BY <1>1, AnchorInvariance, PTL

\* The row an anchor names is stored with the signed digest as its this_hash,
\* whatever arrived between ChainHead and InsertAnchor, or after.
THEOREM AnchorsMatchRowsInvariance == AnchorSpec => []AnchorsMatchRows
<1>1. AnchorInv => AnchorsMatchRows BY DEF AnchorInv
<1> QED BY <1>1, AnchorInvariance, PTL

\* An anchored row is committed to by a signed root, or was late: MarkAnchored
\* flags by (ts, id), the root covers the spine.
THEOREM OnlyLateRowsAnchoredUncoveredInvariance ==
    AnchorSpec => []OnlyLateRowsAnchoredUncovered
<1>1. AnchorInv => OnlyLateRowsAnchoredUncovered BY DEF AnchorInv
<1> QED BY <1>1, AnchorInvariance, PTL

\* Replicas that anchor without a lock never sign two histories.
THEOREM RootsNeverForkInvariance == AnchorSpec => []RootsNeverFork
<1>1. AnchorInv => RootsNeverFork
  <2> SUFFICES ASSUME AnchorInv, NEW a \in anchors, NEW b \in anchors
               PROVE  CommitsTo(a.root, b.root) \/ CommitsTo(b.root, a.root)
    BY DEF RootsNeverFork
  <2>1. /\ a.root \in Digest /\ b.root \in Digest /\ HeadHash \in Digest
        /\ CommitsTo(HeadHash, a.root) /\ CommitsTo(HeadHash, b.root)
    BY HeadFacts DEF AnchorInv, AnchorTypeOK, Anchor, RootsOnSpine, SpineInv
  <2>2. Len(a.root) \in Nat /\ Len(b.root) \in Nat
    BY <2>1, CommitsReflexive
  <2> QED BY <2>1, <2>2 DEF CommitsTo
<1> QED BY <1>1, AnchorInvariance, PTL

\* Each step of the anchor job publishes a prefix of the spine or is none of
\* AuditLog's, and the log it anchors goes on keeping its promise.
THEOREM AnchorJobImplementsAuditLog == AnchorSpec => ImplementsAnchoredLog
<1> DEFINE roots == {a.root : a \in anchors}
<1>1. AnchorInit => AnchoredLog!LogInit
  BY DEF AnchorInit, Init, AnchoredLog!LogInit, HeadHash, HashAfter, LateLeaves,
         AnchoredLog!ZeroHash, ZeroHash
<1>2. AnchorInv /\ [AnchorNext]_anchorVars
        => [AnchoredLog!LogNext]_<<HeadHash, LateLeaves, roots>>
  <2> SUFFICES ASSUME AnchorInv, [AnchorNext]_anchorVars
               PROVE  [AnchoredLog!LogNext]_<<HeadHash, LateLeaves, roots>>
    OBVIOUS
  <2>1. SpineInv BY DEF AnchorInv
  <2>2. ASSUME NEW c \in Content, Ingest(c)
        PROVE  AnchoredLog!LogNext
    <3>1. /\ ~Stored(c.id) /\ UNCHANGED anchors
          /\ events' = events \cup {Chained(c, HeadHash)}
      BY <2>2 DEF Ingest, InsertChained
    <3>2. Log!Extend(c) \/ Log!Attach(c)
      BY <2>1, <3>1, FreshInsertIsLogStep
    <3>3. AnchoredLog!Extend(c) \/ AnchoredLog!Attach(c)
      BY <3>1, <3>2 DEF Log!Extend, Log!Attach, Log!Logged, Log!Before, Log!Last, Log!ZeroHash,
         AnchoredLog!Extend, AnchoredLog!Attach, AnchoredLog!Logged, AnchoredLog!Before,
         AnchoredLog!Last, AnchoredLog!ZeroHash
    <3> QED BY <3>3 DEF AnchoredLog!LogNext, AnchoredLog!Content, Content
  <2>3. ASSUME UNCHANGED events, UNCHANGED anchors
        PROVE  UNCHANGED <<HeadHash, LateLeaves, roots>>
    BY <2>1, <2>3, SameRowsForward
  <2>4. ASSUME NEW r \in Replicas, InsertAnchor(r)
        PROVE  AnchoredLog!LogNext
    <3> DEFINE up == job[r][1]
               n == Len(up.this)
    <3>1. /\ UNCHANGED events
          /\ anchors' = anchors \cup {[root |-> up.this, last |-> up.id]}
          /\ up \in Row /\ OnSpine(up)
      BY <2>4 DEF InsertAnchor, AnchorInv, AnchorTypeOK, JobsSawHead
    <3> HIDE DEF up
    <3>2. UNCHANGED <<HeadHash, LateLeaves>>
      BY <2>1, <3>1, SameRowsForward
    <3>3. PICK row \in events : SameColumns(up, row)
      BY <3>1 DEF OnSpine
    <3>4. n \in 1..Len(HeadHash) /\ SubSeq(HeadHash, 1, n) = up.this
      <4>1. /\ HeadHash \in Digest /\ up.this \in Digest /\ n \in Nat /\ n >= 1
            /\ Len(HeadHash) \in Nat
        BY <2>1, <3>3, RowHash DEF SameColumns
      <4> QED BY <3>1, <4>1 DEF OnSpine, CommitsTo, Digest
    <3>5. roots' = roots \cup {up.this}
      <4> DEFINE new == [root |-> up.this, last |-> up.id]
      <4>1. anchors' = anchors \cup {new} /\ new.root = up.this
        BY <3>1
      <4> HIDE DEF new
      <4> QED BY <4>1
    <3> QED BY <3>2, <3>4, <3>5 DEF AnchoredLog!LogNext, AnchoredLog!Publish
  <2>5. ASSUME NEW r \in Replicas, MarkCovered(r)
        PROVE  UNCHANGED <<HeadHash, LateLeaves, roots>>
    <3>1. FlagsOnly /\ HeadHash' = HeadHash /\ UNCHANGED anchors
      BY <2>1, <2>5, MarkFacts DEF MarkCovered
    <3>2. LateLeaves' = LateLeaves
      BY <3>1 DEF FlagsOnly, SameColumns, LateLeaves, ContentOf, Late, Before
    <3> QED BY <3>1, <3>2
  <2> HIDE DEF roots
  <2> QED BY <2>2, <2>3, <2>4, <2>5 DEF AnchorNext, anchorVars, ReadHead, Abandon
<1> QED BY <1>1, <1>2, AnchorInvariance, PTL
        DEF AnchorSpec, ImplementsAnchoredLog, AnchoredLog!LogSpec, AnchoredLog!logVars
===============================================================================
