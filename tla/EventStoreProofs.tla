--------------------------- MODULE EventStoreProofs ---------------------------
(***************************************************************************)
(* What modules EventStore and VerifyEndpoint claim, for every set of ids, *)
(* timestamps and bodies and pages of any size.  The argument: the digest  *)
(* of the head is the spine of the log, every link points into it          *)
(* (SpineInv), and each property of the store is a consequence of that.    *)
(* The facts about the order, about pages and about a walk over rows serve *)
(* the other modules of proofs as well.                                    *)
(***************************************************************************)
EXTENDS VerifyEndpoint, FiniteSetTheorems, WellFoundedInduction, TLAPS

-------------------------------------------------------------------------------
(* Facts about contents, rows and digests.                                 *)

\* The log order is a strict total order on contents with distinct ids.
LEMMA ContentFacts ==
    ASSUME NEW c \in Content
    PROVE  c.id \in Nat /\ c.ts \in Nat
BY EventAssumption DEF Content

\* A row's hashed fields are a content, and so is what its links are made of.
LEMMA RowFacts ==
    ASSUME NEW row \in Row
    PROVE  /\ row.id \in Nat /\ row.ts \in Nat
           /\ row.prev \in Digest /\ row.this \in Digest
           /\ ContentOf(row) \in Content
           /\ ContentOf(row).id = row.id /\ ContentOf(row).ts = row.ts
BY EventAssumption DEF Row, Content, ContentOf

\* Extending a digest keeps what it committed to, and adds the new content.
LEMMA HashExtends ==
    ASSUME NEW d \in Digest, NEW c \in Content
    PROVE  /\ CanonicalHash(c, d) \in Digest
           /\ CanonicalHash(c, d) # ZeroHash
           /\ Len(CanonicalHash(c, d)) = Len(d) + 1
           /\ CanonicalHash(c, d)[Len(d) + 1] = c
           /\ \A i \in 1..Len(d) : CanonicalHash(c, d)[i] = d[i]
           /\ CommitsTo(CanonicalHash(c, d), d)
           /\ Last(CanonicalHash(c, d)) = c
BY DEF CanonicalHash, Digest, ZeroHash, CommitsTo, Last

\* Commitment is reflexive.
LEMMA CommitsReflexive ==
    ASSUME NEW d \in Digest
    PROVE  CommitsTo(d, d) /\ Len(d) \in Nat
BY DEF CommitsTo, Digest

\* Commitment is transitive: a root commits to what its prefixes commit to.
LEMMA CommitsTransitive ==
    ASSUME NEW r \in Digest, NEW s \in Digest, NEW t \in Digest,
           CommitsTo(s, r), CommitsTo(t, s)
    PROVE  CommitsTo(t, r)
BY DEF CommitsTo, Digest

\* Two prefixes of one digest of the same length are the same digest.
LEMMA CommitsUnique ==
    ASSUME NEW r \in Digest, NEW s \in Digest, NEW t \in Digest,
           CommitsTo(t, r), CommitsTo(t, s), Len(r) = Len(s)
    PROVE  r = s
BY DEF CommitsTo, Digest

\* A non-empty digest has a last content.
LEMMA LastFacts ==
    ASSUME NEW d \in Digest, d # ZeroHash
    PROVE  Len(d) \in Nat /\ Len(d) >= 1 /\ Last(d) = d[Len(d)] /\ Last(d) \in Content
BY DEF Digest, ZeroHash, Last

-------------------------------------------------------------------------------
(* The head.                                                               *)

\* A set of rows has at most one last row, so CHOOSE finds it.
LEMMA LastRowUnique ==
    ASSUME NEW rows, rows \subseteq Row, NEW row, IsLastRow(row, rows)
    PROVE  LastRow(rows) = row /\ HashAfter(rows) = row.this /\ rows # {}
<1>1. row \in rows BY DEF IsLastRow
<1>2. \A other \in rows : IsLastRow(other, rows) => other = row
  BY RowFacts DEF IsLastRow, Before
<1>3. LastRow(rows) = row BY <1>1, <1>2 DEF LastRow
<1> QED BY <1>1, <1>3 DEF HashAfter

\* The head is what ChainHead returns, and its this_hash is the next prev_hash.
LEMMA HeadIsChainHead ==
    ASSUME TypeOK, NEW row, IsHead(row)
    PROVE  ChainHead = row /\ HeadHash = row.this /\ events # {}
BY LastRowUnique DEF TypeOK, IsHead, ChainHead, HeadHash

\* The next prev_hash is a digest: that of the last row, or zero at genesis.
LEMMA HeadFacts ==
    ASSUME TypeOK, HeadExists
    PROVE  /\ HeadHash \in Digest
           /\ events # {} => IsHead(ChainHead) /\ HeadHash = ChainHead.this
           /\ events = {} => HeadHash = ZeroHash
<1>1. CASE events = {} BY <1>1 DEF HeadHash, HashAfter, ZeroHash, Digest
<1>2. CASE events # {}
  <2>1. PICK row \in events : IsHead(row) BY <1>2 DEF HeadExists
  <2>2. row.this \in Digest BY RowFacts DEF TypeOK
  <2> QED BY <1>2, <2>1, <2>2, HeadIsChainHead
<1> QED BY <1>1, <1>2

-------------------------------------------------------------------------------
(* Finite sets of rows with distinct ids.                                  *)

Distinct(rows) == \A a, b \in rows : a.id = b.id => a = b

\* Rows of distinct ids are ordered by (ts, id).
LEMMA BeforeTotal ==
    ASSUME NEW rows, rows \subseteq Row, Distinct(rows), NEW a \in rows, NEW b \in rows
    PROVE  /\ a = b \/ Before(a, b) \/ Before(b, a)
           /\ ~(Before(a, b) /\ Before(b, a)) /\ ~Before(a, a)
<1>1. a.id \in Nat /\ a.ts \in Nat /\ b.id \in Nat /\ b.ts \in Nat
  BY RowFacts
<1> QED BY <1>1 DEF Before, Distinct

\* The order is transitive.
LEMMA BeforeTransitive ==
    ASSUME NEW a \in Row, NEW b \in Row, NEW c \in Row, Before(a, b), Before(b, c)
    PROVE  Before(a, c)
<1>1. /\ a.id \in Nat /\ a.ts \in Nat /\ b.id \in Nat /\ b.ts \in Nat
      /\ c.id \in Nat /\ c.ts \in Nat
  BY RowFacts
<1> QED BY <1>1 DEF Before

\* A set of rows has a first one: the least by timestamp and then by id.
LEMMA FirstExists ==
    ASSUME NEW rows, rows \subseteq Row, Distinct(rows), rows # {}
    PROVE  \E row \in rows : \A other \in rows : other = row \/ Before(row, other)
<1> DEFINE Times0 == {r.ts : r \in rows}
<1>1. \A r \in rows : r.id \in Nat /\ r.ts \in Nat
  BY RowFacts
<1>2. PICK ts \in Times0 : \A other \in Times0 : ~(<<other, ts>> \in OpToRel(<, Nat))
  <2>1. Times0 \subseteq Nat /\ Times0 # {} BY <1>1
  <2> HIDE DEF Times0
  <2> QED BY <2>1, NatLessThanWellFounded, WFMin
<1> DEFINE Ids0 == {r.id : r \in {q \in rows : q.ts = ts}}
<1>3. PICK id \in Ids0 : \A other \in Ids0 : ~(<<other, id>> \in OpToRel(<, Nat))
  <2>1. Ids0 \subseteq Nat /\ Ids0 # {} BY <1>1, <1>2
  <2> HIDE DEF Ids0
  <2> QED BY <2>1, NatLessThanWellFounded, WFMin
<1>4. PICK row \in rows : row.ts = ts /\ row.id = id BY <1>3
<1>5. ASSUME NEW other \in rows, Before(other, row)
      PROVE  FALSE
  <2>1. ~(other.ts < ts) BY <1>1, <1>2, <1>4 DEF OpToRel
  <2>2. other.ts = ts /\ other.id < id BY <1>1, <1>4, <1>5, <2>1 DEF Before
  <2>3. other.id \in Ids0 BY <2>2
  <2> QED BY <1>1, <1>3, <1>4, <2>2, <2>3 DEF OpToRel
<1> QED BY <1>4, <1>5, BeforeTotal

\* A finite set of rows has a last one: the one with the fewest rows after it.
LEMMA LastExists ==
    ASSUME NEW rows, rows \subseteq Row, Distinct(rows), IsFiniteSet(rows), rows # {}
    PROVE  \E row \in rows : IsLastRow(row, rows)
<1> DEFINE After(row) == {r \in rows : Before(row, r)}
           Counts == {Cardinality(After(row)) : row \in rows}
<1>1. \A row \in rows : IsFiniteSet(After(row)) /\ Cardinality(After(row)) \in Nat
  BY FS_Subset, FS_CardinalityType
<1>2. PICK n \in Counts : \A other \in Counts : ~(<<other, n>> \in OpToRel(<, Nat))
  <2>1. Counts \subseteq Nat /\ Counts # {} BY <1>1
  <2> HIDE DEF Counts
  <2> QED BY <2>1, NatLessThanWellFounded, WFMin
<1>3. PICK row \in rows : Cardinality(After(row)) = n BY <1>2
<1>4. ASSUME NEW other \in rows, Before(row, other)
      PROVE  FALSE
  <2>1. After(other) \subseteq After(row)
    BY <1>4, BeforeTransitive
  <2>2. other \in After(row) /\ other \notin After(other)
    BY <1>4, BeforeTotal
  <2>3. Cardinality(After(other)) < Cardinality(After(row))
    <3> HIDE DEF After
    <3>1. Cardinality(After(other)) <= Cardinality(After(row))
          /\ (Cardinality(After(row)) = Cardinality(After(other)) => After(row) = After(other))
      BY <1>1, <2>1, FS_Subset
    <3> QED BY <1>1, <2>2, <3>1
  <2>4. Cardinality(After(other)) \in Counts OBVIOUS
  <2> HIDE DEF After, Counts
  <2> QED BY <1>1, <1>2, <1>3, <2>3, <2>4 DEF OpToRel
<1> QED BY <1>3, <1>4, BeforeTotal DEF IsLastRow

-------------------------------------------------------------------------------
(* Pages.                                                                  *)

\* List after a cursor: what a page leaves out sorts after all that is in it, and
\* a page that is not full leaves out nothing.
LEMMA PageFacts ==
    ASSUME NEW rows, rows \subseteq Row, Distinct(rows), IsFiniteSet(rows), NEW seen
    PROVE  /\ Page(rows, seen) \subseteq Rest(rows, seen) /\ Rest(rows, seen) \subseteq rows
           /\ \A p \in Page(rows, seen), r \in Rest(rows, seen) \ Page(rows, seen) : Before(p, r)
           /\ Rest(rows, seen) # Page(rows, seen) =>
                Cardinality(Page(rows, seen)) >= PageLimit /\ Page(rows, seen) # {}
<1> DEFINE R == Rest(rows, seen)
           P == Page(rows, seen)
           B(row) == {other \in R : Before(other, row)}
<1>1. R \subseteq rows /\ R \subseteq Row /\ Distinct(R) /\ IsFiniteSet(R)
  <2>1. R \subseteq rows BY DEF Rest
  <2> QED BY <2>1, FS_Subset DEF Distinct
<1>2. P = {row \in R : Cardinality(B(row)) < PageLimit}
  BY DEF Page
<1> HIDE DEF R, P
<1>3. P \subseteq R /\ IsFiniteSet(P) /\ Cardinality(P) \in Nat /\ PageLimit \in Nat \ {0}
  BY <1>1, <1>2, FS_Subset, FS_CardinalityType, PageAssumption
<1>4. \A row \in R : B(row) \subseteq R /\ IsFiniteSet(B(row)) /\ Cardinality(B(row)) \in Nat
  BY <1>1, FS_Subset, FS_CardinalityType
<1>5. ASSUME NEW p \in P, NEW r \in R \ P
      PROVE  Before(p, r)
  <2> SUFFICES ASSUME Before(r, p) PROVE FALSE
    BY <1>1, <1>3, <1>5, BeforeTotal
  <2>1. B(r) \subseteq B(p)
    BY <1>1, <1>3, BeforeTransitive
  <2> HIDE DEF B
  <2>2. Cardinality(B(r)) <= Cardinality(B(p))
    BY <1>3, <1>4, <2>1, FS_Subset
  <2> QED BY <1>2, <1>3, <1>4, <2>2
<1>6. ASSUME R # P
      PROVE  Cardinality(P) >= PageLimit /\ P # {}
  <2>1. R \ P # {} /\ R \ P \subseteq Row /\ Distinct(R \ P)
    BY <1>1, <1>3, <1>6 DEF Distinct
  <2>2. PICK r \in R \ P : \A other \in R \ P : other = r \/ Before(r, other)
    BY <2>1, FirstExists
  <2>3. B(r) \subseteq P
    BY <1>1, <2>2, BeforeTotal
  <2> HIDE DEF B
  <2>4. Cardinality(B(r)) <= Cardinality(P)
    BY <1>3, <2>3, FS_Subset
  <2>5. Cardinality(P) >= PageLimit
    BY <1>2, <1>3, <1>4, <2>2, <2>4
  <2> QED BY <1>3, <2>5, FS_EmptySet
<1> QED BY <1>1, <1>3, <1>5, <1>6 DEF R, P

\* Listing one more page: a row that was listed or after the cursor is listed or
\* after the cursor then, and after the last page it is listed.
LEMMA PageAdvances ==
    ASSUME NEW rows, rows \subseteq Row, Distinct(rows), IsFiniteSet(rows),
           NEW seen, seen \subseteq rows, NEW row \in rows,
           row \in seen \/ seen = {} \/ Before(LastRow(seen), row),
           NEW listed, listed = seen \cup Page(rows, seen)
    PROVE  /\ listed \subseteq rows
           /\ row \in listed \/ Before(LastRow(listed), row)
           /\ Rest(rows, seen) = Page(rows, seen) => row \in listed
<1> DEFINE page == Page(rows, seen)
<1>1. /\ page \subseteq Rest(rows, seen) /\ Rest(rows, seen) \subseteq rows
      /\ \A p \in page, r \in Rest(rows, seen) \ page : Before(p, r)
      /\ Rest(rows, seen) # page => page # {}
  BY PageFacts
<1> HIDE DEF page
<1>2. listed = seen \cup page BY DEF page
<1>3. row \in seen \/ row \in Rest(rows, seen) BY DEF Rest
<1>4. ASSUME row \notin listed
      PROVE  Rest(rows, seen) # page /\ Before(LastRow(listed), row)
  <2>1. row \in Rest(rows, seen) \ page BY <1>2, <1>3, <1>4
  <2>2. /\ listed \subseteq rows /\ listed \subseteq Row /\ Distinct(listed)
        /\ IsFiniteSet(listed) /\ listed # {}
    BY <1>1, <1>2, <2>1, FS_Subset DEF Distinct
  <2>3. PICK last \in listed : IsLastRow(last, listed) BY <2>2, LastExists
  <2>4. LastRow(listed) = last BY <2>2, <2>3, LastRowUnique
  <2>5. CASE last \in page BY <1>1, <2>1, <2>4, <2>5
  <2>6. CASE last \in seen
    <3>1. PICK p \in page : TRUE BY <1>1, <2>1
    <3>2. IsLastRow(last, seen) BY <1>2, <2>3, <2>6 DEF IsLastRow
    <3>3. seen \subseteq Row BY <2>2, <1>2
    <3>4. LastRow(seen) = last BY <3>2, <3>3, LastRowUnique
    <3>5. Before(last, row) BY <2>1, <2>6, <3>4 DEF Rest
    <3> QED BY <2>1, <2>4, <3>5
  <2> QED BY <1>2, <2>1, <2>5, <2>6
<1> QED BY <1>1, <1>2, <1>4 DEF page

-------------------------------------------------------------------------------
(* The walk over a set of rows.                                            *)

\* The walk visits some row just before any row that has one before it, and it
\* visits no other just before that; and some row just after any row that has one
\* after it.
LEMMA WalkNeighbours ==
    ASSUME NEW rows, rows \subseteq Row, Distinct(rows), IsFiniteSet(rows), NEW row \in rows
    PROVE  /\ \A p : WalkedBefore(p, row, rows) =>
                IsLastRow(p, {r \in rows : Before(r, row)})
           /\ \A p, q : WalkedBefore(p, row, rows) /\ WalkedBefore(q, row, rows) => p = q
           /\ (\E r \in rows : Before(r, row)) => \E p \in rows : WalkedBefore(p, row, rows)
           /\ (\E r \in rows : Before(row, r)) =>
                \E next \in rows :
                  /\ WalkedBefore(row, next, rows)
                  /\ \A r \in rows : Before(row, r) => r = next \/ Before(next, r)
<1> DEFINE earlier == {r \in rows : Before(r, row)}
           later == {r \in rows : Before(row, r)}
<1>1. \A p : WalkedBefore(p, row, rows) => IsLastRow(p, earlier)
  BY BeforeTotal DEF WalkedBefore, IsLastRow
<1>2. \A p, q : WalkedBefore(p, row, rows) /\ WalkedBefore(q, row, rows) => p = q
  BY BeforeTotal DEF WalkedBefore
<1>3. ASSUME NEW r \in rows, Before(r, row) PROVE \E p \in rows : WalkedBefore(p, row, rows)
  <2>1. earlier \subseteq Row /\ Distinct(earlier) /\ IsFiniteSet(earlier) /\ earlier # {}
    BY <1>3, FS_Subset DEF Distinct
  <2>2. PICK p \in earlier : IsLastRow(p, earlier) BY <2>1, LastExists
  <2>3. ASSUME NEW other \in rows, Before(p, other), Before(other, row) PROVE FALSE
    BY <2>2, <2>3, BeforeTotal DEF IsLastRow
  <2> QED BY <2>2, <2>3 DEF WalkedBefore
<1>4. ASSUME NEW r \in rows, Before(row, r)
      PROVE  \E next \in rows :
               /\ WalkedBefore(row, next, rows)
               /\ \A q \in rows : Before(row, q) => q = next \/ Before(next, q)
  <2>1. later \subseteq Row /\ Distinct(later) /\ later # {}
    BY <1>4 DEF Distinct
  <2>2. PICK next \in later : \A other \in later : other = next \/ Before(next, other)
    <3> HIDE DEF later
    <3> QED BY <2>1, FirstExists
  <2>3. ASSUME NEW other \in rows, Before(row, other), Before(other, next) PROVE FALSE
    BY <2>2, <2>3, BeforeTotal
  <2> QED BY <2>2, <2>3 DEF WalkedBefore
<1> QED BY <1>1, <1>2, <1>3, <1>4

\* VerifyChain reports the first row that fails, and there is one whenever a row
\* fails: one failing row is enough for the walk to fail.
LEMMA FailingRowFailsChain ==
    ASSUME NEW rows, rows \subseteq Row, Distinct(rows),
           NEW row \in rows, LinkStatus(row, rows) # "ok"
    PROVE  ChainStatus(rows) # "ok"
<1> DEFINE failing == {r \in rows : LinkStatus(r, rows) # "ok"}
           IsFirst(r) == \A other \in failing : other = r \/ Before(r, other)
<1>1. failing # {} /\ failing \subseteq rows
  OBVIOUS
<1>2. failing \subseteq Row /\ Distinct(failing)
  BY <1>1 DEF Distinct
<1>3. \E r \in failing : IsFirst(r)
  <2> HIDE DEF failing
  <2> QED BY <1>1, <1>2, FirstExists
<1>4. (CHOOSE r \in failing : IsFirst(r)) \in failing
  <2> HIDE DEF failing, IsFirst
  <2> QED BY <1>3
<1>5. ChainStatus(rows) = LinkStatus(CHOOSE r \in failing : IsFirst(r), rows)
  BY <1>1 DEF ChainStatus
<1> QED BY <1>4, <1>5

\* A row that hashes to its this_hash extends what its prev_hash commits to.
LEMMA SoundRow ==
    ASSUME NEW row \in Row, row.this = EventHash(row)
    PROVE  /\ row.prev \in Digest /\ row.this \in Digest /\ ContentOf(row) \in Content
           /\ Len(row.prev) \in Nat /\ Len(row.this) = Len(row.prev) + 1
           /\ row.this[Len(row.this)] = ContentOf(row)
           /\ Last(row.this) = ContentOf(row)
           /\ CommitsTo(row.this, row.prev)
<1>1. row.prev \in Digest /\ ContentOf(row) \in Content BY RowFacts
<1>2. row.this = CanonicalHash(ContentOf(row), row.prev) BY DEF EventHash
<1>3. Len(row.prev) \in Nat BY <1>1, CommitsReflexive
<1> QED BY <1>1, <1>2, <1>3, HashExtends

\* What VerifyChain accepts is one chain: every row hashes to its this_hash, names
\* the row before it, and its digest commits to all rows before it.
LEMMA AcceptedWalkIsChain ==
    ASSUME NEW rows, rows \subseteq Row, Distinct(rows), IsFiniteSet(rows),
           ChainStatus(rows) = "ok"
    PROVE  /\ \A row \in rows : row.this = EventHash(row)
           /\ \A row, p \in rows : WalkedBefore(p, row, rows) => p.this = row.prev
           /\ \A row, p \in rows : Before(p, row) => CommitsTo(row.this, p.this)
<1>1. \A row \in rows : LinkStatus(row, rows) = "ok" BY FailingRowFailsChain
<1>2. ASSUME NEW row \in rows
      PROVE  /\ row.this = EventHash(row)
             /\ \A p \in rows : WalkedBefore(p, row, rows) => p.this = row.prev
  <2>1. LinkStatus(row, rows) = "ok" BY <1>1
  <2> QED BY <2>1 DEF LinkStatus
<1>3. ASSUME NEW row \in rows, NEW p \in rows, Before(p, row)
      PROVE  CommitsTo(row.this, p.this)
  <2> DEFINE Missed == {q \in rows : Before(q, row) /\ ~CommitsTo(row.this, q.this)}
  <2> SUFFICES ASSUME Missed # {} PROVE FALSE
    BY <1>3
  <2>1. Missed \subseteq Row /\ Distinct(Missed) /\ IsFiniteSet(Missed)
    BY FS_Subset DEF Distinct
  <2>2. PICK q \in Missed : IsLastRow(q, Missed) BY <2>1, LastExists
  <2>3. PICK next \in rows :
          /\ WalkedBefore(q, next, rows)
          /\ \A r \in rows : Before(q, r) => r = next \/ Before(next, r)
    BY <2>2, WalkNeighbours
  <2>4. next = row \/ Before(next, row) BY <2>2, <2>3
  <2>5. Before(q, next) BY <2>3 DEF WalkedBefore
  <2>6. next \notin Missed BY <2>2, <2>5, BeforeTotal DEF IsLastRow
  <2>7. /\ row.this \in Digest /\ next.this \in Digest /\ q.this \in Digest
        /\ CommitsTo(next.this, next.prev)
    BY <1>2, <2>2, SoundRow
  <2>8. CommitsTo(row.this, next.this)
    BY <2>4, <2>6, <2>7, CommitsReflexive
  <2>9. next.prev = q.this BY <1>2, <2>2, <2>3
  <2>10. CommitsTo(row.this, q.this) BY <2>7, <2>8, <2>9, CommitsTransitive
  <2> QED BY <2>2, <2>10
<1> QED BY <1>2, <1>3

\* The contents of an accepted walk up to one of its rows are the last of those
\* that the row's digest commits to: the walk lacks at most a prefix.
LEMMA AcceptedWalkIsSuffix ==
    ASSUME NEW rows, rows \subseteq Row, Distinct(rows), IsFiniteSet(rows),
           ChainStatus(rows) = "ok", NEW last \in rows
    PROVE  /\ Len(last.this) \in Nat
           /\ \E k \in 1..Len(last.this) :
                {ContentOf(row) : row \in {r \in rows : ~Before(last, r)}}
                  = {last.this[i] : i \in k..Len(last.this)}
<1> DEFINE upTo == {r \in rows : ~Before(last, r)}
           root == last.this
<1>1. \A row \in rows : /\ row \in Row /\ row.this = EventHash(row)
                        /\ \A p \in rows : WalkedBefore(p, row, rows) => p.this = row.prev
                        /\ \A p \in rows : Before(p, row) => CommitsTo(row.this, p.this)
  BY AcceptedWalkIsChain
<1>2. \A row \in rows :
        /\ row.this \in Digest /\ Len(row.prev) \in Nat
        /\ Len(row.this) \in Nat /\ Len(row.this) = Len(row.prev) + 1
        /\ row.this[Len(row.this)] = ContentOf(row)
  BY <1>1, SoundRow
<1>3. PICK first \in rows : \A other \in rows : other = first \/ Before(first, other)
  BY FirstExists
<1> DEFINE k == Len(first.this)
<1>4. ASSUME NEW row \in upTo
      PROVE  /\ Len(row.this) \in k..Len(root)
             /\ ContentOf(row) = root[Len(row.this)]
  <2>1. row = last \/ Before(row, last) BY BeforeTotal
  <2>2. CommitsTo(root, row.this) BY <1>1, <1>2, <2>1, CommitsReflexive
  <2>3. CommitsTo(row.this, first.this) BY <1>1, <1>2, <1>3, CommitsReflexive
  <2>4. /\ Len(row.this) >= 1 /\ Len(row.this) \in 1..Len(row.this)
    BY <1>2
  <2> QED BY <1>2, <2>2, <2>3, <2>4 DEF CommitsTo
<1>5. ASSUME NEW i \in k..Len(root)
      PROVE  \E row \in upTo : Len(row.this) = i
  <2> DEFINE Long == {r \in upTo : Len(r.this) >= i}
  <2>1. last \in upTo BY BeforeTotal
  <2>2. i \in Nat /\ k \in Nat /\ k <= i /\ i <= Len(root) BY <1>2
  <2>3. Long \subseteq Row /\ Distinct(Long) /\ Long # {}
    BY <2>1, <2>2 DEF Distinct
  <2>4. PICK row \in Long : \A other \in Long : other = row \/ Before(row, other)
    <3> HIDE DEF Long
    <3> QED BY <2>3, FirstExists
  <2>5. CASE Len(row.this) = i BY <2>4, <2>5
  <2>6. CASE Len(row.this) # i
    <3>1. Len(row.this) > i /\ row # first BY <1>2, <2>2, <2>4, <2>6
    <3>2. PICK p \in rows : WalkedBefore(p, row, rows)
      BY <1>3, <2>4, <3>1, WalkNeighbours
    <3>3. p.this = row.prev /\ Len(p.this) >= i BY <1>1, <1>2, <2>2, <2>4, <3>1, <3>2
    <3>4. Before(p, row) BY <3>2 DEF WalkedBefore
    <3>5. ~Before(last, p)
      <4> SUFFICES ASSUME Before(last, p) PROVE FALSE OBVIOUS
      <4>1. Before(last, row) BY <1>1, <2>4, <3>4, BeforeTransitive
      <4> QED BY <2>4, <4>1
    <3>6. p \in Long BY <3>3, <3>5
    <3> QED BY <2>4, <3>4, <3>6, BeforeTotal
  <2> QED BY <2>5, <2>6
<1>6. k \in 1..Len(root)
  <2>1. last \in upTo BY BeforeTotal
  <2>2. Len(root) \in k..Len(root) BY <1>4, <2>1
  <2> QED BY <1>2, <2>2
<1>7. {ContentOf(row) : row \in upTo} = {root[i] : i \in k..Len(root)}
  <2> HIDE DEF k
  <2>1. \A row \in upTo : ContentOf(row) \in {root[i] : i \in k..Len(root)} BY <1>4
  <2>2. \A i \in k..Len(root) : \E row \in upTo : ContentOf(row) = root[i] BY <1>4, <1>5
  <2> HIDE DEF upTo, root
  <2> QED BY <2>1, <2>2
<1> QED BY <1>2, <1>6, <1>7

-------------------------------------------------------------------------------
(* Type correctness.                                                       *)

\* Every operation stores rows: InsertChained builds one from a content and a
\* digest, the flag updates rewrite a boolean column.
LEMMA ChainedIsRow ==
    ASSUME NEW c \in Content, NEW d \in Digest
    PROVE  /\ Chained(c, d) \in Row
           /\ ContentOf(Chained(c, d)) = c
           /\ Chained(c, d).prev = d
           /\ Chained(c, d).this = CanonicalHash(c, d)
           /\ Chained(c, d).id = c.id /\ Chained(c, d).ts = c.ts
           /\ EventHash(Chained(c, d)) = CanonicalHash(c, d)
<1>1. CanonicalHash(c, d) \in Digest BY HashExtends
<1>2. c = [id |-> c.id, ts |-> c.ts, body |-> c.body] /\ c.id \in Ids /\ c.ts \in Times /\ c.body \in Bodies
  BY DEF Content
<1> QED BY <1>1, <1>2, HoldAssumption DEF Chained, Row, ContentOf, EventHash

\* The columns of a row that no operation changes.
SameColumns(a, b) ==
    /\ a.id = b.id /\ a.ts = b.ts /\ a.body = b.body
    /\ a.prev = b.prev /\ a.this = b.this

\* The set of rows changes only in the columns the hash does not cover.
FlagsOnly ==
    /\ events' \subseteq Row
    /\ \A row \in events : \E kept \in events' :
         SameColumns(row, kept) /\ (row.anchored => kept.anchored)
    /\ \A kept \in events' : \E row \in events : SameColumns(row, kept)
    /\ OneRowPerId => OneRowPerId'
    /\ IsFiniteSet(events) => IsFiniteSet(events')

\* SetLegalHold changes no hashed column and no link.
LEMMA SetLegalHoldIsFlagsOnly ==
    ASSUME TypeOK, NEW id \in Ids, NEW hold \in BOOLEAN, SetLegalHold(id, hold)
    PROVE  FlagsOnly
<1> DEFINE held(row) == IF row.id = id THEN [row EXCEPT !.hold = hold] ELSE row
<1>1. events' = {held(row) : row \in events} BY DEF SetLegalHold
<1>2. \A row \in events :
         /\ held(row) \in Row /\ SameColumns(row, held(row))
         /\ held(row).anchored = row.anchored
  BY DEF TypeOK, Row, SameColumns
<1> HIDE DEF held
<1>3. OneRowPerId => OneRowPerId'
  <2> SUFFICES ASSUME OneRowPerId, NEW r \in events, NEW s \in events,
                      held(r).id = held(s).id
               PROVE  held(r) = held(s)
    BY <1>1 DEF OneRowPerId
  <2> QED BY <1>2 DEF SameColumns, OneRowPerId
<1>4. IsFiniteSet(events) => IsFiniteSet(events')
  <2> DEFINE f == [row \in events |-> held(row)]
  <2>1. f \in Surjection(events, events') BY <1>1 DEF Surjection
  <2> QED BY <2>1, FS_Surjection
<1> QED BY <1>1, <1>2, <1>3, <1>4 DEF FlagsOnly

\* MarkAnchored changes no hashed column and no link.
LEMMA MarkAnchoredIsFlagsOnly ==
    ASSUME TypeOK, NEW upTo, MarkAnchored(upTo)
    PROVE  FlagsOnly
<1> DEFINE marked(row) == IF Before(upTo, row) THEN row ELSE [row EXCEPT !.anchored = TRUE]
<1>1. events' = {marked(row) : row \in events} BY DEF MarkAnchored
<1>2. \A row \in events :
         /\ marked(row) \in Row /\ SameColumns(row, marked(row))
         /\ row.anchored => marked(row).anchored
  BY DEF TypeOK, Row, SameColumns
<1> HIDE DEF marked
<1>3. OneRowPerId => OneRowPerId'
  <2> SUFFICES ASSUME OneRowPerId, NEW r \in events, NEW s \in events,
                      marked(r).id = marked(s).id
               PROVE  marked(r) = marked(s)
    BY <1>1 DEF OneRowPerId
  <2> QED BY <1>2 DEF SameColumns, OneRowPerId
<1>4. IsFiniteSet(events) => IsFiniteSet(events')
  <2> DEFINE f == [row \in events |-> marked(row)]
  <2>1. f \in Surjection(events, events') BY <1>1 DEF Surjection
  <2> QED BY <2>1, FS_Surjection
<1> QED BY <1>1, <1>2, <1>3, <1>4 DEF FlagsOnly

\* The digest of the head stands while the table does.
LEMMA SpineStays ==
    ASSUME SpineInv, UNCHANGED events
    PROVE  SpineInv'
BY DEF SpineInv, TypeOK, OneRowPerId, HashesSound, HeadExists, IsHead, IsLastRow, HeadHash, HashAfter,
       ChainHead, LastRow, SpineSorted, LinksIntoSpine, OnTimeOnSpine, SpineStored

\* An update of the flags leaves the head's digest and every part of the
\* invariant as they were.
LEMMA FlagsOnlyPreserves ==
    ASSUME SpineInv, FlagsOnly
    PROVE  SpineInv' /\ HeadHash' = HeadHash
<1> USE DEF SpineInv
<1>1. TypeOK' /\ OneRowPerId' BY DEF FlagsOnly, TypeOK
<1>2. HashesSound'
  <2> SUFFICES ASSUME NEW kept \in events'
               PROVE  kept.this = EventHash(kept)
    BY DEF HashesSound
  <2>1. PICK row \in events : SameColumns(row, kept) BY DEF FlagsOnly
  <2>2. EventHash(kept) = EventHash(row)
    BY <2>1 DEF SameColumns, EventHash, ContentOf
  <2> QED BY <2>1, <2>2 DEF SameColumns, HashesSound
<1>3. HeadExists' /\ HeadHash' = HeadHash
  <2>1. CASE events = {}
    <3>1. events' = {} BY <2>1 DEF FlagsOnly
    <3> QED BY <2>1, <3>1 DEF HeadExists, HeadHash, HashAfter
  <2>2. CASE events # {}
    <3>1. PICK head \in events : IsHead(head) BY <2>2 DEF HeadExists
    <3>2. PICK kept \in events' : SameColumns(head, kept) BY <3>1 DEF FlagsOnly
    <3>3. IsHead(kept)'
      <4> SUFFICES ASSUME NEW other \in events'
                   PROVE  other = kept \/ Before(other, kept)
        BY <3>2 DEF IsHead, IsLastRow
      <4>1. PICK was \in events : SameColumns(was, other) BY DEF FlagsOnly
      <4>2. CASE was = head
        BY <4>1, <4>2, <3>2, <1>1 DEF SameColumns, OneRowPerId
      <4>3. CASE Before(was, head) BY <4>1, <4>3, <3>2 DEF SameColumns, Before
      <4> QED BY <4>2, <4>3, <3>1 DEF IsHead, IsLastRow
    <3>4. HeadHash = head.this BY <3>1, HeadIsChainHead
    <3>5. HeadHash' = kept.this
      BY <3>3, <1>1, LastRowUnique DEF TypeOK, IsHead, HeadHash
    <3> QED BY <3>2, <3>3, <3>4, <3>5 DEF HeadExists, SameColumns, IsHead, IsLastRow
  <2> QED BY <2>1, <2>2
<1>4. SpineSorted' BY <1>3 DEF SpineSorted
<1>5. LinksIntoSpine' BY <1>3 DEF LinksIntoSpine, FlagsOnly, SameColumns
<1>6. OnTimeOnSpine'
  BY <1>3 DEF OnTimeOnSpine, FlagsOnly, SameColumns, Late, Before
<1>7. SpineStored'
  <2> SUFFICES ASSUME NEW n \in 1..Len(HeadHash)
               PROVE  \E row \in events' : Len(row.this) = n /\ CommitsTo(HeadHash, row.this)
    BY <1>3 DEF SpineStored
  <2>1. PICK row \in events : Len(row.this) = n /\ CommitsTo(HeadHash, row.this)
    BY DEF SpineStored
  <2>2. PICK kept \in events' : SameColumns(row, kept) BY DEF FlagsOnly
  <2> QED BY <2>1, <2>2 DEF SameColumns
<1> QED BY <1>1, <1>2, <1>3, <1>4, <1>5, <1>6, <1>7

-------------------------------------------------------------------------------
(* InsertChained of an event that is not stored yet.                       *)

\* A fresh event is after the head, so the spine grows by it, or before the
\* head, so the head and the spine stay.
LEMMA InsertMovesHead ==
    ASSUME SpineInv, NEW c \in Content, ~Stored(c.id),
           NEW new, new = Chained(c, HeadHash), events' = events \cup {new}
    PROVE  \/ /\ events = {}
              /\ IsHead(new)' /\ HeadHash' = new.this
           \/ \E head \in events :
                 /\ IsHead(head) /\ HeadHash = head.this
                 /\ \/ Before(head, new) /\ IsHead(new)' /\ HeadHash' = new.this
                    \/ Before(new, head) /\ IsHead(head)' /\ HeadHash' = HeadHash
<1> USE DEF SpineInv
<1>1. new \in Row /\ new.id = c.id /\ new.ts = c.ts BY HeadFacts, ChainedIsRow
<1>2. TypeOK' BY <1>1 DEF TypeOK
<1>3. ASSUME NEW row, IsHead(row)' PROVE HeadHash' = row.this
  BY <1>2, <1>3, LastRowUnique DEF TypeOK, IsHead, HeadHash
<1>4. CASE events = {}
  <2>1. IsHead(new)' BY <1>4 DEF IsHead, IsLastRow
  <2> QED BY <1>4, <2>1, <1>3
<1>5. CASE events # {}
  <2>1. PICK head \in events : IsHead(head) BY <1>5 DEF HeadExists
  <2>2. HeadHash = head.this BY <2>1, HeadIsChainHead
  <2>3. head \in Row /\ head.id # new.id BY <1>1 DEF TypeOK, Stored
  <2>4. CASE Before(head, new)
    <3>1. \A other \in events : Before(other, new)
      BY <2>1, <2>3, <2>4, <1>1, RowFacts DEF IsHead, IsLastRow, Before, TypeOK
    <3>2. IsHead(new)' BY <3>1 DEF IsHead, IsLastRow
    <3> QED BY <2>1, <2>2, <2>4, <3>2, <1>3
  <2>5. CASE Before(new, head)
    <3>1. IsHead(head)' BY <2>1, <2>5 DEF IsHead, IsLastRow
    <3> QED BY <2>1, <2>2, <2>5, <3>1, <1>3
  <2> QED BY <2>3, <2>4, <2>5, <1>1, RowFacts DEF Before
<1> QED BY <1>4, <1>5

\* The spine ends with the content of the head.
LEMMA SpineEndsWithHead ==
    ASSUME SpineInv, events # {}
    PROVE  /\ HeadHash # ZeroHash /\ HeadHash \in Digest
           /\ ChainHead \in events /\ ChainHead \in Row
           /\ HeadHash = CanonicalHash(ContentOf(ChainHead), ChainHead.prev)
           /\ Last(HeadHash) = ContentOf(ChainHead)
<1>1. ChainHead \in events /\ ChainHead \in Row /\ HeadHash = ChainHead.this
  BY HeadFacts DEF SpineInv, IsHead, IsLastRow, TypeOK
<1>2. ChainHead.this = CanonicalHash(ContentOf(ChainHead), ChainHead.prev)
  BY <1>1 DEF SpineInv, HashesSound, EventHash
<1> QED BY <1>1, <1>2, RowFacts, HashExtends

\* Adding a chained row keeps the invariant, whether the event is late or not.
LEMMA InsertPreserves ==
    ASSUME SpineInv, NEW c \in Content, ~Stored(c.id),
           NEW new, new = Chained(c, HeadHash), events' = events \cup {new}
    PROVE  SpineInv'
<1> USE DEF SpineInv
<1> DEFINE spine == HeadHash
<1>1. spine \in Digest BY HeadFacts
<1>2. /\ new \in Row /\ ContentOf(new) = c /\ new.prev = spine
      /\ new.this = CanonicalHash(c, spine)
      /\ new.id = c.id /\ new.ts = c.ts
      /\ EventHash(new) = CanonicalHash(c, spine)
  BY <1>1, ChainedIsRow
<1>3. TypeOK' BY <1>2 DEF TypeOK
<1>4. OneRowPerId' BY <1>2 DEF OneRowPerId, Stored
<1>5. HashesSound' BY <1>2 DEF HashesSound
<1>6. HeadExists' BY InsertMovesHead DEF HeadExists, IsHead, IsLastRow
<1>7. CASE HeadHash' = new.this /\ (events # {} => Before(ChainHead, new))
  <2> DEFINE grown == CanonicalHash(c, spine)
  <2>1. /\ HeadHash' = grown /\ grown \in Digest
        /\ Len(grown) = Len(spine) + 1 /\ Len(spine) \in Nat
        /\ grown[Len(spine) + 1] = c
        /\ \A i \in 1..Len(spine) : grown[i] = spine[i]
        /\ CommitsTo(grown, spine) /\ CommitsTo(grown, grown)
    BY <1>1, <1>2, <1>7, HashExtends, CommitsReflexive
  <2> HIDE DEF grown, spine
  <2>2. \A i \in 1..Len(spine) : Before(spine[i], c)
    <3> SUFFICES ASSUME NEW i \in 1..Len(spine)
                 PROVE  Before(spine[i], c)
      OBVIOUS
    <3>1. spine # ZeroHash BY <1>1 DEF Digest, ZeroHash
    <3>2. events # {} BY <3>1 DEF HeadHash, HashAfter, spine
    <3>3. spine[Len(spine)] = ContentOf(ChainHead) /\ ChainHead \in Row
      BY <3>2, SpineEndsWithHead DEF Last, spine
    <3>4. Before(ContentOf(ChainHead), c)
      BY <1>2, <1>7, <3>2, <3>3, RowFacts DEF Before
    <3>5. spine[i] = spine[Len(spine)] \/ Before(spine[i], spine[Len(spine)])
      BY <2>1 DEF SpineSorted, spine
    <3>6. spine[i] \in Content /\ ContentOf(ChainHead) \in Content
      BY <1>1, <3>3, RowFacts DEF Digest
    <3> QED BY <3>3, <3>4, <3>5, <3>6, ContentFacts DEF Before
  <2>3. SpineSorted'
    <3> SUFFICES ASSUME NEW i \in 1..(Len(spine) + 1), NEW j \in 1..(Len(spine) + 1), i < j
                 PROVE  Before(grown[i], grown[j])
      BY <2>1 DEF SpineSorted
    <3>1. i \in 1..Len(spine) BY <2>1
    <3>2. CASE j = Len(spine) + 1 BY <2>1, <2>2, <3>1, <3>2
    <3>3. CASE j \in 1..Len(spine)
      BY <2>1, <3>1, <3>3 DEF SpineSorted, spine
    <3> QED BY <2>1, <3>2, <3>3
  <2>4. LinksIntoSpine'
    <3> SUFFICES ASSUME NEW row \in events'
                 PROVE  CommitsTo(grown, row.prev)
      BY <2>1 DEF LinksIntoSpine
    <3>1. CommitsTo(spine, row.prev) \/ row = new
      BY DEF LinksIntoSpine, spine
    <3>2. row.prev \in Digest BY <1>3, RowFacts DEF TypeOK
    <3> QED BY <1>1, <1>2, <2>1, <3>1, <3>2, CommitsTransitive
  <2>5. OnTimeOnSpine'
    <3> SUFFICES ASSUME NEW row \in events', ~Late(row)
                 PROVE  CommitsTo(grown, row.this)
      BY <2>1 DEF OnTimeOnSpine, Late, Before
    <3>1. CommitsTo(spine, row.this) \/ row = new
      BY DEF OnTimeOnSpine, spine
    <3>2. row.this \in Digest BY <1>3, RowFacts DEF TypeOK
    <3> QED BY <1>1, <1>2, <2>1, <3>1, <3>2, CommitsTransitive DEF grown
  <2>6. SpineStored'
    <3> SUFFICES ASSUME NEW n \in 1..(Len(spine) + 1)
                 PROVE  \E row \in events' : Len(row.this) = n /\ CommitsTo(grown, row.this)
      BY <2>1 DEF SpineStored
    <3>1. CASE n = Len(spine) + 1 BY <1>2, <2>1, <3>1 DEF grown
    <3>2. CASE n \in 1..Len(spine)
      <4>1. PICK row \in events : Len(row.this) = n /\ CommitsTo(spine, row.this)
        BY <3>2 DEF SpineStored, spine
      <4>2. row.this \in Digest BY RowFacts DEF TypeOK
      <4> QED BY <1>1, <2>1, <4>1, <4>2, CommitsTransitive
    <3> QED BY <2>1, <3>1, <3>2
  <2> QED BY <1>3, <1>4, <1>5, <1>6, <2>3, <2>4, <2>5, <2>6
<1>8. CASE HeadHash' = HeadHash /\ events # {} /\ Before(new, ChainHead)
  <2>1. CommitsTo(spine, spine) BY <1>1, CommitsReflexive
  <2>2. Late(new)
    <3>1. spine # ZeroHash /\ Last(spine) = ContentOf(ChainHead) /\ ChainHead \in Row
      BY <1>8, SpineEndsWithHead
    <3> QED BY <1>2, <1>8, <3>1, RowFacts DEF Late, Before
  <2>3. SpineSorted' BY <1>8 DEF SpineSorted
  <2>4. LinksIntoSpine' BY <1>2, <1>8, <2>1 DEF LinksIntoSpine
  <2>5. OnTimeOnSpine'
    <3> SUFFICES ASSUME NEW row \in events', ~Late(row)
                 PROVE  CommitsTo(HeadHash, row.this)
      BY <1>8 DEF OnTimeOnSpine, Late, Before
    <3> QED BY <2>2 DEF OnTimeOnSpine
  <2>6. SpineStored' BY <1>8 DEF SpineStored
  <2> QED BY <1>3, <1>4, <1>5, <1>6, <2>3, <2>4, <2>5, <2>6
<1> QED BY <1>7, <1>8, InsertMovesHead, HeadIsChainHead

-------------------------------------------------------------------------------
(* The theorems.                                                           *)

\* What every step does: it inserts one chained row, or only moves flags, or
\* nothing.
LEMMA StepCases ==
    ASSUME TypeOK, [Next]_events
    PROVE  \/ UNCHANGED events
           \/ FlagsOnly
           \/ \E c \in Content : /\ ~Stored(c.id)
                                  /\ events' = events \cup {Chained(c, HeadHash)}
<1>1. CASE \E c \in Content : InsertChained(c) BY <1>1 DEF InsertChained
<1>2. CASE \E id \in Ids, hold \in BOOLEAN : SetLegalHold(id, hold)
  BY <1>2, SetLegalHoldIsFlagsOnly
<1>3. CASE \E row \in events : MarkAnchored(row) BY <1>3, MarkAnchoredIsFlagsOnly
<1> QED BY <1>1, <1>2, <1>3 DEF Next

\* The inductive invariant: the digest of the head is the spine of the log and
\* every prev_hash points into it.
THEOREM SpineInvariance == Spec => []SpineInv
<1>1. Init => SpineInv
  BY DEF Init, SpineInv, TypeOK, OneRowPerId, HashesSound, HeadExists, HeadHash, HashAfter,
         ZeroHash, SpineSorted, LinksIntoSpine, OnTimeOnSpine, SpineStored
<1>2. SpineInv /\ [Next]_events => SpineInv'
  <2> SUFFICES ASSUME SpineInv, [Next]_events PROVE SpineInv'
    OBVIOUS
  <2>1. CASE UNCHANGED events BY <2>1, SpineStays
  <2>2. CASE FlagsOnly BY <2>2, FlagsOnlyPreserves
  <2>3. CASE \E c \in Content : ~Stored(c.id) /\ events' = events \cup {Chained(c, HeadHash)}
    BY <2>3, InsertPreserves
  <2> QED BY <2>1, <2>2, <2>3, StepCases DEF SpineInv
<1> QED BY <1>1, <1>2, PTL DEF Spec

\* The log is finite: each step adds at most one row.
THEOREM FiniteLog == Spec => []IsFiniteSet(events)
<1>1. Init => IsFiniteSet(events) BY FS_EmptySet DEF Init
<1>2. SpineInv /\ IsFiniteSet(events) /\ [Next]_events => IsFiniteSet(events)'
  <2> SUFFICES ASSUME SpineInv, IsFiniteSet(events), [Next]_events
               PROVE  IsFiniteSet(events')
    OBVIOUS
  <2>1. CASE UNCHANGED events BY <2>1
  <2>2. CASE FlagsOnly BY <2>2 DEF FlagsOnly
  <2>3. CASE \E c \in Content : events' = events \cup {Chained(c, HeadHash)}
    BY <2>3, FS_AddElement
  <2> QED BY <2>1, <2>2, <2>3, StepCases DEF SpineInv
<1> QED BY <1>1, <1>2, SpineInvariance, PTL DEF Spec

\* The store only ever holds rows.
THEOREM TypeCorrectness == Spec => []TypeOK
<1>1. SpineInv => TypeOK BY DEF SpineInv
<1> QED BY <1>1, SpineInvariance, PTL

\* No operation of the store removes a row, rewrites a hashed column or takes
\* the anchored flag back.
THEOREM StoreIsAppendOnly == Spec => AppendOnly
<1> DEFINE Kept(row) == \E kept \in events' :
             /\ ContentOf(kept) = ContentOf(row)
             /\ kept.prev = row.prev /\ kept.this = row.this
             /\ row.anchored => kept.anchored
<1>1. TypeOK /\ [Next]_events => [\A row \in events : Kept(row)]_events
  <2> SUFFICES ASSUME TypeOK, [Next]_events, NEW row \in events, ~UNCHANGED events
               PROVE  Kept(row)
    OBVIOUS
  <2>1. CASE FlagsOnly BY <2>1 DEF FlagsOnly, SameColumns, ContentOf
  <2>2. CASE \E c \in Content : events' = events \cup {Chained(c, HeadHash)} BY <2>2
  <2> QED BY <2>1, <2>2, StepCases
<1> QED BY <1>1, TypeCorrectness, PTL DEF Spec, AppendOnly

-------------------------------------------------------------------------------
(* What the invariant says of the rows.                                    *)

\* A row's this_hash is its prev_hash extended by its own content.
LEMMA RowHash ==
    ASSUME SpineInv, NEW row \in events
    PROVE  /\ row \in Row /\ row.prev \in Digest /\ row.this \in Digest
           /\ HeadHash \in Digest /\ Len(HeadHash) \in Nat
           /\ ContentOf(row) \in Content
           /\ Len(row.prev) \in Nat /\ Len(row.this) = Len(row.prev) + 1
           /\ row.this[Len(row.prev) + 1] = ContentOf(row)
           /\ \A i \in 1..Len(row.prev) : row.this[i] = row.prev[i]
<1>1. row \in Row /\ HeadHash \in Digest
  BY HeadFacts DEF SpineInv, TypeOK
<1>2. row.prev \in Digest /\ row.this \in Digest /\ ContentOf(row) \in Content
  BY <1>1, RowFacts
<1>3. row.this = CanonicalHash(ContentOf(row), row.prev)
  BY DEF SpineInv, HashesSound, EventHash
<1>4. Len(HeadHash) \in Nat /\ Len(row.prev) \in Nat
  BY <1>1, <1>2, CommitsReflexive
<1>5. /\ Len(row.this) = Len(row.prev) + 1
      /\ row.this[Len(row.prev) + 1] = ContentOf(row)
      /\ \A i \in 1..Len(row.prev) : row.this[i] = row.prev[i]
  BY <1>2, <1>3, HashExtends
<1> QED BY <1>1, <1>2, <1>4, <1>5

\* The spine's n-th content is that of a stored row that was not late and has
\* n - 1 predecessors on the spine.
LEMMA SpineRow ==
    ASSUME SpineInv, NEW n \in 1..Len(HeadHash)
    PROVE  \E row \in events :
             /\ Len(row.this) = n /\ CommitsTo(HeadHash, row.this)
             /\ Len(row.prev) = n - 1
             /\ ContentOf(row) = HeadHash[n]
             /\ ~Late(row)
<1>1. PICK row \in events : Len(row.this) = n /\ CommitsTo(HeadHash, row.this)
  BY DEF SpineInv, SpineStored
<1>2. /\ row \in Row /\ row.prev \in Digest /\ ContentOf(row) \in Content
      /\ HeadHash \in Digest
  BY RowHash
<1>3. /\ Len(row.prev) \in Nat /\ Len(row.prev) = n - 1
      /\ row.this[n] = ContentOf(row)
      /\ \A i \in 1..(n - 1) : row.this[i] = row.prev[i]
  BY <1>1, RowHash
<1>4. ContentOf(row) = HeadHash[n] /\ \A i \in 1..(n - 1) : row.prev[i] = HeadHash[i]
  BY <1>1, <1>3 DEF CommitsTo
<1>5. ~Late(row)
  <2> SUFFICES ASSUME row.prev # ZeroHash, Before(row, Last(row.prev)) PROVE FALSE
    BY DEF Late
  <2>1. n - 1 \in 1..Len(HeadHash) /\ Last(row.prev) = HeadHash[n - 1] /\ n - 1 < n
    BY <1>2, <1>3, <1>4, LastFacts
  <2>2. Before(HeadHash[n - 1], HeadHash[n]) BY <2>1 DEF SpineInv, SpineSorted
  <2>3. Last(row.prev) \in Content BY <1>2, LastFacts
  <2>4. Before(Last(row.prev), row) BY <1>2, <1>4, <2>1, <2>2, RowFacts DEF Before
  <2> QED BY <1>2, <2>3, <2>4, RowFacts, ContentFacts DEF Before
<1> QED BY <1>1, <1>3, <1>4, <1>5

\* A row that was not late has its place on the spine, just after its prev_hash.
LEMMA OnTimePosition ==
    ASSUME SpineInv, NEW row \in events, ~Late(row)
    PROVE  /\ Len(row.prev) + 1 \in 1..Len(HeadHash)
           /\ HeadHash[Len(row.prev) + 1] = ContentOf(row)
<1>1. CommitsTo(HeadHash, row.this) BY DEF SpineInv, OnTimeOnSpine
<1> QED BY <1>1, RowHash DEF CommitsTo

\* A late row's own hash is not on the spine.
LEMMA LateOffSpine ==
    ASSUME SpineInv, NEW row \in events, Late(row)
    PROVE  ~CommitsTo(HeadHash, row.this)
<1> SUFFICES ASSUME CommitsTo(HeadHash, row.this) PROVE FALSE
  OBVIOUS
<1> DEFINE n == Len(row.this)
<1>1. row \in Row /\ row.prev \in Digest /\ ContentOf(row) \in Content
  BY RowHash
<1>2. /\ Len(row.prev) \in Nat /\ n = Len(row.prev) + 1
      /\ row.this[n] = ContentOf(row)
      /\ \A i \in 1..(n - 1) : row.this[i] = row.prev[i]
      /\ Len(HeadHash) \in Nat
  BY RowHash
<1>3. n - 1 >= 1 /\ Last(row.prev) = row.prev[n - 1] /\ Last(row.prev) \in Content
  BY <1>1, <1>2, LastFacts DEF Late
<1>4. /\ n \in 1..Len(HeadHash) /\ n - 1 \in 1..Len(HeadHash) /\ n - 1 < n
      /\ HeadHash[n] = ContentOf(row) /\ HeadHash[n - 1] = Last(row.prev)
  BY <1>2, <1>3 DEF CommitsTo
<1>5. Before(Last(row.prev), ContentOf(row)) BY <1>4 DEF SpineInv, SpineSorted
<1>6. Before(row, Last(row.prev)) BY DEF Late
<1> QED BY <1>1, <1>3, <1>5, <1>6, RowFacts, ContentFacts DEF Before

\* The digest of the head, which anchors sign, covers exactly the rows that
\* were not late.
THEOREM HeadCommitsToSpineInvariance == Spec => []HeadCommitsToSpine
<1>1. SpineInv => HeadCommitsToSpine
  <2> SUFFICES ASSUME SpineInv PROVE HeadCommitsToSpine
    OBVIOUS
  <2>1. HeadHash \in Digest BY HeadFacts DEF SpineInv
  <2>2. DOMAIN HeadHash = 1..Len(HeadHash) BY <2>1 DEF Digest
  <2>3. \A n \in 1..Len(HeadHash) :
          HeadHash[n] \in {ContentOf(row) : row \in {r \in events : ~Late(r)}}
    BY SpineRow
  <2>4. \A row \in events : ~Late(row) => ContentOf(row) \in ToSet(HeadHash)
    BY <2>2, OnTimePosition DEF ToSet
  <2> QED BY <2>2, <2>3, <2>4 DEF HeadCommitsToSpine, ToSet
<1> QED BY <1>1, SpineInvariance, PTL

\* A link that is not genesis names the hash of a row that was not late.
LEMMA RowsLinkToRows ==
    ASSUME SpineInv, NEW row \in events, row.prev # ZeroHash
    PROVE  \E p \in events : p.this = row.prev /\ ~Late(p)
<1>1. /\ HeadHash \in Digest /\ row.prev \in Digest
      /\ CommitsTo(HeadHash, row.prev)
  BY HeadFacts, RowFacts DEF SpineInv, TypeOK, LinksIntoSpine
<1>2. Len(row.prev) \in 1..Len(HeadHash)
  BY <1>1, LastFacts, CommitsReflexive DEF CommitsTo
<1>3. PICK p \in events : /\ Len(p.this) = Len(row.prev)
                          /\ CommitsTo(HeadHash, p.this) /\ ~Late(p)
  BY <1>2, SpineRow
<1>4. p.this \in Digest BY RowFacts DEF SpineInv, TypeOK
<1> QED BY <1>1, <1>3, <1>4, CommitsUnique

\* The chain does not fork except into late rows, and no link dangles.
THEOREM LateRowsAreLeavesInvariance == Spec => []LateRowsAreLeaves
<1>1. SpineInv => LateRowsAreLeaves
  <2> SUFFICES ASSUME SpineInv PROVE LateRowsAreLeaves
    OBVIOUS
  <2>1. \A row \in events : row.prev = ZeroHash \/ \E p \in events : p.this = row.prev /\ ~Late(p)
    BY RowsLinkToRows
  <2>2. ASSUME NEW a \in events, NEW b \in events, a.prev = b.prev, ~Late(a), ~Late(b)
        PROVE  a = b
    <3>1. ContentOf(a) = ContentOf(b) BY <2>2, OnTimePosition
    <3> QED BY <3>1, RowFacts DEF SpineInv, TypeOK, OneRowPerId
  <2> QED BY <2>1, <2>2 DEF LateRowsAreLeaves
<1> QED BY <1>1, SpineInvariance, PTL

-------------------------------------------------------------------------------
(* The walk over the log.                                                  *)

\* A row that something follows is the predecessor of some row: the least one
\* after it, by timestamp and then by id.
LEMMA SuccessorExists ==
    ASSUME TypeOK, OneRowPerId, NEW row \in events, NEW later \in events, Before(row, later)
    PROVE  \E next \in events : IsPredecessor(row, next)
<1> DEFINE After == {r \in events : Before(row, r)}
<1>1. After \subseteq Row /\ Distinct(After) /\ After # {}
  BY DEF TypeOK, OneRowPerId, Distinct
<1>2. PICK next \in After : \A other \in After : other = next \/ Before(next, other)
  <2> HIDE DEF After
  <2> QED BY <1>1, FirstExists
<1>3. ASSUME NEW other \in After PROVE ~Before(other, next)
  <2> HIDE DEF After
  <2> QED BY <1>1, <1>2, <1>3, BeforeTotal
<1> QED BY <1>2, <1>3 DEF IsPredecessor

\* Two rows that were not late, with none of that kind between them, are linked:
\* the spine is sorted, so the row's predecessor on it lies between them.
LEMMA OnTimeNeighbours ==
    ASSUME SpineInv, NEW p \in events, NEW row \in events, ~Late(p), ~Late(row), Before(p, row),
           \A q \in events : ~Late(q) => ~(Before(p, q) /\ Before(q, row))
    PROVE  row.prev = p.this
<1> DEFINE m == Len(row.prev) + 1
           k == Len(p.prev) + 1
<1>1. /\ m \in 1..Len(HeadHash) /\ HeadHash[m] = ContentOf(row)
      /\ k \in 1..Len(HeadHash) /\ HeadHash[k] = ContentOf(p)
      /\ m \in Nat /\ k \in Nat /\ Len(HeadHash) \in Nat
  BY OnTimePosition, RowHash
<1>2. /\ p.id \in Nat /\ p.ts \in Nat /\ row.id \in Nat /\ row.ts \in Nat
      /\ ContentOf(p).id = p.id /\ ContentOf(p).ts = p.ts
      /\ ContentOf(row).id = row.id /\ ContentOf(row).ts = row.ts
  BY RowHash, RowFacts
<1> HIDE DEF m, k
<1>3. k < m
  <2>1. ~(m < k) BY <1>1, <1>2 DEF SpineInv, SpineSorted, Before
  <2>2. m # k BY <1>1, <1>2 DEF Before
  <2> QED BY <1>1, <2>1, <2>2
<1>4. k = m - 1
  <2> SUFFICES ASSUME k < m - 1 PROVE FALSE
    BY <1>1, <1>3
  <2>1. m - 1 \in 1..Len(HeadHash) BY <1>1
  <2>2. PICK q \in events : ContentOf(q) = HeadHash[m - 1] /\ ~Late(q) BY <2>1, SpineRow
  <2>3. Before(HeadHash[k], HeadHash[m - 1]) /\ Before(HeadHash[m - 1], HeadHash[m])
    BY <1>1, <2>1 DEF SpineInv, SpineSorted
  <2>4. ContentOf(q).id = q.id /\ ContentOf(q).ts = q.ts BY RowHash, RowFacts
  <2>5. Before(p, q) /\ Before(q, row)
    BY <1>1, <1>2, <2>2, <2>3, <2>4 DEF Before
  <2> QED BY <2>2, <2>5
<1>5. Len(row.prev) = Len(p.this) BY <1>4, RowHash DEF m, k
<1>6. CommitsTo(HeadHash, row.prev) /\ CommitsTo(HeadHash, p.this)
  BY DEF SpineInv, LinksIntoSpine, OnTimeOnSpine
<1> QED BY <1>5, <1>6, RowHash, CommitsUnique

\* When no event was late the walk is the spine, and the spine has no gap.
LEMMA OnTimeWalk ==
    ASSUME SpineInv, \A row \in events : ~Late(row)
    PROVE  Contiguous
BY OnTimeNeighbours DEF Contiguous, IsPredecessor

\* A late row is followed by some row, and no row links to a late one.
LEMMA LateBreaksWalk ==
    ASSUME SpineInv, NEW row \in events, Late(row)
    PROVE  ~Contiguous
<1>1. /\ row.prev \in Digest /\ row.prev # ZeroHash /\ Before(row, Last(row.prev))
      /\ CommitsTo(HeadHash, row.prev)
  BY RowHash DEF Late, SpineInv, LinksIntoSpine
<1>2. /\ Len(row.prev) \in 1..Len(HeadHash)
      /\ HeadHash[Len(row.prev)] = Last(row.prev)
  BY <1>1, RowHash, LastFacts DEF CommitsTo
<1>3. PICK later \in events : ContentOf(later) = Last(row.prev) BY <1>2, SpineRow
<1>4. Before(row, later) BY <1>1, <1>3, RowHash, RowFacts DEF Before
<1>5. PICK next \in events : IsPredecessor(row, next)
  BY <1>4, SuccessorExists DEF SpineInv
<1>6. CommitsTo(HeadHash, next.prev) BY DEF SpineInv, LinksIntoSpine
<1>7. next.prev # row.this BY <1>6, LateOffSpine
<1> QED BY <1>5, <1>7 DEF Contiguous

\* VerifyChain's linkage check passes on the untouched log exactly when every
\* event arrived in (ts, id) order.
THEOREM WalkTheorem == Spec => []WalkIsContiguousUnlessLate
<1>1. SpineInv => WalkIsContiguousUnlessLate
  BY OnTimeWalk, LateBreaksWalk DEF WalkIsContiguousUnlessLate
<1> QED BY <1>1, SpineInvariance, PTL

-------------------------------------------------------------------------------
(* The verify endpoint.                                                    *)

\* The first page of rows that all fit on one page is all of them.
LEMMA OnePageIsAll ==
    ASSUME NEW rows, rows \subseteq Row, Distinct(rows), IsFiniteSet(rows),
           Cardinality(rows) <= PageLimit
    PROVE  Page(rows, {}) = rows
<1>1. Rest(rows, {}) = rows BY DEF Rest
<1>2. ASSUME NEW row \in rows
      PROVE  Cardinality({other \in rows : Before(other, row)}) < PageLimit
  <2> DEFINE below == {other \in rows : Before(other, row)}
  <2>1. below \subseteq rows /\ row \notin below BY BeforeTotal
  <2> HIDE DEF below
  <2>2. /\ IsFiniteSet(below) /\ Cardinality(below) <= Cardinality(rows)
        /\ Cardinality(below) # Cardinality(rows)
    BY <2>1, FS_Subset
  <2>3. Cardinality(below) \in Nat /\ Cardinality(rows) \in Nat
    BY <2>2, FS_CardinalityType
  <2>4. Cardinality(below) < PageLimit BY <2>2, <2>3, PageAssumption
  <2> QED BY <2>4 DEF below
<1> QED BY <1>1, <1>2 DEF Page

\* The first row of the log was late exactly if it names a predecessor.
LEMMA FirstRowLate ==
    ASSUME SpineInv, NEW row \in events, \A other \in events : ~Before(other, row)
    PROVE  ~Late(row) <=> row.prev = ZeroHash
<1> SUFFICES ASSUME ~Late(row), row.prev # ZeroHash PROVE FALSE
  BY DEF Late
<1>1. PICK p \in events : p.this = row.prev BY RowsLinkToRows
<1>2. Len(row.this) = Len(p.this) + 1 /\ Len(p.this) \in Nat /\ p \in Row /\ row \in Row
  BY <1>1, RowHash
<1>3. Last(row.prev) = ContentOf(p)
  <2>1. p.this = CanonicalHash(ContentOf(p), p.prev)
    BY DEF SpineInv, HashesSound, EventHash
  <2> QED BY <1>1, <2>1, RowHash, HashExtends
<1>4. ~Before(row, p) BY <1>2, <1>3, RowFacts DEF Late, Before
<1>5. row = p \/ Before(p, row)
  BY <1>4, BeforeTotal DEF SpineInv, TypeOK, OneRowPerId, Distinct
<1> QED BY <1>2, <1>5

\* GET /v1/events/{id}/verify-chain, which lists one page and compares one pair of
\* hashes, and the walk over the whole log agree on every event whose predecessor
\* is on that page, for pages of any size.
THEOREM EndpointAgreesWithWalkInvariance == Spec => []EndpointAgreesWithWalk
<1>1. SpineInv /\ IsFiniteSet(events) => EndpointAgreesWithWalk
  <2> SUFFICES ASSUME SpineInv, IsFiniteSet(events), NEW row \in events, InReach(row)
               PROVE  IF \E p \in events : IsPredecessor(p, row)
                      THEN EndpointStatus(row) = LinkStatus(row, events)
                      ELSE EndpointStatus(row) = "ok" <=> ~Late(row)
    BY DEF EndpointAgreesWithWalk
  <2> DEFINE earlier == {r \in events : Before(r, row)}
  <2>1. events \subseteq Row /\ Distinct(events)
    BY DEF SpineInv, TypeOK, OneRowPerId, Distinct
  <2>2. earlier \subseteq Row /\ Distinct(earlier) /\ IsFiniteSet(earlier)
    BY <2>1, FS_Subset DEF Distinct
  <2>3. earlier = {r \in events : r.ts < row.ts} BY DEF InReach, Before
  <2>4. Page(earlier, {}) = earlier BY <2>2, OnePageIsAll DEF InReach
  <2>5. LookedUp(row) = earlier BY <2>3, <2>4 DEF LookedUp
  <2>6. row.this = EventHash(row) BY DEF SpineInv, HashesSound
  <2>7. ASSUME NEW p \in events, IsPredecessor(p, row)
        PROVE  EndpointStatus(row) = LinkStatus(row, events)
    <3>1. WalkedBefore(p, row, events) /\ IsLastRow(p, earlier)
      BY <2>1, <2>7, WalkNeighbours DEF IsPredecessor, WalkedBefore
    <3>2. HashAfter(earlier) = p.this BY <2>2, <3>1, LastRowUnique
    <3>3. \A q \in events : WalkedBefore(q, row, events) <=> q = p
      BY <2>1, <3>1, WalkNeighbours
    <3> HIDE DEF earlier
    <3>4. EndpointStatus(row) = IF row.prev # p.this THEN "gap" ELSE "ok"
      BY <2>5, <2>6, <3>2 DEF EndpointStatus
    <3>5. (\E q \in events : WalkedBefore(q, row, events) /\ q.this # row.prev)
            <=> row.prev # p.this
      BY <2>7, <3>3
    <3>6. LinkStatus(row, events) = IF row.prev # p.this THEN "gap" ELSE "ok"
      BY <2>6, <3>5 DEF LinkStatus
    <3> QED BY <3>4, <3>6
  <2>8. ASSUME ~\E p \in events : IsPredecessor(p, row)
        PROVE  EndpointStatus(row) = "ok" <=> ~Late(row)
    <3>1. earlier = {}
      <4>1. \A p : ~WalkedBefore(p, row, events)
        BY <2>8 DEF IsPredecessor, WalkedBefore
      <4>2. ~\E r \in events : Before(r, row) BY <2>1, <4>1, WalkNeighbours
      <4> QED BY <4>2
    <3>2. ~Late(row) <=> row.prev = ZeroHash BY <3>1, FirstRowLate
    <3>3. HashAfter(LookedUp(row)) = ZeroHash BY <2>5, <3>1 DEF HashAfter
    <3> HIDE DEF earlier
    <3>4. EndpointStatus(row) = IF row.prev # ZeroHash THEN "gap" ELSE "ok"
      BY <2>6, <3>3 DEF EndpointStatus
    <3> QED BY <3>2, <3>4
  <2> QED BY <2>7, <2>8
<1> QED BY <1>1, SpineInvariance, FiniteLog, PTL

-------------------------------------------------------------------------------
(* The store implements AuditLog.                                          *)

\* An event is inserted at the end of the spine, or late below its end.
LEMMA InsertExtendsOrAttaches ==
    ASSUME SpineInv, NEW c \in Content, ~Stored(c.id),
           NEW new, new = Chained(c, HeadHash), events' = events \cup {new}
    PROVE  \/ /\ HeadHash' = Append(HeadHash, c) /\ ~Late(new)
              /\ HeadHash # ZeroHash => Before(Last(HeadHash), c)
           \/ /\ HeadHash' = HeadHash /\ Late(new)
              /\ HeadHash # ZeroHash /\ Before(c, Last(HeadHash))
<1>1. HeadHash \in Digest BY HeadFacts DEF SpineInv
<1>2. /\ new.prev = HeadHash /\ new.this = Append(HeadHash, c)
      /\ new.id = c.id /\ new.ts = c.ts
  BY <1>1, ChainedIsRow DEF CanonicalHash
<1>3. c.id \in Nat /\ c.ts \in Nat BY ContentFacts
<1>4. CASE events = {} /\ HeadHash' = new.this
  BY <1>2, <1>4 DEF HeadHash, HashAfter, Late
<1>5. CASE \E head \in events :
             /\ IsHead(head)
             /\ \/ Before(head, new) /\ HeadHash' = new.this
                \/ Before(new, head) /\ HeadHash' = HeadHash
  <2>1. PICK head \in events :
             /\ IsHead(head)
             /\ \/ Before(head, new) /\ HeadHash' = new.this
                \/ Before(new, head) /\ HeadHash' = HeadHash
    BY <1>5
  <2>2. /\ HeadHash # ZeroHash /\ Last(HeadHash) = ContentOf(head) /\ head \in Row
    BY <2>1, SpineEndsWithHead, HeadIsChainHead DEF SpineInv
  <2>3. /\ head.id \in Nat /\ head.ts \in Nat
        /\ Last(HeadHash).id = head.id /\ Last(HeadHash).ts = head.ts
    BY <2>2, RowFacts
  <2> QED BY <1>2, <1>3, <2>1, <2>2, <2>3 DEF Late, Before
<1> QED BY <1>4, <1>5, InsertMovesHead

\* An id that AuditLog has logged is the id of a stored row.
LEMMA LoggedIsStored ==
    ASSUME SpineInv, NEW id, Log!Logged(id)
    PROVE  Stored(id)
<1>1. CASE \E n \in 1..Len(HeadHash) : HeadHash[n].id = id
  <2>1. PICK n \in 1..Len(HeadHash) : HeadHash[n].id = id BY <1>1
  <2>2. PICK row \in events : ContentOf(row) = HeadHash[n] BY SpineRow
  <2> QED BY <2>1, <2>2 DEF ContentOf, Stored
<1>2. CASE \E leaf \in LateLeaves : leaf.content.id = id
  BY <1>2 DEF LateLeaves, ContentOf, Stored
<1> QED BY <1>1, <1>2 DEF Log!Logged

\* An insert extends the spine of AuditLog or attaches a late event to it.
LEMMA FreshInsertIsLogStep ==
    ASSUME SpineInv, NEW c \in Content, ~Stored(c.id), events' = events \cup {Chained(c, HeadHash)}
    PROVE  Log!Extend(c) \/ Log!Attach(c)
<1> DEFINE new == Chained(c, HeadHash)
<1>1. ~Log!Logged(c.id) BY LoggedIsStored
<1>2. /\ HeadHash \in Digest /\ Len(HeadHash) \in Nat
      /\ ContentOf(new) = c /\ new.prev = HeadHash
  BY HeadFacts, ChainedIsRow, CommitsReflexive DEF SpineInv
<1>3. CASE /\ HeadHash' = Append(HeadHash, c) /\ ~Late(new)
           /\ HeadHash # ZeroHash => Before(Last(HeadHash), c)
  <2>1. LateLeaves' = LateLeaves
    BY <1>3 DEF LateLeaves, Late, Before
  <2> QED BY <1>1, <1>3, <2>1 DEF Log!Extend, Log!ZeroHash, ZeroHash, Log!Before, Before, Log!Last, Last
<1>4. CASE /\ HeadHash' = HeadHash /\ Late(new)
           /\ HeadHash # ZeroHash /\ Before(c, Last(HeadHash))
  <2>1. LateLeaves' = LateLeaves \cup {[content |-> c, prev |-> HeadHash]}
    BY <1>2, <1>4 DEF LateLeaves, Late, Before
  <2>2. /\ Len(HeadHash) \in 1..Len(HeadHash)
        /\ HeadHash[Len(HeadHash)] = Last(HeadHash)
    BY <1>2, <1>4, LastFacts
  <2>3. SubSeq(HeadHash, 1, Len(HeadHash)) = HeadHash BY <1>2 DEF Digest
  <2>4. Before(c, HeadHash[Len(HeadHash)]) BY <1>4, <2>2
  <2> QED BY <1>1, <1>4, <2>1, <2>2, <2>3, <2>4 DEF Log!Attach, Log!Before, Before
<1> QED BY <1>3, <1>4, InsertExtendsOrAttaches

\* What AuditLog sees of the table stands while the table does.
LEMMA TableStaysIsLogStutter ==
    ASSUME UNCHANGED events
    PROVE  HeadHash' = HeadHash /\ LateLeaves' = LateLeaves
BY DEF HeadHash, HashAfter, LastRow, IsLastRow, LateLeaves

\* InsertChained, of a new event or of one that is stored, is a step of AuditLog or
\* none.
LEMMA InsertIsLogStep ==
    ASSUME SpineInv, NEW c \in Content, InsertChained(c)
    PROVE  [Log!LogNext]_<<HeadHash, LateLeaves, {}>>
<1>1. CASE UNCHANGED events BY <1>1, TableStaysIsLogStutter
<1>2. CASE ~Stored(c.id) /\ events' = events \cup {Chained(c, HeadHash)}
  BY <1>2, FreshInsertIsLogStep DEF Log!LogNext, Log!Content, Content
<1> QED BY <1>1, <1>2 DEF InsertChained

\* Every step of the store extends the spine of AuditLog, attaches a late event
\* to it, or is not a step of AuditLog at all.
THEOREM StoreImplementsAuditLog == Spec => ImplementsAuditLog
<1>1. Init => Log!LogInit
  BY DEF Init, Log!LogInit, HeadHash, HashAfter, LateLeaves, Log!ZeroHash, ZeroHash
<1>2. SpineInv /\ [Next]_events => [Log!LogNext]_<<HeadHash, LateLeaves, {}>>
  <2> SUFFICES ASSUME SpineInv, [Next]_events
               PROVE  [Log!LogNext]_<<HeadHash, LateLeaves, {}>>
    OBVIOUS
  <2>1. CASE UNCHANGED events
    BY <2>1, TableStaysIsLogStutter
  <2>2. CASE FlagsOnly
    <3>1. HeadHash' = HeadHash BY <2>2, FlagsOnlyPreserves
    <3>2. LateLeaves' = LateLeaves
      BY <2>2 DEF FlagsOnly, SameColumns, LateLeaves, ContentOf, Late, Before
    <3> QED BY <3>1, <3>2
  <2>3. ASSUME NEW c \in Content, ~Stored(c.id), events' = events \cup {Chained(c, HeadHash)}
        PROVE  Log!Extend(c) \/ Log!Attach(c)
    BY <2>3, FreshInsertIsLogStep
  <2> QED BY <2>1, <2>2, <2>3, StepCases DEF SpineInv, Log!LogNext, Log!Content, Content
<1> QED BY <1>1, <1>2, SpineInvariance, PTL DEF Spec, ImplementsAuditLog, Log!LogSpec, Log!logVars
===============================================================================
