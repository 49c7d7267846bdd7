----------------------------- MODULE SweepProofs -----------------------------
(***************************************************************************)
(* What the pages of a sweep visit and what its report is worth, for a log *)
(* and pages of any size and any damage.  What a page leaves out of the    *)
(* rows after the cursor sorts after everything in the page, so the cursor *)
(* never passes a row it did not list, and a page that is not full leaves  *)
(* out nothing.  Rows that arrive meanwhile cannot change that, since no   *)
(* row is taken away while a sweep is under way.  From this follow         *)
(* WalkVisitsEveryRow and AlterationIsFound.                               *)
(*                                                                         *)
(* CleanReportMissesOnlyAPrefix follows the links of a walk that did not   *)
(* fail back from the row an anchor names.  A row that came while the walk *)
(* was under way is linked to a row behind which the walk lists nothing    *)
(* that is older (ArrivalInv).  A row with no such history would have an   *)
(* earlier one without it, and so there would be a first one.              *)
(* AlarmOnlyAfterDamageOrLate needs that a walk over a log without damage  *)
(* passes over late rows at most (UndamagedInv).                           *)
(***************************************************************************)
EXTENDS Sweep, AnchorProofs

-------------------------------------------------------------------------------
(* The inductive invariant.                                                *)

HashedColumns(row) == [row EXCEPT !.anchored = FALSE, !.hold = FALSE]

\* The log as the sweep looks at it, which only grows while a sweep is under way.
HashedLog(w) == Hashed(InWindow(w))

\* A row is behind the cursor and was listed, or still ahead of it.
Ahead(row) ==
    /\ row \in HashedLog(sweep.window)
    /\ sweep.seen = {} \/ Before(LastRow(sweep.seen), row)

\* Rows that have been listed are in the log; all that were there when the sweep
\* began are listed or ahead, and at the end of the walk none is ahead.  Before
\* the anchors are looked up none of them mismatches.
Listing ==
    /\ sweep.seen \subseteq HashedLog(sweep.window)
    /\ sweep.phase = "idle" => sweep.seen = {}
    /\ sweep.phase = "pages" => \A row \in sweep.start.rows : row \in sweep.seen \/ Ahead(row)
    /\ Walked => sweep.start.rows \subseteq sweep.seen
    /\ sweep.phase # "anchors" => sweep.mismatches = {}

\* The table is finite and has one row per id.
FiniteTable == OneRowPerId /\ IsFiniteSet(events)

\* What an export leaves is always the same.
ExportAnchor == [root |-> ZeroHash, last |-> None]

SweepInv == SweepTypeOK /\ FiniteTable /\ Listing /\ exported \subseteq {ExportAnchor}

\* What a sweep looks at keeps a row's place, its link and its type.
LEMMA HashedFacts ==
    ASSUME NEW row \in Row
    PROVE  /\ HashedColumns(row) \in Row
           /\ SameColumns(row, HashedColumns(row))
           /\ ContentOf(HashedColumns(row)) = ContentOf(row)
BY DEF HashedColumns, Row, SameColumns, ContentOf

\* Rows that differ in their flags only look the same to a sweep.
LEMMA SameColumnsLookTheSame ==
    ASSUME NEW a \in Row, NEW b \in Row, SameColumns(a, b)
    PROVE  HashedColumns(a) = HashedColumns(b)
BY DEF HashedColumns, Row, SameColumns

\* The log as a sweep looks at it: finite, with one row per id.
LEMMA HashedLogFacts ==
    ASSUME TypeOK, FiniteTable, NEW w
    PROVE  /\ InWindow(w) \subseteq Row /\ Distinct(InWindow(w)) /\ IsFiniteSet(InWindow(w))
           /\ HashedLog(w) = {HashedColumns(row) : row \in InWindow(w)}
           /\ HashedLog(w) \subseteq Row /\ Distinct(HashedLog(w)) /\ IsFiniteSet(HashedLog(w))
<1> DEFINE W == InWindow(w)
<1>1. W \subseteq Row /\ Distinct(W) /\ IsFiniteSet(W)
  <2>1. W \subseteq events BY DEF InWindow
  <2> QED BY <2>1, FS_Subset DEF TypeOK, FiniteTable, OneRowPerId, Distinct
<1>2. HashedLog(w) = {HashedColumns(row) : row \in W}
  BY DEF HashedLog, Hashed, HashedColumns
<1> HIDE DEF W
<1>3. HashedLog(w) \subseteq Row
  BY <1>1, <1>2, HashedFacts
<1>4. Distinct(HashedLog(w))
  <2> SUFFICES ASSUME NEW a \in W, NEW b \in W, HashedColumns(a).id = HashedColumns(b).id
               PROVE  HashedColumns(a) = HashedColumns(b)
    BY <1>2 DEF Distinct
  <2>1. a.id = b.id BY <1>1, HashedFacts DEF SameColumns
  <2> QED BY <1>1, <2>1 DEF Distinct
<1>5. IsFiniteSet(HashedLog(w))
  <2> DEFINE f == [row \in W |-> HashedColumns(row)]
  <2>1. f \in Surjection(W, HashedLog(w))
    BY <1>2 DEF Surjection
  <2> QED BY <1>1, <2>1, FS_Surjection
<1> QED BY <1>1, <1>2, <1>3, <1>4, <1>5 DEF W

\* The rows listed so far have a last one, the cursor.
LEMMA CursorExists ==
    ASSUME TypeOK, FiniteTable, Listing, sweep.seen # {}
    PROVE  /\ sweep.seen \subseteq Row /\ Distinct(sweep.seen)
           /\ IsLastRow(LastRow(sweep.seen), sweep.seen) /\ LastRow(sweep.seen) \in sweep.seen
<1>1. sweep.seen \subseteq Row /\ Distinct(sweep.seen) /\ IsFiniteSet(sweep.seen)
  BY HashedLogFacts, FS_Subset DEF Listing, Distinct
<1>2. PICK row \in sweep.seen : IsLastRow(row, sweep.seen)
  BY <1>1, LastExists
<1> QED BY <1>1, <1>2, LastRowUnique

-------------------------------------------------------------------------------
(* The steps on the table.                                                 *)

\* A step that leaves the sweep alone and takes no row away preserves what is
\* known of the listing.
LEMMA GrowingLogKeepsListing ==
    ASSUME Listing, UNCHANGED sweep, \A w : HashedLog(w) \subseteq HashedLog(w)'
    PROVE  Listing'
<1>1. HashedLog(sweep.window) \subseteq HashedLog(sweep.window)'
  BY DEF HashedLog, Hashed, InWindow
<1> QED BY <1>1 DEF Listing, Ahead, Walked

\* Without rows or digests of its own a table has a head, and its hash is a digest.
LEMMA HeadOfTable ==
    ASSUME TypeOK, FiniteTable
    PROVE  /\ HeadHash \in Digest
           /\ events # {} => ChainHead \in events /\ ChainHead \in Row
<1>1. CASE events = {}
  BY <1>1 DEF HeadHash, HashAfter, ZeroHash, Digest
<1>2. CASE events # {}
  <2>1. PICK row \in events : IsLastRow(row, events)
    BY <1>2, LastExists DEF TypeOK, FiniteTable, OneRowPerId, Distinct
  <2> QED BY <2>1, LastRowUnique, RowFacts DEF TypeOK, HeadHash, ChainHead
<1> QED BY <1>1, <1>2

\* An insert keeps the table finite and the rows that were there.
LEMMA IngestKeeps ==
    ASSUME SweepInv, NEW c \in Content, Ingest(c), UNCHANGED <<damage, exported, sweep>>
    PROVE  SweepInv'
<1> DEFINE new == Chained(c, HeadHash)
<1>1. SweepTypeOK /\ AnchorTypeOK /\ TypeOK /\ FiniteTable /\ Listing
  BY DEF SweepInv, SweepTypeOK, AnchorTypeOK
<1>2. /\ events' = events \cup {new} /\ UNCHANGED <<anchors, job>>
      /\ \A row \in events : row.id # c.id
  BY DEF Ingest, InsertChained, Stored
<1>3. new \in Row /\ new.id = c.id
  BY <1>1, HeadOfTable, ChainedIsRow
<1> HIDE DEF new
<1>4. TypeOK' /\ FiniteTable'
  BY <1>1, <1>2, <1>3, FS_AddElement DEF TypeOK, FiniteTable, OneRowPerId
<1>5. SweepTypeOK'
  BY <1>1, <1>2, <1>4 DEF SweepTypeOK, AnchorTypeOK
<1>6. \A w : HashedLog(w) \subseteq HashedLog(w)'
  BY <1>2 DEF HashedLog, Hashed, InWindow
<1> QED BY <1>1, <1>4, <1>5, <1>6, GrowingLogKeepsListing DEF SweepInv

\* Setting flags keeps the table as a sweep looks at it.
LEMMA FlagsKeep ==
    ASSUME TypeOK, FiniteTable, FlagsOnly
    PROVE  TypeOK' /\ FiniteTable' /\ \A w : HashedLog(w)' = HashedLog(w)
<1>1. TypeOK' /\ FiniteTable'
  BY DEF FlagsOnly, TypeOK, FiniteTable
<1>2. ASSUME NEW row \in events, NEW kept \in events', SameColumns(row, kept)
      PROVE  HashedColumns(row) = HashedColumns(kept) /\ row.ts = kept.ts
  BY <1>1, <1>2, SameColumnsLookTheSame DEF TypeOK, SameColumns
<1>3. ASSUME NEW w PROVE HashedLog(w)' = HashedLog(w)
  <2>1. ASSUME NEW row \in InWindow(w) PROVE HashedColumns(row) \in HashedLog(w)'
    <3>1. row \in events /\ row.ts \in w BY DEF InWindow
    <3>2. PICK kept \in events' : SameColumns(row, kept) BY <3>1 DEF FlagsOnly
    <3>3. HashedColumns(row) = HashedColumns(kept) /\ kept.ts \in w BY <1>2, <3>1, <3>2
    <3> QED BY <3>3 DEF HashedLog, Hashed, InWindow, HashedColumns
  <2>2. ASSUME NEW kept \in events', kept.ts \in w PROVE HashedColumns(kept) \in HashedLog(w)
    <3>1. PICK row \in events : SameColumns(row, kept) BY DEF FlagsOnly
    <3>2. HashedColumns(row) = HashedColumns(kept) /\ row.ts \in w BY <1>2, <2>2, <3>1
    <3> QED BY <3>2 DEF HashedLog, Hashed, InWindow, HashedColumns
  <2> QED BY <2>1, <2>2 DEF HashedLog, Hashed, InWindow, HashedColumns
<1> QED BY <1>1, <1>3

\* The anchor job beside a sweep.
LEMMA JobKeeps ==
    ASSUME SweepInv, NEW r \in Replicas, UNCHANGED <<damage, exported, sweep>>,
           ReadHead(r) \/ InsertAnchor(r) \/ MarkCovered(r) \/ Abandon(r)
    PROVE  SweepInv'
<1>1. SweepTypeOK /\ AnchorTypeOK /\ TypeOK /\ FiniteTable /\ Listing
  BY DEF SweepInv, SweepTypeOK, AnchorTypeOK
<1>2. ASSUME TypeOK', FiniteTable', AnchorTypeOK', anchors \subseteq anchors',
             \A w : HashedLog(w) \subseteq HashedLog(w)'
      PROVE  SweepInv'
  <2>1. SweepTypeOK' BY <1>1, <1>2 DEF SweepTypeOK
  <2> QED BY <1>1, <1>2, <2>1, GrowingLogKeepsListing DEF SweepInv
<1>3. ASSUME UNCHANGED events
      PROVE  TypeOK' /\ FiniteTable' /\ \A w : HashedLog(w) \subseteq HashedLog(w)'
  BY <1>1, <1>3 DEF TypeOK, FiniteTable, OneRowPerId, HashedLog, Hashed, InWindow
<1>4. CASE ReadHead(r)
  <2>1. ChainHead \in Row BY <1>1, <1>4, HeadOfTable DEF ReadHead
  <2>2. AnchorTypeOK' BY <1>1, <1>3, <1>4, <2>1 DEF AnchorTypeOK, ReadHead
  <2> QED BY <1>2, <1>3, <1>4, <2>2 DEF ReadHead
<1>5. CASE InsertAnchor(r)
  <2>1. job[r] \in Row \X {"signed", "stored"}
    BY <1>1, <1>5 DEF AnchorTypeOK, InsertAnchor
  <2>2. [root |-> job[r][1].this, last |-> job[r][1].id] \in Anchor
    BY <2>1 DEF Anchor, Row
  <2>3. job' \in [Replicas -> (Row \X {"signed", "stored"}) \cup {None}]
    BY <1>1, <1>5, <2>1 DEF AnchorTypeOK, InsertAnchor
  <2>4. AnchorTypeOK' BY <1>1, <1>3, <1>5, <2>2, <2>3 DEF AnchorTypeOK, InsertAnchor
  <2> QED BY <1>2, <1>3, <1>5, <2>4 DEF InsertAnchor
<1>6. CASE MarkCovered(r)
  <2>1. TypeOK' /\ FiniteTable' /\ \A w : HashedLog(w)' = HashedLog(w)
    BY <1>1, <1>6, MarkAnchoredIsFlagsOnly, FlagsKeep DEF MarkCovered
  <2>2. AnchorTypeOK' BY <1>1, <1>6, <2>1 DEF AnchorTypeOK, MarkCovered
  <2> QED BY <1>2, <1>6, <2>1, <2>2 DEF MarkCovered
<1>7. CASE Abandon(r)
  <2>1. AnchorTypeOK' BY <1>1, <1>3, <1>7 DEF AnchorTypeOK, Abandon
  <2> QED BY <1>2, <1>3, <1>7, <2>1 DEF Abandon
<1> QED BY <1>4, <1>5, <1>6, <1>7

\* Damage comes between two sweeps: a row goes, or one of its columns changes.
LEMMA DamageKeeps ==
    ASSUME SweepInv, Damage
    PROVE  SweepInv'
<1>1. SweepTypeOK /\ AnchorTypeOK /\ TypeOK /\ FiniteTable /\ Listing
  BY DEF SweepInv, SweepTypeOK, AnchorTypeOK
<1>2. PICK row \in events :
        \E kept \in {{}} \cup {{form} : form \in AlteredForms(row) \ {row}} :
          events' = (events \ {row}) \cup kept
  BY DEF Damage
<1>3. PICK kept \in {{}} \cup {{form} : form \in AlteredForms(row) \ {row}} :
         events' = (events \ {row}) \cup kept
  BY <1>2
<1>4. /\ UNCHANGED <<anchors, job, exported, sweep>> /\ sweep.phase = "idle"
      /\ damage' = damage + 1 /\ damage < MaxDamage
  BY DEF Damage
<1>5. row \in Row BY <1>1 DEF TypeOK
<1>6. \A form \in AlteredForms(row) :
        form \in Row /\ (form.id = row.id \/ \A other \in events : form.id # other.id)
  <2>1. {ZeroHash} \cup {other.this : other \in events} \subseteq Digest
    <3>1. ZeroHash \in Digest BY DEF ZeroHash, Digest
    <3>2. \A other \in events : other.this \in Digest BY <1>1, RowFacts DEF TypeOK
    <3> QED BY <3>1, <3>2
  <2> QED BY <1>5, <2>1 DEF AlteredForms, Row, Stored
<1>7. kept = {} \/ \E form \in AlteredForms(row) : kept = {form}
  BY <1>3
<1>8. TypeOK' /\ OneRowPerId'
  BY <1>1, <1>3, <1>6, <1>7 DEF TypeOK, FiniteTable, OneRowPerId
<1>9. IsFiniteSet(events')
  <2>1. IsFiniteSet(events \ {row}) BY <1>1, FS_RemoveElement DEF FiniteTable
  <2>2. CASE kept = {} BY <1>3, <2>1, <2>2
  <2>3. CASE kept # {}
    <3>1. PICK form : kept = {form} BY <1>7, <2>3
    <3> QED BY <1>3, <2>1, <3>1, FS_AddElement
  <2> QED BY <2>2, <2>3
<1>10. SweepTypeOK'
  <2>1. damage' \in 0..MaxDamage BY <1>1, <1>4, SweepAssumption DEF SweepTypeOK
  <2>2. AnchorTypeOK' BY <1>1, <1>4, <1>8 DEF AnchorTypeOK
  <2> QED BY <1>1, <1>4, <2>1, <2>2 DEF SweepTypeOK
<1>11. Listing' BY <1>1, <1>4 DEF Listing, Walked
<1> QED BY <1>4, <1>8, <1>9, <1>10, <1>11 DEF SweepInv, FiniteTable

-------------------------------------------------------------------------------
(* The steps of the sweep.                                                 *)

\* A step of the sweep alone: only its type and its listing are to be shown.
LEMMA SweepAlone ==
    ASSUME SweepInv, UNCHANGED <<events, anchors, job, damage, exported>>,
           sweep' \in [window : Windows, phase : {"idle", "pages", "walked", "anchors"},
                       seen : SUBSET Row, listed : SUBSET AnyAnchor,
                       todo : SUBSET AnyAnchor, mismatches : SUBSET AnyAnchor,
                       start : [rows : SUBSET Row, anchors : SUBSET AnyAnchor]],
           sweep'.listed \subseteq anchors \cup exported,
           sweep'.todo \cup sweep'.mismatches \subseteq sweep'.listed,
           Listing'
    PROVE  SweepInv'
<1>1. SweepTypeOK /\ AnchorTypeOK /\ TypeOK /\ FiniteTable
  BY DEF SweepInv, SweepTypeOK, AnchorTypeOK
<1>2. AnchorTypeOK' /\ FiniteTable'
  BY <1>1 DEF AnchorTypeOK, TypeOK, FiniteTable, OneRowPerId
<1> QED BY <1>1, <1>2 DEF SweepInv, SweepTypeOK

\* A page leaves nothing behind the new cursor that it did not list.
LEMMA PageKeepsAhead ==
    ASSUME SweepInv, sweep.phase = "pages", UNCHANGED events,
           NEW page, page = Page(InWindow(sweep.window), sweep.seen),
           sweep'.window = sweep.window, sweep'.start = sweep.start,
           sweep'.seen = sweep.seen \cup Hashed(page)
    PROVE  /\ sweep'.seen \subseteq HashedLog(sweep.window) /\ sweep'.seen \subseteq Row
           /\ \A row \in Row : row \in sweep.seen \/ Ahead(row) =>
                /\ row \in sweep'.seen \/ Ahead(row)'
                /\ Rest(InWindow(sweep.window), sweep.seen) = page => row \in sweep'.seen
<1> DEFINE W == InWindow(sweep.window)
           L == HashedLog(sweep.window)
           R == Rest(W, sweep.seen)
<1>1. TypeOK /\ FiniteTable /\ Listing
  BY DEF SweepInv, SweepTypeOK, AnchorTypeOK
<1>2. /\ W \subseteq Row /\ Distinct(W) /\ IsFiniteSet(W)
      /\ L = {HashedColumns(row) : row \in W}
      /\ L \subseteq Row /\ Distinct(L) /\ IsFiniteSet(L)
  BY <1>1, HashedLogFacts
<1>3. /\ page \subseteq R /\ R \subseteq W
      /\ \A p \in page, r \in R \ page : Before(p, r)
      /\ R # page => page # {}
  BY <1>2, PageFacts
<1>4. Hashed(page) = {HashedColumns(row) : row \in page}
  BY DEF Hashed, HashedColumns
<1>5. sweep.seen \subseteq L
  BY <1>1 DEF Listing
<1>6. sweep'.seen \subseteq L
  BY <1>2, <1>3, <1>4, <1>5
<1>7. ASSUME NEW row, row \in sweep.seen \/ Ahead(row), row \notin sweep'.seen
      PROVE  \E e \in R \ page : row = HashedColumns(e)
  <2>1. row \notin sweep.seen /\ Ahead(row)
    BY <1>7
  <2>2. PICK e \in W : row = HashedColumns(e)
    BY <1>2, <2>1 DEF Ahead
  <2>3. e \in R
    BY <1>2, <2>1, <2>2, HashedFacts DEF Ahead, Rest, SameColumns, Before
  <2> QED BY <1>4, <1>7, <2>2, <2>3
<1>8. ASSUME NEW row, row \in sweep.seen \/ Ahead(row), row \notin sweep'.seen
      PROVE  Ahead(row)'
  <2>1. PICK e \in R \ page : row = HashedColumns(e) BY <1>7, <1>8
  <2>2. PICK m \in page : IsLastRow(m, page)
    <3>1. page # {} /\ page \subseteq W BY <1>3, <2>1
    <3>2. IsFiniteSet(page) /\ Distinct(page) /\ page \subseteq Row
      BY <1>2, <3>1, FS_Subset DEF Distinct
    <3> QED BY <3>1, <3>2, LastExists
  <2>3. IsLastRow(HashedColumns(m), sweep'.seen)
    <3> SUFFICES ASSUME NEW other \in sweep'.seen
                 PROVE  other = HashedColumns(m) \/ Before(other, HashedColumns(m))
      BY <1>4, <2>2 DEF IsLastRow
    <3>1. m \in Row /\ SameColumns(m, HashedColumns(m)) BY <1>2, <1>3, HashedFacts
    <3>2. CASE other \in sweep.seen
      <4>1. /\ sweep.seen \subseteq Row /\ LastRow(sweep.seen) \in sweep.seen
            /\ IsLastRow(LastRow(sweep.seen), sweep.seen)
        BY <1>1, <3>2, CursorExists
      <4>2. Before(LastRow(sweep.seen), m) BY <1>3, <2>2, <3>2 DEF Rest
      <4>3. other = LastRow(sweep.seen) \/ Before(other, LastRow(sweep.seen))
        BY <3>2, <4>1 DEF IsLastRow
      <4>4. Before(other, m)
        BY <3>1, <3>2, <4>1, <4>2, <4>3, BeforeTransitive
      <4> QED BY <3>1, <4>4 DEF SameColumns, Before
    <3>3. CASE other \in Hashed(page)
      <4>1. PICK p \in page : other = HashedColumns(p) BY <1>4, <3>3
      <4>2. p \in Row /\ SameColumns(p, other) BY <1>2, <1>3, <4>1, HashedFacts
      <4>3. p = m \/ Before(p, m) BY <2>2 DEF IsLastRow
      <4> QED BY <3>1, <4>1, <4>2, <4>3 DEF SameColumns, Before
    <3> QED BY <3>2, <3>3
  <2>4. LastRow(sweep'.seen) = HashedColumns(m)
    BY <1>2, <1>6, <2>3, LastRowUnique
  <2>5. Before(LastRow(sweep'.seen), row)
    <3>1. Before(m, e) BY <1>3, <2>1, <2>2
    <3>2. SameColumns(m, HashedColumns(m)) /\ SameColumns(e, row)
      BY <1>2, <1>3, <2>1, <2>2, HashedFacts
    <3> QED BY <2>4, <3>1, <3>2 DEF SameColumns, Before
  <2>6. row \in HashedLog(sweep.window)'
    <3>1. row \in L BY <1>2, <1>3, <2>1
    <3> QED BY <3>1 DEF HashedLog, Hashed, InWindow
  <2>7. LastRow(sweep.seen)' = LastRow(sweep'.seen)
    BY DEF LastRow, IsLastRow, Before
  <2> QED BY <2>5, <2>6, <2>7 DEF Ahead, Before
<1>9. ASSUME NEW row, row \in sweep.seen \/ Ahead(row), R = page
      PROVE  row \in sweep'.seen
  BY <1>7, <1>9
<1> HIDE DEF R, L, W
<1>10. L \subseteq Row BY <1>2
<1> QED BY <1>6, <1>8, <1>9, <1>10 DEF R, L, W

\* Each step of the sweep.
LEMMA SweepStepKeeps ==
    ASSUME SweepInv, SweepStep
    PROVE  SweepInv'
<1>1. SweepTypeOK /\ AnchorTypeOK /\ TypeOK /\ FiniteTable /\ Listing
  BY DEF SweepInv, SweepTypeOK, AnchorTypeOK
<1>2. anchors \cup exported \subseteq AnyAnchor
  BY <1>1 DEF SweepTypeOK, AnchorTypeOK, Anchor, AnyAnchor
<1>3. UNCHANGED <<events, anchors, job, damage, exported>>
  BY DEF SweepStep, StartSweep, ListPage, ListAnchors, CheckAnchor, EndSweep
<1>4. CASE StartSweep
  <2>1. PICK w \in Windows :
          sweep' = [sweep EXCEPT !.window = w, !.phase = "pages", !.start = Start(w)]
    BY <1>4 DEF StartSweep
  <2>2. Hashed(InWindow(w)) \subseteq Row
    BY <1>1, HashedLogFacts DEF HashedLog
  <2>3. Start(w) \in [rows : SUBSET Row, anchors : SUBSET AnyAnchor]
    BY <1>2, <2>2 DEF Start
  <2>4. Start(w).rows = Hashed(InWindow(w)) BY DEF Start
  <2>5. Hashed(InWindow(w))' = Hashed(InWindow(w)) BY <1>3 DEF Hashed, InWindow
  <2>6. sweep.phase = "idle" /\ sweep.seen = {} BY <1>1, <1>4 DEF StartSweep, Listing
  <2>7. /\ sweep'.window = w /\ sweep'.phase = "pages" /\ sweep'.start = Start(w)
        /\ sweep'.seen = {}
    BY <1>1, <2>1, <2>6 DEF SweepTypeOK
  <2>8. /\ sweep' \in [window : Windows, phase : {"idle", "pages", "walked", "anchors"},
                       seen : SUBSET Row, listed : SUBSET AnyAnchor,
                       todo : SUBSET AnyAnchor, mismatches : SUBSET AnyAnchor,
                       start : [rows : SUBSET Row, anchors : SUBSET AnyAnchor]]
        /\ sweep'.listed = sweep.listed /\ sweep'.todo = sweep.todo
        /\ sweep'.mismatches = sweep.mismatches
    BY <1>1, <2>1, <2>3 DEF SweepTypeOK
  <2>9. Listing'
    BY <1>1, <2>4, <2>5, <2>6, <2>7, <2>8 DEF Listing, Ahead, HashedLog, Walked
  <2> QED BY <1>1, <1>3, <2>8, <2>9, SweepAlone DEF SweepTypeOK
<1>5. CASE ListPage
  <2> DEFINE page == Page(InWindow(sweep.window), sweep.seen)
  <2>1. PICK last \in BOOLEAN :
          /\ last => ~(Cardinality(page) >= PageLimit) \/ Rest(InWindow(sweep.window), sweep.seen) = page
          /\ sweep' = [sweep EXCEPT !.seen = @ \cup Hashed(page),
                                    !.phase = IF last THEN "walked" ELSE "pages"]
    BY <1>5 DEF ListPage
  <2>2. sweep.phase = "pages" BY <1>5 DEF ListPage
  <2>3. last => Rest(InWindow(sweep.window), sweep.seen) = page
    BY <1>1, <2>1, HashedLogFacts, PageFacts
  <2> HIDE DEF page
  <2>4. /\ sweep'.window = sweep.window /\ sweep'.start = sweep.start
        /\ sweep'.seen = sweep.seen \cup Hashed(page)
        /\ sweep'.phase = IF last THEN "walked" ELSE "pages"
        /\ sweep'.listed = sweep.listed /\ sweep'.todo = sweep.todo
        /\ sweep'.mismatches = sweep.mismatches
    BY <1>1, <2>1 DEF SweepTypeOK
  <2>5. /\ sweep'.seen \subseteq HashedLog(sweep.window) /\ sweep'.seen \subseteq Row
        /\ \A row \in sweep.start.rows : row \in sweep'.seen \/ Ahead(row)'
        /\ Rest(InWindow(sweep.window), sweep.seen) = page =>
             sweep.start.rows \subseteq sweep'.seen
    <3>1. \A row \in sweep.start.rows : row \in Row /\ (row \in sweep.seen \/ Ahead(row))
      BY <1>1, <2>2 DEF Listing, SweepTypeOK
    <3> QED BY <1>3, <2>2, <2>4, <3>1, PageKeepsAhead DEF page
  <2>6. HashedLog(sweep.window)' = HashedLog(sweep.window)
    BY <1>3, <2>4 DEF HashedLog, Hashed, InWindow
  <2>7. Listing'
    BY <1>1, <2>2, <2>3, <2>4, <2>5, <2>6 DEF Listing, Walked
  <2>8. sweep' \in [window : Windows, phase : {"idle", "pages", "walked", "anchors"},
                    seen : SUBSET Row, listed : SUBSET AnyAnchor,
                    todo : SUBSET AnyAnchor, mismatches : SUBSET AnyAnchor,
                    start : [rows : SUBSET Row, anchors : SUBSET AnyAnchor]]
    BY <1>1, <2>1, <2>4, <2>5 DEF SweepTypeOK
  <2> QED BY <1>1, <1>3, <2>4, <2>7, <2>8, SweepAlone DEF SweepTypeOK
<1>6. ASSUME sweep'.window = sweep.window, sweep'.start = sweep.start, sweep'.seen = sweep.seen,
             Walked, sweep'.phase = "anchors"
      PROVE  Listing'
  <2>1. HashedLog(sweep.window)' = HashedLog(sweep.window)
    BY <1>3, <1>6 DEF HashedLog, Hashed, InWindow
  <2> QED BY <1>1, <1>6, <2>1 DEF Listing, Walked
<1>7. CASE ListAnchors
  <2>1. PICK found \in SUBSET (anchors \cup exported) :
          sweep' = [sweep EXCEPT !.phase = "anchors", !.listed = found, !.todo = found]
    BY <1>7 DEF ListAnchors
  <2>2. /\ sweep'.window = sweep.window /\ sweep'.start = sweep.start
        /\ sweep'.seen = sweep.seen /\ sweep'.phase = "anchors"
        /\ sweep'.listed = found /\ sweep'.todo = found
        /\ sweep'.mismatches = sweep.mismatches
    BY <1>1, <2>1 DEF SweepTypeOK
  <2>3. Walked BY <1>7 DEF ListAnchors, Walked
  <2>4. sweep.mismatches = {}
    BY <1>1, <1>7 DEF Listing, ListAnchors
  <2>5. sweep' \in [window : Windows, phase : {"idle", "pages", "walked", "anchors"},
                    seen : SUBSET Row, listed : SUBSET AnyAnchor,
                    todo : SUBSET AnyAnchor, mismatches : SUBSET AnyAnchor,
                    start : [rows : SUBSET Row, anchors : SUBSET AnyAnchor]]
    BY <1>1, <1>2, <2>1 DEF SweepTypeOK
  <2> QED BY <1>3, <1>6, <2>2, <2>3, <2>4, <2>5, SweepAlone
<1>8. ASSUME NEW a \in sweep.todo, CheckAnchor(a) PROVE SweepInv'
  <2> DEFINE found == IF AnchorMatches(a) THEN {} ELSE {a}
  <2>1. sweep' = [sweep EXCEPT !.todo = @ \ {a}, !.mismatches = @ \cup found]
    BY <1>8 DEF CheckAnchor
  <2>2. found \subseteq sweep.listed /\ found \subseteq AnyAnchor
    BY <1>1, <1>8 DEF SweepTypeOK
  <2> HIDE DEF found
  <2>3. /\ sweep'.window = sweep.window /\ sweep'.start = sweep.start
        /\ sweep'.seen = sweep.seen /\ sweep'.phase = sweep.phase
        /\ sweep'.listed = sweep.listed /\ sweep'.todo = sweep.todo \ {a}
        /\ sweep'.mismatches = sweep.mismatches \cup found
    BY <1>1, <2>1 DEF SweepTypeOK
  <2>4. Walked /\ sweep'.phase = "anchors" BY <1>8, <2>3 DEF CheckAnchor, Walked
  <2>5. sweep' \in [window : Windows, phase : {"idle", "pages", "walked", "anchors"},
                    seen : SUBSET Row, listed : SUBSET AnyAnchor,
                    todo : SUBSET AnyAnchor, mismatches : SUBSET AnyAnchor,
                    start : [rows : SUBSET Row, anchors : SUBSET AnyAnchor]]
    BY <1>1, <2>1, <2>2 DEF SweepTypeOK
  <2> QED BY <1>1, <1>3, <1>6, <2>2, <2>3, <2>4, <2>5, SweepAlone DEF SweepTypeOK
<1>9. CASE EndSweep
  <2>1. sweep' = Idle BY <1>9 DEF EndSweep
  <2>2. {} \in Windows BY DEF Windows
  <2> QED BY <1>3, <2>1, <2>2, SweepAlone DEF Idle, Listing, Walked
<1> QED BY <1>4, <1>5, <1>7, <1>8, <1>9 DEF SweepStep

\* An export leaves its anchor; nothing a walk looks at changes.
LEMMA ExportKeeps ==
    ASSUME SweepInv, Export
    PROVE  SweepInv'
<1>1. SweepTypeOK /\ AnchorTypeOK /\ TypeOK /\ FiniteTable /\ Listing
  BY DEF SweepInv, SweepTypeOK, AnchorTypeOK
<1>2. /\ exported' = {ExportAnchor} /\ exported \subseteq exported'
      /\ UNCHANGED <<events, anchors, job, damage, sweep>>
  BY DEF Export, ExportAnchor, SweepInv
<1>3. ExportAnchor \in AnyAnchor
  BY DEF ExportAnchor, AnyAnchor, ZeroHash, Digest
<1>4. TypeOK' /\ AnchorTypeOK' /\ FiniteTable'
  BY <1>1, <1>2 DEF AnchorTypeOK, TypeOK, FiniteTable, OneRowPerId
<1>5. SweepTypeOK'
  BY <1>1, <1>2, <1>3, <1>4 DEF SweepTypeOK
<1>6. Listing'
  BY <1>1, <1>2, GrowingLogKeepsListing DEF HashedLog, Hashed, InWindow
<1> QED BY <1>2, <1>4, <1>5, <1>6 DEF SweepInv, ExportAnchor

-------------------------------------------------------------------------------
(* The theorems.                                                           *)

\* The invariant holds of every reachable state: whatever a sweep has listed is
\* in the log, and nothing that was there when it began is behind its cursor
\* unlisted, while events are inserted and anchored under it.
THEOREM SweepInvariance == SweepSpec => []SweepInv
<1>1. SweepInit => SweepInv
  <2> SUFFICES ASSUME SweepInit PROVE SweepInv OBVIOUS
  <2>1. events = {} /\ anchors = {} /\ damage = 0 /\ exported = {} /\ sweep = Idle
        /\ job = [r \in Replicas |-> None]
    BY DEF SweepInit, AnchorInit, Init
  <2>2. TypeOK /\ AnchorTypeOK BY <2>1 DEF AnchorTypeOK, TypeOK
  <2>3. {} \in Windows BY DEF Windows
  <2>4. SweepTypeOK BY <2>1, <2>2, <2>3, SweepAssumption DEF SweepTypeOK, Idle
  <2>5. FiniteTable BY <2>1, FS_EmptySet DEF FiniteTable, OneRowPerId
  <2>6. Listing BY <2>1 DEF Listing, Idle, Walked
  <2> QED BY <2>1, <2>4, <2>5, <2>6 DEF SweepInv
<1>2. SweepInv /\ [SweepNext]_sweepVars => SweepInv'
  <2> SUFFICES ASSUME SweepInv, [SweepNext]_sweepVars PROVE SweepInv'
    OBVIOUS
  <2>1. CASE AnchorNext /\ UNCHANGED <<damage, exported, sweep>>
    <3>1. ASSUME NEW c \in Content, Ingest(c) PROVE SweepInv'
      BY <2>1, <3>1, IngestKeeps
    <3>2. ASSUME NEW r \in Replicas,
                 ReadHead(r) \/ InsertAnchor(r) \/ MarkCovered(r) \/ Abandon(r)
          PROVE  SweepInv'
      BY <2>1, <3>2, JobKeeps
    <3> QED BY <2>1, <3>1, <3>2 DEF AnchorNext
  <2>2. CASE SweepStep BY <2>2, SweepStepKeeps
  <2>3. CASE Damage BY <2>3, DamageKeeps
  <2>4. CASE Export BY <2>4, ExportKeeps
  <2>5. CASE UNCHANGED sweepVars
    <3>1. UNCHANGED <<events, anchors, job, damage, exported, sweep>>
      BY <2>5 DEF sweepVars
    <3>2. TypeOK /\ AnchorTypeOK /\ SweepTypeOK /\ FiniteTable /\ Listing
      BY DEF SweepInv, SweepTypeOK, AnchorTypeOK
    <3>3. TypeOK' /\ AnchorTypeOK' /\ FiniteTable'
      BY <3>1, <3>2 DEF AnchorTypeOK, TypeOK, FiniteTable, OneRowPerId
    <3>4. SweepTypeOK' BY <3>1, <3>2, <3>3 DEF SweepTypeOK
    <3>5. Listing'
      BY <3>1, <3>2, GrowingLogKeepsListing DEF HashedLog, Hashed, InWindow
    <3> QED BY <3>1, <3>3, <3>4, <3>5 DEF SweepInv
  <2> QED BY <2>1, <2>2, <2>3, <2>4, <2>5 DEF SweepNext
<1> QED BY <1>1, <1>2, PTL DEF SweepSpec

\* A walk visits every row of its window that was there when it began, with pages
\* of any size, however many events arrive before or after its cursor meanwhile.
THEOREM WalkVisitsEveryRowInvariance == SweepSpec => []WalkVisitsEveryRow
<1>1. SweepInv => WalkVisitsEveryRow
  BY DEF SweepInv, Listing, WalkVisitsEveryRow
<1> QED BY <1>1, SweepInvariance, PTL

\* A row whose hashed columns no longer give its this_hash is found by every walk
\* that began after they were altered, wherever the row lies among the pages.
THEOREM AlterationIsFoundInvariance == SweepSpec => []AlterationIsFound
<1>1. SweepInv => AlterationIsFound
  <2> SUFFICES ASSUME SweepInv, Walked,
                      NEW row \in sweep.start.rows, row.this # EventHash(row)
               PROVE  Status # "ok"
    BY DEF AlterationIsFound
  <2>1. TypeOK /\ FiniteTable /\ Listing
    BY DEF SweepInv, SweepTypeOK, AnchorTypeOK
  <2>2. row \in sweep.seen BY <2>1 DEF Listing
  <2>3. sweep.seen \subseteq Row /\ Distinct(sweep.seen) BY <2>1, <2>2, CursorExists
  <2>4. LinkStatus(row, sweep.seen) = "broken" BY DEF LinkStatus
  <2> QED BY <2>2, <2>3, <2>4, FailingRowFailsChain DEF Status
<1> QED BY <1>1, SweepInvariance, PTL

-------------------------------------------------------------------------------
(* What comes while a sweep is under way.                                  *)

\* A row the walk has listed or is going to list.
Reached(row) == row \in sweep.seen \/ (sweep.phase = "pages" /\ Ahead(row))

\* A row that has come since the sweep began is sound and linked to the head of
\* then, if there was one.  What the walk lists between that head and the row came
\* later still, and then the row is reached too.
LinkedWhenItCame(row) ==
    /\ row.this = EventHash(row)
    /\ \/ row.prev = ZeroHash /\ \A r \in sweep.seen : Before(r, row) => Reached(row)
       \/ \E h \in HashedLog(Times) :
            /\ h.this = row.prev
            /\ \A r \in sweep.seen : Before(h, r) /\ Before(r, row) => Reached(row)

ArrivalsLinked ==
    sweep.phase # "idle" /\ Whole =>
        \A row \in HashedLog(Times) \ sweep.start.rows : LinkedWhenItCame(row)

\* The row an anchor was found to match stays in the table.
Matched(a) == \E row \in HashedLog(Times) : row.id = a.last /\ row.this = a.root

MatchesStay ==
    sweep.phase = "anchors" =>
        \A a \in sweep.listed \ (sweep.todo \cup sweep.mismatches) : Matched(a)

ArrivalInv == ArrivalsLinked /\ MatchesStay

\* A step that leaves the sweep alone and takes no row away preserves what is known
\* of the rows that were there before it.
LEMMA GrowingLogKeepsLinks ==
    ASSUME UNCHANGED sweep, \A w : HashedLog(w) \subseteq HashedLog(w)'
    PROVE  /\ \A row : LinkedWhenItCame(row) => LinkedWhenItCame(row)'
           /\ \A a : Matched(a) => Matched(a)'
<1>1. ASSUME NEW row, Reached(row) PROVE Reached(row)'
  <2>1. HashedLog(sweep.window) \subseteq HashedLog(sweep.window)'
    BY DEF HashedLog, Hashed, InWindow
  <2> QED BY <1>1, <2>1 DEF Reached, Ahead
<1>2. HashedLog(Times) \subseteq HashedLog(Times)'
  OBVIOUS
<1> QED BY <1>1, <1>2 DEF LinkedWhenItCame, Matched

\* If no row comes either, all of it is preserved.
LEMMA SameLogKeepsArrivals ==
    ASSUME ArrivalInv, UNCHANGED sweep, \A w : HashedLog(w)' = HashedLog(w)
    PROVE  ArrivalInv'
<1>1. HashedLog(Times)' = HashedLog(Times)
  OBVIOUS
<1>2. /\ \A row : LinkedWhenItCame(row) => LinkedWhenItCame(row)'
      /\ \A a : Matched(a) => Matched(a)'
  BY GrowingLogKeepsLinks
<1> QED BY <1>1, <1>2 DEF ArrivalInv, ArrivalsLinked, MatchesStay, Whole

\* What an insert adds to the table as a sweep looks at it.
LEMMA IngestAdds ==
    ASSUME TypeOK, FiniteTable, NEW c \in Content, Ingest(c),
           NEW new, new = Chained(c, HeadHash)
    PROVE  /\ new \in Row
           /\ \A w : HashedLog(w) \subseteq HashedLog(w)'
           /\ \A w : HashedLog(w)' \subseteq HashedLog(w) \cup {HashedColumns(new)}
<1>1. new \in Row
  BY HeadOfTable, ChainedIsRow
<1>2. events' = events \cup {new}
  BY DEF Ingest, InsertChained
<1> QED BY <1>1, <1>2 DEF HashedLog, Hashed, InWindow, HashedColumns

\* An insert: the new row is linked to the head, which nothing listed follows.
LEMMA IngestKeepsArrivals ==
    ASSUME SweepInv, ArrivalInv, NEW c \in Content, Ingest(c), UNCHANGED sweep
    PROVE  ArrivalInv'
<1>0. PICK new, hn : new = Chained(c, HeadHash) /\ hn = HashedColumns(new)
  OBVIOUS
<1>1. TypeOK /\ FiniteTable /\ Listing
  BY DEF SweepInv, SweepTypeOK, AnchorTypeOK
<1>2. /\ new \in Row
      /\ \A w : HashedLog(w) \subseteq HashedLog(w)'
      /\ HashedLog(Times)' \subseteq HashedLog(Times) \cup {hn}
  BY <1>0, <1>1, IngestAdds
<1>3. /\ \A row : LinkedWhenItCame(row) => LinkedWhenItCame(row)'
      /\ \A a : Matched(a) => Matched(a)'
  BY <1>2, GrowingLogKeepsLinks
<1>4. hn.this = EventHash(hn) /\ hn.prev = HeadHash
  BY <1>0, <1>1, <1>2, HashedFacts, HeadOfTable, ChainedIsRow DEF SameColumns, EventHash
<1>5. ASSUME Whole PROVE LinkedWhenItCame(hn)'
  <2>1. sweep.seen \subseteq {HashedColumns(row) : row \in events}
    BY <1>1 DEF Listing, HashedLog, Hashed, InWindow, HashedColumns
  <2>2. CASE events = {}
    <3>1. hn.prev = ZeroHash /\ sweep'.seen = {}
      BY <1>4, <2>1, <2>2 DEF HeadHash, HashAfter
    <3> QED BY <1>4, <3>1 DEF LinkedWhenItCame
  <2>3. CASE events # {}
    <3>1. PICK head \in events : IsLastRow(head, events)
      BY <1>1, <2>3, LastExists DEF TypeOK, FiniteTable, OneRowPerId, Distinct
    <3>2. head \in Row /\ HeadHash = head.this
      BY <1>1, <3>1, LastRowUnique DEF TypeOK, HeadHash
    <3>3. HashedColumns(head).this = hn.prev
      BY <1>4, <3>2, HashedFacts DEF SameColumns
    <3>4. HashedColumns(head) \in HashedLog(Times)'
      <4>1. HashedColumns(head) \in HashedLog(Times)
        BY <3>1, <3>2 DEF HashedLog, Hashed, InWindow, HashedColumns, Row
      <4> QED BY <1>2, <4>1
    <3>5. ASSUME NEW r \in sweep.seen PROVE ~Before(HashedColumns(head), r)
      <4>1. PICK row \in events : r = HashedColumns(row) BY <2>1
      <4>2. row \in Row /\ ~Before(head, row)
        BY <1>1, <3>1, BeforeTotal DEF IsLastRow, TypeOK, FiniteTable, OneRowPerId, Distinct
      <4> QED BY <3>2, <4>1, <4>2, HashedFacts DEF SameColumns, Before
    <3> QED BY <1>4, <3>3, <3>4, <3>5 DEF LinkedWhenItCame
  <2> QED BY <2>2, <2>3
<1>6. ArrivalsLinked'
  BY <1>2, <1>3, <1>5 DEF ArrivalInv, ArrivalsLinked, Whole
<1>7. MatchesStay'
  BY <1>3 DEF ArrivalInv, MatchesStay
<1> QED BY <1>6, <1>7 DEF ArrivalInv

\* A page: what it lists before a row that came meanwhile lies ahead of the cursor,
\* and so does the row.
LEMMA PageKeepsLinks ==
    ASSUME SweepInv, Whole, ListPage, NEW row \in HashedLog(Times), LinkedWhenItCame(row)
    PROVE  LinkedWhenItCame(row)'
<1> DEFINE page == Page(InWindow(sweep.window), sweep.seen)
<1>1. TypeOK /\ FiniteTable /\ Listing /\ SweepTypeOK
  BY DEF SweepInv, SweepTypeOK, AnchorTypeOK
<1>2. /\ sweep.phase = "pages" /\ UNCHANGED events
      /\ sweep'.window = sweep.window /\ sweep'.start = sweep.start
      /\ sweep'.seen = sweep.seen \cup Hashed(page)
      /\ \/ sweep'.phase = "pages"
         \/ sweep'.phase = "walked" /\ Rest(InWindow(sweep.window), sweep.seen) = page
  <2>1. PICK last \in BOOLEAN :
          /\ last => ~(Cardinality(page) >= PageLimit) \/ Rest(InWindow(sweep.window), sweep.seen) = page
          /\ sweep' = [sweep EXCEPT !.seen = @ \cup Hashed(page),
                                    !.phase = IF last THEN "walked" ELSE "pages"]
    BY DEF ListPage
  <2>2. last => Rest(InWindow(sweep.window), sweep.seen) = page
    BY <1>1, <2>1, HashedLogFacts, PageFacts
  <2> HIDE DEF page
  <2> QED BY <1>1, <2>1, <2>2 DEF SweepTypeOK, ListPage, page
<1>3. InWindow(sweep.window) \subseteq Row /\ page \subseteq Rest(InWindow(sweep.window), sweep.seen)
      /\ row \in Row /\ HashedLog(Times)' = HashedLog(Times)
  <2>1. InWindow(sweep.window) \subseteq Row /\ page \subseteq Rest(InWindow(sweep.window), sweep.seen)
    BY <1>1, HashedLogFacts, PageFacts
  <2>2. row \in Row BY <1>1, HashedLogFacts
  <2>3. HashedLog(Times)' = HashedLog(Times)
    BY <1>2 DEF HashedLog, Hashed, InWindow
  <2> QED BY <2>1, <2>2, <2>3
<1>4. Reached(row) => Reached(row)'
  <2> HIDE DEF page
  <2>1. Reached(row) => row \in sweep.seen \/ Ahead(row)
    BY DEF Reached
  <2> QED BY <1>2, <1>3, <2>1, PageKeepsAhead DEF Reached, page
<1>5. ASSUME NEW r \in Hashed(page), Before(r, row) PROVE Reached(row)
  <2>1. PICK p \in page : r = HashedColumns(p) BY DEF Hashed, HashedColumns
  <2>2. p \in Row /\ Before(p, row)
    BY <1>3, <1>5, <2>1, HashedFacts DEF Rest, SameColumns, Before
  <2>3. CASE sweep.seen = {}
    BY <1>2, <2>3 DEF Reached, Ahead, Whole
  <2>4. CASE sweep.seen # {}
    <3>1. LastRow(sweep.seen) \in Row BY <1>1, <2>4, CursorExists
    <3>2. Before(LastRow(sweep.seen), p) BY <1>3, <2>1, <2>4 DEF Rest
    <3>3. Before(LastRow(sweep.seen), row) BY <1>3, <2>2, <3>1, <3>2, BeforeTransitive
    <3> QED BY <1>2, <3>3 DEF Reached, Ahead, Whole
  <2> QED BY <2>3, <2>4
<1> HIDE DEF page
<1> QED BY <1>2, <1>3, <1>4, <1>5 DEF LinkedWhenItCame

\* Each step of the sweep.
LEMMA SweepStepKeepsArrivals ==
    ASSUME SweepInv, ArrivalInv, SweepStep
    PROVE  ArrivalInv'
<1>1. TypeOK /\ FiniteTable /\ Listing /\ SweepTypeOK /\ ArrivalsLinked /\ MatchesStay
  BY DEF SweepInv, SweepTypeOK, AnchorTypeOK, ArrivalInv
<1>2. UNCHANGED <<events, anchors, job, damage, exported>>
  BY DEF SweepStep, StartSweep, ListPage, ListAnchors, CheckAnchor, EndSweep
<1>3. \A w : HashedLog(w)' = HashedLog(w)
  BY <1>2 DEF HashedLog, Hashed, InWindow
<1>4. \A a : Matched(a) => Matched(a)'
  BY <1>3 DEF Matched
<1>5. CASE StartSweep
  <2>1. PICK w \in Windows :
          sweep' = [sweep EXCEPT !.window = w, !.phase = "pages", !.start = Start(w)]
    BY <1>5 DEF StartSweep
  <2>2. sweep'.window = w /\ sweep'.phase = "pages" /\ sweep'.start = Start(w)
    BY <1>1, <2>1 DEF SweepTypeOK
  <2>3. sweep'.start.rows = HashedLog(w) BY <2>2 DEF Start, HashedLog
  <2> QED BY <1>3, <2>2, <2>3 DEF ArrivalInv, ArrivalsLinked, MatchesStay, Whole
<1>6. CASE ListPage
  <2>1. /\ sweep.phase = "pages" /\ sweep'.phase # "anchors"
        /\ sweep'.window = sweep.window /\ sweep'.start = sweep.start
    BY <1>1, <1>6 DEF SweepTypeOK, ListPage
  <2>2. ASSUME Whole, NEW row \in HashedLog(Times), LinkedWhenItCame(row)
        PROVE  LinkedWhenItCame(row)'
    BY <1>6, <2>2, PageKeepsLinks
  <2>3. HashedLog(Times)' = HashedLog(Times) BY <1>3
  <2> QED BY <1>1, <2>1, <2>2, <2>3 DEF ArrivalInv, ArrivalsLinked, MatchesStay, Whole
<1>7. ASSUME Walked, sweep'.window = sweep.window, sweep'.start = sweep.start,
             sweep'.seen = sweep.seen, sweep'.phase = "anchors"
      PROVE  ArrivalsLinked'
  <2>1. \A row : Reached(row) => Reached(row)'
    BY <1>7 DEF Reached, Walked
  <2>2. HashedLog(Times)' = HashedLog(Times) BY <1>3
  <2>3. \A row : LinkedWhenItCame(row) => LinkedWhenItCame(row)'
    BY <1>7, <2>1, <2>2 DEF LinkedWhenItCame
  <2> QED BY <1>1, <1>7, <2>2, <2>3 DEF ArrivalsLinked, Whole, Walked
<1>8. CASE ListAnchors
  <2>1. /\ Walked /\ sweep'.window = sweep.window /\ sweep'.start = sweep.start
        /\ sweep'.seen = sweep.seen /\ sweep'.phase = "anchors"
        /\ sweep'.listed = sweep'.todo
    BY <1>1, <1>8 DEF SweepTypeOK, ListAnchors, Walked
  <2> QED BY <1>7, <2>1 DEF ArrivalInv, MatchesStay
<1>9. ASSUME NEW a \in sweep.todo, CheckAnchor(a) PROVE ArrivalInv'
  <2> DEFINE found == IF AnchorMatches(a) THEN {} ELSE {a}
  <2>1. /\ Walked /\ sweep.phase = "anchors"
        /\ sweep' = [sweep EXCEPT !.todo = @ \ {a}, !.mismatches = @ \cup found]
    BY <1>9 DEF CheckAnchor, Walked
  <2>2. a \notin found => Matched(a)
    <3>1. \A row \in events : /\ HashedColumns(row) \in HashedLog(Times)
                              /\ HashedColumns(row).id = row.id
                              /\ HashedColumns(row).this = row.this
      BY <1>1, HashedFacts DEF HashedLog, Hashed, InWindow, HashedColumns, Row, TypeOK, SameColumns
    <3> QED BY <3>1 DEF AnchorMatches, Matched
  <2> HIDE DEF found
  <2>3. /\ sweep'.window = sweep.window /\ sweep'.start = sweep.start
        /\ sweep'.seen = sweep.seen /\ sweep'.phase = "anchors"
        /\ sweep'.listed = sweep.listed /\ sweep'.todo = sweep.todo \ {a}
        /\ sweep'.mismatches = sweep.mismatches \cup found
    BY <1>1, <2>1 DEF SweepTypeOK
  <2>4. MatchesStay'
    BY <1>1, <1>4, <2>1, <2>2, <2>3 DEF MatchesStay
  <2> QED BY <1>7, <2>1, <2>3, <2>4 DEF ArrivalInv
<1>10. CASE EndSweep
  <2>1. sweep'.phase = "idle" BY <1>10 DEF EndSweep, Idle
  <2> QED BY <2>1 DEF ArrivalInv, ArrivalsLinked, MatchesStay
<1> QED BY <1>5, <1>6, <1>8, <1>9, <1>10 DEF SweepStep

\* Whatever comes while a sweep is under way is linked to what was the head when
\* it came, and the row that an anchor was found to match is still there.
THEOREM ArrivalInvariance == SweepSpec => []ArrivalInv
<1>1. SweepInit => ArrivalInv
  BY DEF SweepInit, Idle, ArrivalInv, ArrivalsLinked, MatchesStay
<1>2. SweepInv /\ ArrivalInv /\ [SweepNext]_sweepVars => ArrivalInv'
  <2> SUFFICES ASSUME SweepInv, ArrivalInv, [SweepNext]_sweepVars PROVE ArrivalInv'
    OBVIOUS
  <2>1. TypeOK /\ FiniteTable BY DEF SweepInv, SweepTypeOK, AnchorTypeOK
  <2>2. ASSUME UNCHANGED <<events, sweep>> PROVE ArrivalInv'
    <3>1. \A w : HashedLog(w)' = HashedLog(w)
      BY <2>2 DEF HashedLog, Hashed, InWindow
    <3> QED BY <2>2, <3>1, SameLogKeepsArrivals
  <2>3. ASSUME NEW r \in Replicas, MarkCovered(r), UNCHANGED sweep PROVE ArrivalInv'
    <3>1. \A w : HashedLog(w)' = HashedLog(w)
      BY <2>1, <2>3, MarkAnchoredIsFlagsOnly, FlagsKeep DEF MarkCovered
    <3> QED BY <2>3, <3>1, SameLogKeepsArrivals
  <2>4. CASE Damage
    <3>1. sweep'.phase = "idle" BY <2>4 DEF Damage
    <3> QED BY <3>1 DEF ArrivalInv, ArrivalsLinked, MatchesStay
  <2>5. CASE AnchorNext /\ UNCHANGED <<damage, exported, sweep>>
    BY <2>2, <2>3, <2>5, IngestKeepsArrivals
       DEF AnchorNext, ReadHead, InsertAnchor, Abandon
  <2> QED BY <2>2, <2>4, <2>5, SweepStepKeepsArrivals DEF SweepNext, sweepVars, Export
<1> QED BY <1>1, <1>2, SweepInvariance, PTL DEF SweepSpec

-------------------------------------------------------------------------------
(* What a clean report says.                                               *)

\* The walk accounts for a row's history: all of it is known from the k-th content
\* on, and there is nothing else in the walk up to the row.
Accounts(row, k) ==
    LET kept == {row.this[i] : i \in k..Len(row.this)}
    IN  /\ WalkedUpTo(row) \subseteq kept
        /\ kept \subseteq {ContentOf(r) : r \in sweep.seen \cup (HashedLog(Times) \ sweep.start.rows)}

Accounted(row) ==
    /\ row.this \in Digest /\ Len(row.this) \in Nat
    /\ \E k \in 1..Len(row.this) : Accounts(row, k)

\* A row that came meanwhile and that the walk has not listed adds its content to
\* what the head of then commits to.
LEMMA ArrivalIsAccounted ==
    ASSUME TypeOK, FiniteTable, Listing, Whole, Walked,
           NEW row \in HashedLog(Times) \ sweep.start.rows, row \notin sweep.seen,
           row.this = EventHash(row), NEW h \in HashedLog(Times), h.this = row.prev, Accounted(h),
           \A r \in sweep.seen : ~(Before(h, r) /\ Before(r, row))
    PROVE  Accounted(row)
<1>1. row \in Row /\ h \in Row /\ sweep.seen \subseteq Row
  BY HashedLogFacts DEF Listing
<1>2. /\ row.prev \in Digest /\ row.this \in Digest /\ Len(row.prev) \in Nat
      /\ Len(row.this) = Len(row.prev) + 1 /\ row.this[Len(row.prev) + 1] = ContentOf(row)
      /\ \A i \in 1..Len(row.prev) : row.this[i] = row.prev[i]
  BY <1>1, RowFacts, HashExtends DEF EventHash
<1>3. PICK k \in 1..Len(row.prev) : Accounts(h, k)
  BY DEF Accounted
<1>4. {row.this[i] : i \in k..Len(row.this)}
        = {h.this[i] : i \in k..Len(h.this)} \cup {ContentOf(row)}
  BY <1>2, <1>3
<1>5. WalkedUpTo(row) \subseteq WalkedUpTo(h)
  <2> SUFFICES ASSUME NEW r \in sweep.seen, ~Before(row, r)
               PROVE  ~Before(h, r)
    BY DEF WalkedUpTo
  <2>1. r \in HashedLog(Times) /\ Distinct(HashedLog(Times))
    BY HashedLogFacts DEF Listing, Whole
  <2>2. Before(r, row) BY <1>1, <2>1, HashedLogFacts, BeforeTotal
  <2> QED BY <2>2
<1>6. k \in 1..Len(row.this)
  BY <1>2, <1>3
<1>7. Accounts(row, k)
  <2> DEFINE known == {ContentOf(r) : r \in sweep.seen \cup (HashedLog(Times) \ sweep.start.rows)}
             old == {h.this[i] : i \in k..Len(h.this)}
  <2>1. WalkedUpTo(h) \subseteq old /\ old \subseteq known BY <1>3 DEF Accounts
  <2>2. ContentOf(row) \in known OBVIOUS
  <2>3. {row.this[i] : i \in k..Len(row.this)} = old \cup {ContentOf(row)} BY <1>4
  <2> HIDE DEF old, known
  <2>4. WalkedUpTo(row) \subseteq old \cup {ContentOf(row)} /\ old \cup {ContentOf(row)} \subseteq known
    BY <1>5, <2>1, <2>2
  <2> QED BY <2>3, <2>4 DEF Accounts, known
<1> QED BY <1>2, <1>6, <1>7 DEF Accounted

\* Every row is accounted for by a walk that is accepted, over the log that grew
\* under it.
LEMMA CleanWalkAccounts ==
    ASSUME SweepInv, ArrivalInv, Whole, Walked, Status = "ok"
    PROVE  \A row \in HashedLog(Times) : Accounted(row)
<1> DEFINE L == HashedLog(Times)
           Bad == {row \in L : ~Accounted(row)}
           Lengths == {Len(row.this) : row \in Bad}
<1>1. /\ TypeOK /\ FiniteTable /\ Listing
      /\ L \subseteq Row /\ Distinct(L) /\ IsFiniteSet(L)
      /\ sweep.seen \subseteq L /\ sweep.start.rows \subseteq sweep.seen
  BY HashedLogFacts DEF SweepInv, SweepTypeOK, AnchorTypeOK, Listing, Whole
<1>2. \A row \in L : row.this \in Digest /\ Len(row.this) \in Nat
  BY <1>1, RowFacts, CommitsReflexive
<1>3. ASSUME NEW row \in sweep.seen PROVE Accounted(row)
  <2>1. sweep.seen \subseteq Row /\ Distinct(sweep.seen) /\ IsFiniteSet(sweep.seen)
    BY <1>1, FS_Subset DEF Distinct
  <2>2. PICK k \in 1..Len(row.this) :
          WalkedUpTo(row) = {row.this[i] : i \in k..Len(row.this)}
    BY <2>1, AcceptedWalkIsSuffix DEF Status, WalkedUpTo
  <2>3. Accounts(row, k)
    BY <2>2 DEF Accounts, WalkedUpTo
  <2> QED BY <1>1, <1>2, <2>3 DEF Accounted
<1> SUFFICES ASSUME Bad # {} PROVE FALSE
  OBVIOUS
<1>4. PICK n \in Lengths : \A other \in Lengths : ~(<<other, n>> \in OpToRel(<, Nat))
  <2>1. Lengths \subseteq Nat /\ Lengths # {} BY <1>2
  <2> HIDE DEF Lengths
  <2> QED BY <2>1, NatLessThanWellFounded, WFMin
<1>5. PICK row \in Bad : Len(row.this) = n
  BY <1>4
<1>6. row \in L \ sweep.start.rows /\ row \notin sweep.seen /\ row \in Row
  BY <1>1, <1>3
<1>7. LinkedWhenItCame(row) /\ ~Reached(row)
  BY <1>6 DEF ArrivalInv, ArrivalsLinked, Walked, Reached
<1>8. /\ row.this \in Digest /\ row.prev \in Digest /\ Len(row.prev) \in Nat
      /\ Len(row.this) = Len(row.prev) + 1
      /\ row.this[Len(row.prev) + 1] = ContentOf(row)
  BY <1>6, <1>7, RowFacts, HashExtends DEF LinkedWhenItCame, EventHash
<1>9. CASE row.prev = ZeroHash /\ \A r \in sweep.seen : ~Before(r, row)
  <2>1. Len(row.this) = 1 /\ {row.this[i] : i \in 1..Len(row.this)} = {ContentOf(row)}
    BY <1>8, <1>9 DEF ZeroHash
  <2>2. WalkedUpTo(row) = {}
    <3> SUFFICES ASSUME NEW r \in sweep.seen, ~Before(row, r) PROVE FALSE
      BY DEF WalkedUpTo
    <3>1. r \in L /\ row \in L /\ r # row BY <1>1, <1>6
    <3> HIDE DEF L
    <3> QED BY <1>1, <1>9, <3>1, BeforeTotal
  <2>3. Accounts(row, 1)
    BY <1>6, <2>1, <2>2 DEF Accounts
  <2> QED BY <1>8, <2>1, <2>3 DEF Accounted
<1>10. ASSUME NEW h \in L, h.this = row.prev, \A r \in sweep.seen : ~(Before(h, r) /\ Before(r, row))
       PROVE  FALSE
  <2>1. Len(h.this) < n BY <1>2, <1>5, <1>8, <1>10
  <2>2. Accounted(h)
    BY <1>2, <1>4, <1>8, <1>10, <2>1 DEF OpToRel
  <2>3. row.this = EventHash(row) BY <1>7 DEF LinkedWhenItCame
  <2>4. Accounted(row)
    BY <1>1, <1>6, <1>10, <2>2, <2>3, ArrivalIsAccounted
  <2> QED BY <2>4
<1> QED BY <1>7, <1>9, <1>10 DEF LinkedWhenItCame

\* When the report on the whole log is clean, of the history that an anchor covers
\* only a prefix can be missing: from some row on all of it was walked or has come
\* since the sweep began, and up to the anchor's row the walk found nothing else,
\* whatever rows were lost or altered before the sweep (Sweep, checkAnchors).
THEOREM CleanReportMissesOnlyAPrefixInvariance == SweepSpec => []CleanReportMissesOnlyAPrefix
<1>1. SweepInv /\ ArrivalInv => CleanReportMissesOnlyAPrefix
  <2> SUFFICES ASSUME SweepInv, ArrivalInv, CleanReport, NEW a \in sweep.start.anchors
               PROVE  \E last \in events, k \in 1..Len(a.root) :
                        LET kept == {a.root[i] : i \in k..Len(a.root)}
                        IN  /\ last.id = a.last /\ last.this = a.root
                            /\ WalkedUpTo(last) \subseteq kept
                            /\ kept \subseteq {ContentOf(row) : row \in sweep.seen \cup Since}
    BY DEF CleanReportMissesOnlyAPrefix
  <2>1. TypeOK /\ FiniteTable BY DEF SweepInv, SweepTypeOK, AnchorTypeOK
  <2>2. Matched(a)
    BY DEF CleanReport, Done, ArrivalInv, MatchesStay
  <2>3. PICK last \in events : HashedColumns(last).id = a.last /\ HashedColumns(last).this = a.root
                               /\ HashedColumns(last) \in HashedLog(Times)
    BY <2>2 DEF Matched, HashedLog, Hashed, InWindow, HashedColumns
  <2>4. last.id = a.last /\ last.this = a.root /\ WalkedUpTo(last) = WalkedUpTo(HashedColumns(last))
    BY <2>1, <2>3, HashedFacts DEF TypeOK, SameColumns, WalkedUpTo, Before
  <2>5. Accounted(HashedColumns(last))
    BY <2>3, CleanWalkAccounts DEF CleanReport, Done, Walked
  <2>6. Hashed(events) = HashedLog(Times)
    BY <2>1 DEF HashedLog, Hashed, InWindow, TypeOK, Row
  <2>7. PICK k \in 1..Len(a.root) : Accounts(HashedColumns(last), k)
    BY <2>3, <2>5 DEF Accounted
  <2>8. LET kept == {a.root[i] : i \in k..Len(a.root)}
        IN  /\ WalkedUpTo(last) \subseteq kept
            /\ kept \subseteq {ContentOf(row) : row \in sweep.seen \cup Since}
    BY <2>3, <2>4, <2>6, <2>7 DEF Accounts, Since
  <2> QED BY <2>4, <2>8
<1> QED BY <1>1, SweepInvariance, ArrivalInvariance, PTL

-------------------------------------------------------------------------------
(* The log that was never damaged.                                         *)

\* Of the rows before one it has listed, the walk has missed late ones at most.
OnTimeListed ==
    \A r \in sweep.seen, q \in HashedLog(sweep.window) :
        ~Late(q) /\ Before(q, r) => q \in sweep.seen

\* Of the anchors looked up, those that exports left mismatch and no others.
OnlyExportsMismatch == sweep.mismatches = (sweep.listed \ sweep.todo) \cap exported

UndamagedInv == damage = 0 => AnchorInv /\ OnTimeListed /\ OnlyExportsMismatch

\* An event that arrives on time comes after every row.
LEMMA OnTimeIsLast ==
    ASSUME SpineInv, NEW c \in Content, Ingest(c), NEW new, new = Chained(c, HeadHash), ~Late(new),
           NEW row \in events
    PROVE  Before(row, new)
<1>1. ~Stored(c.id) /\ events' = events \cup {new} /\ HeadHash \in Digest
  BY HeadFacts DEF Ingest, InsertChained, SpineInv
<1>2. PICK head \in events :
        /\ IsHead(head) /\ HeadHash = head.this
        /\ \/ Before(head, new) /\ IsHead(new)'
           \/ Before(new, head)
  BY <1>1, InsertMovesHead
<1>3. ~Before(new, head)
  <2>1. head \in Row /\ Last(head.this) = ContentOf(head) /\ head.this # ZeroHash
    BY <1>2, SoundRow, RowFacts, HashExtends DEF SpineInv, TypeOK, HashesSound, EventHash
  <2>2. new.prev = head.this
    BY <1>1, <1>2, ChainedIsRow
  <2> QED BY <2>1, <2>2, RowFacts DEF Late, Before
<1>4. row # new
  BY <1>1, ChainedIsRow DEF Stored
<1> QED BY <1>1, <1>2, <1>3, <1>4 DEF IsHead, IsLastRow, Before

\* An insert cannot put an event that was on time behind the cursor.
LEMMA IngestKeepsOnTime ==
    ASSUME SweepInv, SpineInv, OnTimeListed, NEW c \in Content, Ingest(c), UNCHANGED sweep
    PROVE  OnTimeListed'
<1>0. PICK new, hn : new = Chained(c, HeadHash) /\ hn = HashedColumns(new)
  OBVIOUS
<1>1. TypeOK /\ FiniteTable /\ Listing
  BY DEF SweepInv, SweepTypeOK, AnchorTypeOK
<1>2. /\ new \in Row
      /\ \A w : HashedLog(w)' \subseteq HashedLog(w) \cup {hn}
  BY <1>0, <1>1, IngestAdds
<1>3. HashedLog(sweep.window)' \subseteq HashedLog(sweep.window) \cup {hn}
  <2>1. PICK w : w = sweep.window OBVIOUS
  <2>2. HashedLog(sweep.window)' = HashedLog(w)' BY <2>1 DEF HashedLog, Hashed, InWindow
  <2> QED BY <1>2, <2>1, <2>2
<1>4. ASSUME ~Late(hn), NEW r \in sweep.seen PROVE ~Before(hn, r)
  <2>1. PICK row \in events : r = HashedColumns(row)
    BY <1>1 DEF Listing, HashedLog, Hashed, InWindow, HashedColumns
  <2>2. row \in Row /\ SameColumns(row, r) /\ SameColumns(new, hn)
    BY <1>0, <1>1, <1>2, <2>1, HashedFacts DEF TypeOK
  <2>3. ~Late(new) BY <1>4, <2>2 DEF Late, Before, SameColumns
  <2>4. Before(row, new) BY <1>0, <2>3, OnTimeIsLast
  <2> QED BY <1>2, <2>2, <2>4, RowFacts DEF SameColumns, Before
<1> QED BY <1>3, <1>4 DEF OnTimeListed

\* A page lists all there is between the cursor and its last row.
LEMMA PageKeepsOnTime ==
    ASSUME SweepInv, OnTimeListed, ListPage
    PROVE  OnTimeListed'
<1> DEFINE W == InWindow(sweep.window)
           L == HashedLog(sweep.window)
           R == Rest(W, sweep.seen)
           page == Page(W, sweep.seen)
<1>1. TypeOK /\ FiniteTable /\ Listing /\ SweepTypeOK
  BY DEF SweepInv, SweepTypeOK, AnchorTypeOK
<1>2. /\ UNCHANGED events /\ sweep'.window = sweep.window
      /\ sweep'.seen = sweep.seen \cup Hashed(page)
  BY <1>1 DEF ListPage, SweepTypeOK
<1>3. /\ W \subseteq Row /\ Distinct(W) /\ L = {HashedColumns(row) : row \in W}
      /\ L \subseteq Row /\ Distinct(L) /\ sweep.seen \subseteq L
      /\ page \subseteq R /\ R \subseteq W
      /\ \A p \in page, r \in R \ page : Before(p, r)
  BY <1>1, HashedLogFacts, PageFacts DEF Listing
<1>4. Hashed(page) = {HashedColumns(row) : row \in page}
  BY DEF Hashed, HashedColumns
<1>5. HashedLog(sweep.window)' = L
  BY <1>2 DEF HashedLog, Hashed, InWindow
<1>6. R = {row \in W : sweep.seen = {} \/ Before(LastRow(sweep.seen), row)}
  BY DEF Rest
<1> HIDE DEF W, L, R, page
<1>7. ASSUME NEW p \in page, NEW e \in W, ~Late(HashedColumns(e)), Before(e, p)
      PROVE  HashedColumns(e) \in sweep'.seen
  <2>1. CASE e \in R
    <3>1. e \in page BY <1>3, <1>7, <2>1, BeforeTotal
    <3> QED BY <1>2, <1>4, <3>1
  <2>2. CASE e \notin R
    <3>1. sweep.seen # {} /\ ~Before(LastRow(sweep.seen), e) BY <1>6, <1>7, <2>2
    <3>2. LastRow(sweep.seen) \in sweep.seen BY <1>1, <3>1, CursorExists
    <3>3. HashedColumns(e) \in L /\ ~Before(LastRow(sweep.seen), HashedColumns(e))
      BY <1>3, <3>1, HashedFacts DEF SameColumns, Before
    <3>4. HashedColumns(e) = LastRow(sweep.seen) \/ Before(HashedColumns(e), LastRow(sweep.seen))
      BY <1>3, <3>2, <3>3, BeforeTotal
    <3> QED BY <1>2, <1>7, <3>2, <3>3, <3>4 DEF OnTimeListed, L
  <2> QED BY <2>1, <2>2
<1>8. ASSUME NEW r \in Hashed(page), NEW q \in L, ~Late(q), Before(q, r)
      PROVE  q \in sweep'.seen
  <2>1. PICK p \in page, e \in W : r = HashedColumns(p) /\ q = HashedColumns(e)
    BY <1>3, <1>4, <1>8
  <2>2. Before(e, p) BY <1>3, <1>8, <2>1, HashedFacts DEF SameColumns, Before
  <2> QED BY <1>7, <1>8, <2>1, <2>2
<1>9. ASSUME NEW r \in sweep.seen, NEW q \in L, ~Late(q), Before(q, r)
      PROVE  q \in sweep'.seen
  BY <1>2, <1>9 DEF OnTimeListed, L
<1> QED BY <1>2, <1>5, <1>8, <1>9 DEF OnTimeListed

\* What exports leave is not an anchor that the job has made.
LEMMA ExportsApart ==
    ASSUME SweepInv
    PROVE  anchors \cap {ExportAnchor} = {}
BY SweepAssumption DEF SweepInv, SweepTypeOK, AnchorTypeOK, Anchor, ExportAnchor

\* The anchors listed are looked up one by one; those that the job made match.
LEMMA SweepStepKeepsMismatches ==
    ASSUME SweepInv, AnchorInv, OnlyExportsMismatch, SweepStep
    PROVE  OnlyExportsMismatch'
<1>1. SweepTypeOK /\ Listing /\ AnchorsMatchRows /\ TypeOK
  BY DEF SweepInv, AnchorInv, AnchorTypeOK
<1>2. UNCHANGED exported
  BY DEF SweepStep, StartSweep, ListPage, ListAnchors, CheckAnchor, EndSweep
<1>3. CASE StartSweep \/ ListPage
  <2>1. /\ sweep'.listed = sweep.listed /\ sweep'.todo = sweep.todo
        /\ sweep'.mismatches = sweep.mismatches
    BY <1>1, <1>3 DEF SweepTypeOK, StartSweep, ListPage
  <2> QED BY <1>2, <2>1 DEF OnlyExportsMismatch
<1>4. CASE ListAnchors
  <2>1. /\ sweep'.listed = sweep'.todo /\ sweep'.mismatches = {}
    BY <1>1, <1>4 DEF SweepTypeOK, ListAnchors, Listing
  <2> QED BY <2>1 DEF OnlyExportsMismatch
<1>5. ASSUME NEW a \in sweep.todo, CheckAnchor(a) PROVE OnlyExportsMismatch'
  <2> DEFINE found == IF AnchorMatches(a) THEN {} ELSE {a}
  <2>1. sweep' = [sweep EXCEPT !.todo = @ \ {a}, !.mismatches = @ \cup found]
    BY <1>5 DEF CheckAnchor
  <2>2. found = {a} \cap exported
    <3>1. CASE a \in anchors
      <4>1. a \notin exported BY <3>1, ExportsApart DEF SweepInv
      <4>2. AnchorMatches(a) BY <1>1, <3>1 DEF AnchorsMatchRows, AnchorMatches
      <4> QED BY <4>1, <4>2
    <3>2. CASE a \in exported
      <4>1. a.last = None BY <3>2 DEF SweepInv, ExportAnchor
      <4>2. ~AnchorMatches(a)
        BY <1>1, <4>1, SweepAssumption DEF AnchorMatches, TypeOK, Row
      <4> QED BY <3>2, <4>2
    <3> QED BY <1>1, <3>1, <3>2 DEF SweepTypeOK
  <2> HIDE DEF found
  <2>3. /\ sweep'.listed = sweep.listed /\ sweep'.todo = sweep.todo \ {a}
        /\ sweep'.mismatches = sweep.mismatches \cup found
        /\ a \in sweep.listed
    BY <1>1, <2>1 DEF SweepTypeOK
  <2> QED BY <1>2, <2>2, <2>3 DEF OnlyExportsMismatch
<1>6. CASE EndSweep
  <2>1. sweep'.listed = {} /\ sweep'.mismatches = {} BY <1>6 DEF EndSweep, Idle
  <2> QED BY <2>1 DEF OnlyExportsMismatch
<1> QED BY <1>3, <1>4, <1>5, <1>6 DEF SweepStep

\* Each step of the sweep.
LEMMA SweepStepKeepsOnTime ==
    ASSUME SweepInv, OnTimeListed, SweepStep
    PROVE  OnTimeListed'
<1>1. SweepTypeOK /\ Listing
  BY DEF SweepInv
<1>2. HashedLog(sweep.window)' = Hashed({row \in events : row.ts \in sweep'.window})
  <2>1. UNCHANGED events
    BY DEF SweepStep, StartSweep, ListPage, ListAnchors, CheckAnchor, EndSweep
  <2> QED BY <2>1 DEF HashedLog, Hashed, InWindow
<1>3. CASE StartSweep
  <2>1. sweep'.seen = {} BY <1>1, <1>3 DEF SweepTypeOK, StartSweep, Listing
  <2> QED BY <2>1 DEF OnTimeListed
<1>4. CASE EndSweep
  <2>1. sweep'.seen = {} BY <1>4 DEF EndSweep, Idle
  <2> QED BY <2>1 DEF OnTimeListed
<1>5. CASE ListAnchors \/ \E a \in sweep.todo : CheckAnchor(a)
  <2>1. sweep'.window = sweep.window /\ sweep'.seen = sweep.seen
    BY <1>1, <1>5 DEF SweepTypeOK, ListAnchors, CheckAnchor
  <2>2. HashedLog(sweep.window)' = HashedLog(sweep.window)
    BY <1>2, <2>1 DEF HashedLog, InWindow
  <2> QED BY <2>1, <2>2 DEF OnTimeListed
<1> QED BY <1>3, <1>4, <1>5, PageKeepsOnTime DEF SweepStep

\* Until a row is damaged the table is what the anchor job keeps, a walk misses
\* late rows at most, and no anchor of the job mismatches.
THEOREM UndamagedInvariance == SweepSpec => []UndamagedInv
<1>1. SweepInit => UndamagedInv
  <2> SUFFICES ASSUME SweepInit PROVE UndamagedInv OBVIOUS
  <2>1. AnchorInv BY AnchorInitHolds DEF SweepInit
  <2>2. OnTimeListed /\ OnlyExportsMismatch
    BY DEF SweepInit, Idle, OnTimeListed, OnlyExportsMismatch
  <2> QED BY <2>1, <2>2 DEF UndamagedInv
<1>2. SweepInv /\ UndamagedInv /\ [SweepNext]_sweepVars => UndamagedInv'
  <2> SUFFICES ASSUME SweepInv, UndamagedInv, [SweepNext]_sweepVars, damage' = 0
               PROVE  AnchorInv' /\ OnTimeListed' /\ OnlyExportsMismatch'
    BY DEF UndamagedInv
  <2>1. ~Damage
    BY DEF Damage, SweepInv, SweepTypeOK
  <2>2. damage = 0
    BY <2>1 DEF SweepNext, sweepVars, SweepStep, StartSweep, ListPage, ListAnchors, CheckAnchor,
                EndSweep, Export
  <2>3. /\ AnchorInv /\ OnTimeListed /\ OnlyExportsMismatch
        /\ TypeOK /\ FiniteTable /\ SpineInv
    BY <2>2 DEF UndamagedInv, SweepInv, SweepTypeOK, AnchorTypeOK, AnchorInv
  <2>4. AnchorInv'
    <3>1. AnchorNext \/ UNCHANGED anchorVars
      BY <2>1 DEF SweepNext, sweepVars, anchorVars, SweepStep, StartSweep, ListPage, ListAnchors,
                  CheckAnchor, EndSweep, Export
    <3> QED BY <2>3, <3>1, AnchorStepHolds
  <2>5. OnTimeListed'
    <3>1. ASSUME UNCHANGED <<events, sweep>> PROVE OnTimeListed'
      BY <2>3, <3>1 DEF OnTimeListed, HashedLog, Hashed, InWindow
    <3>2. ASSUME NEW r \in Replicas, MarkCovered(r), UNCHANGED sweep PROVE OnTimeListed'
      <4>1. PICK w : w = sweep.window OBVIOUS
      <4>2. HashedLog(w)' = HashedLog(w)
        BY <2>3, <3>2, MarkAnchoredIsFlagsOnly, FlagsKeep DEF MarkCovered
      <4>3. HashedLog(sweep.window)' = HashedLog(sweep.window)
        BY <3>2, <4>1, <4>2 DEF HashedLog, InWindow
      <4> QED BY <2>3, <3>2, <4>3 DEF OnTimeListed
    <3>3. CASE AnchorNext /\ UNCHANGED <<damage, exported, sweep>>
      BY <2>3, <3>1, <3>2, <3>3, IngestKeepsOnTime DEF AnchorNext, ReadHead, InsertAnchor, Abandon
    <3> QED BY <2>1, <2>3, <3>1, <3>3, SweepStepKeepsOnTime DEF SweepNext, sweepVars, Export
  <2>6. OnlyExportsMismatch'
    <3>1. CASE UNCHANGED <<exported, sweep>>
      BY <2>3, <3>1 DEF OnlyExportsMismatch
    <3>2. CASE Export
      <4>1. exported' = {ExportAnchor} /\ exported \subseteq {ExportAnchor} /\ UNCHANGED sweep
        BY <3>2 DEF Export, ExportAnchor, SweepInv
      <4>2. sweep.listed \subseteq anchors \cup exported
        BY DEF SweepInv, SweepTypeOK
      <4> QED BY <2>3, <4>1, <4>2, ExportsApart DEF OnlyExportsMismatch
    <3> QED BY <2>1, <2>3, <3>1, <3>2, SweepStepKeepsMismatches DEF SweepNext, sweepVars
  <2> QED BY <2>4, <2>5, <2>6
<1> QED BY <1>1, <1>2, SweepInvariance, PTL DEF SweepSpec

\* The rows a walk has listed are rows of the table, but for their flags.
LEMMA ListedRows ==
    ASSUME SweepInv, SpineInv, NEW r \in sweep.seen
    PROVE  /\ r \in Row /\ r.this = EventHash(r) /\ r.ts \in sweep.window
           /\ \E row \in events : SameColumns(row, r)
           /\ Late(r) => ~CommitsTo(HeadHash, r.this)
           /\ CommitsTo(HeadHash, r.prev)
<1>1. PICK row \in events : r = HashedColumns(row) /\ row.ts \in sweep.window
  BY DEF SweepInv, Listing, HashedLog, Hashed, InWindow, HashedColumns
<1>2. row \in Row /\ r \in Row /\ SameColumns(row, r) /\ ContentOf(r) = ContentOf(row)
  BY <1>1, HashedFacts DEF SpineInv, TypeOK
<1>3. row.this = EventHash(row) /\ CommitsTo(HeadHash, row.prev)
  BY DEF SpineInv, HashesSound, LinksIntoSpine
<1>4. Late(r) => Late(row)
  BY <1>2 DEF SameColumns, Late, Before
<1> QED BY <1>1, <1>2, <1>3, <1>4, LateOffSpine DEF SameColumns, EventHash

\* A walk over rows that were all on time finds each linked to the one before it.
LEMMA OnTimeWalkAccepted ==
    ASSUME SweepInv, SpineInv, OnTimeListed, \A r \in sweep.seen : ~Late(r)
    PROVE  Status = "ok"
<1>1. TypeOK /\ FiniteTable /\ Listing /\ SweepTypeOK
  BY DEF SweepInv, SweepTypeOK, AnchorTypeOK
<1>2. ASSUME NEW r \in sweep.seen, NEW p \in sweep.seen, WalkedBefore(p, r, sweep.seen)
      PROVE  p.this = r.prev
  <2>1. PICK row \in events, prior \in events : SameColumns(row, r) /\ SameColumns(prior, p)
    BY ListedRows
  <2>2. ~Late(row) /\ ~Late(prior) /\ Before(prior, row)
    BY <1>2, <2>1 DEF SameColumns, Late, Before, WalkedBefore
  <2>3. ASSUME NEW q \in events, ~Late(q), Before(prior, q), Before(q, row)
        PROVE  FALSE
    <3>1. q \in Row /\ SameColumns(q, HashedColumns(q))
      BY <1>1, HashedFacts DEF TypeOK
    <3>2. q.ts \in sweep.window
      <4>1. row.ts \in sweep.window /\ prior.ts \in sweep.window
        BY <2>1, ListedRows DEF SameColumns
      <4>2. /\ row.ts \in Times /\ prior.ts \in Times /\ q.ts \in Times
            /\ row.ts \in Nat /\ prior.ts \in Nat /\ q.ts \in Nat
        BY <1>1, EventAssumption DEF TypeOK, Row
      <4>3. \A first, last \in sweep.window, t \in Times : first < t /\ t < last => t \in sweep.window
        BY <1>1 DEF SweepTypeOK, Windows
      <4>4. (prior.ts < q.ts \/ prior.ts = q.ts) /\ (q.ts < row.ts \/ q.ts = row.ts)
        BY <2>3 DEF Before
      <4> QED BY <4>1, <4>2, <4>3, <4>4
    <3>3. HashedColumns(q) \in HashedLog(sweep.window)
      BY <3>2 DEF HashedLog, Hashed, InWindow, HashedColumns
    <3>4. ~Late(HashedColumns(q)) /\ Before(HashedColumns(q), r) /\ Before(p, HashedColumns(q))
      BY <2>1, <2>3, <3>1 DEF SameColumns, Late, Before
    <3>5. HashedColumns(q) \in sweep.seen
      BY <3>3, <3>4 DEF OnTimeListed
    <3> QED BY <1>2, <3>4, <3>5 DEF WalkedBefore
  <2>4. row.prev = prior.this
    BY <2>2, <2>3, OnTimeNeighbours
  <2> QED BY <2>1, <2>4 DEF SameColumns
<1>3. \A r \in sweep.seen : LinkStatus(r, sweep.seen) = "ok"
  BY <1>2, ListedRows DEF LinkStatus
<1> QED BY <1>3 DEF Status, ChainStatus

\* A late row in a walk is not linked to the row before it, and no row is linked
\* to the late one.
LEMMA LateWalkRefused ==
    ASSUME SweepInv, SpineInv, Status = "ok", NEW l \in sweep.seen, Late(l)
    PROVE  sweep.seen = {l}
<1>1. sweep.seen \subseteq Row /\ Distinct(sweep.seen) /\ IsFiniteSet(sweep.seen)
  BY HashedLogFacts, FS_Subset DEF SweepInv, SweepTypeOK, AnchorTypeOK, Listing, Distinct
<1>2. \A row, p \in sweep.seen : WalkedBefore(p, row, sweep.seen) => p.this = row.prev
  BY <1>1, AcceptedWalkIsChain DEF Status
<1>3. ASSUME NEW s \in sweep.seen, Before(s, l) PROVE FALSE
  <2>1. PICK p \in sweep.seen : WalkedBefore(p, l, sweep.seen)
    BY <1>1, <1>3, WalkNeighbours
  <2>2. Last(l.prev) = ContentOf(p)
    BY <1>1, <1>2, <2>1, ListedRows, SoundRow
  <2>3. Before(l, p) /\ Before(p, l)
    BY <1>1, <2>1, <2>2, RowFacts DEF Late, Before, WalkedBefore
  <2> QED BY <1>1, <2>3, BeforeTotal
<1>4. ASSUME NEW s \in sweep.seen, Before(l, s) PROVE FALSE
  <2>1. PICK next \in sweep.seen : WalkedBefore(l, next, sweep.seen)
    BY <1>1, <1>4, WalkNeighbours
  <2> QED BY <1>2, <2>1, ListedRows
<1> QED BY <1>1, <1>3, <1>4, BeforeTotal

\* Over a log that was never damaged, and that grows and is anchored under the
\* sweep, the walk fails exactly if it visited a late row among others, and no
\* anchor mismatches but those that exports left (Sweep, VerifyChain, checkAnchors).
THEOREM AlarmOnlyAfterDamageOrLateInvariance == SweepSpec => []AlarmOnlyAfterDamageOrLate
<1>1. SweepInv /\ UndamagedInv => AlarmOnlyAfterDamageOrLate
  <2> SUFFICES ASSUME SweepInv, UndamagedInv, damage = 0
               PROVE  /\ sweep.mismatches = (sweep.listed \ sweep.todo) \cap exported
                      /\ Status = "ok" <=>
                            Cardinality(sweep.seen) = 1 \/ \A row \in sweep.seen : ~Late(row)
    BY DEF AlarmOnlyAfterDamageOrLate
  <2>1. SpineInv /\ OnTimeListed /\ OnlyExportsMismatch
    BY DEF UndamagedInv, AnchorInv
  <2>2. ASSUME Cardinality(sweep.seen) = 1 PROVE Status = "ok"
    <3>1. IsFiniteSet(sweep.seen)
      BY HashedLogFacts, FS_Subset DEF SweepInv, SweepTypeOK, AnchorTypeOK, Listing
    <3>2. PICK only : sweep.seen = {only} BY <2>2, <3>1, FS_Singleton
    <3>3. only \in Row /\ only.this = EventHash(only) BY <2>1, <3>2, ListedRows
    <3>4. ~Before(only, only) BY <3>3, RowFacts DEF Before
    <3>5. LinkStatus(only, sweep.seen) = "ok"
      BY <3>2, <3>3, <3>4 DEF LinkStatus, WalkedBefore
    <3> QED BY <3>2, <3>5 DEF Status, ChainStatus
  <2>3. ASSUME Status = "ok", NEW row \in sweep.seen, Late(row) PROVE Cardinality(sweep.seen) = 1
    BY <2>1, <2>3, LateWalkRefused, FS_Singleton
  <2> QED BY <2>1, <2>2, <2>3, OnTimeWalkAccepted DEF OnlyExportsMismatch
<1> QED BY <1>1, SweepInvariance, UndamagedInvariance, PTL
===============================================================================
