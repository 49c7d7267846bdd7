--------------------------------- MODULE Sweep ---------------------------------
(***************************************************************************)
(* The sweep over the log or over a window of time, while events are       *)
(* ingested and anchored under it: it lists the rows page by page, walks   *)
(* what it listed, and then looks up the row each anchor names.  Only the  *)
(* pages are atomic.                                                       *)
(*                                                                         *)
(* What a sweep is for is to notice that the table is no longer what was   *)
(* inserted, so the table may be damaged: a row is lost, or one of its     *)
(* hashed columns changes.  No operation of the store does that.           *)
(***************************************************************************)
EXTENDS AnchorJob, ChainVerify

CONSTANTS MaxDamage,   \* bound: how many rows are damaged
          MaxAnchors   \* bound: how many anchors there are

ASSUME SweepAssumption == MaxDamage \in Nat /\ MaxAnchors \in Nat /\ None \notin Ids

VARIABLES damage,   \* rows damaged so far
          exported, \* the anchors that exports have left
          sweep     \* window, phase, the rows listed, the anchors listed, those
                    \* still to be looked up and those found to mismatch; and, for
                    \* the properties, the table and anchors when the sweep began

sweepVars == <<events, anchors, job, damage, exported, sweep>>

\* A window is the timestamps from "from" up to, but not including, "to": without
\* bounds, or with bounds around the log, all there are.
Windows ==
    {w \in SUBSET Times :
        \A first, last \in w, t \in Times : first < t /\ t < last => t \in w}
InWindow(w) == {row \in events : row.ts \in w}
Whole == sweep.window = Times

\* What a sweep looks at: not the flags.
Hashed(rows) == {[row EXCEPT !.anchored = FALSE, !.hold = FALSE] : row \in rows}
Start(w) == [rows |-> Hashed(InWindow(w)), anchors |-> anchors \cup exported]

\* The report's status and its anchor count.
Walked == sweep.phase \in {"walked", "anchors"}
Status == ChainStatus(sweep.seen)
Done == sweep.phase = "anchors" /\ sweep.todo = {}

-------------------------------------------------------------------------------
Idle ==
    [window |-> {}, phase |-> "idle", seen |-> {}, listed |-> {}, todo |-> {}, mismatches |-> {},
     start |-> [rows |-> {}, anchors |-> {}]]

SweepInit == AnchorInit /\ damage = 0 /\ exported = {} /\ sweep = Idle

StartSweep ==
    /\ sweep.phase = "idle"
    /\ \E w \in Windows :
         sweep' = [sweep EXCEPT !.window = w, !.phase = "pages", !.start = Start(w)]
    /\ UNCHANGED <<events, anchors, job, damage, exported>>

\* The loop goes on after a full page.  It ends at a page that is not full; the
\* PostgreSQL store, which peeks one row ahead, also ends it at a full last page.
ListPage ==
    LET page == Page(InWindow(sweep.window), sweep.seen)
        full == Cardinality(page) >= PageLimit
    IN  /\ sweep.phase = "pages"
        /\ \E last \in BOOLEAN :
             /\ last \/ full
             /\ last => ~full \/ Rest(InWindow(sweep.window), sweep.seen) = page
             /\ sweep' = [sweep EXCEPT !.seen = @ \cup Hashed(page),
                                       !.phase = IF last THEN "walked" ELSE "pages"]
        /\ UNCHANGED <<events, anchors, job, damage, exported>>

\* ListAnchors selects by the time at which an anchor was made, which says nothing
\* of the rows it covers.  When it fails the sweep goes on without anchors and
\* reports that it checked none.
ListAnchors ==
    /\ sweep.phase = "walked"
    /\ \E found \in SUBSET (anchors \cup exported) :
         sweep' = [sweep EXCEPT !.phase = "anchors", !.listed = found, !.todo = found]
    /\ UNCHANGED <<events, anchors, job, damage, exported>>

\* Faulty variant of AnchorMatches: the root is compared with the head of now.
HeadMatches(a) == HeadHash = a.root

\* The row an anchor names must be there, with the signed root as this_hash.  A
\* Get that fails counts as a mismatch too; here it succeeds.
AnchorMatches(a) == \E row \in events : row.id = a.last /\ row.this = a.root

CheckAnchor(a) ==
    /\ sweep.phase = "anchors" /\ a \in sweep.todo
    /\ sweep' = [sweep EXCEPT !.todo = @ \ {a},
                              !.mismatches = @ \cup (IF AnchorMatches(a) THEN {} ELSE {a})]
    /\ UNCHANGED <<events, anchors, job, damage, exported>>

\* The report is signed and returned, or a page failed and there is none.
EndSweep ==
    /\ Done \/ sweep.phase = "pages"
    /\ sweep' = Idle
    /\ UNCHANGED <<events, anchors, job, damage, exported>>

SweepStep ==
    \/ StartSweep \/ ListPage \/ ListAnchors \/ EndSweep
    \/ \E a \in sweep.todo : CheckAnchor(a)

\* One hashed column of a row takes another value.
AlteredForms(row) ==
    LET digests == {ZeroHash} \cup {other.this : other \in events}
    IN  {[row EXCEPT !.id = id] : id \in {i \in Ids : ~Stored(i)}}
        \cup {[row EXCEPT !.ts = ts] : ts \in Times}
        \cup {[row EXCEPT !.body = body] : body \in Bodies}
        \cup {[row EXCEPT !.prev = d] : d \in digests}
        \cup {[row EXCEPT !.this = d] : d \in digests}

\* Damage to a page a sweep has already read is left to the next sweep, so rows
\* are damaged between two sweeps.
Damage ==
    /\ damage < MaxDamage /\ sweep.phase = "idle"
    /\ damage' = damage + 1
    /\ \E row \in events :
         \E kept \in {{}} \cup {{form} : form \in AlteredForms(row) \ {row}} :
           events' = (events \ {row}) \cup kept
    /\ UNCHANGED <<anchors, job, exported, sweep>>

\* An export on the in-memory store leaves an anchor that names no event; its
\* root, whatever it is, is compared with nothing.
Export ==
    /\ exported' = {[root |-> ZeroHash, last |-> None]}
    /\ UNCHANGED <<events, anchors, job, damage, sweep>>

SweepNext ==
    /\ \/ AnchorNext /\ UNCHANGED <<damage, exported, sweep>>
       \/ SweepStep \/ Damage \/ Export
    /\ Cardinality(anchors' \cup exported') <= MaxAnchors

SweepSpec == SweepInit /\ [][SweepNext]_sweepVars

-------------------------------------------------------------------------------
\* Type invariant; what is left to look up or mismatched was listed.
AnyAnchor == [root : Digest, last : Ids \cup {None}]

SweepTypeOK ==
    /\ AnchorTypeOK
    /\ damage \in 0..MaxDamage /\ exported \subseteq AnyAnchor
    /\ sweep \in [window : Windows, phase : {"idle", "pages", "walked", "anchors"},
                  seen : SUBSET Row, listed : SUBSET AnyAnchor,
                  todo : SUBSET AnyAnchor, mismatches : SUBSET AnyAnchor,
                  start : [rows : SUBSET Row, anchors : SUBSET AnyAnchor]]
    /\ sweep.listed \subseteq anchors \cup exported
    /\ sweep.todo \cup sweep.mismatches \subseteq sweep.listed

\* The pages skip nothing: a walk visits every row of its window that was there
\* when it began, whatever was inserted before or after its cursor meanwhile.
WalkVisitsEveryRow ==
    /\ SweepTypeOK
    /\ Walked =>
         \A row \in sweep.start.rows : \E visited \in sweep.seen :
             visited.id = row.id /\ visited.this = row.this

\* No false alarm but the known ones: over a log that was never damaged every
\* anchor matches but those an export left, which never do, and the walk fails
\* exactly if it visited a late row, unless the late row is all that was in the
\* window.
AlarmOnlyAfterDamageOrLate ==
    damage = 0 /\ Walked =>
        /\ sweep.mismatches = (sweep.listed \ sweep.todo) \cap exported
        /\ Status = "ok" <=>
              Cardinality(sweep.seen) = 1 \/ \A row \in sweep.seen : ~Late(row)

\* A row whose hashed columns were altered before the sweep began is found, if
\* its timestamp is in the window.
AlterationIsFound ==
    Walked /\ (\E row \in sweep.start.rows : row.this # EventHash(row))
        => Status # "ok"

\* The report on the whole log is clean: the walk is ok, and every anchor there
\* was when the sweep began was looked up and matched.
CleanReport ==
    /\ Whole /\ Done /\ Status = "ok"
    /\ sweep.mismatches = {} /\ sweep.start.anchors \subseteq sweep.listed

\* What the sweep walked up to a row, and the rows that have come since it began.
WalkedUpTo(last) == {ContentOf(row) : row \in {r \in sweep.seen : ~Before(last, r)}}
Since == Hashed(events) \ sweep.start.rows

\* What a clean report says of lost rows: of the history an anchor covers, all
\* is there from some row on, up to the row the anchor names: the sweep walked it,
\* or it was lost before, then delivered and ingested again.  And up to that row
\* the sweep walked nothing else.
CleanReportMissesOnlyAPrefix ==
    CleanReport =>
        \A a \in sweep.start.anchors : \E last \in events, k \in 1..Len(a.root) :
            LET kept == {a.root[i] : i \in k..Len(a.root)}
            IN  /\ last.id = a.last /\ last.this = a.root
                /\ WalkedUpTo(last) \subseteq kept
                /\ kept \subseteq {ContentOf(row) : row \in sweep.seen \cup Since}
================================================================================
