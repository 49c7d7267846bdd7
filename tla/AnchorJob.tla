------------------------------ MODULE AnchorJob ------------------------------
(***************************************************************************)
(* The anchor job: on every tick each replica signs the digest of the head *)
(* of the chain, stores it as an anchor and sets anchored on the rows up   *)
(* to that head.  Head, signature, anchor and flag are four calls with no  *)
(* lock around them: events are inserted, and other replicas run the same  *)
(* job, between any two, and any of the calls may fail.                    *)
(***************************************************************************)
EXTENDS EventStore

CONSTANTS Replicas,   \* each runs the anchor loop
          None        \* the replica's job is not running

ASSUME AnchorAssumption == None \notin Row \X {"signed", "stored"}

VARIABLES anchors,   \* the rows of chain_anchors: the signed root, the row it names
          job        \* per replica, None or the head the job read and how far it got

anchorVars == <<events, anchors, job>>

Anchor == [root : Digest, last : Ids]

-------------------------------------------------------------------------------
AnchorInit ==
    /\ Init
    /\ anchors = {}
    /\ job = [r \in Replicas |-> None]

Ingest(c) ==
    /\ ~Stored(c.id)
    /\ InsertChained(c)
    /\ UNCHANGED <<anchors, job>>

\* ChainHead and Signer.  On an empty chain Run returns ErrEmptyChain, which
\* changes nothing.
ReadHead(r) ==
    /\ job[r] = None /\ events # {}
    /\ job' = [job EXCEPT ![r] = <<ChainHead, "signed">>]
    /\ UNCHANGED <<events, anchors>>

\* Faulty variants of InsertAnchor: without last_event_id; with a root that is
\* read again after the event was; with the wrong hash column.
InsertAnchorWithoutEvent(r) ==
    /\ job[r] # None /\ job[r][2] = "signed"
    /\ anchors' = anchors \cup {[root |-> job[r][1].this]}
    /\ job' = [job EXCEPT ![r][2] = "stored"]
    /\ UNCHANGED events

InsertAnchorOfNewHead(r) ==
    /\ job[r] # None /\ job[r][2] = "signed"
    /\ anchors' = anchors \cup {[root |-> HeadHash, last |-> job[r][1].id]}
    /\ job' = [job EXCEPT ![r][2] = "stored"]
    /\ UNCHANGED events

InsertAnchorOfPrev(r) ==
    /\ job[r] # None /\ job[r][2] = "signed"
    /\ anchors' = anchors \cup {[root |-> job[r][1].prev, last |-> job[r][1].id]}
    /\ job' = [job EXCEPT ![r][2] = "stored"]
    /\ UNCHANGED events

InsertAnchor(r) ==
    /\ job[r] # None /\ job[r][2] = "signed"
    /\ anchors' = anchors \cup {[root |-> job[r][1].this, last |-> job[r][1].id]}
    /\ job' = [job EXCEPT ![r][2] = "stored"]
    /\ UNCHANGED events

\* Faulty variants of MarkCovered: up to the head of now; not the head itself.
MarkUpToNewHead(r) ==
    /\ job[r] # None /\ job[r][2] = "stored"
    /\ MarkAnchored(ChainHead)
    /\ job' = [job EXCEPT ![r] = None]
    /\ UNCHANGED anchors

MarkBelowHead(r) ==
    /\ job[r] # None /\ job[r][2] = "stored"
    /\ events' = {IF Before(row, job[r][1]) THEN [row EXCEPT !.anchored = TRUE] ELSE row :
                   row \in events}
    /\ job' = [job EXCEPT ![r] = None]
    /\ UNCHANGED anchors

MarkCovered(r) ==
    /\ job[r] # None /\ job[r][2] = "stored"
    /\ MarkAnchored(job[r][1])
    /\ job' = [job EXCEPT ![r] = None]
    /\ UNCHANGED anchors

\* A failed call, or a crash: Run returns where it is and the next tick starts
\* over.
Abandon(r) ==
    /\ job[r] # None
    /\ job' = [job EXCEPT ![r] = None]
    /\ UNCHANGED <<events, anchors>>

AnchorNext ==
    \/ \E c \in Content : Ingest(c)
    \/ \E r \in Replicas : ReadHead(r) \/ InsertAnchor(r) \/ MarkCovered(r) \/ Abandon(r)

AnchorSpec == AnchorInit /\ [][AnchorNext]_anchorVars

\* The ticker keeps firing, and a call that is tried again and again succeeds
\* some time: the strong fairness is that of a dependency that is not down
\* for ever.
AnchorFairness ==
    \A r \in Replicas :
        /\ WF_anchorVars(ReadHead(r))
        /\ SF_anchorVars(InsertAnchor(r)) /\ SF_anchorVars(MarkCovered(r))

FairAnchorSpec == AnchorSpec /\ AnchorFairness

-------------------------------------------------------------------------------
\* Type invariant: anchors name a digest and an event, a job holds a row.
AnchorTypeOK ==
    /\ TypeOK
    /\ anchors \subseteq Anchor
    /\ job \in [Replicas -> (Row \X {"signed", "stored"}) \cup {None}]

\* Row row is covered by an anchor: the signed digest commits to its content.
Covered(row) == \E a \in anchors : ContentOf(row) \in ToSet(a.root)

\* The anchored column means that the row is covered, unless the row was late:
\* such a row is flagged when it lies below a row that an anchor names.
OnlyLateRowsAnchoredUncovered ==
    \A row \in events : row.anchored =>
        \/ Covered(row)
        \/ /\ Late(row)
           /\ \E a \in anchors, last \in events : last.id = a.last /\ Before(row, last)

\* No anchor is ever contradicted: the row it names is stored with the signed
\* digest as its this_hash, which is what a sweep checks.
AnchorsMatchRows ==
    \A a \in anchors : \E row \in events : row.id = a.last /\ row.this = a.root

\* All signed roots belong to one history, whichever replica signed them.
RootsNeverFork ==
    \A a, b \in anchors : CommitsTo(a.root, b.root) \/ CommitsTo(b.root, a.root)

\* An anchor that was stored but never marked is made good by a later tick:
\* every stored event is flagged in the end, late ones included.
EveryEventAnchored ==
    \A id \in Ids : Stored(id) ~> \E row \in events : row.id = id /\ row.anchored

\* The job publishes prefixes of the spine and leaves the log as it is.
AnchoredLog == INSTANCE AuditLog WITH
    spine <- HeadHash, late <- LateLeaves, roots <- {a.root : a \in anchors}

ImplementsAnchoredLog == AnchoredLog!LogSpec
===============================================================================
