------------------------------- MODULE AuditLog -------------------------------
(***************************************************************************)
(* What the audit log promises, whatever stores it: one growing sequence   *)
(* of events, the spine, that is never rewritten; a set of late events,    *)
(* each pinned to the part of the spine that existed when it was linked;   *)
(* and a set of published roots, each committing to a prefix of the spine. *)
(***************************************************************************)
EXTENDS AuditEvents

VARIABLES spine,   \* the sequence of contents the head of the chain commits to
          late,    \* late events: [content, prev], prev a prefix of the spine
          roots    \* the digests published in anchors

logVars == <<spine, late, roots>>

-------------------------------------------------------------------------------
Logged(id) ==
    \/ \E n \in 1..Len(spine) : spine[n].id = id
    \/ \E leaf \in late : leaf.content.id = id

LogInit == spine = ZeroHash /\ late = {} /\ roots = {}

\* An event after everything logged so far extends the spine.
Extend(c) ==
    /\ ~Logged(c.id)
    /\ spine # ZeroHash => Before(Last(spine), c)
    /\ spine' = Append(spine, c)
    /\ UNCHANGED <<late, roots>>

\* A late event hangs off some prefix of the spine that ends after it.
Attach(c) ==
    /\ ~Logged(c.id)
    /\ \E n \in 1..Len(spine) :
         /\ Before(c, spine[n])
         /\ late' = late \cup {[content |-> c, prev |-> SubSeq(spine, 1, n)]}
    /\ UNCHANGED <<spine, roots>>

\* An anchor publishes the digest of some non-empty prefix of the spine.
Publish ==
    /\ \E n \in 1..Len(spine) : roots' = roots \cup {SubSeq(spine, 1, n)}
    /\ UNCHANGED <<spine, late>>

LogNext ==
    \/ \E c \in Content : Extend(c) \/ Attach(c)
    \/ Publish

LogSpec == LogInit /\ [][LogNext]_logVars
===============================================================================
