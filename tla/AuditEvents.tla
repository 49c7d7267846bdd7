----------------------------- MODULE AuditEvents -----------------------------
(***************************************************************************)
(* What the audit log says of one event: the fields that are hashed, the   *)
(* order of the log and the hash that chains an event to its predecessor.  *)
(*                                                                         *)
(* The hash is ideal.  SHA-256 is taken to be collision-free, so a digest  *)
(* is identified with what it commits to: the sequence of event contents   *)
(* from genesis up to and including the hashed event.  The 32 zero bytes   *)
(* of genesis commit to nothing, the empty sequence.  Two digests are then *)
(* equal exactly when they commit to the same history, and "the root       *)
(* covers event c" is a statement about a sequence.                        *)
(***************************************************************************)
EXTENDS Integers, SequencesExt

CONSTANTS Ids,     \* event ids; only their order matters, so they are numbers
          Times,   \* event timestamps
          Bodies   \* what the other hashed fields say (service, actor, action,
                   \* target and payload_hash)

ASSUME EventAssumption == Ids \subseteq Nat /\ Times \subseteq Nat

\* The fields of an event that the canonical hash covers.
Content == [id : Ids, ts : Times, body : Bodies]

Digest == Seq(Content)
ZeroHash == <<>>

\* this_hash of content c whose predecessor has hash prev.
CanonicalHash(c, prev) == Append(prev, c)

\* Rows of the audit_events index.  payload_ref and redacted are columns of
\* the ingest pipeline's module; no step of the store reads or changes them.
Row == [id : Ids, ts : Times, body : Bodies, prev : Digest, this : Digest,
        anchored : BOOLEAN, hold : BOOLEAN]

ContentOf(row) == [id |-> row.id, ts |-> row.ts, body |-> row.body]

\* The hash a verifier recomputes from the stored row.
EventHash(row) == CanonicalHash(ContentOf(row), row.prev)

\* Digest t commits to the whole history that digest s commits to.
CommitsTo(t, s) == Len(s) <= Len(t) /\ \A i \in 1..Len(s) : s[i] = t[i]

\* The (ts ASC, id ASC) order of the log, on rows and on contents alike.
Before(a, b) == a.ts < b.ts \/ (a.ts = b.ts /\ a.id < b.id)

\* Faulty variant of IsLastRow: the head query sorts by id alone.
IsLastRowById(row, rows) == row \in rows /\ \A other \in rows : other.id <= row.id

\* The last of a set of rows in that order.
IsLastRow(row, rows) == row \in rows /\ \A other \in rows : other = row \/ Before(other, row)
LastRow(rows) == CHOOSE row \in rows : IsLastRow(row, rows)

\* Faulty variant of HashAfter: the head query returns the wrong hash column.
PrevOfLastRow(rows) == IF rows = {} THEN ZeroHash ELSE LastRow(rows).prev

\* The prev_hash of whatever is chained after a set of rows.
HashAfter(rows) == IF rows = {} THEN ZeroHash ELSE LastRow(rows).this
=============================================================================
