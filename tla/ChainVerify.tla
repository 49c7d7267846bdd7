------------------------------ MODULE ChainVerify ------------------------------
(***************************************************************************)
(* The verifier: what package chain says of a list of rows.  The rows come *)
(* in pages of the (ts ASC, id ASC) keyset order, each page strictly after *)
(* the one before it, so the list a verifier walks is the sorted list of a *)
(* set of rows, and the definitions are over that set.                     *)
(***************************************************************************)
EXTENDS AuditEvents, FiniteSets

CONSTANT PageLimit   \* rows per page (1000 in the code)

ASSUME PageAssumption == PageLimit \in Nat \ {0}

-------------------------------------------------------------------------------
\* Faulty variant of Rest: a cursor of ts alone.
RestByTime(rows, seen) == {row \in rows : seen = {} \/ LastRow(seen).ts < row.ts}

\* List after the cursor, the last row of what was listed so far: the next
\* PageLimit rows.
Rest(rows, seen) == {row \in rows : seen = {} \/ Before(LastRow(seen), row)}
Page(rows, seen) ==
    {row \in Rest(rows, seen) :
        Cardinality({other \in Rest(rows, seen) : Before(other, row)}) < PageLimit}

\* p is the row the walk visits just before row.
WalkedBefore(p, row, rows) ==
    /\ p \in rows /\ Before(p, row)
    /\ \A other \in rows : ~(Before(p, other) /\ Before(other, row))

\* Faulty variants of LinkStatus: the first row is not recomputed; the linkage
\* is not compared.
LinkStatusAfterFirst(row, rows) ==
    IF \A p \in rows : ~Before(p, row) THEN "ok"
    ELSE IF row.this # EventHash(row) THEN "broken"
    ELSE IF \E p \in rows : WalkedBefore(p, row, rows) /\ p.this # row.prev THEN "gap"
    ELSE "ok"

HashStatus(row, rows) == IF row.this # EventHash(row) THEN "broken" ELSE "ok"

\* VerifyEvent, the recomputed hash before the linkage.  The walk has no prev
\* for its first row, whose prev_hash is then not looked at.
LinkStatus(row, rows) ==
    CASE row.this # EventHash(row) -> "broken"
      [] row.this = EventHash(row)
           /\ \E p \in rows : WalkedBefore(p, row, rows) /\ p.this # row.prev -> "gap"
      [] OTHER -> "ok"

\* VerifyChain: the status of the first row that fails.
ChainStatus(rows) ==
    LET failing == {row \in rows : LinkStatus(row, rows) # "ok"}
    IN  IF failing = {} THEN "ok"
        ELSE LinkStatus(CHOOSE row \in failing :
                          \A other \in failing : other = row \/ Before(row, other), rows)
================================================================================
