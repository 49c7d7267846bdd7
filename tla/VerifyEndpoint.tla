---------------------------- MODULE VerifyEndpoint ----------------------------
(***************************************************************************)
(* GET /v1/events/{id}/verify-chain: the linkage of one event, without the *)
(* walk.  The handler looks for the preceding event on one page of the     *)
(* rows at an earlier timestamp, from the start of the log, and compares   *)
(* its this_hash with the event's prev_hash.  Row and page are read in two *)
(* calls, but no step changes the links of a row (AppendOnly), so both are *)
(* read here from one state.                                               *)
(***************************************************************************)
EXTENDS EventStore, ChainVerify

-------------------------------------------------------------------------------
\* Faulty variant of LookedUp: all rows are on the page, the event's included.
LookedUpFromAll(row) == Page(events, {})

\* The page the handler lists.  The upper end of a window is exclusive, so the
\* event itself and whatever else happened at its timestamp are not on it.
LookedUp(row) == Page({r \in events : r.ts < row.ts}, {})

\* VerifyEvent on the event and the last row looked up, genesis if there is none.
EndpointStatus(row) ==
    CASE row.this # EventHash(row) -> "broken"
      [] row.this = EventHash(row) /\ row.prev # HashAfter(LookedUp(row)) -> "gap"
      [] OTHER -> "ok"

-------------------------------------------------------------------------------
\* The preceding event, if any, is one the handler can find: it is on the first
\* page and at an earlier timestamp.
InReach(row) ==
    LET earlier == {r \in events : Before(r, row)}
    IN  Cardinality(earlier) <= PageLimit /\ \A r \in earlier : r.ts < row.ts

\* Within its reach the endpoint and the walk of a sweep say the same of an
\* event, except of the first one in the log: there the endpoint requires the
\* genesis hash, so it notices a first event that was late, and the walk
\* requires nothing.
EndpointAgreesWithWalk ==
    \A row \in events : InReach(row) =>
        IF \E p \in events : IsPredecessor(p, row)
        THEN EndpointStatus(row) = LinkStatus(row, events)
        ELSE EndpointStatus(row) = "ok" <=> ~Late(row)

\* What the endpoint is for: of an untouched log without late events it says
\* that every event is linked to the preceding one.
EndpointAcceptsIntactLog ==
    (\A row \in events : ~Late(row)) => \A row \in events : EndpointStatus(row) = "ok"
===============================================================================
