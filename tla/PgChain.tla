------------------------------- MODULE PgChain -------------------------------
(***************************************************************************)
(* InsertChained as the PostgreSQL store runs it: one SERIALIZABLE         *)
(* transaction per event that takes an advisory lock, reads the head,      *)
(* inserts and commits, on behalf of several replicas at once.             *)
(*                                                                         *)
(* The snapshot of a SERIALIZABLE transaction is taken by its first        *)
(* statement, which here is the call that waits for the lock.  A           *)
(* transaction that had to wait therefore reads a head from before the     *)
(* lock was granted.  What keeps the chain from forking is not the lock    *)
(* but serializable snapshot isolation, which makes such a transaction     *)
(* fail; InsertChained reports the failure and does not try again.         *)
(*                                                                         *)
(* The isolation rules are PostgreSQL's, modelled from how InsertChained   *)
(* uses them: a commit is refused when the transaction missed a row in the *)
(* range it read and wrote a row into the range a missed transaction read. *)
(* A transaction that missed anything may also be refused without need,    *)
(* since predicate locks are kept per page.                                *)
(***************************************************************************)
EXTENDS EventStore

CONSTANTS Workers,       \* ingest loops, one per replica
          None,          \* no worker, no transaction
          TsPrecision    \* 1: TIMESTAMPTZ keeps the timestamp; larger: it is
                         \* truncated to a multiple (microseconds of nanoseconds)

Transaction == [locked : BOOLEAN, event : Content, sees : SUBSET Row]

ASSUME PgAssumption ==
    None \notin Workers /\ None \notin Transaction /\ TsPrecision \in Nat \ {0}

VARIABLES lock,   \* who holds pg_advisory_xact_lock, or None
          tx      \* each worker's transaction, or None: whether it holds the
                  \* lock, the event it inserts and the rows it sees

pgVars == <<events, lock, tx>>

-------------------------------------------------------------------------------
Open(w) == tx[w] # None
Holds(w) == Open(w) /\ tx[w].locked

\* The prev_hash that w's head query returns.
SeenHash(w) == HashAfter(tx[w].sees)
Sees(w, id) == \E row \in tx[w].sees : row.id = id

\* Committed rows that w's snapshot does not show.
Missed(w) == {row \in events : ~Sees(w, row.id)}

\* The row w inserts after the head it sees, with the timestamp as stored.
NewRow(w) ==
    [Chained(tx[w].event, SeenHash(w)) EXCEPT !.ts = @ - (@ % TsPrecision)]

\* A missed row falls in the range (head, infinity) that w's head query read.
MissedARead(w) ==
    \E row \in Missed(w) : tx[w].sees = {} \/ Before(LastRow(tx[w].sees), row)

\* w's row falls in the range that the head query of a missed insert read.
WasMissed(w) ==
    \E row \in Missed(w) :
        row.prev = ZeroHash \/ \E p \in events : p.this = row.prev /\ Before(p, NewRow(w))

\* Faulty variant of Dangerous: snapshot isolation without the serializable check.
NeverDangerous(w) == FALSE

\* Committing w would close a cycle of read-write conflicts.
Dangerous(w) == MissedARead(w) /\ WasMissed(w)

\* Faulty variant of End: a session-level lock, which outlives the transaction.
EndAndKeepLock(w) == tx' = [tx EXCEPT ![w] = None] /\ UNCHANGED lock

\* COMMIT or ROLLBACK: the transaction is over and the lock is free.
End(w) ==
    /\ tx' = [tx EXCEPT ![w] = None]
    /\ lock' = IF lock = w THEN None ELSE lock

-------------------------------------------------------------------------------
PgInit == Init /\ lock = None /\ tx = [w \in Workers |-> None]

\* BEGIN, SET TRANSACTION, and the lock call: it takes the snapshot and waits.
Begin(w, c) ==
    /\ ~Open(w)
    /\ tx' = [tx EXCEPT ![w] = [locked |-> FALSE, event |-> c, sees |-> events]]
    /\ UNCHANGED <<events, lock>>

AcquireLock(w) ==
    /\ Open(w) /\ lock = None
    /\ lock' = w
    /\ tx' = [tx EXCEPT ![w].locked = TRUE]
    /\ UNCHANGED events

\* Faulty variant of CommitInsert: the table has no unique id.
CommitAnyInsert(w) ==
    /\ Holds(w) /\ ~Dangerous(w)
    /\ events' = events \cup {NewRow(w)}
    /\ End(w)

\* The head query, the INSERT and COMMIT.  Nothing commits to the table while
\* w holds the lock, so the three statements are one step.
CommitInsert(w) ==
    /\ Holds(w) /\ ~Stored(tx[w].event.id) /\ ~Dangerous(w)
    /\ events' = events \cup {NewRow(w)}
    /\ End(w)

\* ON CONFLICT (id) DO NOTHING finds the row in the snapshot.
CommitDuplicate(w) ==
    /\ Holds(w) /\ Sees(w, tx[w].event.id)
    /\ UNCHANGED events
    /\ End(w)

\* SQLSTATE 40001: a duplicate id the snapshot does not show, or a refused
\* commit.  The deferred Rollback releases the lock.
SerializationFailure(w) ==
    /\ Holds(w) /\ Missed(w) # {}
    /\ UNCHANGED events
    /\ End(w)

\* The context is cancelled, the connection drops or the replica dies.
LoseTransaction(w) ==
    /\ Open(w)
    /\ UNCHANGED events
    /\ End(w)

Finish(w) == CommitInsert(w) \/ CommitDuplicate(w) \/ SerializationFailure(w)

PgNext ==
    \E w \in Workers :
        \/ \E c \in Content : Begin(w, c)
        \/ AcquireLock(w) \/ Finish(w) \/ LoseTransaction(w)

PgSpec == PgInit /\ [][PgNext]_pgVars

\* PostgreSQL grants an advisory lock to its waiters in turn, and a transaction
\* that holds it runs on.
PgFairness == \A w \in Workers : SF_pgVars(AcquireLock(w)) /\ WF_pgVars(Finish(w))

FairPgSpec == PgSpec /\ PgFairness

-------------------------------------------------------------------------------
\* Type invariant, with the lock held by exactly the worker that is past it.
PgTypeOK ==
    /\ TypeOK
    /\ lock \in Workers \cup {None}
    /\ tx \in [Workers -> Transaction \cup {None}]
    /\ \A w \in Workers : Holds(w) <=> lock = w

\* An insert that is not late is linked to the head of the table it commits to,
\* however stale the snapshot was in which it read prev_hash.
NoStaleLink ==
    [][\A row \in events' \ events : Late(row) \/ row.prev = HeadHash]_pgVars

\* Whoever waits for the advisory lock gets through: the insert ends, with a
\* row, as a duplicate or with an error, and the lock is free again.
EveryInsertReturns == \A w \in Workers : Open(w) ~> ~Open(w)
===============================================================================
