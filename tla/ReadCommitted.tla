---------------------------- MODULE ReadCommitted ----------------------------
(***************************************************************************)
(* The PostgreSQL database as the code of src/ uses it: interactive prisma *)
(* transactions at the default isolation level, READ COMMITTED.            *)
(*                                                                         *)
(*   - a SELECT sees the last committed version of a row, or the           *)
(*     transaction's own uncommitted one; it takes no lock;                *)
(*   - an UPDATE or an INSERT takes the row's lock and waits while another *)
(*     transaction has it; an increment is applied to the version found    *)
(*     once the lock is there;                                             *)
(*   - COMMIT publishes every write at once, ROLLBACK none; both release   *)
(*     the locks.                                                          *)
(*                                                                         *)
(* A row that may be inserted is there from the start with the value       *)
(* Absent, so the lock of that row is also the wait on a unique index.     *)
(***************************************************************************)
EXTENDS Naturals

CONSTANTS
    Txns,    \* transactions
    Rows,    \* rows of all tables
    Nobody   \* the holder of a free lock

VARIABLES
    store,   \* the committed version of every row
    draft,   \* what each open transaction has written
    holder   \* which transaction has a row locked

dbVars == <<store, draft, holder>>

NoRows == [r \in {} |-> 0]

DBInit(rows) ==
    /\ store = rows
    /\ draft = [t \in Txns |-> NoRows]
    /\ holder = [r \in Rows |-> Nobody]

\* What a SELECT of transaction t finds in row r.
See(t, r) == IF r \in DOMAIN draft[t] THEN draft[t][r] ELSE store[r]

Unlocked(t, r) == holder[r] \in {Nobody, t}

\* t writes v into row r; disabled while another transaction has the lock.
Write(t, r, v) ==
    /\ Unlocked(t, r)
    /\ holder' = [holder EXCEPT ![r] = t]
    /\ draft' = [draft EXCEPT ![t] =
          [q \in DOMAIN draft[t] \cup {r} |-> IF q = r THEN v ELSE draft[t][q]]]
    /\ UNCHANGED store

Release(t) ==
    /\ draft' = [draft EXCEPT ![t] = NoRows]
    /\ holder' = [r \in Rows |-> IF holder[r] = t THEN Nobody ELSE holder[r]]

Commit(t) ==
    /\ store' = [r \in Rows |-> See(t, r)]
    /\ Release(t)

Rollback(t) ==
    /\ UNCHANGED store
    /\ Release(t)
=============================================================================
