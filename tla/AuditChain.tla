----------------------------- MODULE AuditChain -----------------------------
(***************************************************************************)
(* The audit log: record_event links a row to the newest one under a lock  *)
(* on the single chain-head row, inside the transaction of the change the  *)
(* row describes; verify_chain walks the table and recomputes the hashes.  *)
(*                                                                         *)
(* Transactions differ in when they lock the row they change.  A request   *)
(* writes it in the flush that ends record_event, after the head is locked *)
(* ("head_first"); a bulk UPDATE, or the autoflush of a background task's  *)
(* session, writes it before ("row_first"); add_member commits its row and *)
(* only then records the event, which nothing commits ("commit_first").    *)
(*                                                                         *)
(* A hash is taken for what it commits to: the entities of the rows up to  *)
(* its own.  SHA-256 is assumed to have no collisions.                     *)
(***************************************************************************)
EXTENDS Integers, Sequences, FiniteSets

CONSTANTS
    Entities,         \* the rows that are changed, and what events are about
    Sessions,         \* database sessions that can be open at the same time
    Nobody,           \* no session holds the lock
    Shapes,           \* kinds of transaction that are exercised
    MaxTransactions   \* bound: no session begins anew once now has reached it

AllShapes == {"head_first", "row_first", "commit_first"}

ASSUME NobodyAssumption == Nobody \notin Sessions

ASSUME EntitiesAssumption == Entities # {}

ASSUME ShapesAssumption == Shapes \subseteq AllShapes

ASSUME BoundAssumption == MaxTransactions \in Nat

VARIABLES
    audit_log,      \* the committed rows, in the order of their commits
    last_row_hash,  \* audit_chain_head: the committed tip
    head_lock,      \* which session holds the head row
    row_lock,       \* which session holds an entity's row
    sess,           \* the sessions
    now             \* the clock of created_at: it ticks when a transaction begins

lockVars == <<head_lock, row_lock>>
tableVars == <<audit_log, last_row_hash>>
vars == <<tableVars, lockVars, sess, now>>

-----------------------------------------------------------------------------
(* Types                                                                   *)

Hash == Seq(Entities)

NoHash == <<>>

AuditLog == [entity: Entities, created_at: Nat, prev_hash: Hash, row_hash: Hash]

\* A session past "idle" works on one entity; prev_hash is what it read
\* under the head's lock.
Session == [pc: {"idle", "insert", "row", "head", "commit", "discard"},
            shape: AllShapes, entity: Entities, began: Nat, prev_hash: Hash]

TypeOK ==
    /\ audit_log \in Seq(AuditLog)
    /\ last_row_hash \in Hash
    /\ head_lock \in Sessions \cup {Nobody}
    /\ row_lock \in [Entities -> Sessions \cup {Nobody}]
    /\ sess \in [Sessions -> Session]
    /\ now \in Nat

\* A session with no transaction; its other fields are not looked at.
Idle == [pc |-> "idle", shape |-> "head_first", entity |-> CHOOSE e \in Entities : TRUE,
         began |-> 0, prev_hash |-> NoHash]

Init ==
    /\ audit_log = <<>>
    /\ last_row_hash = NoHash
    /\ head_lock = Nobody
    /\ row_lock = [e \in Entities |-> Nobody]
    /\ sess = [s \in Sessions |-> Idle]
    /\ now = 0

-----------------------------------------------------------------------------
(* Transactions                                                            *)

At(s, pc) == sess[s].pc = pc
Become(s, next) == sess' = [sess EXCEPT ![s] = next]
End(s) == Become(s, Idle)

Release(s) ==
    /\ head_lock' = IF head_lock = s THEN Nobody ELSE head_lock
    /\ row_lock' = [e \in Entities |-> IF row_lock[e] = s THEN Nobody ELSE row_lock[e]]

\* The first statement of a transaction fixes what now() returns in it.
Begin(s) ==
    /\ At(s, "idle")
    /\ now < MaxTransactions
    /\ now' = now + 1
    /\ \E shape \in Shapes, e \in Entities :
          Become(s, [sess[s] EXCEPT !.pc = CASE shape = "head_first" -> "head"
                                             [] shape = "row_first" -> "row"
                                             [] shape = "commit_first" -> "insert",
                                    !.shape = shape, !.entity = e, !.began = now'])
    /\ UNCHANGED <<tableVars, lockVars>>

\* UPDATE of the entity's row: waits for the transaction that wrote it last.
LockRow(s) ==
    LET e == sess[s].entity IN
    /\ At(s, "row")
    /\ row_lock[e] = Nobody
    /\ row_lock' = [row_lock EXCEPT ![e] = s]
    /\ Become(s, [sess[s] EXCEPT !.pc = IF sess[s].shape = "row_first" THEN "head" ELSE "commit"])
    /\ UNCHANGED <<tableVars, head_lock, now>>

ReadHead(s) == \* mutant: the head is read without FOR UPDATE
    /\ At(s, "head")
    /\ Become(s, [sess[s] EXCEPT !.prev_hash = last_row_hash,
                                 !.pc = CASE sess[s].shape = "head_first" -> "row"
                                          [] sess[s].shape = "row_first" -> "commit"
                                          [] sess[s].shape = "commit_first" -> "discard"])
    /\ UNCHANGED <<tableVars, lockVars, now>>

\* record_event: SELECT ... FOR UPDATE, then the new row and the new tip,
\* which nobody sees before the commit.
LockHead(s) ==
    /\ At(s, "head")
    /\ head_lock = Nobody
    /\ head_lock' = s
    /\ Become(s, [sess[s] EXCEPT !.prev_hash = last_row_hash,
                                 !.pc = CASE sess[s].shape = "head_first" -> "row"
                                          [] sess[s].shape = "row_first" -> "commit"
                                          [] sess[s].shape = "commit_first" -> "discard"])
    /\ UNCHANGED <<tableVars, row_lock, now>>

\* mutants: rows are hashed on their own; the first row is not hashed at all
HashWithoutPrevious(entity, prev_hash) == <<entity>>
UnhashedFirst(entity, prev_hash) ==
    IF prev_hash = NoHash THEN entity ELSE Append(prev_hash, entity)

RowHash(entity, prev_hash) == Append(prev_hash, entity)

Entry(s) ==
    [entity     |-> sess[s].entity,
     created_at |-> sess[s].began,
     prev_hash  |-> sess[s].prev_hash,
     row_hash   |-> RowHash(sess[s].entity, sess[s].prev_hash)]

\* The change and its audit row land together.
Commit(s) ==
    /\ At(s, "commit")
    /\ audit_log' = Append(audit_log, Entry(s))
    /\ last_row_hash' = Entry(s).row_hash
    /\ End(s)
    /\ Release(s)
    /\ UNCHANGED now

\* add_member: the new row is committed, and its refresh begins the
\* transaction in which the event is recorded ...
CommitChange(s) ==
    /\ At(s, "insert")
    /\ now' = now + 1
    /\ Become(s, [sess[s] EXCEPT !.pc = "head", !.began = now'])
    /\ UNCHANGED <<tableVars, lockVars>>

\* ... and which ends with the session, uncommitted.
Discard(s) ==
    /\ At(s, "discard")
    /\ End(s)
    /\ Release(s)
    /\ UNCHANGED <<tableVars, now>>

\* A constraint fails, the request is cancelled, or the server restarts.
Rollback(s) ==
    /\ ~At(s, "idle")
    /\ End(s)
    /\ Release(s)
    /\ UNCHANGED <<tableVars, now>>

WaitsOn(s, t) ==
    \/ At(s, "head") /\ head_lock = t
    \/ At(s, "row") /\ row_lock[sess[s].entity] = t

\* PostgreSQL breaks a cycle of waiting transactions by aborting one of them.
\* Only the holder of the head can hold it and wait, so a cycle has two members.
DeadlockAbort(s) ==
    /\ \E t \in Sessions \ {s} : WaitsOn(s, t) /\ WaitsOn(t, s)
    /\ End(s)
    /\ Release(s)
    /\ UNCHANGED <<tableVars, now>>

Step(s) ==
    \/ LockRow(s) \/ LockHead(s) \/ Commit(s) \/ CommitChange(s) \/ Discard(s)
    \/ DeadlockAbort(s)

Next == \E s \in Sessions : Begin(s) \/ Step(s) \/ Rollback(s)

Spec == Init /\ [][Next]_vars

-----------------------------------------------------------------------------
(* verify_chain                                                            *)

\* The table in the order of created_at, which no two transactions share.
ByCreation(rows) ==
    LET rank(n) == Cardinality({m \in DOMAIN rows : rows[m].created_at <= rows[n].created_at})
    IN  [k \in DOMAIN rows |-> rows[CHOOSE n \in DOMAIN rows : rank(n) = k]]

PrevHash(rows, n) == IF n = 1 THEN NoHash ELSE rows[n - 1].row_hash

HashesMatch(rows) == \* mutant: the links between rows are not compared
    \A n \in DOMAIN rows : rows[n].row_hash = RowHash(rows[n].entity, rows[n].prev_hash)

Valid(rows) ==
    \A n \in DOMAIN rows :
        /\ rows[n].prev_hash = PrevHash(rows, n)
        /\ rows[n].row_hash = RowHash(rows[n].entity, PrevHash(rows, n))

verify_chain == Valid(ByCreation(audit_log))

-----------------------------------------------------------------------------
(* Safety                                                                  *)

\* The rows form one chain in the order of their commits, and the head is its
\* tip: "two concurrent writers can never both chain off the same 'previous'
\* row and silently fork the chain" (AuditChainHead).
ChainIsLinear ==
    /\ Valid(audit_log)
    /\ last_row_hash = PrevHash(audit_log, Len(audit_log) + 1)

\* verify_chain accepts the untouched log just when no transaction recorded
\* its event before one that had begun earlier; any other log looks tampered.
VerifiesUnlessOvertaken ==
    verify_chain <=> \A m, n \in DOMAIN audit_log :
                        m < n => audit_log[m].created_at < audit_log[n].created_at

\* The log is the atomic chain of ChainedLog, whatever locks and transactions
\* do in between.
Chain == INSTANCE ChainedLog WITH
    events <- [n \in DOMAIN audit_log |-> audit_log[n].entity],
    tip    <- last_row_hash

ImplementsChainedLog == Chain!Spec

-----------------------------------------------------------------------------
(* What the documentation claims and the code does not keep: the README     *)
(* names the configuration that refutes it.                                 *)

\* verify_chain takes the order of created_at for "insertion order", in which
\* only a row "altered after being written" or "spliced in" breaks the chain:
\* it rejects a log that record_event alone wrote.
UntamperedChainVerifies == verify_chain
=============================================================================
