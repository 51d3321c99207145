-------------------------- MODULE AuditChainProofs --------------------------
(* Theorems about AuditChain, for every choice of entities, sessions and    *)
(* transaction shapes.                                                       *)
EXTENDS AuditChain, SumLemmas, TLAPS

-----------------------------------------------------------------------------
(* Type correctness                                                          *)

LEMMA IdleIsTyped == Idle \in Session
BY EntitiesAssumption DEF Idle, Session, AllShapes, NoHash, Hash

LEMMA BecomeIsTyped ==
    ASSUME sess \in [Sessions -> Session], NEW s \in Sessions,
           NEW next \in Session, Become(s, next)
    PROVE  sess' \in [Sessions -> Session]
BY DEF Become

LEMMA EndIsTyped ==
    ASSUME TypeOK, NEW s \in Sessions, End(s)
    PROVE  sess' \in [Sessions -> Session]
BY IdleIsTyped, BecomeIsTyped DEF End, TypeOK

LEMMA ReleaseIsTyped ==
    ASSUME TypeOK, NEW s \in Sessions, Release(s)
    PROVE  /\ head_lock' \in Sessions \cup {Nobody}
           /\ row_lock' \in [Entities -> Sessions \cup {Nobody}]
BY DEF TypeOK, Release

\* The row a session appends, and its hash.
LEMMA EntryIsTyped ==
    ASSUME TypeOK, NEW s \in Sessions
    PROVE  /\ Entry(s) \in AuditLog
           /\ Entry(s).row_hash = Append(sess[s].prev_hash, sess[s].entity)
           /\ Entry(s).prev_hash = sess[s].prev_hash
           /\ Entry(s).entity = sess[s].entity
<1>1. sess[s] \in Session
    BY DEF TypeOK
<1>2. Append(sess[s].prev_hash, sess[s].entity) \in Hash
    BY <1>1 DEF Session, Hash
<1> QED BY <1>1, <1>2 DEF Entry, RowHash, AuditLog, Session

LEMMA TypeBegin ==
    ASSUME TypeOK, NEW s \in Sessions, Begin(s)
    PROVE  TypeOK'
<1>1. PICK shape \in Shapes, e \in Entities :
          Become(s, [sess[s] EXCEPT !.pc = CASE shape = "head_first" -> "head"
                                             [] shape = "row_first" -> "row"
                                             [] shape = "commit_first" -> "insert",
                                    !.shape = shape, !.entity = e, !.began = now'])
    BY DEF Begin
<1>2. shape \in {"head_first", "row_first", "commit_first"}
    BY ShapesAssumption DEF AllShapes
<1>3. sess[s] \in Session /\ now' \in Nat
    BY DEF TypeOK, Begin
<1>4. [sess[s] EXCEPT !.pc = CASE shape = "head_first" -> "head"
                               [] shape = "row_first" -> "row"
                               [] shape = "commit_first" -> "insert",
                      !.shape = shape, !.entity = e, !.began = now'] \in Session
    BY <1>2, <1>3 DEF Session, AllShapes
<1>5. sess' \in [Sessions -> Session]
    BY <1>1, <1>4, BecomeIsTyped DEF TypeOK
<1> QED BY <1>3, <1>5 DEF Begin, TypeOK, tableVars, lockVars

LEMMA TypeLocks ==
    ASSUME TypeOK, NEW s \in Sessions, LockRow(s) \/ LockHead(s)
    PROVE  TypeOK'
<1>1. sess[s] \in Session
    BY DEF TypeOK
<1>2. CASE LockRow(s)
    <2>1. [sess[s] EXCEPT !.pc = IF sess[s].shape = "row_first" THEN "head" ELSE "commit"] \in Session
        BY <1>1 DEF Session
    <2>2. sess' \in [Sessions -> Session]
        BY <1>2, <2>1, BecomeIsTyped DEF LockRow, TypeOK
    <2>3. row_lock' \in [Entities -> Sessions \cup {Nobody}]
        BY <1>2 DEF LockRow, TypeOK
    <2> QED BY <1>2, <2>2, <2>3 DEF LockRow, TypeOK, tableVars
<1>3. CASE LockHead(s)
    <2>1. [sess[s] EXCEPT !.prev_hash = last_row_hash,
                          !.pc = CASE sess[s].shape = "head_first" -> "row"
                                   [] sess[s].shape = "row_first" -> "commit"
                                   [] sess[s].shape = "commit_first" -> "discard"] \in Session
        BY <1>1 DEF Session, AllShapes, TypeOK
    <2>2. sess' \in [Sessions -> Session]
        BY <1>3, <2>1, BecomeIsTyped DEF LockHead, TypeOK
    <2> QED BY <1>3, <2>2 DEF LockHead, TypeOK, tableVars
<1> QED BY <1>2, <1>3

LEMMA TypeCommit ==
    ASSUME TypeOK, NEW s \in Sessions, Commit(s)
    PROVE  TypeOK'
<1>1. Entry(s) \in AuditLog
    BY EntryIsTyped
<1>2. audit_log' \in Seq(AuditLog) /\ last_row_hash' \in Hash
    BY <1>1 DEF Commit, TypeOK, AuditLog
<1>3. sess' \in [Sessions -> Session]
    BY EndIsTyped DEF Commit
<1>4. /\ head_lock' \in Sessions \cup {Nobody}
      /\ row_lock' \in [Entities -> Sessions \cup {Nobody}]
    BY ReleaseIsTyped DEF Commit
<1> QED BY <1>2, <1>3, <1>4 DEF Commit, TypeOK

LEMMA TypeCommitChange ==
    ASSUME TypeOK, NEW s \in Sessions, CommitChange(s)
    PROVE  TypeOK'
<1>1. sess[s] \in Session /\ now' \in Nat
    BY DEF TypeOK, CommitChange
<1>2. [sess[s] EXCEPT !.pc = "head", !.began = now'] \in Session
    BY <1>1 DEF Session
<1>3. sess' \in [Sessions -> Session]
    BY <1>2, BecomeIsTyped DEF CommitChange, TypeOK
<1> QED BY <1>1, <1>3 DEF CommitChange, TypeOK, tableVars, lockVars

\* The three ways a transaction ends without a commit.
Aborts(s) == Discard(s) \/ Rollback(s) \/ DeadlockAbort(s)

LEMMA AbortsEnd ==
    ASSUME NEW s \in Sessions, Aborts(s)
    PROVE  End(s) /\ Release(s) /\ UNCHANGED <<audit_log, last_row_hash, now>>
BY DEF Aborts, Discard, Rollback, DeadlockAbort, tableVars

LEMMA TypeAborts ==
    ASSUME TypeOK, NEW s \in Sessions, Aborts(s)
    PROVE  TypeOK'
<1>1. sess' \in [Sessions -> Session]
    BY EndIsTyped, AbortsEnd
<1>2. /\ head_lock' \in Sessions \cup {Nobody}
      /\ row_lock' \in [Entities -> Sessions \cup {Nobody}]
    BY ReleaseIsTyped, AbortsEnd
<1> QED BY <1>1, <1>2, AbortsEnd DEF TypeOK

LEMMA StepsAre ==
    ASSUME Next
    PROVE  \E s \in Sessions :
              \/ Begin(s) \/ LockRow(s) \/ LockHead(s) \/ Commit(s)
              \/ CommitChange(s) \/ Aborts(s)
BY DEF Next, Step, Aborts

LEMMA TypeStep == TypeOK /\ [Next]_vars => TypeOK'
<1> SUFFICES ASSUME TypeOK, [Next]_vars PROVE TypeOK'
    OBVIOUS
<1>1. CASE Next
    BY <1>1, StepsAre, TypeBegin, TypeLocks, TypeCommit, TypeCommitChange, TypeAborts
<1>2. CASE UNCHANGED vars
    BY <1>2 DEF TypeOK, vars, tableVars, lockVars
<1> QED BY <1>1, <1>2

LEMMA TypeInit == Init => TypeOK
BY IdleIsTyped DEF Init, TypeOK, NoHash, Hash

\* Every variable keeps its type, whatever the transactions do.
THEOREM TypeCorrect == Spec => []TypeOK
BY TypeInit, TypeStep, PTL DEF Spec

-----------------------------------------------------------------------------
(* Who holds the head row, and what it read there.                           *)

HoldsHead(s) ==
    \/ At(s, "commit")
    \/ At(s, "discard")
    \/ At(s, "row") /\ sess[s].shape = "head_first"

\* A session past the head still holds it, so that what it read is the tip.
HeadInv ==
    \A s \in Sessions :
        /\ At(s, "row") => sess[s].shape \in {"head_first", "row_first"}
        /\ HoldsHead(s) => head_lock = s /\ sess[s].prev_hash = last_row_hash

\* A step of s leaves the other sessions as they are.
LEMMA OthersKeep ==
    ASSUME TypeOK, NEW s \in Sessions, NEW t \in Sessions, t # s,
           NEW next \in Session, Become(s, next)
    PROVE  sess'[t] = sess[t] /\ sess'[s] = next
BY DEF Become, TypeOK

LEMMA HeadBegin ==
    ASSUME TypeOK, HeadInv, NEW s \in Sessions, Begin(s)
    PROVE  HeadInv'
<1>1. PICK shape \in Shapes, e \in Entities :
          Become(s, [sess[s] EXCEPT !.pc = CASE shape = "head_first" -> "head"
                                             [] shape = "row_first" -> "row"
                                             [] shape = "commit_first" -> "insert",
                                    !.shape = shape, !.entity = e, !.began = now'])
    BY DEF Begin
<1>2. shape \in {"head_first", "row_first", "commit_first"}
    BY ShapesAssumption DEF AllShapes
<1>3. sess[s] \in Session
    BY DEF TypeOK
<1>4. /\ sess'[s].shape = shape
      /\ sess'[s].pc = CASE shape = "head_first" -> "head"
                         [] shape = "row_first" -> "row"
                         [] shape = "commit_first" -> "insert"
    BY <1>1, <1>3 DEF Become, Session, TypeOK
<1>5. \A t \in Sessions \ {s} : sess'[t] = sess[t]
    BY <1>1 DEF Become, TypeOK
<1>6. head_lock' = head_lock /\ last_row_hash' = last_row_hash
    BY DEF Begin, tableVars, lockVars
<1>7. ASSUME NEW t \in Sessions
      PROVE  /\ At(t, "row")' => sess'[t].shape \in {"head_first", "row_first"}
             /\ HoldsHead(t)' => head_lock' = t /\ sess'[t].prev_hash = last_row_hash'
    <2>1. CASE t = s
        BY <1>2, <1>4, <2>1 DEF At, HoldsHead
    <2>2. CASE t # s
        BY <1>5, <1>6, <2>2 DEF HeadInv, At, HoldsHead
    <2> QED BY <2>1, <2>2
<1> QED BY <1>7 DEF HeadInv

LEMMA HeadLockRow ==
    ASSUME TypeOK, HeadInv, NEW s \in Sessions, LockRow(s)
    PROVE  HeadInv'
<1>1. sess[s] \in Session
    BY DEF TypeOK
<1>2. /\ sess'[s].pc = IF sess[s].shape = "row_first" THEN "head" ELSE "commit"
      /\ sess'[s].prev_hash = sess[s].prev_hash
      /\ \A t \in Sessions \ {s} : sess'[t] = sess[t]
    BY <1>1 DEF LockRow, Become, Session, TypeOK
<1>3. head_lock' = head_lock /\ last_row_hash' = last_row_hash
    BY DEF LockRow, tableVars
<1>4. sess[s].shape # "row_first" => head_lock = s /\ sess[s].prev_hash = last_row_hash
    BY DEF HeadInv, LockRow, At, HoldsHead
<1>5. ASSUME NEW t \in Sessions
      PROVE  /\ At(t, "row")' => sess'[t].shape \in {"head_first", "row_first"}
             /\ HoldsHead(t)' => head_lock' = t /\ sess'[t].prev_hash = last_row_hash'
    <2>1. CASE t = s
        BY <1>2, <1>3, <1>4, <2>1 DEF At, HoldsHead
    <2>2. CASE t # s
        BY <1>2, <1>3, <2>2 DEF HeadInv, At, HoldsHead
    <2> QED BY <2>1, <2>2
<1> QED BY <1>5 DEF HeadInv

LEMMA HeadLockHead ==
    ASSUME TypeOK, HeadInv, NEW s \in Sessions, LockHead(s)
    PROVE  HeadInv'
<1>1. sess[s] \in Session
    BY DEF TypeOK
<1>2. /\ sess'[s].prev_hash = last_row_hash
      /\ sess'[s].shape = sess[s].shape
      /\ sess'[s].pc = CASE sess[s].shape = "head_first" -> "row"
                         [] sess[s].shape = "row_first" -> "commit"
                         [] sess[s].shape = "commit_first" -> "discard"
      /\ \A t \in Sessions \ {s} : sess'[t] = sess[t]
    BY <1>1 DEF LockHead, Become, Session, TypeOK
<1>3. head_lock' = s /\ last_row_hash' = last_row_hash
    BY DEF LockHead, tableVars
<1>4. sess[s].shape \in {"head_first", "row_first", "commit_first"}
    BY <1>1 DEF Session, AllShapes
<1>5. \A t \in Sessions : ~HoldsHead(t)
    BY NobodyAssumption DEF HeadInv, LockHead
<1>6. ASSUME NEW t \in Sessions
      PROVE  /\ At(t, "row")' => sess'[t].shape \in {"head_first", "row_first"}
             /\ HoldsHead(t)' => head_lock' = t /\ sess'[t].prev_hash = last_row_hash'
    <2>1. CASE t = s
        BY <1>2, <1>3, <1>4, <2>1 DEF At, HoldsHead
    <2>2. CASE t # s
        BY <1>2, <1>5, <2>2 DEF HeadInv, At, HoldsHead
    <2> QED BY <2>1, <2>2
<1> QED BY <1>6 DEF HeadInv

\* A transaction that ends frees the head only if it was its own.
LEMMA HeadEnds ==
    ASSUME TypeOK, HeadInv, NEW s \in Sessions, End(s), Release(s),
           last_row_hash' = last_row_hash \/ head_lock = s
    PROVE  HeadInv'
<1>1. sess'[s].pc = "idle" /\ \A t \in Sessions \ {s} : sess'[t] = sess[t]
    BY DEF End, Become, Idle, TypeOK
<1>2. ASSUME NEW t \in Sessions
      PROVE  /\ At(t, "row")' => sess'[t].shape \in {"head_first", "row_first"}
             /\ HoldsHead(t)' => head_lock' = t /\ sess'[t].prev_hash = last_row_hash'
    <2>1. CASE t = s
        BY <1>1, <2>1 DEF At, HoldsHead
    <2>2. CASE t # s
        BY <1>1, <2>2 DEF HeadInv, At, HoldsHead, Release
    <2> QED BY <2>1, <2>2
<1> QED BY <1>2 DEF HeadInv

LEMMA HeadCommitChange ==
    ASSUME TypeOK, HeadInv, NEW s \in Sessions, CommitChange(s)
    PROVE  HeadInv'
<1>1. sess[s] \in Session
    BY DEF TypeOK
<1>2. sess'[s].pc = "head" /\ \A t \in Sessions \ {s} : sess'[t] = sess[t]
    BY <1>1 DEF CommitChange, Become, Session, TypeOK
<1>3. head_lock' = head_lock /\ last_row_hash' = last_row_hash
    BY DEF CommitChange, tableVars, lockVars
<1>4. ASSUME NEW t \in Sessions
      PROVE  /\ At(t, "row")' => sess'[t].shape \in {"head_first", "row_first"}
             /\ HoldsHead(t)' => head_lock' = t /\ sess'[t].prev_hash = last_row_hash'
    <2>1. CASE t = s
        BY <1>2, <2>1 DEF At, HoldsHead
    <2>2. CASE t # s
        BY <1>2, <1>3, <2>2 DEF HeadInv, At, HoldsHead
    <2> QED BY <2>1, <2>2
<1> QED BY <1>4 DEF HeadInv

LEMMA HeadStep == TypeOK /\ HeadInv /\ [Next]_vars => HeadInv'
<1> SUFFICES ASSUME TypeOK, HeadInv, [Next]_vars PROVE HeadInv'
    OBVIOUS
<1>1. ASSUME NEW s \in Sessions, Commit(s) PROVE HeadInv'
    <2>1. head_lock = s
        BY <1>1 DEF Commit, HeadInv, HoldsHead
    <2> QED BY <1>1, <2>1, HeadEnds DEF Commit
<1>2. ASSUME NEW s \in Sessions, Aborts(s) PROVE HeadInv'
    BY <1>2, AbortsEnd, HeadEnds
<1>3. CASE Next
    BY <1>1, <1>2, <1>3, StepsAre, HeadBegin, HeadLockRow, HeadLockHead, HeadCommitChange
<1>4. CASE UNCHANGED vars
    BY <1>4 DEF HeadInv, HoldsHead, At, vars, tableVars, lockVars
<1> QED BY <1>3, <1>4

LEMMA HeadInit == Init => HeadInv
BY DEF Init, HeadInv, HoldsHead, At, Idle

-----------------------------------------------------------------------------
(* The chain                                                                 *)

\* Only a commit writes the log or the head, and it extends both.
LEMMA TableStep ==
    ASSUME TypeOK, HeadInv, [Next]_vars
    PROVE  \/ UNCHANGED <<audit_log, last_row_hash>>
           \/ \E s \in Sessions :
                 /\ audit_log' = Append(audit_log, Entry(s))
                 /\ last_row_hash' = Append(last_row_hash, sess[s].entity)
                 /\ Entry(s) \in AuditLog
                 /\ Entry(s).entity = sess[s].entity
                 /\ Entry(s).prev_hash = last_row_hash
                 /\ Entry(s).row_hash = last_row_hash'
<1>1. CASE UNCHANGED vars
    BY <1>1 DEF vars, tableVars
<1>2. ASSUME NEW s \in Sessions, Aborts(s)
      PROVE  UNCHANGED <<audit_log, last_row_hash>>
    BY <1>2, AbortsEnd
<1>3. ASSUME NEW s \in Sessions, Begin(s) \/ LockRow(s) \/ LockHead(s) \/ CommitChange(s)
      PROVE  UNCHANGED <<audit_log, last_row_hash>>
    BY <1>3 DEF Begin, LockRow, LockHead, CommitChange, tableVars
<1>4. ASSUME NEW s \in Sessions, Commit(s)
      PROVE  /\ audit_log' = Append(audit_log, Entry(s))
             /\ last_row_hash' = Append(last_row_hash, sess[s].entity)
             /\ Entry(s) \in AuditLog
             /\ Entry(s).entity = sess[s].entity
             /\ Entry(s).prev_hash = last_row_hash
             /\ Entry(s).row_hash = last_row_hash'
    <2>1. sess[s].prev_hash = last_row_hash
        BY <1>4 DEF Commit, HeadInv, HoldsHead
    <2> QED BY <1>4, <2>1, EntryIsTyped DEF Commit
<1> QED BY <1>1, <1>2, <1>3, <1>4, StepsAre

LEMMA ChainStep ==
    TypeOK /\ HeadInv /\ ChainIsLinear /\ [Next]_vars => ChainIsLinear'
<1> SUFFICES ASSUME TypeOK, HeadInv, ChainIsLinear, [Next]_vars PROVE ChainIsLinear'
    OBVIOUS
<1>1. CASE UNCHANGED <<audit_log, last_row_hash>>
    BY <1>1 DEF ChainIsLinear, Valid, PrevHash
<1>2. ASSUME NEW row \in AuditLog, NEW e \in Entities,
             audit_log' = Append(audit_log, row),
             last_row_hash' = Append(last_row_hash, e),
             row.entity = e, row.prev_hash = last_row_hash, row.row_hash = last_row_hash'
      PROVE  ChainIsLinear'
    <2>1. audit_log \in Seq(AuditLog)
        BY DEF TypeOK
    <2>2. /\ Len(audit_log') = Len(audit_log) + 1
          /\ DOMAIN audit_log = 1 .. Len(audit_log)
          /\ DOMAIN audit_log' = 1 .. Len(audit_log) + 1
          /\ \A n \in 1 .. Len(audit_log) : audit_log'[n] = audit_log[n]
          /\ audit_log'[Len(audit_log) + 1] = row
          /\ Len(audit_log) \in Nat
        BY <1>2, <2>1
    <2>3. \A n \in 1 .. Len(audit_log) + 1 : PrevHash(audit_log', n) = PrevHash(audit_log, n)
        BY <2>2 DEF PrevHash
    <2>4. PrevHash(audit_log', Len(audit_log) + 1) = last_row_hash
        BY <2>2, <2>3 DEF ChainIsLinear
    <2>5. last_row_hash' = PrevHash(audit_log', Len(audit_log') + 1)
        BY <1>2, <2>2 DEF PrevHash
    <2>6. ASSUME NEW n \in 1 .. Len(audit_log) + 1
          PROVE  /\ audit_log'[n].prev_hash = PrevHash(audit_log', n)
                 /\ audit_log'[n].row_hash = RowHash(audit_log'[n].entity, PrevHash(audit_log', n))
        <3>1. CASE n \in 1 .. Len(audit_log)
            BY <2>2, <2>3, <3>1 DEF ChainIsLinear, Valid
        <3>2. CASE n = Len(audit_log) + 1
            BY <1>2, <2>2, <2>4, <3>2 DEF RowHash
        <3> QED BY <2>2, <3>1, <3>2
    <2>7. Valid(audit_log')
        BY <2>2, <2>6 DEF Valid
    <2> QED BY <2>5, <2>7 DEF ChainIsLinear
<1>3. ASSUME NEW s \in Sessions PROVE sess[s].entity \in Entities
    BY DEF TypeOK, Session
<1> QED BY <1>1, <1>2, <1>3, TableStep

LEMMA ChainInit == Init => ChainIsLinear
BY DEF Init, ChainIsLinear, Valid, PrevHash

\* The log is one chain and the head its tip, however transactions of every
\* shape interleave, abort and deadlock.
THEOREM ChainNeverForks == Spec => []ChainIsLinear
<1>1. Init => TypeOK /\ HeadInv /\ ChainIsLinear
    BY TypeInit, HeadInit, ChainInit
<1>2. TypeOK /\ HeadInv /\ ChainIsLinear /\ [Next]_vars
          => TypeOK' /\ HeadInv' /\ ChainIsLinear'
    BY TypeStep, HeadStep, ChainStep
<1> QED BY <1>1, <1>2, PTL DEF Spec

-----------------------------------------------------------------------------
(* Refinement                                                                *)

Events == [n \in DOMAIN audit_log |-> audit_log[n].entity]

LEMMA AppendEvent ==
    ASSUME NEW log \in Seq(AuditLog), NEW row \in AuditLog
    PROVE  [n \in DOMAIN Append(log, row) |-> Append(log, row)[n].entity]
               = Append([n \in DOMAIN log |-> log[n].entity], row.entity)
<1> DEFINE before == [n \in DOMAIN log |-> log[n].entity]
           after == [n \in DOMAIN Append(log, row) |-> Append(log, row)[n].entity]
<1>1. Len(log) \in Nat /\ DOMAIN log = 1 .. Len(log)
    OBVIOUS
<1>2. /\ DOMAIN Append(log, row) = 1 .. Len(log) + 1
      /\ Append(log, row)[Len(log) + 1] = row
      /\ \A n \in 1 .. Len(log) : Append(log, row)[n] = log[n]
    BY <1>1
<1>3. before \in Seq(Entities)
    <2>1. \A n \in 1 .. Len(log) : log[n].entity \in Entities
        <3>1. \A n \in 1 .. Len(log) : log[n] \in AuditLog
            BY <1>1
        <3> QED BY <3>1 DEF AuditLog
    <2> QED BY <1>1, <2>1
<1>4. Len(before) = Len(log)
    BY <1>1, <1>3
<1>5. row.entity \in Entities
    BY DEF AuditLog
<1>6. Append(before, row.entity) =
          [n \in 1 .. Len(log) + 1 |-> IF n = Len(log) + 1 THEN row.entity ELSE before[n]]
    BY <1>1, <1>3, <1>4, <1>5
<1>7. \A n \in 1 .. Len(log) + 1 :
          after[n] = IF n = Len(log) + 1 THEN row.entity ELSE before[n]
    BY <1>1, <1>2
<1> QED BY <1>2, <1>6, <1>7

\* The log is an atomic append-only chain, whatever locks and transactions do.
THEOREM ChainIsImplemented == Spec => ImplementsChainedLog
<1>1. Init => Chain!Init
    BY DEF Init, Chain!Init, NoHash
<1>2. TypeOK /\ HeadInv /\ [Next]_vars => [Chain!Next]_<<Events, last_row_hash>>
    <2> SUFFICES ASSUME TypeOK, HeadInv, [Next]_vars
                 PROVE  [Chain!Next]_<<Events, last_row_hash>>
        OBVIOUS
    <2>1. CASE UNCHANGED <<audit_log, last_row_hash>>
        BY <2>1 DEF Events
    <2>2. ASSUME NEW s \in Sessions,
                 audit_log' = Append(audit_log, Entry(s)),
                 last_row_hash' = Append(last_row_hash, sess[s].entity),
                 Entry(s) \in AuditLog, Entry(s).entity = sess[s].entity
          PROVE  Chain!Next
        <3>1. audit_log \in Seq(AuditLog) /\ sess[s].entity \in Entities
            BY DEF TypeOK, Session
        <3>2. PICK e \in Entities : e = sess[s].entity
            BY <3>1
        <3>3. [n \in DOMAIN audit_log' |-> audit_log'[n].entity]
                  = Append([n \in DOMAIN audit_log |-> audit_log[n].entity], e)
            BY <2>2, <3>1, <3>2, AppendEvent
        <3>4. Chain!Record(e)
            BY <2>2, <3>2, <3>3 DEF Chain!Record
        <3> QED BY <3>4 DEF Chain!Next
    <2> QED BY <2>1, <2>2, TableStep
<1>3. Spec => [](TypeOK /\ HeadInv)
    BY TypeInit, TypeStep, HeadInit, HeadStep, PTL DEF Spec
<1> QED BY <1>1, <1>2, <1>3, PTL DEF Spec, ImplementsChainedLog, Chain!Spec, Events

-----------------------------------------------------------------------------
(* The clock: a transaction keeps the instant it began at to itself, and so  *)
(* do the rows.                                                              *)

Busy(s) == ~At(s, "idle")

ClockInv ==
    /\ \A s \in Sessions : Busy(s) => sess[s].began <= now
    /\ \A s, t \in Sessions : Busy(s) /\ Busy(t) /\ s # t => sess[s].began # sess[t].began
    /\ \A n \in DOMAIN audit_log : audit_log[n].created_at <= now
    /\ \A n \in DOMAIN audit_log : \A s \in Sessions :
          Busy(s) => audit_log[n].created_at # sess[s].began
    /\ \A m, n \in DOMAIN audit_log :
          m # n => audit_log[m].created_at # audit_log[n].created_at

\* Locks, and transactions that end without a row, leave the instants alone.
LEMMA ClockKeeps ==
    ASSUME ClockInv, UNCHANGED <<audit_log, now>>,
           \A t \in Sessions : Busy(t)' => Busy(t) /\ sess'[t].began = sess[t].began
    PROVE  ClockInv'
<1>1. audit_log' = audit_log /\ now' = now
    OBVIOUS
<1> QED BY <1>1 DEF ClockInv

\* A transaction that begins takes an instant nobody has.
LEMMA ClockTicks ==
    ASSUME TypeOK, ClockInv, NEW s \in Sessions, audit_log' = audit_log, now' = now + 1,
           sess'[s].began = now', \A t \in Sessions \ {s} : sess'[t] = sess[t]
    PROVE  ClockInv'
<1>1. now \in Nat
    BY DEF TypeOK
<1>2. \A t \in Sessions : Busy(t) => sess[t].began \in Nat
    BY DEF TypeOK, Session
<1>3. \A n \in DOMAIN audit_log : audit_log[n].created_at \in Nat
    <2>1. \A n \in DOMAIN audit_log : audit_log[n] \in AuditLog
        BY DEF TypeOK
    <2> QED BY <2>1 DEF AuditLog
<1>4. \A t \in Sessions \ {s} : (Busy(t)' <=> Busy(t)) /\ sess'[t].began = sess[t].began
    BY DEF Busy, At
<1>5. \A t \in Sessions : Busy(t)' => sess'[t].began <= now'
    BY <1>1, <1>2, <1>4 DEF ClockInv
<1>6. \A t, u \in Sessions : Busy(t)' /\ Busy(u)' /\ t # u => sess'[t].began # sess'[u].began
    BY <1>1, <1>2, <1>4 DEF ClockInv
<1>7. \A n \in DOMAIN audit_log : audit_log[n].created_at <= now'
    BY <1>1, <1>3 DEF ClockInv
<1>8. \A n \in DOMAIN audit_log : \A t \in Sessions :
          Busy(t)' => audit_log[n].created_at # sess'[t].began
    BY <1>1, <1>3, <1>4 DEF ClockInv
<1>9. \A m, n \in DOMAIN audit_log : m # n => audit_log[m].created_at # audit_log[n].created_at
    BY DEF ClockInv
<1> HIDE DEF Busy
<1> QED BY <1>5, <1>6, <1>7, <1>8, <1>9 DEF ClockInv

LEMMA ClockBegins ==
    ASSUME TypeOK, ClockInv, NEW s \in Sessions, Begin(s) \/ CommitChange(s)
    PROVE  ClockInv'
<1>1. sess[s] \in Session
    BY DEF TypeOK
<1>2. CASE Begin(s)
    <2>1. PICK shape \in Shapes, e \in Entities :
              Become(s, [sess[s] EXCEPT !.pc = CASE shape = "head_first" -> "head"
                                                 [] shape = "row_first" -> "row"
                                                 [] shape = "commit_first" -> "insert",
                                        !.shape = shape, !.entity = e, !.began = now'])
        BY <1>2 DEF Begin
    <2>2. sess'[s].began = now' /\ \A t \in Sessions \ {s} : sess'[t] = sess[t]
        BY <1>1, <2>1 DEF Become, Session, TypeOK
    <2>3. audit_log' = audit_log /\ now' = now + 1
        BY <1>2 DEF Begin, tableVars
    <2> QED BY <2>2, <2>3, ClockTicks
<1>3. CASE CommitChange(s)
    <2>1. sess'[s].began = now' /\ \A t \in Sessions \ {s} : sess'[t] = sess[t]
        BY <1>1, <1>3 DEF CommitChange, Become, Session, TypeOK
    <2>2. audit_log' = audit_log /\ now' = now + 1
        BY <1>3 DEF CommitChange, tableVars
    <2> QED BY <2>1, <2>2, ClockTicks
<1> QED BY <1>2, <1>3

LEMMA ClockLocks ==
    ASSUME TypeOK, ClockInv, NEW s \in Sessions, LockRow(s) \/ LockHead(s)
    PROVE  ClockInv'
<1>1. sess[s] \in Session
    BY DEF TypeOK
<1>2. UNCHANGED <<audit_log, now>> /\ Busy(s)
    BY DEF LockRow, LockHead, tableVars, Busy, At
<1>3. sess'[s].began = sess[s].began
    <2>1. CASE LockRow(s)
        BY <1>1, <2>1 DEF LockRow, Become, Session, TypeOK
    <2>2. CASE LockHead(s)
        BY <1>1, <2>2 DEF LockHead, Become, Session, TypeOK
    <2> QED BY <2>1, <2>2
<1>4. \A t \in Sessions \ {s} : sess'[t] = sess[t]
    BY DEF LockRow, LockHead, Become, TypeOK
<1>5. \A t \in Sessions : Busy(t)' => Busy(t) /\ sess'[t].began = sess[t].began
    BY <1>2, <1>3, <1>4 DEF Busy, At
<1> QED BY <1>2, <1>5, ClockKeeps

\* Who ends is no longer busy; the others are as before.
LEMMA EndsBusy ==
    ASSUME TypeOK, NEW s \in Sessions, End(s)
    PROVE  \A t \in Sessions : Busy(t)' => Busy(t) /\ sess'[t] = sess[t] /\ t # s
<1>1. sess'[s].pc = "idle" /\ \A t \in Sessions \ {s} : sess'[t] = sess[t]
    BY DEF End, Become, Idle, TypeOK
<1> QED BY <1>1 DEF Busy, At

LEMMA ClockAborts ==
    ASSUME TypeOK, ClockInv, NEW s \in Sessions, Aborts(s)
    PROVE  ClockInv'
<1>1. End(s) /\ UNCHANGED <<audit_log, now>>
    BY AbortsEnd
<1>2. \A t \in Sessions : Busy(t)' => Busy(t) /\ sess'[t].began = sess[t].began
    BY <1>1, EndsBusy
<1> QED BY <1>1, <1>2, ClockKeeps

\* The row a commit appends takes over its transaction's instant.
LEMMA ClockCommit ==
    ASSUME TypeOK, ClockInv, NEW s \in Sessions, Commit(s)
    PROVE  ClockInv'
<1>1. /\ audit_log \in Seq(AuditLog) /\ Entry(s) \in AuditLog
      /\ audit_log' = Append(audit_log, Entry(s)) /\ now' = now
      /\ Entry(s).created_at = sess[s].began
      /\ Busy(s)
    BY EntryIsTyped DEF TypeOK, Commit, Entry, Busy, At
<1>2. /\ Len(audit_log) \in Nat
      /\ DOMAIN audit_log = 1 .. Len(audit_log)
      /\ DOMAIN audit_log' = 1 .. Len(audit_log) + 1
      /\ \A n \in 1 .. Len(audit_log) : audit_log'[n] = audit_log[n]
      /\ audit_log'[Len(audit_log) + 1].created_at = sess[s].began
    BY <1>1
<1>3. \A t \in Sessions : Busy(t)' => Busy(t) /\ sess'[t].began = sess[t].began /\ t # s
    BY EndsBusy DEF Commit
<1>4. \A t \in Sessions : Busy(t)' => sess'[t].began <= now'
    BY <1>1, <1>3 DEF ClockInv
<1>5. \A t, u \in Sessions : Busy(t)' /\ Busy(u)' /\ t # u => sess'[t].began # sess'[u].began
    BY <1>3 DEF ClockInv
<1>6. \A n \in DOMAIN audit_log' : audit_log'[n].created_at <= now'
    BY <1>1, <1>2 DEF ClockInv
<1>7. \A n \in DOMAIN audit_log' : \A t \in Sessions :
          Busy(t)' => audit_log'[n].created_at # sess'[t].began
    BY <1>1, <1>2, <1>3 DEF ClockInv
<1>8. \A m, n \in DOMAIN audit_log' :
          m # n => audit_log'[m].created_at # audit_log'[n].created_at
    BY <1>1, <1>2 DEF ClockInv
<1> QED BY <1>4, <1>5, <1>6, <1>7, <1>8 DEF ClockInv

LEMMA ClockStep == TypeOK /\ ClockInv /\ [Next]_vars => ClockInv'
<1> SUFFICES ASSUME TypeOK, ClockInv, [Next]_vars PROVE ClockInv'
    OBVIOUS
<1>1. CASE Next
    BY <1>1, StepsAre, ClockBegins, ClockLocks, ClockCommit, ClockAborts
<1>2. CASE UNCHANGED vars
    <2>1. UNCHANGED <<audit_log, now>> /\ sess' = sess
        BY <1>2 DEF vars, tableVars
    <2>2. \A t \in Sessions : Busy(t)' => Busy(t) /\ sess'[t].began = sess[t].began
        BY <2>1 DEF Busy, At
    <2> QED BY <2>1, <2>2, ClockKeeps
<1> QED BY <1>1, <1>2

LEMMA ClockInit == Init => ClockInv
BY DEF Init, ClockInv, Busy, At, Idle

-----------------------------------------------------------------------------
(* The order verify_chain reads in                                           *)

Rank(rows, n) ==
    Cardinality({m \in DOMAIN rows : rows[m].created_at <= rows[n].created_at})

Place(rows, k) == CHOOSE n \in DOMAIN rows : Rank(rows, n) = k

InOrder(rows) == \A m, n \in DOMAIN rows : m < n => rows[m].created_at < rows[n].created_at

LEMMA RowsAreTyped ==
    ASSUME NEW rows \in Seq(AuditLog)
    PROVE  /\ Len(rows) \in Nat
           /\ DOMAIN rows = 1 .. Len(rows)
           /\ \A n \in 1 .. Len(rows) :
                 /\ rows[n] \in AuditLog
                 /\ rows[n].entity \in Entities
                 /\ rows[n].created_at \in Nat
                 /\ rows[n].row_hash \in Seq(Entities)
<1>1. Len(rows) \in Nat /\ DOMAIN rows = 1 .. Len(rows)
    OBVIOUS
<1>2. \A n \in 1 .. Len(rows) : rows[n] \in AuditLog
    BY <1>1
<1> QED BY <1>1, <1>2 DEF AuditLog, Hash

LEMMA Interval ==
    ASSUME NEW n \in Nat
    PROVE  IsFiniteSet(1 .. n) /\ Cardinality(1 .. n) = n
<1>1. 1 \in Int /\ n \in Int
    OBVIOUS
<1>2. IsFiniteSet(1 .. n) /\ Cardinality(1 .. n) = IF 1 > n THEN 0 ELSE n - 1 + 1
    BY <1>1, FS_Interval
<1> QED BY <1>2

LEMMA ByCreationPlaces ==
    ASSUME NEW rows
    PROVE  ByCreation(rows) = [k \in DOMAIN rows |-> rows[Place(rows, k)]]
BY Zenon DEF ByCreation, Place, Rank

\* Rows in the order of their instants have their positions for ranks, and
\* sorting does nothing.
LEMMA SortedStays ==
    ASSUME NEW rows \in Seq(AuditLog), InOrder(rows)
    PROVE  ByCreation(rows) = rows
<1>1. Len(rows) \in Nat /\ DOMAIN rows = 1 .. Len(rows) /\ rows = [k \in DOMAIN rows |-> rows[k]]
    OBVIOUS
<1>2. \A n \in 1 .. Len(rows) : rows[n].created_at \in Nat
    BY RowsAreTyped
<1>3. ASSUME NEW n \in 1 .. Len(rows) PROVE Rank(rows, n) = n
    <2>1. \A m \in 1 .. Len(rows) : rows[m].created_at <= rows[n].created_at <=> m <= n
        BY <1>1, <1>2 DEF InOrder
    <2>2. {m \in DOMAIN rows : rows[m].created_at <= rows[n].created_at} = 1 .. n
        BY <1>1, <2>1
    <2>3. Cardinality(1 .. n) = n
        BY <1>1, Interval
    <2> QED BY <2>2, <2>3 DEF Rank
<1>4. ASSUME NEW k \in DOMAIN rows PROVE Place(rows, k) = k
    <2>1. \E n \in DOMAIN rows : Rank(rows, n) = k
        BY <1>1, <1>3
    <2>2. Place(rows, k) \in DOMAIN rows /\ Rank(rows, Place(rows, k)) = k
        BY <2>1 DEF Place
    <2> QED BY <1>1, <1>3, <2>2
<1>5. [k \in DOMAIN rows |-> rows[Place(rows, k)]] = [k \in DOMAIN rows |-> rows[k]]
    BY <1>4
<1> QED BY <1>1, <1>5, ByCreationPlaces

\* Rows with instants of their own have ranks of their own, and every position
\* is the rank of one of them.
LEMMA RanksArePlaces ==
    ASSUME NEW rows \in Seq(AuditLog),
           \A m, n \in DOMAIN rows : m # n => rows[m].created_at # rows[n].created_at
    PROVE  \A k \in DOMAIN rows : Place(rows, k) \in DOMAIN rows /\ Rank(rows, Place(rows, k)) = k
<1> DEFINE N == Len(rows)
           below(n) == {m \in 1 .. N : rows[m].created_at <= rows[n].created_at}
           rank == [n \in 1 .. N |-> Rank(rows, n)]
<1>1. N \in Nat /\ DOMAIN rows = 1 .. N
    OBVIOUS
<1>2. \A n \in 1 .. N : rows[n].created_at \in Nat
    BY RowsAreTyped
<1>3. IsFiniteSet(1 .. N) /\ Cardinality(1 .. N) = N
    BY <1>1, Interval
<1>4. ASSUME NEW n \in 1 .. N
      PROVE  /\ IsFiniteSet(below(n))
             /\ Cardinality(below(n)) = Rank(rows, n)
             /\ Rank(rows, n) \in 1 .. N
    <2>1. IsFiniteSet(below(n)) /\ Cardinality(below(n)) <= N /\ Cardinality(below(n)) \in Nat
        BY <1>3, FS_Subset, FS_CardinalityType
    <2>2. n \in below(n)
        BY <1>2
    <2>3. Cardinality(below(n)) # 0
        BY <2>1, <2>2, FS_EmptySet
    <2>4. Cardinality(below(n)) = Rank(rows, n)
        BY <1>1 DEF Rank
    <2> HIDE DEF below
    <2>5. Rank(rows, n) \in 1 .. N
        BY <1>1, <2>1, <2>3, <2>4
    <2> QED BY <2>1, <2>4, <2>5
<1>5. ASSUME NEW m \in 1 .. N, NEW n \in 1 .. N, m # n, Rank(rows, m) = Rank(rows, n)
      PROVE  FALSE
    <2>1. ASSUME NEW i \in 1 .. N, NEW j \in 1 .. N, Rank(rows, i) = Rank(rows, j),
                 rows[i].created_at < rows[j].created_at
          PROVE  FALSE
        <3>1. below(i) \in SUBSET below(j)
            BY <1>2, <2>1
        <3>2. j \in below(j) /\ j \notin below(i)
            BY <1>2, <2>1
        <3>3. below(i) = below(j)
            BY <1>4, <2>1, <3>1, FS_Subset
        <3> QED BY <3>2, <3>3
    <2>2. rows[m].created_at < rows[n].created_at \/ rows[n].created_at < rows[m].created_at
        BY <1>1, <1>2, <1>5
    <2> QED BY <1>5, <2>1, <2>2
<1>6. ASSUME NEW k \in 1 .. N PROVE \E n \in 1 .. N : Rank(rows, n) = k
    <2> SUFFICES ASSUME \A n \in 1 .. N : Rank(rows, n) # k PROVE FALSE
        OBVIOUS
    <2>1. IsFiniteSet((1 .. N) \ {k}) /\ Cardinality((1 .. N) \ {k}) < N
        <3>1. Cardinality((1 .. N) \ {k}) \in Nat /\ N = Cardinality((1 .. N) \ {k}) + 1
            BY <1>3, Smaller
        <3>2. IsFiniteSet((1 .. N) \ {k})
            BY <1>3, Smaller
        <3> QED BY <1>1, <3>1, <3>2
    <2>2. rank \in [1 .. N -> (1 .. N) \ {k}]
        BY <1>4
    <2> HIDE DEF rank
    <2>3. \E m, n \in 1 .. N : m # n /\ rank[m] = rank[n]
        BY <1>3, <2>1, <2>2, FS_PigeonHole
    <2> QED BY <1>5, <2>3 DEF rank
<1> QED BY <1>1, <1>6 DEF Place

\* The hash of a valid log's n-th row commits to n entities.
LEMMA HashLengths ==
    ASSUME NEW rows \in Seq(AuditLog), Valid(rows)
    PROVE  \A n \in DOMAIN rows : Len(rows[n].row_hash) = n
<1> DEFINE I == {n \in Nat : n \in DOMAIN rows => Len(rows[n].row_hash) = n}
<1>1. Len(rows) \in Nat /\ DOMAIN rows = 1 .. Len(rows)
    OBVIOUS
<1>2. \A n \in DOMAIN rows : rows[n].entity \in Entities /\ rows[n].row_hash \in Seq(Entities)
    BY <1>1, RowsAreTyped
<1>3. 0 \in I
    BY <1>1
<1>4. ASSUME NEW n \in Nat, n \in I PROVE n + 1 \in I
    <2> SUFFICES ASSUME n + 1 \in DOMAIN rows PROVE Len(rows[n + 1].row_hash) = n + 1
        OBVIOUS
    <2>1. rows[n + 1].row_hash = Append(PrevHash(rows, n + 1), rows[n + 1].entity)
        BY DEF Valid, RowHash
    <2>2. PrevHash(rows, n + 1) \in Seq(Entities) /\ Len(PrevHash(rows, n + 1)) = n
        <3>1. CASE n = 0
            BY <3>1 DEF PrevHash, NoHash
        <3>2. CASE n # 0
            <4>1. n \in DOMAIN rows /\ PrevHash(rows, n + 1) = rows[n].row_hash
                BY <1>1, <3>2 DEF PrevHash
            <4> QED BY <1>2, <1>4, <4>1
        <3> QED BY <3>1, <3>2
    <2> QED BY <1>2, <2>1, <2>2
<1> HIDE DEF I
<1>5. Nat \subseteq I
    BY <1>3, <1>4, NumbersBelow
<1> QED BY <1>1, <1>5 DEF I

\* A log that is valid as written and as sorted was written in order.
LEMMA BothValidInOrder ==
    ASSUME NEW rows \in Seq(AuditLog), Valid(rows), Valid(ByCreation(rows)),
           \A m, n \in DOMAIN rows : m # n => rows[m].created_at # rows[n].created_at
    PROVE  InOrder(rows)
<1> DEFINE sorted == ByCreation(rows)
<1>1. Len(rows) \in Nat /\ DOMAIN rows = 1 .. Len(rows)
    OBVIOUS
<1>2. \A k \in DOMAIN rows : Place(rows, k) \in DOMAIN rows /\ Rank(rows, Place(rows, k)) = k
    BY RanksArePlaces
<1>3. DOMAIN sorted = DOMAIN rows /\ \A k \in DOMAIN rows : sorted[k] = rows[Place(rows, k)]
    BY ByCreationPlaces
<1>4. sorted \in Seq(AuditLog)
    <2>1. \A k \in DOMAIN rows : rows[Place(rows, k)] \in AuditLog
        BY <1>1, <1>2
    <2>2. [k \in DOMAIN rows |-> rows[Place(rows, k)]] \in [1 .. Len(rows) -> AuditLog]
        BY <1>1, <2>1
    <2> QED BY <1>1, <2>2, ByCreationPlaces
<1> HIDE DEF sorted
<1>5. ASSUME NEW k \in DOMAIN rows PROVE Rank(rows, k) = k
    <2>1. Len(rows[Place(rows, k)].row_hash) = Place(rows, k)
        BY <1>2, HashLengths
    <2>2. Len(sorted[k].row_hash) = k
        BY <1>3, <1>4, HashLengths DEF sorted
    <2>3. Place(rows, k) = k
        BY <1>3, <2>1, <2>2
    <2> QED BY <1>2, <2>3
<1>6. ASSUME NEW m \in DOMAIN rows, NEW n \in DOMAIN rows, m < n,
             ~(rows[m].created_at < rows[n].created_at)
      PROVE  FALSE
    <2> DEFINE below(k) == {i \in DOMAIN rows : rows[i].created_at <= rows[k].created_at}
    <2>1. \A k \in DOMAIN rows : rows[k].created_at \in Nat
        BY <1>1, RowsAreTyped
    <2>2. below(n) \in SUBSET below(m)
        BY <1>6, <2>1
    <2>3. IsFiniteSet(below(m))
        <3>1. below(m) \in SUBSET (1 .. Len(rows)) /\ IsFiniteSet(1 .. Len(rows))
            BY <1>1, Interval
        <3> QED BY <3>1, FS_Subset
    <2>4. Cardinality(below(n)) <= Cardinality(below(m))
        BY <2>2, <2>3, FS_Subset
    <2>5. Cardinality(below(n)) = n /\ Cardinality(below(m)) = m
        BY <1>5 DEF Rank
    <2> QED BY <1>1, <1>6, <2>4, <2>5
<1> QED BY <1>6 DEF InOrder

\* The verifier accepts what record_event wrote exactly when no transaction
\* recorded its event before one that had begun earlier: any other log looks
\* tampered with, though nobody touched it.
THEOREM VerifiesIfInOrder == Spec => []VerifiesUnlessOvertaken
<1>1. TypeOK /\ ClockInv /\ ChainIsLinear => VerifiesUnlessOvertaken
    <2> SUFFICES ASSUME TypeOK, ClockInv, ChainIsLinear PROVE VerifiesUnlessOvertaken
        OBVIOUS
    <2>1. /\ audit_log \in Seq(AuditLog) /\ Valid(audit_log)
          /\ \A m, n \in DOMAIN audit_log :
                m # n => audit_log[m].created_at # audit_log[n].created_at
        BY DEF TypeOK, ClockInv, ChainIsLinear
    <2>2. InOrder(audit_log) => verify_chain
        BY <2>1, SortedStays DEF verify_chain
    <2>3. verify_chain => InOrder(audit_log)
        BY <2>1, BothValidInOrder DEF verify_chain
    <2> QED BY <2>2, <2>3 DEF VerifiesUnlessOvertaken, InOrder
<1>2. Spec => []TypeOK /\ []ClockInv
    BY TypeInit, TypeStep, ClockInit, ClockStep, PTL DEF Spec
<1> QED BY <1>1, <1>2, ChainNeverForks, PTL
=============================================================================
