------------------------- MODULE UcLifecycleProofs -------------------------
(***************************************************************************)
(* Proofs about UcLifecycle, for any sessions, use cases and criteria.     *)
(***************************************************************************)
EXTENDS UcLifecycle, TLAPS

-----------------------------------------------------------------------------
(* Types                                                                   *)

LEMMA NoTxnType == NoTxn \in Txn
  BY DEF NoTxn, Txn, Stages, ItemRow, AcRow, NoRow, WorkflowStates, Receipts

LEMMA RowTypes == NoRow \in AcRow /\ NewRow \in AcRow
  BY DEF NoRow, NewRow, AcRow, Receipts

LEMMA ColumnsType ==
  ASSUME NEW old \in ItemRow, NEW target \in WorkflowStates \cup {"archived"},
         NEW stamp \in Nat
  PROVE  LifecycleColumns(old, target, stamp) \in ItemRow
  BY DEF LifecycleColumns, ItemRow, WorkflowStates

LEMMA UpdateType ==
  ASSUME NEW u \in UC, NEW target \in WorkflowStates \cup {"archived"},
         NEW stamp \in Nat
  PROVE  [NoTxn EXCEPT !.at = "update_begun", !.uc = u, !.target = target,
                       !.stamp = stamp] \in Txn
  BY DEF NoTxn, Txn, Stages, ItemRow, AcRow, NoRow, WorkflowStates, Receipts

LEMMA WroteType ==
  ASSUME NEW t \in Txn, NEW new \in ItemRow, NEW void \in BOOLEAN,
         NEW ready \in BOOLEAN
  PROVE  [t EXCEPT !.at = "update_wrote", !.item = new,
                   !.key = new.completed, !.void = void,
                   !.ready = ready] \in Txn
  BY DEF Txn, Stages, ItemRow

LEMMA CriterionType ==
  ASSUME NEW u \in UC, NEW a \in AC, NEW row \in AcRow, NEW key \in Nat,
         NEW void \in BOOLEAN, NEW ready \in BOOLEAN
  PROVE  [NoTxn EXCEPT !.at = "criterion", !.uc = u, !.ac = a, !.row = row,
                       !.key = key, !.void = void, !.ready = ready] \in Txn
  BY DEF NoTxn, Txn, Stages, ItemRow, AcRow, NoRow, WorkflowStates, Receipts

\* What keeps TypeOK: one transaction is replaced by a well-typed one.
LEMMA PutType ==
  ASSUME TypeOK, NEW s \in Session, NEW t \in Txn, Put(s, t), UNCHANGED board,
         now' \in Nat, t.at # "none" => t.uc \in UC,
         t.at = "criterion" => t.ac \in AC
  PROVE  TypeOK'
  <1>1. txn' \in [Session -> Txn]
    BY DEF TypeOK, Put
  <1>2. \A r \in Session : txn'[r] = IF r = s THEN t ELSE txn[r]
    BY DEF TypeOK, Put
  <1>3. QED
    BY <1>1, <1>2 DEF TypeOK, board

LEMMA IdleType ==
  ASSUME TypeOK, NEW s \in Session, Put(s, NoTxn), UNCHANGED <<board, now>>
  PROVE  TypeOK'
  <1>1. NoTxn.at = "none"
    BY DEF NoTxn
  <1>2. QED
    BY <1>1, PutType, NoTxnType DEF TypeOK

LEMMA WriteCriterionType ==
  ASSUME TypeOK, NEW s \in Session, NEW u \in UC, NEW a \in AC,
         NEW row \in AcRow, WriteCriterion(s, u, a, row)
  PROVE  TypeOK'
  <1> DEFINE v == CriterionVoids(crit[u][a], row) /\ accepted[u]
             k == item[u].completed
             t == [NoTxn EXCEPT !.at = "criterion", !.uc = u, !.ac = a,
                     !.row = row, !.key = k, !.void = v,
                     !.ready = CriterionAnnounces(u, a, row)]
  <1>1. k \in Nat /\ v \in BOOLEAN /\ CriterionAnnounces(u, a, row) \in BOOLEAN
    BY DEF TypeOK, ItemRow, CriterionVoids, CriterionAnnounces
  <1>2. t \in Txn
    BY <1>1, CriterionType
  <1>3. Put(s, t) /\ UNCHANGED <<board, now>>
    BY DEF WriteCriterion
  <1>4. t.uc = u /\ t.ac = a
    BY DEF NoTxn
  <1>5. QED
    BY ZenonT(60), <1>2, <1>3, <1>4, PutType DEF TypeOK

LEMMA WriteAcType ==
  ASSUME TypeOK, NEW s \in Session, NEW u \in UC, WriteAc(s, u)
  PROVE  TypeOK'
  <1>1. PICK a \in AC :
          \/ \E passed, filed \in BOOLEAN : Mark(s, u, a, passed, filed)
          \/ UpdateDone(s, u, a)
          \/ \E hidden \in BOOLEAN : SetInternal(s, u, a, hidden)
          \/ AddCriterion(s, u, a)
          \/ DeleteCriterion(s, u, a)
    BY DEF WriteAc
  <1>2. crit[u][a] \in AcRow
    BY DEF TypeOK
  <1>3. \E row \in AcRow : WriteCriterion(s, u, a, row)
    BY <1>1, <1>2, RowTypes
    DEF Mark, UpdateDone, SetInternal, AddCriterion, DeleteCriterion, AcRow,
        Receipts
  <1>4. QED
    BY <1>3, WriteCriterionType

LEMMA WriteUpdateType ==
  ASSUME TypeOK, NEW s \in Session, WriteUpdate(s)
  PROVE  TypeOK'
  <1> DEFINE u == txn[s].uc
             new == LifecycleColumns(item[u], txn[s].target, txn[s].stamp)
             v == StateVoids(item[u], new) /\ accepted[u]
             r == StateAnnounces(item[u], new, crit[u], accepted[u])
             t == [txn[s] EXCEPT !.at = "update_wrote", !.item = new,
                     !.key = new.completed, !.void = v, !.ready = r]
  <1>1. txn[s] \in Txn /\ u \in UC /\ item[u] \in ItemRow
    BY DEF TypeOK, WriteUpdate
  <1>2. new \in ItemRow
    BY <1>1, ColumnsType DEF Txn
  <1>3. v \in BOOLEAN /\ r \in BOOLEAN
    BY <1>1 DEF StateVoids, StateAnnounces, TypeOK
  <1>4. t \in Txn
    BY <1>1, <1>2, <1>3, WroteType
  <1>5. t.uc = u /\ t.at = "update_wrote"
    BY <1>1 DEF Txn
  <1>6. CASE Put(s, NoTxn) /\ UNCHANGED <<board, now>>
    BY <1>6, IdleType
  <1>7. CASE Put(s, t) /\ UNCHANGED <<board, now>>
    BY <1>1, <1>4, <1>5, <1>7, PutType DEF TypeOK
  <1>8. QED
    BY <1>6, <1>7 DEF WriteUpdate

LEMMA CommitType ==
  ASSUME TypeOK, NEW s \in Session, Commit(s)
  PROVE  TypeOK'
  <1> DEFINE t == txn[s]
  <1>1. t \in Txn /\ t.uc \in UC /\ (t.at = "criterion" => t.ac \in AC)
    BY DEF TypeOK, Commit
  <1>2. item' \in [UC -> ItemRow]
    BY <1>1 DEF TypeOK, Commit, Txn
  <1>3. crit' \in [UC -> [AC -> AcRow]]
    BY <1>1 DEF TypeOK, Commit, Txn
  <1>4. accepted' \in [UC -> BOOLEAN]
    BY <1>1 DEF TypeOK, Commit, Txn
  <1>5. events' \subseteq UC \X Nat /\ trimmed' \subseteq UC
    BY <1>1 DEF TypeOK, Commit, Txn
  <1>6. txn' = [txn EXCEPT ![s] = NoTxn] /\ now' = now
    BY DEF Commit, Put
  <1>7. txn' \in [Session -> Txn]
    BY <1>6, NoTxnType DEF TypeOK
  <1>8. \A r \in Session : txn'[r] = IF r = s THEN NoTxn ELSE txn[r]
    BY <1>6 DEF TypeOK
  <1>9. NoTxn.at = "none"
    BY DEF NoTxn
  <1>10. QED
    BY <1>2, <1>3, <1>4, <1>5, <1>6, <1>7, <1>8, <1>9 DEF TypeOK

LEMMA PurgeDeleteType ==
  ASSUME TypeOK, NEW s \in Session, PurgeDelete(s)
  PROVE  TypeOK'
  <1>1. txn[s].uc \in UC
    BY DEF TypeOK, PurgeDelete
  <1>2. item' \in [UC -> ItemRow]
    BY <1>1 DEF TypeOK, PurgeDelete, ItemRow
  <1>3. crit' \in [UC -> [AC -> AcRow]]
    BY <1>1, RowTypes DEF TypeOK, PurgeDelete
  <1>4. accepted' \in [UC -> BOOLEAN]
    BY <1>1 DEF TypeOK, PurgeDelete
  <1>5. txn' = [txn EXCEPT ![s] = NoTxn] /\ UNCHANGED <<events, trimmed, now>>
    BY DEF PurgeDelete, Put
  <1>6. txn' \in [Session -> Txn]
    BY <1>5, NoTxnType DEF TypeOK
  <1>7. \A r \in Session : txn'[r] = IF r = s THEN NoTxn ELSE txn[r]
    BY <1>5 DEF TypeOK
  <1>8. NoTxn.at = "none"
    BY DEF NoTxn
  <1>9. QED
    BY <1>2, <1>3, <1>4, <1>5, <1>6, <1>7, <1>8 DEF TypeOK

LEMMA TypeStep == TypeOK /\ [Next]_vars => TypeOK'
  <1> SUFFICES ASSUME TypeOK, [Next]_vars PROVE TypeOK'
    OBVIOUS
  <1>1. CASE UNCHANGED vars
    BY <1>1 DEF TypeOK, vars
  <1>2. ASSUME NEW s \in Session, NEW u \in UC, NEW target \in Targets,
               BeginUpdate(s, u, target)
        PROVE  TypeOK'
    <2> DEFINE t == [NoTxn EXCEPT !.at = "update_begun", !.uc = u,
                       !.target = target, !.stamp = now]
    <2>1. t \in Txn
      BY UpdateType, TargetsAssumption DEF TypeOK
    <2>2. t.uc = u /\ t.at = "update_begun"
      BY DEF NoTxn
    <2>3. Put(s, t) /\ UNCHANGED board /\ now' \in Nat
      BY <1>2 DEF BeginUpdate, TypeOK
    <2>4. QED
      BY <2>1, <2>2, <2>3, PutType
  <1>3. ASSUME NEW s \in Session, NEW u \in UC, Accept(s, u)
        PROVE  TypeOK'
    <2> DEFINE t == [NoTxn EXCEPT !.at = "accept", !.uc = u]
    <2>1. t \in Txn /\ t.uc = u /\ t.at = "accept"
      BY DEF NoTxn, Txn, Stages, ItemRow, AcRow, NoRow, WorkflowStates, Receipts
    <2>2. Put(s, t) /\ UNCHANGED <<board, now>>
      BY <1>3 DEF Accept
    <2>3. QED
      BY <2>1, <2>2, PutType DEF TypeOK
  <1>4. ASSUME NEW s \in Session, NEW u \in UC, PurgeLock(s, u)
        PROVE  TypeOK'
    <2> DEFINE t == [NoTxn EXCEPT !.at = "purge_locked", !.uc = u]
    <2>1. t \in Txn /\ t.uc = u /\ t.at = "purge_locked"
      BY DEF NoTxn, Txn, Stages, ItemRow, AcRow, NoRow, WorkflowStates, Receipts
    <2>2. Put(s, t) /\ UNCHANGED <<board, now>>
      BY <1>4 DEF PurgeLock
    <2>3. QED
      BY <2>1, <2>2, PutType DEF TypeOK
  <1>5. ASSUME NEW s \in Session, PurgeRead(s)
        PROVE  TypeOK'
    <2> DEFINE t == [txn[s] EXCEPT !.at = "purge_read"]
    <2>1. t \in Txn /\ t.uc \in UC /\ t.at = "purge_read"
      BY SMTT(60), <1>5 DEF PurgeRead, TypeOK, Txn, Stages
    <2>2. Put(s, t) /\ UNCHANGED <<board, now>>
      BY <1>5 DEF PurgeRead
    <2>3. QED
      BY <2>1, <2>2, PutType DEF TypeOK
  <1>6. ASSUME NEW s \in Session, Rollback(s)
        PROVE  TypeOK'
    BY <1>6, IdleType DEF Rollback
  <1>7. QED
    BY <1>1, <1>2, <1>3, <1>4, <1>5, <1>6, WriteAcType, WriteUpdateType,
       CommitType, PurgeDeleteType
    DEF Next

\* Every reachable state of the UC lifecycle has the declared types.
THEOREM TypeCorrect == Spec => []TypeOK
  <1>1. Init => TypeOK
    BY NoTxnType, RowTypes
    DEF Init, TypeOK, NoTxn, ItemRow, WorkflowStates
  <1>2. QED
    BY <1>1, TypeStep, PTL DEF Spec

-----------------------------------------------------------------------------
(* The inductive invariant                                                 *)

\* What holds between the actions when writes to one UC do not overlap: each
\* open transaction is alone on its UC, so what its triggers saw still holds.
OneWriter ==
  \A s, t \in Session :
    s # t /\ txn[s].at # "none" => txn[t].uc # txn[s].uc

IdleIsEmpty == \A s \in Session : txn[s].at = "none" => txn[s] = NoTxn

StampsPast ==
  \A u \in UC : item[u].started < now /\ item[u].completed < now

StillTrue(t) ==
  LET u == t.uc IN
  /\ t.at \in {"update_begun", "update_wrote"} =>
       /\ t.stamp < now
       /\ item[u].started < t.stamp /\ item[u].completed < t.stamp
  /\ t.at = "update_wrote" =>
       /\ t.item = LifecycleColumns(item[u], t.target, t.stamp)
       /\ t.key = t.item.completed
       /\ t.void = (StateVoids(item[u], t.item) /\ accepted[u])
       /\ t.ready = StateAnnounces(item[u], t.item, crit[u], accepted[u])
       /\ item[u].state # "gone"
  /\ t.at = "criterion" =>
       /\ t.key = item[u].completed
       /\ t.void = (CriterionVoids(crit[u][t.ac], t.row) /\ accepted[u])
       /\ t.ready = CriterionAnnounces(u, t.ac, t.row)
  /\ t.at = "accept" => Ready(u) /\ ~t.void /\ ~t.ready
  /\ t.at = "purge_read" => \A a \in AC : ~crit[u][a].done

DecidedStillTrue == \A s \in Session : StillTrue(txn[s])

\* The inductive invariant of the runs whose writes do not overlap.
IInv ==
  /\ TypeOK /\ OneWriter /\ IdleIsEmpty /\ StampsPast /\ DecidedStillTrue
  /\ AcceptanceHolds /\ NotifiedUnlessTrimmed /\ LeadTimeSane

LEMMA EmptyIsTrue == StillTrue(NoTxn)
  BY DEF StillTrue, NoTxn

\* A transaction still decides right after a step that touched neither its UC
\* nor turned the clock back.
LEMMA Untouched ==
  ASSUME TypeOK, NEW t \in Txn, StillTrue(t), now' \in Nat, now' >= now,
         item'[t.uc] = item[t.uc], crit'[t.uc] = crit[t.uc],
         accepted'[t.uc] = accepted[t.uc]
  PROVE  StillTrue(t)'
  <1>1. t.stamp \in Nat /\ now \in Nat
    BY DEF TypeOK, Txn
  <1>2. Ready(t.uc)' = Ready(t.uc)
    BY DEF Ready
  <1>3. CriterionAnnounces(t.uc, t.ac, t.row)'
          = CriterionAnnounces(t.uc, t.ac, t.row)
    BY DEF CriterionAnnounces
  <1>4. QED
    BY <1>1, <1>2, <1>3 DEF StillTrue

\* A step that opens, advances or drops one transaction and leaves the board.
LEMMA PutKeeps ==
  ASSUME IInv, TypeOK', NEW s \in Session, NEW t \in Txn, Put(s, t),
         UNCHANGED board, now' >= now,
         t.at # "none" =>
           t.uc \in UC /\ \A r \in Session \ {s} : txn[r].uc # t.uc,
         t.at = "none" => t = NoTxn,
         StillTrue(t)'
  PROVE  IInv'
  <1>1. \A r \in Session : txn'[r] = IF r = s THEN t ELSE txn[r]
    BY DEF Put, TypeOK, IInv
  <1>2. OneWriter'
    <2> SUFFICES ASSUME NEW a \in Session, NEW b \in Session, a # b,
                        txn'[a].at # "none"
                 PROVE  txn'[b].uc # txn'[a].uc
      BY DEF OneWriter
    <2>1. CASE a = s
      BY <1>1, <2>1
    <2>2. CASE a # s /\ b # s
      BY <1>1, <2>2 DEF IInv, OneWriter
    <2>3. CASE b = s
      <3>1. CASE t.at = "none"
        <4>1. txn[a].uc \in UC /\ t.uc = NoUC
          BY <1>1, <2>3, <3>1 DEF IInv, TypeOK, NoTxn
        <4>2. QED
          BY <1>1, <2>3, <4>1, NoneAssumption
      <3>2. CASE t.at # "none"
        BY <1>1, <2>3, <3>2
      <3>3. QED
        BY <3>1, <3>2
    <2>4. QED
      BY <2>1, <2>2, <2>3
  <1>3. IdleIsEmpty'
    BY <1>1 DEF IdleIsEmpty, IInv
  <1>4. StampsPast'
    BY DEF StampsPast, board, IInv, TypeOK, ItemRow
  <1>5. DecidedStillTrue'
    <2> SUFFICES ASSUME NEW r \in Session, r # s
                 PROVE  StillTrue(txn[r])'
      BY <1>1 DEF DecidedStillTrue
    <2>1. txn'[r] = txn[r] /\ txn[r] \in Txn /\ StillTrue(txn[r])
      BY <1>1 DEF IInv, TypeOK, DecidedStillTrue
    <2> DEFINE q == txn[r]
    <2>2. ASSUME NEW x \in Txn, StillTrue(x) PROVE StillTrue(x)'
      BY <2>2, Untouched DEF IInv, TypeOK, board
    <2>3. QED
      BY <2>1, <2>2
  <1>6. AcceptanceHolds' /\ NotifiedUnlessTrimmed' /\ LeadTimeSane'
    BY DEF IInv, AcceptanceHolds, NotifiedUnlessTrimmed, LeadTimeSane, board,
           Ready
  <1>7. QED
    BY <1>2, <1>3, <1>4, <1>5, <1>6 DEF IInv

-----------------------------------------------------------------------------
(* Every action keeps it, when writes to one UC do not overlap             *)

LEMMA BeginUpdateKeeps ==
  ASSUME ~Concurrent, IInv, TypeOK', NEW s \in Session, NEW u \in UC,
         NEW target \in Targets, BeginUpdate(s, u, target)
  PROVE  IInv'
  <1>1. PICK t \in Txn :
          t = [NoTxn EXCEPT !.at = "update_begun", !.uc = u,
                            !.target = target, !.stamp = now]
    BY UpdateType, TargetsAssumption DEF IInv, TypeOK
  <1>2. t.uc = u /\ t.at = "update_begun" /\ t.stamp = now
    BY <1>1 DEF NoTxn
  <1>3. Put(s, t) /\ UNCHANGED board /\ now' = now + 1 /\ now \in Nat
    BY <1>1 DEF BeginUpdate, IInv, TypeOK
  <1>4. \A r \in Session \ {s} : txn[r].uc # u
    BY DEF BeginUpdate, Admitted
  <1>5. StillTrue(t)'
    BY <1>2, <1>3 DEF StillTrue, board, IInv, StampsPast
  <1>6. QED
    <2>1. now' >= now /\ t.at # "none"
      BY <1>2, <1>3
    <2>2. QED
      BY <1>2, <1>3, <1>4, <1>5, <2>1, PutKeeps

LEMMA NobodyElse ==
  ASSUME IInv, NEW s \in Session, txn[s].at # "none"
  PROVE  /\ txn[s].uc \in UC
         /\ \A r \in Session \ {s} : txn[r].uc # txn[s].uc
  BY DEF IInv, OneWriter, TypeOK

LEMMA RollbackKeeps ==
  ASSUME IInv, TypeOK', NEW s \in Session, Put(s, NoTxn),
         UNCHANGED <<board, now>>
  PROVE  IInv'
  <1>1. NoTxn.at = "none" /\ now \in Nat
    BY DEF NoTxn, IInv, TypeOK
  <1>2. StillTrue(NoTxn)'
    BY DEF StillTrue, NoTxn
  <1>3. QED
    BY <1>1, <1>2, NoTxnType, PutKeeps

LEMMA WriteUpdateKeeps ==
  ASSUME IInv, TypeOK', NEW s \in Session, WriteUpdate(s)
  PROVE  IInv'
  <1> DEFINE u == txn[s].uc
             new == LifecycleColumns(item[u], txn[s].target, txn[s].stamp)
             v == StateVoids(item[u], new) /\ accepted[u]
             r == StateAnnounces(item[u], new, crit[u], accepted[u])
             wrote == [txn[s] EXCEPT !.at = "update_wrote", !.item = new,
                         !.key = new.completed, !.void = v, !.ready = r]
  <1>1. txn[s] \in Txn /\ u \in UC /\ item[u] \in ItemRow
        /\ \A q \in Session \ {s} : txn[q].uc # u
    BY NobodyElse DEF IInv, TypeOK, WriteUpdate
  <1>2. CASE Put(s, NoTxn) /\ UNCHANGED <<board, now>>
    BY <1>2, RollbackKeeps
  <1>3. CASE Put(s, wrote) /\ UNCHANGED <<board, now>> /\ item[u].state # "gone"
    <2>1. new \in ItemRow /\ v \in BOOLEAN /\ r \in BOOLEAN
      BY <1>1, ColumnsType DEF Txn, StateVoids, StateAnnounces, IInv, TypeOK
    <2>2. PICK t \in Txn : t = wrote
      BY <1>1, <2>1, WroteType
    <2>3. /\ t.uc = u /\ t.at = "update_wrote" /\ t.item = new
          /\ t.stamp = txn[s].stamp /\ t.target = txn[s].target
          /\ t.key = new.completed /\ t.void = v /\ t.ready = r
      BY <1>1, <2>2 DEF Txn
    <2>4. /\ txn[s].stamp < now
          /\ item[u].started < txn[s].stamp
          /\ item[u].completed < txn[s].stamp
      BY DEF IInv, DecidedStillTrue, StillTrue, WriteUpdate
    <2>5. /\ UNCHANGED <<item, crit, accepted, now>>
      BY <1>3 DEF board
    <2>6. StillTrue(t)'
      BY <1>3, <2>3, <2>4, <2>5 DEF StillTrue, StateVoids, StateAnnounces
    <2>7. now' >= now
      BY <2>5 DEF IInv, TypeOK
    <2>8. QED
      <3>1. Put(s, t) /\ UNCHANGED board
        BY <1>3, <2>2
      <3>2. QED
        BY <1>1, <3>1, <2>3, <2>6, <2>7, PutKeeps
  <1>4. QED
    BY <1>2, <1>3 DEF WriteUpdate

LEMMA WriteCriterionKeeps ==
  ASSUME ~Concurrent, IInv, TypeOK', NEW s \in Session, NEW u \in UC,
         NEW a \in AC, NEW row \in AcRow, WriteCriterion(s, u, a, row)
  PROVE  IInv'
  <1> DEFINE v == CriterionVoids(crit[u][a], row) /\ accepted[u]
             k == item[u].completed
             wrote == [NoTxn EXCEPT !.at = "criterion", !.uc = u, !.ac = a,
                         !.row = row, !.key = k, !.void = v,
                         !.ready = CriterionAnnounces(u, a, row)]
  <1>1. k \in Nat /\ v \in BOOLEAN /\ CriterionAnnounces(u, a, row) \in BOOLEAN
    BY DEF IInv, TypeOK, ItemRow, CriterionVoids, CriterionAnnounces
  <1>2. PICK t \in Txn : t = wrote
    BY <1>1, CriterionType
  <1>3. Put(s, t) /\ UNCHANGED <<board, now>>
    BY <1>2 DEF WriteCriterion
  <1>4. /\ t.at = "criterion" /\ t.uc = u /\ t.ac = a /\ t.row = row
        /\ t.key = k /\ t.void = v /\ t.ready = CriterionAnnounces(u, a, row)
    BY <1>2 DEF NoTxn
  <1>5. UNCHANGED <<item, crit, accepted, now>>
    BY <1>3 DEF board
  <1>6. CriterionAnnounces(u, a, row)' = CriterionAnnounces(u, a, row)
    BY <1>5 DEF CriterionAnnounces
  <1>7. StillTrue(t)'
    BY <1>4, <1>5, <1>6 DEF StillTrue
  <1>8. \A r \in Session \ {s} : txn[r].uc # u
    BY DEF WriteCriterion, Admitted
  <1>9. now' >= now
    BY <1>5 DEF IInv, TypeOK
  <1>10. QED
    BY <1>3, <1>4, <1>7, <1>8, <1>9, PutKeeps

LEMMA WriteAcKeeps ==
  ASSUME ~Concurrent, IInv, TypeOK', NEW s \in Session, NEW u \in UC,
         WriteAc(s, u)
  PROVE  IInv'
  <1>1. \E a \in AC, row \in AcRow : WriteCriterion(s, u, a, row)
    <2>1. PICK a \in AC :
            \/ \E passed, filed \in BOOLEAN : Mark(s, u, a, passed, filed)
            \/ UpdateDone(s, u, a)
            \/ \E hidden \in BOOLEAN : SetInternal(s, u, a, hidden)
            \/ AddCriterion(s, u, a)
            \/ DeleteCriterion(s, u, a)
      BY DEF WriteAc
    <2>2. crit[u][a] \in AcRow
      BY DEF IInv, TypeOK
    <2>3. QED
      BY <2>1, <2>2, RowTypes
      DEF Mark, UpdateDone, SetInternal, AddCriterion, DeleteCriterion, AcRow,
          Receipts
  <1>2. QED
    BY <1>1, WriteCriterionKeeps

LEMMA AcceptKeeps ==
  ASSUME ~Concurrent, IInv, TypeOK', NEW s \in Session, NEW u \in UC,
         Accept(s, u)
  PROVE  IInv'
  <1> DEFINE t == [NoTxn EXCEPT !.at = "accept", !.uc = u]
  <1>1. t \in Txn /\ t.uc = u /\ t.at = "accept" /\ ~t.void /\ ~t.ready
    BY DEF NoTxn, Txn, Stages, ItemRow, AcRow, NoRow, WorkflowStates, Receipts
  <1>2. Put(s, t) /\ UNCHANGED <<board, now>> /\ Ready(u)
    BY DEF Accept
  <1>3. Ready(u)'
    BY <1>2 DEF Ready, board
  <1>4. StillTrue(t)'
    BY <1>1, <1>3 DEF StillTrue
  <1>5. \A r \in Session \ {s} : txn[r].uc # u
    BY DEF Accept, Admitted
  <1>6. now' >= now
    BY <1>2 DEF IInv, TypeOK
  <1>7. QED
    BY <1>1, <1>2, <1>4, <1>5, <1>6, PutKeeps

LEMMA PurgeLockKeeps ==
  ASSUME ~Concurrent, IInv, TypeOK', NEW s \in Session, NEW u \in UC,
         PurgeLock(s, u)
  PROVE  IInv'
  <1> DEFINE t == [NoTxn EXCEPT !.at = "purge_locked", !.uc = u]
  <1>1. t \in Txn /\ t.uc = u /\ t.at = "purge_locked"
    BY DEF NoTxn, Txn, Stages, ItemRow, AcRow, NoRow, WorkflowStates, Receipts
  <1>2. Put(s, t) /\ UNCHANGED <<board, now>>
    BY DEF PurgeLock
  <1>3. StillTrue(t)'
    BY <1>1 DEF StillTrue
  <1>4. \A r \in Session \ {s} : txn[r].uc # u
    BY DEF PurgeLock, Admitted
  <1>5. now' >= now
    BY <1>2 DEF IInv, TypeOK
  <1>6. QED
    BY <1>1, <1>2, <1>3, <1>4, <1>5, PutKeeps

LEMMA PurgeReadKeeps ==
  ASSUME IInv, TypeOK', NEW s \in Session, PurgeRead(s)
  PROVE  IInv'
  <1>1. txn[s] \in Txn /\ txn[s].uc \in UC
    BY DEF PurgeRead, IInv, TypeOK
  <1>2. PICK t \in Txn : t = [txn[s] EXCEPT !.at = "purge_read"]
    BY <1>1 DEF Txn, Stages
  <1>3. /\ Put(s, t) /\ UNCHANGED <<board, now>>
        /\ t.uc = txn[s].uc /\ t.at = "purge_read"
        /\ \A a \in AC : ~crit'[t.uc][a].done
    BY <1>1, <1>2 DEF PurgeRead, board, Txn
  <1>4. StillTrue(t)'
    BY <1>3 DEF StillTrue
  <1>5. \A r \in Session \ {s} : txn[r].uc # t.uc
    BY <1>3, NobodyElse DEF PurgeRead
  <1>6. now' >= now
    BY <1>3 DEF IInv, TypeOK
  <1>7. QED
    BY <1>1, <1>3, <1>4, <1>5, <1>6, PutKeeps

\* A step that ends one transaction and changes the board of its UC alone: the
\* invariant holds again if it holds of that UC.
LEMMA EndKeeps ==
  ASSUME IInv, TypeOK', NEW s \in Session, NEW u \in UC,
         txn[s].at # "none", txn[s].uc = u, Put(s, NoTxn), now' = now,
         \A x \in UC \ {u} : /\ item'[x] = item[x] /\ crit'[x] = crit[x]
                             /\ accepted'[x] = accepted[x],
         events \subseteq events', trimmed \subseteq trimmed',
         item'[u].started < now /\ item'[u].completed < now,
         accepted'[u] =>
           /\ item'[u].state = "done"
           /\ \A a \in AC : Visible(crit'[u][a]) => crit'[u][a].done,
         u \notin trimmed' /\ ReadyToAccept(item'[u], crit'[u], accepted'[u])
           => <<u, item'[u].completed>> \in events',
         item'[u].state = "done" /\ item'[u].completed # 0
           => item'[u].started <= item'[u].completed
  PROVE  IInv'
  <1>1. \A r \in Session : txn'[r] = IF r = s THEN NoTxn ELSE txn[r]
    BY DEF Put, TypeOK, IInv
  <1>2. NoTxn.at = "none" /\ NoTxn.uc = NoUC
    BY DEF NoTxn
  <1>3. OneWriter'
    <2> SUFFICES ASSUME NEW a \in Session, NEW b \in Session, a # b,
                        txn'[a].at # "none"
                 PROVE  txn'[b].uc # txn'[a].uc
      BY DEF OneWriter
    <2>1. a # s /\ txn'[a] = txn[a] /\ txn[a].uc \in UC
      BY <1>1, <1>2 DEF IInv, TypeOK
    <2>2. CASE b = s
      BY <1>1, <1>2, <2>1, <2>2, NoneAssumption
    <2>3. CASE b # s
      BY <1>1, <2>1, <2>3 DEF IInv, OneWriter
    <2>4. QED
      BY <2>2, <2>3
  <1>4. IdleIsEmpty'
    BY <1>1 DEF IdleIsEmpty, IInv
  <1>5. StampsPast'
    BY DEF StampsPast, IInv
  <1>6. DecidedStillTrue'
    <2> SUFFICES ASSUME NEW r \in Session PROVE StillTrue(txn[r])'
      BY DEF DecidedStillTrue
    <2>1. StillTrue(NoTxn)'
      BY DEF StillTrue, NoTxn
    <2>2. CASE r = s \/ txn[r].at = "none"
      <3>1. txn'[r] = NoTxn
        BY <1>1, <2>2 DEF IInv, IdleIsEmpty
      <3>2. QED
        BY <2>1, <3>1
    <2>3. CASE r # s /\ txn[r].at # "none"
      <3>1. txn'[r] = txn[r] /\ txn[r] \in Txn /\ StillTrue(txn[r])
            /\ txn[r].uc \in UC \ {u}
        BY <1>1, <2>3 DEF IInv, DecidedStillTrue, OneWriter, TypeOK
      <3>2. now' \in Nat /\ now' >= now
        BY DEF IInv, TypeOK
      <3>3. ASSUME NEW x \in Txn, StillTrue(x), x.uc \in UC \ {u}
            PROVE  StillTrue(x)'
        BY <3>2, <3>3, Untouched DEF IInv
      <3>4. QED
        BY <3>1, <3>3
    <2>4. QED
      BY <2>2, <2>3
  <1>7. AcceptanceHolds'
    BY DEF AcceptanceHolds, IInv
  <1>8. NotifiedUnlessTrimmed'
    BY DEF NotifiedUnlessTrimmed, Ready, IInv
  <1>9. LeadTimeSane'
    BY DEF LeadTimeSane, IInv
  <1>10. QED
    BY <1>3, <1>4, <1>5, <1>6, <1>7, <1>8, <1>9 DEF IInv

\* What a commit does, by kind of write.
LEMMA CommitDoes ==
  ASSUME IInv, NEW s \in Session, Commit(s)
  PROVE  /\ txn[s] \in Txn /\ txn[s].at # "none" /\ txn[s].uc \in UC
         /\ Put(s, NoTxn) /\ now' = now
         /\ \A x \in UC \ {txn[s].uc} :
              /\ item'[x] = item[x] /\ crit'[x] = crit[x]
              /\ accepted'[x] = accepted[x]
         /\ item'[txn[s].uc] = IF txn[s].at = "update_wrote" THEN txn[s].item
                               ELSE item[txn[s].uc]
         /\ crit'[txn[s].uc] =
              IF txn[s].at = "criterion"
                THEN [crit[txn[s].uc] EXCEPT ![txn[s].ac] = txn[s].row]
                ELSE crit[txn[s].uc]
         /\ accepted'[txn[s].uc] =
              ((accepted[txn[s].uc] \/ txn[s].at = "accept") /\ ~txn[s].void)
         /\ events' = IF txn[s].ready
                        THEN events \cup {<<txn[s].uc, txn[s].key>>}
                        ELSE events
         /\ trimmed' = IF txn[s].at = "criterion" /\ ~txn[s].row.there
                         THEN trimmed \cup {txn[s].uc} ELSE trimmed
  <1>1. txn[s] \in Txn /\ txn[s].at # "none" /\ txn[s].uc \in UC
    BY DEF IInv, TypeOK, Commit
  <1>2. Put(s, NoTxn) /\ now' = now
    BY DEF Commit
  <1>3. \A x \in UC : item'[x] = IF x = txn[s].uc /\ txn[s].at = "update_wrote"
                                  THEN txn[s].item ELSE item[x]
    BY <1>1 DEF Commit, IInv, TypeOK
  <1>4. \A x \in UC : crit'[x] =
          IF x = txn[s].uc /\ txn[s].at = "criterion"
            THEN [crit[txn[s].uc] EXCEPT ![txn[s].ac] = txn[s].row]
            ELSE crit[x]
    BY <1>1 DEF Commit, IInv, TypeOK
  <1>5. \A x \in UC : accepted'[x] =
          IF x = txn[s].uc
            THEN (accepted[x] \/ txn[s].at = "accept") /\ ~txn[s].void
            ELSE accepted[x]
    BY <1>1 DEF Commit, IInv, TypeOK
  <1>6. /\ events' = IF txn[s].ready
                       THEN events \cup {<<txn[s].uc, txn[s].key>>}
                       ELSE events
        /\ trimmed' = IF txn[s].at = "criterion" /\ ~txn[s].row.there
                        THEN trimmed \cup {txn[s].uc} ELSE trimmed
    BY DEF Commit
  <1>7. QED
    BY <1>1, <1>2, <1>3, <1>4, <1>5, <1>6

LEMMA CommitKeeps ==
  ASSUME IInv, TypeOK', NEW s \in Session, Commit(s)
  PROVE  IInv'
  <1> DEFINE t == txn[s]
             u == t.uc
  <1>1. t \in Txn /\ t.at # "none" /\ u \in UC /\ item[u] \in ItemRow
    BY CommitDoes DEF IInv, TypeOK
  <1>2. StillTrue(t)
    BY DEF IInv, DecidedStillTrue
  <1>3. item[u].started < now /\ item[u].completed < now
    BY <1>1 DEF IInv, StampsPast
  <1>4. /\ accepted[u] =>
             /\ item[u].state = "done"
             /\ \A a \in AC : Visible(crit[u][a]) => crit[u][a].done
        /\ u \notin trimmed /\ ReadyToAccept(item[u], crit[u], accepted[u])
             => <<u, item[u].completed>> \in events
        /\ item[u].state = "done" /\ item[u].completed # 0
             => item[u].started <= item[u].completed
    BY <1>1
    DEF IInv, AcceptanceHolds, NotifiedUnlessTrimmed, LeadTimeSane, Ready
  <1>5. events \subseteq events' /\ trimmed \subseteq trimmed'
    BY CommitDoes
  <1> DEFINE Good ==
        /\ item'[u].started < now /\ item'[u].completed < now
        /\ accepted'[u] =>
             /\ item'[u].state = "done"
             /\ \A a \in AC : Visible(crit'[u][a]) => crit'[u][a].done
        /\ u \notin trimmed' /\ ReadyToAccept(item'[u], crit'[u], accepted'[u])
             => <<u, item'[u].completed>> \in events'
        /\ item'[u].state = "done" /\ item'[u].completed # 0
             => item'[u].started <= item'[u].completed
  <1>6. ASSUME t.at = "update_wrote" PROVE Good
    <2>1. /\ item'[u] = t.item /\ crit'[u] = crit[u] /\ trimmed' = trimmed
          /\ accepted'[u] = (accepted[u] /\ ~t.void)
          /\ events' = IF t.ready THEN events \cup {<<u, t.key>>} ELSE events
      BY <1>6, CommitDoes
    <2>2. /\ t.stamp < now
          /\ item[u].started < t.stamp /\ item[u].completed < t.stamp
          /\ t.item = LifecycleColumns(item[u], t.target, t.stamp)
          /\ t.key = t.item.completed
          /\ t.void = (StateVoids(item[u], t.item) /\ accepted[u])
          /\ t.ready = StateAnnounces(item[u], t.item, crit[u], accepted[u])
      BY <1>2, <1>6 DEF StillTrue
    <2>3. /\ t.item.state = t.target
          /\ t.item.started \in {item[u].started, t.stamp}
          /\ t.item.completed \in {item[u].completed, t.stamp}
          /\ t.target = "done" =>
               /\ t.item.started = item[u].started
               /\ t.item.completed = IF item[u].state = "done"
                                       THEN item[u].completed ELSE t.stamp
      BY <2>2 DEF LifecycleColumns
    <2>4. item[u].started \in Nat /\ item[u].completed \in Nat
          /\ t.stamp \in Nat /\ now \in Nat
      BY <1>1 DEF ItemRow, Txn, IInv, TypeOK
    <2>5. item'[u].started < now /\ item'[u].completed < now
      BY <1>3, <2>1, <2>2, <2>3
    <2>6. accepted'[u] =>
            /\ item'[u].state = "done"
            /\ \A a \in AC : Visible(crit'[u][a]) => crit'[u][a].done
      BY <1>4, <2>1, <2>2 DEF StateVoids
    <2>7. ASSUME u \notin trimmed',
                 ReadyToAccept(item'[u], crit'[u], accepted'[u])
          PROVE  <<u, item'[u].completed>> \in events'
      <3>1. t.item.state = "done" /\ ~accepted'[u]
        BY <2>1, <2>7 DEF ReadyToAccept
      <3>2. ~accepted[u] /\ ReadyToAccept(t.item, crit[u], accepted[u])
        BY <2>1, <2>2, <2>7, <3>1 DEF StateVoids, ReadyToAccept
      <3>3. CASE item[u].state = "done"
        <4>1. ReadyToAccept(item[u], crit[u], accepted[u])
          BY <3>2, <3>3 DEF ReadyToAccept
        <4>2. t.item.completed = item[u].completed
          BY <2>3, <3>1, <3>3
        <4>3. QED
          BY <1>4, <1>5, <2>1, <2>7, <4>1, <4>2
      <3>4. CASE item[u].state # "done"
        <4>1. t.ready
          BY <2>2, <3>2, <3>4 DEF StateAnnounces
        <4>2. QED
          BY <2>1, <2>2, <4>1
      <3>5. QED
        BY <3>3, <3>4
    <2>8. item'[u].state = "done" /\ item'[u].completed # 0
            => item'[u].started <= item'[u].completed
      BY <1>4, <2>1, <2>2, <2>3, <2>4
    <2>9. QED
      BY <2>5, <2>6, <2>7, <2>8
  <1>7. ASSUME t.at = "criterion" PROVE Good
    <2> DEFINE new == [crit[u] EXCEPT ![t.ac] = t.row]
    <2>1. /\ item'[u] = item[u] /\ crit'[u] = new
          /\ accepted'[u] = (accepted[u] /\ ~t.void)
          /\ events' = IF t.ready THEN events \cup {<<u, t.key>>} ELSE events
          /\ ~t.row.there => u \in trimmed'
      BY <1>7, CommitDoes
    <2>2. t.ac \in AC /\ crit[u] \in [AC -> AcRow]
      BY <1>1, <1>7 DEF IInv, TypeOK
    <2>3. /\ t.key = item[u].completed
          /\ t.void = (CriterionVoids(crit[u][t.ac], t.row) /\ accepted[u])
          /\ t.ready = CriterionAnnounces(u, t.ac, t.row)
      BY <1>2, <1>7 DEF StillTrue
    <2>4. \A a \in AC : new[a] = IF a = t.ac THEN t.row ELSE crit[u][a]
      BY <2>2
    <2>5. ASSUME accepted'[u]
          PROVE  /\ item'[u].state = "done"
                 /\ \A a \in AC : Visible(crit'[u][a]) => crit'[u][a].done
      <3>1. accepted[u] /\ ~CriterionVoids(crit[u][t.ac], t.row)
        BY <2>1, <2>3, <2>5
      <3>2. Visible(t.row) => t.row.done
        BY <3>1 DEF CriterionVoids, Visible
      <3>3. \A a \in AC : Visible(new[a]) => new[a].done
        BY <1>4, <2>4, <3>1, <3>2
      <3>4. QED
        BY <1>4, <2>1, <3>1, <3>3
    <2>6. ASSUME u \notin trimmed',
                 ReadyToAccept(item'[u], crit'[u], accepted'[u])
          PROVE  <<u, item'[u].completed>> \in events'
      <3>1. t.row.there
        BY <2>1, <2>6
      <3>2. ~accepted'[u] /\ (Visible(t.row) => t.row.done)
        BY <2>1, <2>2, <2>4, <2>6 DEF ReadyToAccept
      <3>3. ~accepted[u]
        BY <2>1, <2>3, <3>2 DEF CriterionVoids, Visible
      <3>4. ReadyToAccept(item[u], new, accepted[u])
        BY <2>1, <2>6, <3>3 DEF ReadyToAccept
      <3>5. t.ready
        BY <2>3, <3>1, <3>4 DEF CriterionAnnounces
      <3>6. QED
        BY <2>1, <2>3, <3>5
    <2>7. QED
      BY <1>3, <1>4, <2>1, <2>5, <2>6
  <1>8. ASSUME t.at = "accept" PROVE Good
    <2>1. /\ item'[u] = item[u] /\ crit'[u] = crit[u]
          /\ accepted'[u] = ~t.void
      BY <1>8, CommitDoes
    <2>2. ~t.void /\ ReadyToAccept(item[u], crit[u], accepted[u])
      BY <1>2, <1>8 DEF StillTrue, Ready
    <2>3. QED
      BY <1>3, <1>4, <2>1, <2>2 DEF ReadyToAccept
  <1>9. Good
    BY <1>6, <1>7, <1>8 DEF Commit
  <1>10. QED
    BY <1>1, <1>5, <1>9, CommitDoes, EndKeeps

LEMMA PurgeDeleteDoes ==
  ASSUME IInv, NEW s \in Session, PurgeDelete(s)
  PROVE  /\ txn[s].at = "purge_read" /\ txn[s].uc \in UC /\ Put(s, NoTxn)
         /\ UNCHANGED <<events, trimmed, now>>
         /\ \A x \in UC \ {txn[s].uc} :
              /\ item'[x] = item[x] /\ crit'[x] = crit[x]
              /\ accepted'[x] = accepted[x]
         /\ item'[txn[s].uc] = [item[txn[s].uc] EXCEPT !.state = "gone"]
         /\ ~accepted'[txn[s].uc]
         /\ \A a \in AC : ~crit[txn[s].uc][a].done
  <1>1. txn[s].at = "purge_read" /\ txn[s].uc \in UC
    BY DEF IInv, TypeOK, PurgeDelete
  <1>2. StillTrue(txn[s])
    BY DEF IInv, DecidedStillTrue
  <1>3. \A a \in AC : ~crit[txn[s].uc][a].done
    BY <1>1, <1>2 DEF StillTrue
  <1>4. QED
    BY <1>1, <1>3 DEF PurgeDelete, IInv, TypeOK

LEMMA PurgeDeleteKeeps ==
  ASSUME IInv, TypeOK', NEW s \in Session, PurgeDelete(s)
  PROVE  IInv'
  <1> DEFINE u == txn[s].uc
  <1>1. u \in UC /\ item[u] \in ItemRow
    BY PurgeDeleteDoes DEF IInv, TypeOK
  <1>2. /\ item'[u].state = "gone" /\ item'[u].started = item[u].started
        /\ item'[u].completed = item[u].completed
    <2>1. item'[u] = [item[u] EXCEPT !.state = "gone"]
      BY PurgeDeleteDoes
    <2>2. QED
      BY <1>1, <2>1 DEF ItemRow
  <1>3. item'[u].started < now /\ item'[u].completed < now
    BY <1>1, <1>2 DEF IInv, StampsPast
  <1>4. ~ReadyToAccept(item'[u], crit'[u], accepted'[u])
    BY <1>2 DEF ReadyToAccept
  <1>5. txn[s].at # "none" /\ now' = now
        /\ events \subseteq events' /\ trimmed \subseteq trimmed'
    BY PurgeDeleteDoes
  <1>6. QED
    BY <1>1, <1>2, <1>3, <1>4, <1>5, PurgeDeleteDoes, EndKeeps

LEMMA InvStep ==
  ASSUME ~Concurrent
  PROVE  IInv /\ [Next]_vars => IInv'
  <1> SUFFICES ASSUME IInv, [Next]_vars PROVE IInv'
    OBVIOUS
  <1>1. TypeOK'
    BY TypeStep DEF IInv
  <1>2. CASE UNCHANGED vars
    <2>1. UNCHANGED <<item, crit, accepted, events, txn, trimmed, now>>
      BY <1>2 DEF vars
    <2>2. DecidedStillTrue'
      <3>1. ASSUME NEW x \in Txn, StillTrue(x) PROVE StillTrue(x)'
        BY <2>1, <3>1, Untouched DEF IInv, TypeOK
      <3>2. QED
        BY <2>1, <3>1 DEF DecidedStillTrue, IInv, TypeOK
    <2>3. QED
      BY <1>1, <2>1, <2>2
      DEF IInv, OneWriter, IdleIsEmpty, StampsPast, AcceptanceHolds,
          NotifiedUnlessTrimmed, Ready, LeadTimeSane
  <1>3. ASSUME NEW s \in Session, Rollback(s) PROVE IInv'
    BY <1>1, <1>3, RollbackKeeps DEF Rollback
  <1>4. QED
    BY <1>1, <1>2, <1>3, BeginUpdateKeeps, WriteAcKeeps, AcceptKeeps,
       PurgeLockKeeps, WriteUpdateKeeps, CommitKeeps, PurgeReadKeeps,
       PurgeDeleteKeeps
    DEF Next

LEMMA InvInit == Init => IInv
  <1> SUFFICES ASSUME Init PROVE IInv
    OBVIOUS
  <1>1. TypeOK
    BY NoTxnType, RowTypes DEF Init, TypeOK, NoTxn, ItemRow, WorkflowStates
  <1>2. \A s \in Session : txn[s] = NoTxn /\ NoTxn.at = "none"
    BY DEF Init, NoTxn
  <1>3. DecidedStillTrue
    BY <1>2, EmptyIsTrue DEF DecidedStillTrue
  <1>4. QED
    BY <1>1, <1>2, <1>3
    DEF IInv, Init, OneWriter, IdleIsEmpty, StampsPast, AcceptanceHolds,
        NotifiedUnlessTrimmed, Ready, ReadyToAccept, LeadTimeSane

\* When writes to one UC do not overlap, what an open transaction decided
\* still holds when it commits.
THEOREM Inductive ==
  ASSUME ~Concurrent
  PROVE  Spec => []IInv
  <1>1. IInv /\ [Next]_vars => IInv'
    BY InvStep
  <1>2. QED
    BY <1>1, InvInit, PTL DEF Spec

\* An acceptance disappears as soon as the UC leaves done or a visible
\* criterion of it is no longer done.
THEOREM AcceptanceIsTrue ==
  ASSUME ~Concurrent
  PROVE  Spec => []AcceptanceHolds
  <1>1. IInv => AcceptanceHolds
    BY DEF IInv
  <1>2. QED
    BY <1>1, Inductive, PTL

\* A UC that a person may accept, and that lost no criterion, was announced.
THEOREM ReadyWasNotified ==
  ASSUME ~Concurrent
  PROVE  Spec => []NotifiedUnlessTrimmed
  <1>1. IInv => NotifiedUnlessTrimmed
    BY DEF IInv
  <1>2. QED
    BY <1>1, Inductive, PTL

\* The columns the trigger keeps give a lead time that is not negative.
THEOREM LeadTime ==
  ASSUME ~Concurrent
  PROVE  Spec => []LeadTimeSane
  <1>1. IInv => LeadTimeSane
    BY DEF IInv
  <1>2. QED
    BY <1>1, Inductive, PTL

-----------------------------------------------------------------------------
(* Steps                                                                   *)

\* Only a commit and the deletes of a purge touch the board.
LEMMA WhoWritesBoard ==
  ASSUME [Next]_vars, ~UNCHANGED board
  PROVE  \E s \in Session : Commit(s) \/ PurgeDelete(s)
  <1>1. ~UNCHANGED vars
    BY DEF vars, board
  <1>2. ASSUME NEW s \in Session, NEW u \in UC, WriteAc(s, u)
        PROVE  UNCHANGED board
    BY ZenonT(60), <1>2
    DEF WriteAc, Mark, UpdateDone, SetInternal, AddCriterion,
        DeleteCriterion, WriteCriterion
  <1>3. ASSUME NEW s \in Session, NEW u \in UC,
               \/ \E target \in Targets : BeginUpdate(s, u, target)
               \/ Accept(s, u) \/ PurgeLock(s, u)
        PROVE  UNCHANGED board
    BY <1>3 DEF BeginUpdate, Accept, PurgeLock
  <1>4. ASSUME NEW s \in Session, WriteUpdate(s) \/ Rollback(s) \/ PurgeRead(s)
        PROVE  UNCHANGED board
    BY <1>4 DEF WriteUpdate, Rollback, PurgeRead
  <1>5. QED
    BY <1>1, <1>2, <1>3, <1>4 DEF Next

\* What a commit announces is true of the board it leaves.
LEMMA CommitIsTrue ==
  ASSUME IInv, NEW s \in Session, Commit(s), txn[s].ready
  PROVE  /\ item'[txn[s].uc].completed = txn[s].key
         /\ ReadyToAccept(item'[txn[s].uc], crit'[txn[s].uc],
                          accepted[txn[s].uc])
  <1>1. StillTrue(txn[s])
    BY DEF IInv, DecidedStillTrue
  <1>2. CASE txn[s].at = "update_wrote"
    BY <1>1, <1>2, CommitDoes DEF StillTrue, StateAnnounces
  <1>3. CASE txn[s].at = "criterion"
    BY <1>1, <1>3, CommitDoes DEF StillTrue, CriterionAnnounces
  <1>4. CASE txn[s].at = "accept"
    BY <1>1, <1>4 DEF StillTrue
  <1>5. QED
    BY <1>2, <1>3, <1>4 DEF Commit

\* No uc_ready event is recorded for a UC that is not proven and done.
THEOREM EventsAreAlwaysTrue ==
  ASSUME ~Concurrent
  PROVE  Spec => EventsAreTrue
  <1> DEFINE A == \A e \in events' \ events :
                    LET u == e[1] IN
                    /\ item'[u].state = "done"
                    /\ item'[u].completed = e[2]
                    /\ \A a \in AC : Visible(crit'[u][a]) =>
                         crit'[u][a].done /\ crit'[u][a].receipts = "passed"
  <1>1. ASSUME IInv, [Next]_vars PROVE A
    <2> SUFFICES ASSUME NEW e \in events' \ events PROVE A
      OBVIOUS
    <2>1. PICK s \in Session : Commit(s)
      BY <1>1, WhoWritesBoard, PurgeDeleteDoes DEF board
    <2>2. \A d \in events' \ events : d = <<txn[s].uc, txn[s].key>>
                                     /\ txn[s].ready
      BY <1>1, <2>1, CommitDoes
    <2>3. \A d \in events' \ events :
            d[1] = txn[s].uc /\ d[2] = txn[s].key /\ txn[s].ready
      BY <2>2
    <2>4. QED
      BY <1>1, <2>1, <2>3, CommitIsTrue DEF ReadyToAccept
  <1>2. IInv /\ [Next]_vars => [A]_vars
    BY <1>1
  <1>3. QED
    BY <1>2, Inductive, PTL DEF Spec, EventsAreTrue
=============================================================================
