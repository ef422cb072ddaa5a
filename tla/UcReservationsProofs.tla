------------------------ MODULE UcReservationsProofs ------------------------
(***************************************************************************)
(* Proofs about UcReservations, for every set of sessions, developers and  *)
(* use cases: the type invariant, and, when nobody runs two sessions at    *)
(* once, that the reservation layer is a lock on each UC.  However many    *)
(* sessions anybody runs, no reservation is made or deleted behind the     *)
(* trail's back, and handlers never all wait for one another.              *)
(***************************************************************************)
EXTENDS UcReservations, FiniteSetTheorems, TLAPS

\* What the handlers know between two of their statements, in named parts.

\* A release about to delete owns the row, unless the UC has been purged.
ReleaserOwns ==
  \A s \in Session : pc[s] = "release_delete" =>
    holder[arg[s]] = DevOf[s] \/ ucState[arg[s]] = "gone"

\* So does a start about to commit that found its own row.
RestarterOwns ==
  \A s \in Session : pc[s] = "start_update" /\ ~wrote[s] =>
    holder[arg[s]] = DevOf[s] \/ ucState[arg[s]] = "gone"

\* A pending insert is alone on its key, and no committed row has it.
InserterAlone ==
  /\ \A s \in Session : pc[s] = "start_update" /\ wrote[s] =>
       holder[arg[s]] = NoDev
  /\ \A s, t \in Session :
       /\ pc[s] = "start_update" /\ wrote[s]
       /\ pc[t] = "start_update" /\ wrote[t]
       /\ arg[s] = arg[t]
       => s = t

\* Only the two long transactions have uncommitted writes.
WroteInside ==
  \A s \in Session : wrote[s] => pc[s] \in {"start_update", "purge_commit"}

\* A session that asked to let go no longer counts on the UC.
LeaverLetGo ==
  \A s \in Session :
    pc[s] \in {"close_update", "close_auth", "release_lookup",
               "release_delete"} => arg[s] \notin started[s]

\* A purge has the row lock from its check to its commit, and past the check
\* the UC is purgeable and nobody counts on it.
PurgeLocked ==
  \A s \in Session :
    pc[s] \in {"purge_check", "purge_delete", "purge_commit"} =>
      rowLock[arg[s]] = s

PurgeChecked ==
  \A s \in Session : pc[s] \in {"purge_delete", "purge_commit"} =>
    /\ ucState[arg[s]] \in PurgeableStates
    /\ \A t \in Session : arg[s] \notin started[t]

GoneIsFree ==
  \A u \in UC : ucState[u] = "gone" => \A s \in Session : u \notin started[s]

IInv ==
  /\ TypeOK
  /\ StartedIsHeld
  /\ ReleaserOwns
  /\ RestarterOwns
  /\ InserterAlone
  /\ WroteInside
  /\ LeaverLetGo
  /\ PurgeLocked
  /\ PurgeChecked
  /\ GoneIsFree

-----------------------------------------------------------------------------

\* Goto on a label other than idle keeps the call; it always types.
LEMMA GotoTypes ==
  ASSUME TypeOK, NEW s \in Session, NEW label \in Labels, Goto(s, label),
         pc[s] # "idle"
  PROVE  /\ pc' \in [Session -> Labels]
         /\ op' \in [Session -> Ops]
         /\ arg' \in [Session -> UC \cup {NoUC}]
         /\ \A t \in Session : pc'[t] # "idle" => arg'[t] \in UC
  BY DEF TypeOK, Goto, Ops

LEMMA BeginTypes ==
  ASSUME TypeOK, NEW s \in Session, NEW u \in UC, NEW what \in Ops,
         NEW label \in Labels, Begin(s, u, what, label)
  PROVE  /\ pc' \in [Session -> Labels]
         /\ op' \in [Session -> Ops]
         /\ arg' \in [Session -> UC \cup {NoUC}]
         /\ \A t \in Session : pc'[t] # "idle" => arg'[t] \in UC
         /\ calls' \in Nat
  BY DEF TypeOK, Begin

LEMMA RecordTypes ==
  ASSUME TypeOK, NEW u \in UC, NEW what \in Changes,
         Record(u, what)
  PROVE  audit' \in [UC -> [Changes -> Nat]]
  BY DEF TypeOK, Record

LEMMA InitTypes == Init => TypeOK
  BY DEF Init, TypeOK, Labels, Ops, WorkflowStates

LEMMA CallTypes ==
  ASSUME TypeOK, NEW s \in Session, Call(s)
  PROVE  TypeOK'
<1>. USE TargetsAssumption
<1>. PICK u \in UC :
       \/ CallReserve(s, u) \/ CallRelease(s, u) \/ CallStart(s, u)
       \/ CallComplete(s, u) \/ CallMoveDone(s, u) \/ CallDelete(s, u)
       \/ \E target \in Targets : MoveUc(s, u, target)
  BY ZenonT(60) DEF Call
<1>1. CASE CallReserve(s, u)
  BY ZenonT(60), <1>1, BeginTypes DEF CallReserve, Begin, TypeOK, table, Ops, Labels
<1>2. CASE CallRelease(s, u)
  BY ZenonT(60), <1>2, BeginTypes DEF CallRelease, Begin, LetGo, TypeOK, table, Ops, Labels
<1>3. CASE CallStart(s, u)
  BY ZenonT(60), <1>3, BeginTypes DEF CallStart, Begin, TypeOK, table, Ops, Labels
<1>4. CASE CallComplete(s, u)
  BY ZenonT(60), <1>4, BeginTypes DEF CallComplete, Begin, LetGo, TypeOK, table, Ops, Labels
<1>5. CASE CallMoveDone(s, u)
  BY ZenonT(60), <1>5, BeginTypes DEF CallMoveDone, Begin, LetGo, TypeOK, table, Ops, Labels
<1>6. CASE CallDelete(s, u)
  BY ZenonT(60), <1>6, BeginTypes DEF CallDelete, Begin, TypeOK, table, Ops, Labels
<1>7. CASE \E target \in Targets : MoveUc(s, u, target)
  BY <1>7 DEF MoveUc, TypeOK, WorkflowStates
<1>. QED
  BY <1>1, <1>2, <1>3, <1>4, <1>5, <1>6, <1>7

LEMMA StatementTypes ==
  ASSUME TypeOK, NEW s \in Session, Statement(s)
  PROVE  TypeOK'
<1>. USE DevOfAssumption
<1>1. CASE ReserveInsert(s)
  <2>1. arg[s] \in UC /\ pc[s] # "idle" /\ DevOf[s] \in Developer
    BY <1>1 DEF ReserveInsert, TypeOK
  <2>2. /\ holder' \in [UC -> Developer \cup {NoDev}]
        /\ taken' \in [UC -> Nat]
    <3>1. CASE holder[arg[s]] = NoDev
      <4>1. /\ holder' = [holder EXCEPT ![arg[s]] = DevOf[s]]
            /\ taken' = [taken EXCEPT ![arg[s]] = taken[arg[s]] + 1]
        BY <1>1, <3>1 DEF ReserveInsert
      <4>. QED
        BY <4>1, <2>1 DEF TypeOK
    <3>2. CASE holder[arg[s]] # NoDev
      BY <1>1, <3>2 DEF ReserveInsert, TypeOK
    <3>. QED
      BY <3>1, <3>2
  <2>3. \E label \in {"reserve_audit", "reserve_lookup"} : Goto(s, label)
    BY <1>1 DEF ReserveInsert
  <2>. QED
    BY <1>1, <2>1, <2>2, <2>3, GotoTypes DEF ReserveInsert, TypeOK, Labels
<1>2. CASE ReserveAudit(s)
  BY <1>2, GotoTypes, RecordTypes DEF ReserveAudit, TypeOK, Labels, table, Changes
<1>3. CASE ReserveLookup(s)
  BY <1>3, GotoTypes DEF ReserveLookup, TypeOK, Labels, table
<1>4. CASE StartInsert(s)
  BY <1>4, GotoTypes DEF StartInsert, TypeOK, Labels, table
<1>5. CASE StartLookup(s)
  BY <1>5, GotoTypes DEF StartLookup, TypeOK, Labels, table
<1>6. CASE StartUpdate(s)
  <2>1. arg[s] \in UC /\ pc[s] # "idle" /\ DevOf[s] \in Developer
    BY <1>6 DEF StartUpdate, TypeOK
  <2>2. /\ holder' \in [UC -> Developer \cup {NoDev}]
        /\ ucState' \in [UC -> WorkflowStates \cup {"archived", "gone"}]
    BY <1>6, <2>1 DEF StartUpdate, TypeOK, table, WorkflowStates
  <2>3. taken' \in [UC -> Nat] /\ freed' \in [UC -> Nat]
    BY SMTT(60), <1>6, <2>1 DEF StartUpdate, TypeOK, table
  <2>4. audit' \in [UC -> [Changes -> Nat]]
    BY <1>6, <2>1, RecordTypes DEF StartUpdate, TypeOK, Changes
  <2>5. /\ started' \in [Session -> SUBSET UC]
        /\ wrote' \in [Session -> BOOLEAN]
        /\ rowLock' \in [UC -> Session \cup {NoSession}]
        /\ calls' \in Nat
    <3>1. \/ UNCHANGED started
          \/ started' = [started EXCEPT ![s] = @ \cup {arg[s]}]
      BY <1>6 DEF StartUpdate
    <3>2. wrote' = [wrote EXCEPT ![s] = FALSE] /\ UNCHANGED <<rowLock, calls>>
      BY <1>6 DEF StartUpdate
    <3>3. started' \in [Session -> SUBSET UC]
      <4>1. started \in [Session -> SUBSET UC]
        BY DEF TypeOK
      <4>. QED  BY <2>1, <3>1, <4>1
    <3>. QED  BY <3>2, <3>3 DEF TypeOK
  <2>7. UNCHANGED <<seen, stopped>>
    BY <1>6 DEF StartUpdate
  <2>6. Goto(s, "idle") /\ "idle" \in Labels
    BY <1>6 DEF StartUpdate, Labels
  <2>. QED
    BY <2>1, <2>2, <2>3, <2>4, <2>5, <2>6, <2>7, GotoTypes DEF TypeOK
<1>7. CASE ReleaseLookup(s)
  BY <1>7, GotoTypes DEF ReleaseLookup, TypeOK, Labels, table
<1>8. CASE ReleaseDelete(s)
  BY <1>8, GotoTypes DEF ReleaseDelete, TypeOK, Labels
<1>9. CASE ReleaseAudit(s)
  BY <1>9, GotoTypes, RecordTypes DEF ReleaseAudit, TypeOK, Labels, table, Changes
<1>10. CASE MoveAudit(s)
  BY <1>10, GotoTypes, RecordTypes DEF MoveAudit, TypeOK, Labels, table, Changes
<1>11. CASE CloseUpdate(s)
  BY <1>11, GotoTypes DEF CloseUpdate, TypeOK, Labels, WorkflowStates
<1>12. CASE CloseAuth(s)
  BY <1>12, GotoTypes DEF CloseAuth, TypeOK, Labels, table
<1>13. CASE PurgeLock(s)
  BY SMTT(60), <1>13, GotoTypes DEF PurgeLock, TypeOK, Labels, table
<1>14. CASE PurgeCheck(s)
  <2>1. arg[s] \in UC /\ pc[s] # "idle"
    BY <1>14 DEF PurgeCheck, TypeOK
  <2>2. /\ seen' \in [Session -> Nat]
        /\ rowLock' \in [UC -> Session \cup {NoSession}]
    BY <1>14, <2>1 DEF PurgeCheck, TypeOK
  <2>3. PICK label \in {"purge_delete", "idle", "archive"} : Goto(s, label)
    BY <1>14 DEF PurgeCheck
  <2>4. /\ pc' \in [Session -> Labels]
        /\ op' \in [Session -> Ops]
        /\ arg' \in [Session -> UC \cup {NoUC}]
        /\ \A t \in Session : pc'[t] # "idle" => arg'[t] \in UC
    BY <2>1, <2>3, GotoTypes DEF Labels
  <2>. QED  BY <1>14, <2>2, <2>4 DEF PurgeCheck, TypeOK, table
<1>15. CASE PurgeDelete(s)
  BY <1>15, GotoTypes DEF PurgeDelete, TypeOK, Labels, table
<1>16. CASE PurgeCommit(s)
  <2>1. arg[s] \in UC /\ pc[s] # "idle"
    BY <1>16 DEF PurgeCommit, TypeOK
  <2>2. /\ holder' \in [UC -> Developer \cup {NoDev}]
        /\ freed' \in [UC -> Nat]
        /\ audit' \in [UC -> [Changes -> Nat]]
    BY <1>16, <2>1, RecordTypes DEF PurgeCommit, TypeOK, Changes
  <2>3. Goto(s, "idle") /\ "idle" \in Labels
    BY <1>16 DEF PurgeCommit, Labels
  <2>. QED
    BY <1>16, <2>1, <2>2, <2>3, GotoTypes DEF PurgeCommit, TypeOK
<1>17. CASE Archive(s)
  BY <1>17, GotoTypes DEF Archive, TypeOK, Labels
<1>. QED
  BY <1>1, <1>2, <1>3, <1>4, <1>5, <1>6, <1>7, <1>8, <1>9, <1>10, <1>11,
     <1>12, <1>13, <1>14, <1>15, <1>16, <1>17 DEF Statement

LEMMA AbortTypes ==
  ASSUME TypeOK, NEW s \in Session, Abort(s)
  PROVE  TypeOK'
<1>1. arg[s] \in UC /\ seen' \in [Session -> Nat]
  BY DEF Abort, TypeOK
<1>2. stopped' \in [UC -> [Changes -> Nat]]
  BY <1>1 DEF Abort, TypeOK, Changes
<1>. QED  BY <1>1, <1>2, GotoTypes DEF Abort, TypeOK, Labels, table

LEMMA TypeCorrectStep == TypeOK /\ [Next]_vars => TypeOK'
<1>1. ASSUME TypeOK, NEW s \in Session, Call(s) \/ Statement(s) \/ Abort(s)
      PROVE  TypeOK'
  BY <1>1, CallTypes, StatementTypes, AbortTypes
<1>2. CASE UNCHANGED vars
  BY <1>2 DEF TypeOK, vars
<1>. QED
  BY <1>1, <1>2 DEF Next

\* Type correctness of the reservation layer, in every reachable state.
THEOREM TypeCorrect == Spec => []TypeOK
  BY InitTypes, TypeCorrectStep, PTL DEF Spec

-----------------------------------------------------------------------------

LEMMA InitInd == Init => IInv
  BY InitTypes, NoneAssumption
     DEF Init, IInv, StartedIsHeld, ReleaserOwns, RestarterOwns, InserterAlone,
         WroteInside, LeaverLetGo, PurgeLocked, PurgeChecked, GoneIsFree

\* The part of the type invariant that the others rest on.
Shapes ==
  /\ ucState \in [UC -> WorkflowStates \cup {"archived", "gone"}]
  /\ holder \in [UC -> Developer \cup {NoDev}]
  /\ rowLock \in [UC -> Session \cup {NoSession}]
  /\ pc \in [Session -> Labels]
  /\ arg \in [Session -> UC \cup {NoUC}]
  /\ \A s \in Session : pc[s] # "idle" => arg[s] \in UC
  /\ wrote \in [Session -> BOOLEAN]
  /\ started \in [Session -> SUBSET UC]

LEMMA StatementInd ==
  ASSUME OneSessionPerDeveloper, IInv, NEW s \in Session, Statement(s)
  PROVE  IInv'
<1>. USE DevOfAssumption, NoneAssumption
<1>0. TypeOK /\ TypeOK' /\ Shapes /\ (pc[s] # "idle" => arg[s] \in UC)
  BY StatementTypes DEF IInv, TypeOK, Shapes
<1>1. CASE ReserveInsert(s)
  <2>1. CASE holder[arg[s]] = NoDev
    <3>1. /\ pc' = [pc EXCEPT ![s] = "reserve_audit"]
          /\ arg' = arg
          /\ holder' = [holder EXCEPT ![arg[s]] = DevOf[s]]
          /\ UNCHANGED <<ucState, rowLock, wrote, started>>
          /\ ~PendingInsert(arg[s])
      BY <1>0, <1>1, <2>1 DEF ReserveInsert, Goto, KeySettled
    <3>. QED
      BY <1>0, <1>1, <2>1, <3>1
         DEF ReserveInsert, Shapes, IInv, StartedIsHeld, ReleaserOwns, RestarterOwns, InserterAlone,
           WroteInside, LeaverLetGo, PurgeLocked, PurgeChecked, GoneIsFree, PendingInsert
  <2>2. CASE holder[arg[s]] # NoDev
    <3>1. /\ pc' = [pc EXCEPT ![s] = "reserve_lookup"]
          /\ arg' = arg
          /\ UNCHANGED <<ucState, holder, rowLock, wrote, started>>
      BY <1>0, <1>1, <2>2 DEF ReserveInsert, Goto
    <3>. QED
      BY <1>0, <1>1, <2>2, <3>1
         DEF ReserveInsert, Shapes, IInv, StartedIsHeld, ReleaserOwns, RestarterOwns, InserterAlone,
           WroteInside, LeaverLetGo, PurgeLocked, PurgeChecked, GoneIsFree
  <2>. QED
    BY <1>1, <2>1, <2>2 DEF ReserveInsert
<1>2. CASE ReserveAudit(s)
  <2>1. /\ pc' = [pc EXCEPT ![s] = "idle"]
        /\ arg' = [arg EXCEPT ![s] = NoUC]
        /\ UNCHANGED <<ucState, holder, rowLock, wrote, started>>
    BY <1>0, <1>2 DEF ReserveAudit, Goto, table
  <2>. QED
    BY <1>0, <1>2, <2>1
       DEF ReserveAudit, Shapes, IInv, StartedIsHeld, ReleaserOwns, RestarterOwns, InserterAlone,
           WroteInside, LeaverLetGo, PurgeLocked, PurgeChecked, GoneIsFree
<1>3. CASE ReserveLookup(s)
  <2>1. /\ pc' = [pc EXCEPT ![s] = "idle"]
        /\ arg' = [arg EXCEPT ![s] = NoUC]
        /\ UNCHANGED <<ucState, holder, rowLock, wrote, started>>
    BY <1>0, <1>3 DEF ReserveLookup, Goto, table
  <2>. QED
    BY <1>0, <1>3, <2>1
       DEF ReserveLookup, Shapes, IInv, StartedIsHeld, ReleaserOwns, RestarterOwns, InserterAlone,
           WroteInside, LeaverLetGo, PurgeLocked, PurgeChecked, GoneIsFree
<1>4. CASE StartInsert(s)
  <2>1. CASE holder[arg[s]] = NoDev
    <3>1. /\ pc' = [pc EXCEPT ![s] = "start_update"]
          /\ arg' = arg
          /\ wrote' = [wrote EXCEPT ![s] = TRUE]
          /\ UNCHANGED <<ucState, holder, rowLock, started>>
          /\ ~PendingInsert(arg[s])
      BY <1>0, <1>4, <2>1 DEF StartInsert, Goto, table, KeySettled
    <3>. QED
      BY <1>0, <1>4, <2>1, <3>1
         DEF StartInsert, Shapes, IInv, StartedIsHeld, ReleaserOwns, RestarterOwns, InserterAlone,
           WroteInside, LeaverLetGo, PurgeLocked, PurgeChecked, GoneIsFree, PendingInsert
  <2>2. CASE holder[arg[s]] # NoDev
    <3>1. /\ pc' = [pc EXCEPT ![s] = "start_lookup"]
          /\ arg' = arg
          /\ UNCHANGED <<ucState, holder, rowLock, wrote, started>>
      BY <1>0, <1>4, <2>2 DEF StartInsert, Goto, table
    <3>. QED
      BY <1>0, <1>4, <2>2, <3>1
         DEF StartInsert, Shapes, IInv, StartedIsHeld, ReleaserOwns, RestarterOwns, InserterAlone,
           WroteInside, LeaverLetGo, PurgeLocked, PurgeChecked, GoneIsFree
  <2>. QED
    BY <1>4, <2>1, <2>2 DEF StartInsert
<1>5. CASE StartLookup(s)
  <2>1. CASE holder[arg[s]] = DevOf[s]
    <3>1. /\ pc' = [pc EXCEPT ![s] = "start_update"]
          /\ arg' = arg
          /\ UNCHANGED <<ucState, holder, rowLock, wrote, started>>
      BY <1>0, <1>5, <2>1 DEF StartLookup, Goto, table
    <3>. QED
      BY <1>0, <1>5, <2>1, <3>1
         DEF StartLookup, Shapes, IInv, StartedIsHeld, ReleaserOwns, RestarterOwns, InserterAlone,
           WroteInside, LeaverLetGo, PurgeLocked, PurgeChecked, GoneIsFree
  <2>2. CASE holder[arg[s]] # DevOf[s]
    <3>1. /\ pc' = [pc EXCEPT ![s] = "idle"]
          /\ arg' = [arg EXCEPT ![s] = NoUC]
          /\ UNCHANGED <<ucState, holder, rowLock, wrote, started>>
      BY <1>0, <1>5, <2>2 DEF StartLookup, Goto, table
    <3>. QED
      BY <1>0, <1>5, <2>2, <3>1
         DEF StartLookup, Shapes, IInv, StartedIsHeld, ReleaserOwns, RestarterOwns, InserterAlone,
           WroteInside, LeaverLetGo, PurgeLocked, PurgeChecked, GoneIsFree
  <2>. QED
    BY <1>5, <2>1, <2>2 DEF StartLookup
<1>6. CASE StartUpdate(s)
  <2>1. CASE ucState[arg[s]] = "gone"
    <3>1. /\ pc' = [pc EXCEPT ![s] = "idle"]
          /\ arg' = [arg EXCEPT ![s] = NoUC]
          /\ wrote' = [wrote EXCEPT ![s] = FALSE]
          /\ UNCHANGED <<ucState, holder, rowLock, started>>
      BY <1>0, <1>6, <2>1 DEF StartUpdate, Goto, table
    <3>. QED
      BY <1>0, <1>6, <2>1, <3>1
         DEF StartUpdate, Shapes, IInv, StartedIsHeld, ReleaserOwns, RestarterOwns, InserterAlone,
           WroteInside, LeaverLetGo, PurgeLocked, PurgeChecked, GoneIsFree
  <2>2. CASE ucState[arg[s]] # "gone" /\ wrote[s]
    <3>1. /\ pc' = [pc EXCEPT ![s] = "idle"]
          /\ arg' = [arg EXCEPT ![s] = NoUC]
          /\ wrote' = [wrote EXCEPT ![s] = FALSE]
          /\ ucState' = [ucState EXCEPT ![arg[s]] = "in_progress"]
          /\ started' = [started EXCEPT ![s] = started[s] \cup {arg[s]}]
          /\ holder' = [holder EXCEPT ![arg[s]] = DevOf[s]]
          /\ UNCHANGED <<rowLock>>
          /\ rowLock[arg[s]] = NoSession
      BY <1>0, <1>6, <2>2 DEF StartUpdate, Goto, table
    <3>. QED
      BY <1>0, <1>6, <2>2, <3>1
         DEF StartUpdate, Shapes, IInv, StartedIsHeld, ReleaserOwns, RestarterOwns, InserterAlone,
           WroteInside, LeaverLetGo, PurgeLocked, PurgeChecked, GoneIsFree,
           OneSessionPerDeveloper, PurgeableStates
  <2>3. CASE ucState[arg[s]] # "gone" /\ ~wrote[s]
    <3>1. /\ pc' = [pc EXCEPT ![s] = "idle"]
          /\ arg' = [arg EXCEPT ![s] = NoUC]
          /\ wrote' = [wrote EXCEPT ![s] = FALSE]
          /\ ucState' = [ucState EXCEPT ![arg[s]] = "in_progress"]
          /\ started' = [started EXCEPT ![s] = started[s] \cup {arg[s]}]
          /\ UNCHANGED <<holder, rowLock>>
          /\ rowLock[arg[s]] = NoSession
      BY <1>0, <1>6, <2>3 DEF StartUpdate, Goto, table
    <3>. QED
      BY <1>0, <1>6, <2>3, <3>1
         DEF StartUpdate, Shapes, IInv, StartedIsHeld, ReleaserOwns, RestarterOwns, InserterAlone,
           WroteInside, LeaverLetGo, PurgeLocked, PurgeChecked, GoneIsFree,
           OneSessionPerDeveloper, PurgeableStates
  <2>. QED
    BY <1>6, <2>1, <2>2, <2>3 DEF StartUpdate
<1>7. CASE ReleaseLookup(s)
  <2>1. CASE holder[arg[s]] = DevOf[s]
    <3>1. /\ pc' = [pc EXCEPT ![s] = "release_delete"]
          /\ arg' = arg
          /\ UNCHANGED <<ucState, holder, rowLock, wrote, started>>
      BY <1>0, <1>7, <2>1 DEF ReleaseLookup, Goto, table
    <3>. QED
      BY <1>0, <1>7, <2>1, <3>1
         DEF ReleaseLookup, Shapes, IInv, StartedIsHeld, ReleaserOwns, RestarterOwns, InserterAlone,
           WroteInside, LeaverLetGo, PurgeLocked, PurgeChecked, GoneIsFree
  <2>2. CASE holder[arg[s]] # DevOf[s]
    <3>1. /\ pc' = [pc EXCEPT ![s] = "idle"]
          /\ arg' = [arg EXCEPT ![s] = NoUC]
          /\ UNCHANGED <<ucState, holder, rowLock, wrote, started>>
      BY <1>0, <1>7, <2>2 DEF ReleaseLookup, Goto, table
    <3>. QED
      BY <1>0, <1>7, <2>2, <3>1
         DEF ReleaseLookup, Shapes, IInv, StartedIsHeld, ReleaserOwns, RestarterOwns, InserterAlone,
           WroteInside, LeaverLetGo, PurgeLocked, PurgeChecked, GoneIsFree
  <2>. QED
    BY <1>7, <2>1, <2>2 DEF ReleaseLookup
<1>8. CASE ReleaseDelete(s)
  <2>1. /\ pc' = [pc EXCEPT ![s] = "release_audit"]
        /\ arg' = arg
        /\ holder' = [holder EXCEPT ![arg[s]] = NoDev]
        /\ UNCHANGED <<ucState, rowLock, wrote, started>>
    BY <1>0, <1>8 DEF ReleaseDelete, Goto, table
  <2>. QED
    BY <1>0, <1>8, <2>1
       DEF ReleaseDelete, Shapes, IInv, StartedIsHeld, ReleaserOwns, RestarterOwns, InserterAlone,
           WroteInside, LeaverLetGo, PurgeLocked, PurgeChecked, GoneIsFree,
           OneSessionPerDeveloper
<1>9. CASE ReleaseAudit(s)
  <2>1. CASE op[s] = "move_uc"
    <3>1. /\ pc' = [pc EXCEPT ![s] = "move_audit"]
          /\ arg' = arg
          /\ UNCHANGED <<ucState, holder, rowLock, wrote, started>>
      BY <1>0, <1>9, <2>1 DEF ReleaseAudit, Goto, table
    <3>. QED
      BY <1>0, <1>9, <2>1, <3>1
         DEF ReleaseAudit, Shapes, IInv, StartedIsHeld, ReleaserOwns, RestarterOwns, InserterAlone,
           WroteInside, LeaverLetGo, PurgeLocked, PurgeChecked, GoneIsFree
  <2>2. CASE op[s] # "move_uc"
    <3>1. /\ pc' = [pc EXCEPT ![s] = "idle"]
          /\ arg' = [arg EXCEPT ![s] = NoUC]
          /\ UNCHANGED <<ucState, holder, rowLock, wrote, started>>
      BY <1>0, <1>9, <2>2 DEF ReleaseAudit, Goto, table
    <3>. QED
      BY <1>0, <1>9, <2>2, <3>1
         DEF ReleaseAudit, Shapes, IInv, StartedIsHeld, ReleaserOwns, RestarterOwns, InserterAlone,
           WroteInside, LeaverLetGo, PurgeLocked, PurgeChecked, GoneIsFree
  <2>. QED
    BY <1>9, <2>1, <2>2 DEF ReleaseAudit
<1>10. CASE MoveAudit(s)
  <2>1. /\ pc' = [pc EXCEPT ![s] = "idle"]
        /\ arg' = [arg EXCEPT ![s] = NoUC]
        /\ UNCHANGED <<ucState, holder, rowLock, wrote, started>>
    BY <1>0, <1>10 DEF MoveAudit, Goto, table
  <2>. QED
    BY <1>0, <1>10, <2>1
       DEF MoveAudit, Shapes, IInv, StartedIsHeld, ReleaserOwns, RestarterOwns, InserterAlone,
           WroteInside, LeaverLetGo, PurgeLocked, PurgeChecked, GoneIsFree
<1>11. CASE CloseUpdate(s)
  <2>1. CASE ucState[arg[s]] = "gone"
    <3>1. /\ pc' = [pc EXCEPT ![s] = "idle"]
          /\ arg' = [arg EXCEPT ![s] = NoUC]
          /\ UNCHANGED <<ucState, holder, rowLock, wrote, started>>
      BY <1>0, <1>11, <2>1 DEF CloseUpdate, Goto, table
    <3>. QED
      BY <1>0, <1>11, <2>1, <3>1
         DEF CloseUpdate, Shapes, IInv, StartedIsHeld, ReleaserOwns, RestarterOwns, InserterAlone,
           WroteInside, LeaverLetGo, PurgeLocked, PurgeChecked, GoneIsFree
  <2>2. CASE ucState[arg[s]] # "gone"
    <3>1. /\ pc' = [pc EXCEPT ![s] = "close_auth"]
          /\ arg' = arg
          /\ ucState' = [ucState EXCEPT ![arg[s]] = "done"]
          /\ UNCHANGED <<holder, rowLock, wrote, started>>
          /\ rowLock[arg[s]] = NoSession
      BY <1>0, <1>11, <2>2 DEF CloseUpdate, Goto, table
    <3>. QED
      BY <1>0, <1>11, <2>2, <3>1
         DEF CloseUpdate, Shapes, IInv, StartedIsHeld, ReleaserOwns, RestarterOwns, InserterAlone,
           WroteInside, LeaverLetGo, PurgeLocked, PurgeChecked, GoneIsFree, PurgeableStates
  <2>. QED
    BY <1>11, <2>1, <2>2 DEF CloseUpdate
<1>12. CASE CloseAuth(s)
  <2>1. CASE Goto(s, "release_lookup")
    <3>1. /\ pc' = [pc EXCEPT ![s] = "release_lookup"]
          /\ arg' = arg
          /\ UNCHANGED <<ucState, holder, rowLock, wrote, started>>
      BY <1>0, <1>12, <2>1 DEF CloseAuth, Goto, table
    <3>. QED
      BY <1>0, <1>12, <2>1, <3>1
         DEF CloseAuth, Shapes, IInv, StartedIsHeld, ReleaserOwns, RestarterOwns, InserterAlone,
           WroteInside, LeaverLetGo, PurgeLocked, PurgeChecked, GoneIsFree
  <2>2. CASE Goto(s, "idle")
    <3>1. /\ pc' = [pc EXCEPT ![s] = "idle"]
          /\ arg' = [arg EXCEPT ![s] = NoUC]
          /\ UNCHANGED <<ucState, holder, rowLock, wrote, started>>
      BY <1>0, <1>12, <2>2 DEF CloseAuth, Goto, table
    <3>. QED
      BY <1>0, <1>12, <2>2, <3>1
         DEF CloseAuth, Shapes, IInv, StartedIsHeld, ReleaserOwns, RestarterOwns, InserterAlone,
           WroteInside, LeaverLetGo, PurgeLocked, PurgeChecked, GoneIsFree
  <2>. QED
    BY <1>12, <2>1, <2>2 DEF CloseAuth
<1>13. CASE PurgeLock(s)
  <2>1. CASE ucState[arg[s]] = "gone"
    <3>1. /\ pc' = [pc EXCEPT ![s] = "idle"]
          /\ arg' = [arg EXCEPT ![s] = NoUC]
          /\ UNCHANGED <<ucState, holder, rowLock, wrote, started>>
      BY <1>0, <1>13, <2>1 DEF PurgeLock, Goto, table
    <3>. QED
      BY <1>0, <1>13, <2>1, <3>1
         DEF PurgeLock, Shapes, IInv, StartedIsHeld, ReleaserOwns, RestarterOwns, InserterAlone,
           WroteInside, LeaverLetGo, PurgeLocked, PurgeChecked, GoneIsFree
  <2>2. CASE ucState[arg[s]] # "gone"
    <3>1. /\ pc' = [pc EXCEPT ![s] = "purge_check"]
          /\ arg' = arg
          /\ rowLock' = [rowLock EXCEPT ![arg[s]] = s]
          /\ UNCHANGED <<ucState, holder, wrote, started>>
          /\ rowLock[arg[s]] = NoSession
      BY <1>0, <1>13, <2>2 DEF PurgeLock, Goto, table
    <3>. QED
      BY <1>0, <1>13, <2>2, <3>1
         DEF PurgeLock, Shapes, IInv, StartedIsHeld, ReleaserOwns, RestarterOwns, InserterAlone,
           WroteInside, LeaverLetGo, PurgeLocked, PurgeChecked, GoneIsFree
  <2>. QED
    BY <1>13, <2>1, <2>2 DEF PurgeLock
<1>14. CASE PurgeCheck(s)
  <2>1. CASE ucState[arg[s]] \in PurgeableStates /\ holder[arg[s]] = NoDev
    <3>1. /\ pc' = [pc EXCEPT ![s] = "purge_delete"]
          /\ arg' = arg
          /\ UNCHANGED <<ucState, holder, rowLock, wrote, started>>
      BY <1>0, <1>14, <2>1 DEF PurgeCheck, Goto, table
    <3>. QED
      BY <1>0, <1>14, <2>1, <3>1
         DEF PurgeCheck, Shapes, IInv, StartedIsHeld, ReleaserOwns, RestarterOwns, InserterAlone,
           WroteInside, LeaverLetGo, PurgeLocked, PurgeChecked, GoneIsFree, PurgeableStates
  <2>2. CASE ~(ucState[arg[s]] \in PurgeableStates /\ holder[arg[s]] = NoDev) /\ op[s] = "delete_archived_uc"
    <3>1. /\ pc' = [pc EXCEPT ![s] = "idle"]
          /\ arg' = [arg EXCEPT ![s] = NoUC]
          /\ rowLock' = [rowLock EXCEPT ![arg[s]] = NoSession]
          /\ UNCHANGED <<ucState, holder, wrote, started>>
      BY <1>0, <1>14, <2>2 DEF PurgeCheck, Goto, table
    <3>. QED
      BY <1>0, <1>14, <2>2, <3>1
         DEF PurgeCheck, Shapes, IInv, StartedIsHeld, ReleaserOwns, RestarterOwns, InserterAlone,
           WroteInside, LeaverLetGo, PurgeLocked, PurgeChecked, GoneIsFree
  <2>3. CASE ~(ucState[arg[s]] \in PurgeableStates /\ holder[arg[s]] = NoDev) /\ op[s] # "delete_archived_uc"
    <3>1. /\ pc' = [pc EXCEPT ![s] = "archive"]
          /\ arg' = arg
          /\ rowLock' = [rowLock EXCEPT ![arg[s]] = NoSession]
          /\ UNCHANGED <<ucState, holder, wrote, started>>
      BY <1>0, <1>14, <2>3 DEF PurgeCheck, Goto, table
    <3>. QED
      BY <1>0, <1>14, <2>3, <3>1
         DEF PurgeCheck, Shapes, IInv, StartedIsHeld, ReleaserOwns, RestarterOwns, InserterAlone,
           WroteInside, LeaverLetGo, PurgeLocked, PurgeChecked, GoneIsFree
  <2>. QED
    BY <1>14, <2>1, <2>2, <2>3 DEF PurgeCheck
<1>15. CASE PurgeDelete(s)
  <2>1. /\ pc' = [pc EXCEPT ![s] = "purge_commit"]
        /\ arg' = arg
        /\ wrote' = [wrote EXCEPT ![s] = holder[arg[s]] # NoDev]
        /\ UNCHANGED <<ucState, holder, rowLock, started>>
    BY <1>0, <1>15 DEF PurgeDelete, Goto, table
  <2>. QED
    BY <1>0, <1>15, <2>1
       DEF PurgeDelete, Shapes, IInv, StartedIsHeld, ReleaserOwns, RestarterOwns, InserterAlone,
           WroteInside, LeaverLetGo, PurgeLocked, PurgeChecked, GoneIsFree
<1>16. CASE PurgeCommit(s)
  <2>1. CASE wrote[s]
    <3>1. /\ pc' = [pc EXCEPT ![s] = "idle"]
          /\ arg' = [arg EXCEPT ![s] = NoUC]
          /\ wrote' = [wrote EXCEPT ![s] = FALSE]
          /\ ucState' = [ucState EXCEPT ![arg[s]] = "gone"]
          /\ rowLock' = [rowLock EXCEPT ![arg[s]] = NoSession]
          /\ holder' = [holder EXCEPT ![arg[s]] = NoDev]
          /\ UNCHANGED <<started>>
      BY <1>0, <1>16, <2>1 DEF PurgeCommit, Goto, table
    <3>. QED
      BY <1>0, <1>16, <2>1, <3>1
         DEF PurgeCommit, Shapes, IInv, StartedIsHeld, ReleaserOwns, RestarterOwns, InserterAlone,
           WroteInside, LeaverLetGo, PurgeLocked, PurgeChecked, GoneIsFree
  <2>2. CASE ~wrote[s]
    <3>1. /\ pc' = [pc EXCEPT ![s] = "idle"]
          /\ arg' = [arg EXCEPT ![s] = NoUC]
          /\ wrote' = [wrote EXCEPT ![s] = FALSE]
          /\ ucState' = [ucState EXCEPT ![arg[s]] = "gone"]
          /\ rowLock' = [rowLock EXCEPT ![arg[s]] = NoSession]
          /\ UNCHANGED <<holder, started>>
      BY <1>0, <1>16, <2>2 DEF PurgeCommit, Goto, table
    <3>. QED
      BY <1>0, <1>16, <2>2, <3>1
         DEF PurgeCommit, Shapes, IInv, StartedIsHeld, ReleaserOwns, RestarterOwns, InserterAlone,
           WroteInside, LeaverLetGo, PurgeLocked, PurgeChecked, GoneIsFree
  <2>. QED
    BY <1>16, <2>1, <2>2 DEF PurgeCommit
<1>17. CASE Archive(s)
  <2>1. CASE ucState[arg[s]] = "gone"
    <3>1. /\ pc' = [pc EXCEPT ![s] = "idle"]
          /\ arg' = [arg EXCEPT ![s] = NoUC]
          /\ UNCHANGED <<ucState, holder, rowLock, wrote, started>>
      BY <1>0, <1>17, <2>1 DEF Archive, Goto, table
    <3>. QED
      BY <1>0, <1>17, <2>1, <3>1
         DEF Archive, Shapes, IInv, StartedIsHeld, ReleaserOwns, RestarterOwns, InserterAlone,
           WroteInside, LeaverLetGo, PurgeLocked, PurgeChecked, GoneIsFree
  <2>2. CASE ucState[arg[s]] # "gone"
    <3>1. /\ pc' = [pc EXCEPT ![s] = "idle"]
          /\ arg' = [arg EXCEPT ![s] = NoUC]
          /\ ucState' = [ucState EXCEPT ![arg[s]] = "archived"]
          /\ UNCHANGED <<holder, rowLock, wrote, started>>
          /\ rowLock[arg[s]] = NoSession
      BY <1>0, <1>17, <2>2 DEF Archive, Goto, table
    <3>. QED
      BY <1>0, <1>17, <2>2, <3>1
         DEF Archive, Shapes, IInv, StartedIsHeld, ReleaserOwns, RestarterOwns, InserterAlone,
           WroteInside, LeaverLetGo, PurgeLocked, PurgeChecked, GoneIsFree
  <2>. QED
    BY <1>17, <2>1, <2>2 DEF Archive
<1>. QED
  BY <1>1, <1>2, <1>3, <1>4, <1>5, <1>6, <1>7, <1>8, <1>9, <1>10, <1>11,
     <1>12, <1>13, <1>14, <1>15, <1>16, <1>17 DEF Statement

LEMMA CallInd ==
  ASSUME IInv, NEW s \in Session, Call(s)
  PROVE  IInv'
<1>. USE DevOfAssumption, NoneAssumption
<1>0. TypeOK /\ TypeOK'
  BY CallTypes DEF IInv
<1>1. PICK u \in UC :
        \/ CallReserve(s, u) \/ CallRelease(s, u) \/ CallStart(s, u)
        \/ CallComplete(s, u) \/ CallMoveDone(s, u) \/ CallDelete(s, u)
        \/ \E target \in Targets : MoveUc(s, u, target)
  BY DEF Call
<1>2. ASSUME NEW label \in {"reserve_insert", "start_insert", "purge_lock",
                            "archive"},
             NEW what, Begin(s, u, what, label), UNCHANGED started
      PROVE  IInv'
  BY <1>0, <1>2
     DEF Begin, table, TypeOK, IInv, StartedIsHeld, ReleaserOwns, RestarterOwns, InserterAlone,
         WroteInside, LeaverLetGo, PurgeLocked, PurgeChecked, GoneIsFree
<1>3. ASSUME NEW label \in {"release_lookup", "close_update"}, NEW what,
             Begin(s, u, what, label), LetGo(s, u)
      PROVE  IInv'
  BY <1>0, <1>3
     DEF Begin, LetGo, table, TypeOK, IInv, StartedIsHeld, ReleaserOwns, RestarterOwns, InserterAlone,
         WroteInside, LeaverLetGo, PurgeLocked, PurgeChecked, GoneIsFree
<1>4. CASE \E target \in Targets : MoveUc(s, u, target)
  <2>1. PICK target \in Targets : MoveUc(s, u, target)
    BY <1>4
  <2>2. target # "gone"
    BY TargetsAssumption DEF WorkflowStates
  <2>. QED
    BY <1>0, <2>1, <2>2
       DEF MoveUc, PurgeableStates, TypeOK, IInv, StartedIsHeld, ReleaserOwns, RestarterOwns, InserterAlone,
         WroteInside, LeaverLetGo, PurgeLocked, PurgeChecked, GoneIsFree
<1>. QED
  BY <1>1, <1>2, <1>3, <1>4
     DEF CallReserve, CallRelease, CallStart, CallComplete, CallMoveDone,
         CallDelete

LEMMA AbortInd ==
  ASSUME IInv, NEW s \in Session, Abort(s)
  PROVE  IInv'
<1>0. TypeOK /\ TypeOK'
  BY AbortTypes DEF IInv
<1>. QED
  BY <1>0, NoneAssumption
     DEF Abort, Goto, table, TypeOK, IInv, StartedIsHeld, ReleaserOwns, RestarterOwns, InserterAlone,
         WroteInside, LeaverLetGo, PurgeLocked, PurgeChecked, GoneIsFree

LEMMA StutterInd == IInv /\ UNCHANGED vars => IInv'
  BY DEF vars, TypeOK, IInv, StartedIsHeld, ReleaserOwns, RestarterOwns, InserterAlone,
         WroteInside, LeaverLetGo, PurgeLocked, PurgeChecked, GoneIsFree

\* The inductive invariant holds in every reachable state.
THEOREM Inductive == ASSUME OneSessionPerDeveloper PROVE Spec => []IInv
<1>1. Init => IInv
  BY InitInd
<1>2. IInv /\ [Next]_vars => IInv'
  BY OneSessionPerDeveloper, CallInd, StatementInd, AbortInd, StutterInd
     DEF Next
<1>. QED
  BY <1>1, <1>2, PTL DEF Spec

\* What start_uc told a session stays true in uc_reservations until that
\* session lets go.
THEOREM StartedStaysHeld ==
  ASSUME OneSessionPerDeveloper PROVE Spec => []StartedIsHeld
<1>1. IInv => StartedIsHeld
  BY DEF IInv
<1>. QED
  BY <1>1, Inductive, PTL

\* Two developers are never both told that a UC is theirs.
THEOREM Exclusion == ASSUME OneSessionPerDeveloper PROVE Spec => []MutualExclusion
<1>1. IInv => MutualExclusion
  BY DEF IInv, StartedIsHeld, MutualExclusion
<1>. QED
  BY <1>1, Inductive, PTL

-----------------------------------------------------------------------------
(* Action properties and the refinement, from the same invariant.          *)

\* Only a committing start_uc makes a session count on a UC, and it commits
\* the reservation and the state together.
LEMMA OnlyStartGrants ==
  ASSUME IInv, NEW s \in Session, NEW u \in UC, [Next]_vars,
         u \in started'[s] \ started[s]
  PROVE  /\ StartUpdate(s) /\ arg[s] = u
         /\ started' = [started EXCEPT ![s] = @ \cup {u}]
         /\ holder'[u] = DevOf[s] /\ ucState'[u] = "in_progress"
         /\ wrote[s] => holder[u] = NoDev
         /\ ~wrote[s] => holder[u] = DevOf[s]
<1>1. PICK r \in Session : Call(r) \/ Statement(r) \/ Abort(r)
  BY DEF Next, vars
<1>2. StartUpdate(r) /\ started' # started
  <2>1. ~Call(r)
    BY SMTT(60) DEF Call, CallReserve, CallRelease, CallStart, CallComplete,
           CallMoveDone, CallDelete, MoveUc, LetGo, IInv, TypeOK
  <2>2. ~Abort(r)
    BY DEF Abort
  <2>. QED
    BY <1>1, <2>1, <2>2
       DEF Statement, ReserveInsert, ReserveAudit, ReserveLookup, StartInsert,
           StartLookup, ReleaseLookup, ReleaseDelete, ReleaseAudit, MoveAudit,
           CloseUpdate, CloseAuth, PurgeLock, PurgeCheck, PurgeDelete,
           PurgeCommit, Archive
<1>3. /\ ucState[arg[r]] # "gone" /\ arg[r] \in UC /\ pc[r] = "start_update"
      /\ started' = [started EXCEPT ![r] = @ \cup {arg[r]}]
      /\ ucState' = [ucState EXCEPT ![arg[r]] = "in_progress"]
      /\ wrote[r] => holder' = [holder EXCEPT ![arg[r]] = DevOf[r]]
      /\ ~wrote[r] => holder' = holder
  BY <1>2 DEF StartUpdate, table, IInv, TypeOK
<1>4. r = s /\ arg[r] = u
  BY <1>3 DEF IInv, TypeOK
<1>5. /\ wrote[s] => holder[u] = NoDev
      /\ ~wrote[s] => holder[u] = DevOf[s]
  BY <1>3, <1>4 DEF IInv, InserterAlone, RestarterOwns
<1>. QED
  BY <1>2, <1>3, <1>4, <1>5 DEF IInv, TypeOK

\* start_uc leaves no orphan: reservation and state commit together.
THEOREM StartIsAtomic ==
  ASSUME OneSessionPerDeveloper PROVE Spec => StartCommitsBoth
<1>1. IInv /\ [Next]_vars =>
        [\A s \in Session :
           pc[s] = "start_update" /\ arg[s] \in started'[s] \ started[s] =>
             /\ holder'[arg[s]] = DevOf[s]
             /\ ucState'[arg[s]] = "in_progress"]_vars
  BY OnlyStartGrants DEF IInv, TypeOK
<1>. QED
  BY <1>1, Inductive, PTL DEF Spec, StartCommitsBoth

\* A purge past its check has read that nobody has the UC: who has it now has
\* taken it since.
PurgeSaw ==
  \A s \in Session : pc[s] \in {"purge_delete", "purge_commit"} =>
    /\ seen[s] <= taken[arg[s]]
    /\ holder[arg[s]] # NoDev => taken[arg[s]] > seen[s]

\* A reservation that appears has been counted.
LEMMA RowsAreCounted ==
  ASSUME TypeOK, [Next]_vars, NEW u \in UC
  PROVE  /\ taken'[u] >= taken[u]
         /\ \/ holder'[u] = NoDev
            \/ holder'[u] = holder[u]
            \/ taken'[u] > taken[u]
<1>1. CASE UNCHANGED table
  BY <1>1 DEF table, TypeOK
<1>2. ASSUME NEW s \in Session,
             \/ ReserveInsert(s) \/ StartUpdate(s) \/ ReleaseDelete(s)
             \/ CloseUpdate(s) \/ PurgeCommit(s) \/ Archive(s)
      PROVE  /\ taken'[u] >= taken[u]
             /\ \/ holder'[u] = NoDev
                \/ holder'[u] = holder[u]
                \/ taken'[u] > taken[u]
  BY <1>2 DEF ReserveInsert, StartUpdate, ReleaseDelete, CloseUpdate, PurgeCommit,
       Archive, table, TypeOK
<1>3. ASSUME NEW s \in Session, Call(s)  PROVE UNCHANGED <<holder, taken>>
  BY <1>3 DEF Call, CallReserve, CallRelease, CallStart, CallComplete,
       CallMoveDone, CallDelete, Begin, MoveUc, table
<1>4. ASSUME NEW s \in Session, Abort(s)  PROVE UNCHANGED table
  BY <1>4 DEF Abort
<1>5. ASSUME NEW s \in Session, Statement(s)
      PROVE  \/ UNCHANGED table
             \/ ReserveInsert(s) \/ StartUpdate(s) \/ ReleaseDelete(s)
             \/ CloseUpdate(s) \/ PurgeCommit(s) \/ Archive(s)
  BY <1>5 DEF Statement, ReserveAudit, ReserveLookup, StartInsert, StartLookup,
       ReleaseLookup, ReleaseAudit, MoveAudit, CloseAuth, PurgeLock, PurgeCheck,
       PurgeDelete
<1>6. CASE UNCHANGED vars
  BY <1>1, <1>6 DEF vars, table
<1>7. CASE \E s \in Session : Call(s)
  BY <1>3, <1>7 DEF TypeOK
<1>. QED  BY <1>1, <1>2, <1>4, <1>5, <1>6, <1>7 DEF Next

LEMMA PurgeSawKept == TypeOK /\ PurgeSaw /\ [Next]_vars => PurgeSaw'
<1>. SUFFICES ASSUME TypeOK, PurgeSaw, [Next]_vars, NEW t \in Session,
                     pc'[t] \in {"purge_delete", "purge_commit"}
              PROVE  /\ seen'[t] <= taken'[arg'[t]]
                     /\ holder'[arg'[t]] # NoDev => taken'[arg'[t]] > seen'[t]
  BY DEF PurgeSaw
<1>1. CASE /\ pc[t] \in {"purge_delete", "purge_commit"}
           /\ arg'[t] = arg[t] /\ seen'[t] = seen[t]
  <2>1. /\ arg[t] \in UC /\ seen[t] \in Nat
        /\ taken[arg[t]] \in Nat /\ taken'[arg[t]] \in Nat
    BY <1>1, TypeCorrectStep DEF TypeOK
  <2>. QED  BY <1>1, <2>1, RowsAreCounted DEF PurgeSaw
<1>2. CASE /\ holder'[arg'[t]] = NoDev
           /\ seen'[t] = taken'[arg'[t]] /\ taken'[arg'[t]] \in Nat
  BY <1>2
<1>3. ASSUME NEW s \in Session, Statement(s), s = t
      PROVE  \/ PurgeCheck(s) \/ PurgeDelete(s)
  BY <1>3 DEF Statement, ReserveInsert, ReserveAudit, ReserveLookup, StartInsert,
       StartLookup, StartUpdate, ReleaseLookup, ReleaseDelete, ReleaseAudit,
       MoveAudit, CloseUpdate, CloseAuth, PurgeLock, PurgeCommit, Archive, Goto,
       TypeOK
<1>4. CASE PurgeCheck(t)
  BY <1>2, <1>4 DEF PurgeCheck, Goto, TypeOK, table
<1>5. CASE PurgeDelete(t)
  BY <1>1, <1>5 DEF PurgeDelete, Goto, TypeOK
<1>6. ASSUME NEW s \in Session, s # t, Call(s) \/ Statement(s) \/ Abort(s)
      PROVE  pc'[t] = pc[t] /\ arg'[t] = arg[t] /\ seen'[t] = seen[t]
  <2>1. CASE Call(s)
    BY <1>6, <2>1 DEF Call, CallReserve, CallRelease, CallStart, CallComplete,
       CallMoveDone, CallDelete, Begin, MoveUc, TypeOK
  <2>2. CASE Abort(s)
    BY <1>6, <2>2 DEF Abort, Goto, TypeOK
  <2>3. CASE Statement(s)
    <3>1. \E label \in Labels : Goto(s, label)
      BY <2>3 DEF Statement, ReserveInsert, ReserveAudit, ReserveLookup,
         StartInsert, StartLookup, StartUpdate, ReleaseLookup, ReleaseDelete,
         ReleaseAudit, MoveAudit, CloseUpdate, CloseAuth, PurgeLock, PurgeCheck,
         PurgeDelete, PurgeCommit, Archive, Labels
    <3>2. pc'[t] = pc[t] /\ arg'[t] = arg[t]
      BY <1>6, <3>1 DEF Goto, TypeOK
    <3>3. \/ UNCHANGED seen
          \/ \E n : seen' = [seen EXCEPT ![s] = n]
      BY <2>3 DEF Statement, ReserveInsert, ReserveAudit, ReserveLookup,
         StartInsert, StartLookup, StartUpdate, ReleaseLookup, ReleaseDelete,
         ReleaseAudit, MoveAudit, CloseUpdate, CloseAuth, PurgeLock, PurgeCheck,
         PurgeDelete, PurgeCommit, Archive
    <3>. QED  BY <1>6, <3>2, <3>3 DEF TypeOK
  <2>. QED  BY <1>6, <2>1, <2>2, <2>3
<1>7. ~Abort(t)
  BY DEF Abort, Goto, TypeOK
<1>8. ASSUME Call(t)  PROVE FALSE
  BY <1>8 DEF Call, CallReserve, CallRelease, CallStart, CallComplete,
       CallMoveDone, CallDelete, Begin, MoveUc, TypeOK
<1>9. CASE UNCHANGED vars
  BY <1>1, <1>9 DEF vars
<1>. QED  BY <1>1, <1>3, <1>4, <1>5, <1>6, <1>7, <1>8, <1>9 DEF Next

\* A purge takes a UC in backlog or archived that no session has started and
\* still counts on, with no reservation but one made after the purge looked.
THEOREM PurgeTakesTheLateAlone ==
  ASSUME OneSessionPerDeveloper PROVE Spec => PurgeLosesOnlyTheLate
<1>1. ASSUME IInv, PurgeSaw, [Next]_vars, NEW s \in Session,
             pc[s] = "purge_commit", ucState[arg[s]] # "gone",
             ucState'[arg[s]] = "gone"
      PROVE  /\ ucState[arg[s]] \in PurgeableStates
             /\ \A t \in Session : arg[s] \notin started'[t]
             /\ holder[arg[s]] # NoDev => taken[arg[s]] > seen[s]
  <2>1. PICK r \in Session : Call(r) \/ Statement(r) \/ Abort(r)
    BY <1>1 DEF Next, vars
  <2>2. PurgeCommit(r)
    <3>0. arg[s] \in UC
      BY <1>1 DEF IInv, TypeOK
    <3>1. ~Call(r)
      BY <1>1, <3>0, TargetsAssumption
         DEF Call, CallReserve, CallRelease, CallStart, CallComplete, Begin,
             CallMoveDone, CallDelete, MoveUc, table, IInv, TypeOK,
             WorkflowStates
    <3>2. ~Abort(r)
      BY <1>1 DEF Abort, table
    <3>3. Statement(r)
      BY <2>1, <3>1, <3>2
    <3>4. \/ StartUpdate(r) \/ CloseUpdate(r) \/ PurgeCommit(r) \/ Archive(r)
          \/ ucState' = ucState
      BY <3>3
         DEF Statement, ReserveInsert, ReserveAudit, ReserveLookup,
             StartInsert, StartLookup, ReleaseLookup, ReleaseDelete,
             ReleaseAudit, MoveAudit, CloseAuth, PurgeLock, PurgeCheck,
             PurgeDelete, table
    <3>5. ~StartUpdate(r) /\ ~CloseUpdate(r) /\ ~Archive(r)
      BY <1>1, <3>0 DEF StartUpdate, CloseUpdate, Archive, table, IInv, TypeOK
    <3>. QED
      BY <1>1, <3>4, <3>5
  <2>3. started' = started
    BY <2>2 DEF PurgeCommit
  <2>. QED
    BY <1>1, <2>3 DEF IInv, PurgeChecked, PurgeSaw
<1>2. IInv /\ PurgeSaw /\ [Next]_vars =>
        [\A s \in Session : LET u == arg[s] IN
           pc[s] = "purge_commit" /\ ucState[u] # "gone" /\ ucState'[u] = "gone" =>
             /\ ucState[u] \in PurgeableStates
             /\ \A t \in Session : u \notin started'[t]
             /\ holder[u] # NoDev => taken[u] > seen[s]]_vars
  BY <1>1
<1>3. Init => PurgeSaw
  BY DEF Init, PurgeSaw
<1>4. IInv => TypeOK
  BY DEF IInv
<1>. QED
  BY <1>2, <1>3, <1>4, PurgeSawKept, Inductive, PTL DEF Spec, PurgeLosesOnlyTheLate

\* The refinement mapping, named, and what each step does to it.
Working == [u \in UC |-> {s \in Session : u \in started[s]}]

\* A session that lets go was the only one working on the UC.
LEMMA LetGoLeaves ==
  ASSUME OneSessionPerDeveloper, IInv, NEW s \in Session, NEW u \in UC,
         LetGo(s, u)
  PROVE  Lock!Leave(s, u) \/ Working' = Working
<1>1. started' = [started EXCEPT ![s] = @ \ {u}] /\ started \in [Session -> SUBSET UC]
  BY DEF LetGo, IInv, TypeOK
<1>2. CASE u \in started[s]
  <2>1. Working[u] = {s}
    BY <1>2 DEF Working, IInv, StartedIsHeld, OneSessionPerDeveloper
  <2>2. Working' = [Working EXCEPT ![u] = {}]
    BY <1>1, <2>1 DEF Working
  <2>. QED
    BY <2>1, <2>2 DEF Lock!Leave, Working
<1>3. CASE u \notin started[s]
  <2>1. started' = started
    BY <1>1, <1>3
  <2>. QED
    BY <2>1 DEF Working
<1>. QED
  BY <1>2, <1>3

\* A session that is told it may start takes a free lock or has it already.
LEMMA GrantTakes ==
  ASSUME OneSessionPerDeveloper, IInv, NEW s \in Session, NEW u \in UC,
         [Next]_vars, u \in started'[s] \ started[s]
  PROVE  Lock!Take(s, u)
<1>1. /\ started' = [started EXCEPT ![s] = @ \cup {u}]
      /\ wrote[s] => holder[u] = NoDev
      /\ ~wrote[s] => holder[u] = DevOf[s]
  BY OnlyStartGrants
<1>2. Working[u] = {}
  <2>1. SUFFICES ASSUME NEW t \in Session, u \in started[t] PROVE FALSE
    BY DEF Working
  <2>2. holder[u] = DevOf[t] /\ DevOf[t] # NoDev
    BY <2>1, DevOfAssumption, NoneAssumption DEF IInv, StartedIsHeld
  <2>3. DevOf[s] = DevOf[t]
    BY <1>1, <2>2 DEF IInv, TypeOK
  <2>. QED
    BY <2>1, <2>3 DEF OneSessionPerDeveloper
<1>3. Working' = [Working EXCEPT ![u] = {s}]
  <2>1. \A t \in Session, v \in UC :
          t \in Working'[v] <=> t \in Working[v] \/ (t = s /\ v = u)
    BY <1>1 DEF Working, IInv, TypeOK
  <2>2. Working'[u] = {s} /\ \A v \in UC \ {u} : Working'[v] = Working[v]
    BY <2>1, <1>2 DEF Working
  <2>. QED
    BY <2>2 DEF Working
<1>. QED
  BY <1>2, <1>3 DEF Lock!Take, Working

\* Every step of the reservation layer is a step of the lock, or none.
LEMMA StepRefines ==
  ASSUME OneSessionPerDeveloper, IInv, [Next]_vars
  PROVE  [Lock!Next]_Working
<1>1. CASE UNCHANGED started
  BY <1>1 DEF Working
<1>2. CASE \E s \in Session, u \in UC : LetGo(s, u)
  BY <1>2, LetGoLeaves DEF Lock!Next
<1>3. CASE \E s \in Session, u \in UC : u \in started'[s] \ started[s]
  BY <1>3, GrantTakes DEF Lock!Next
<1>4. \/ UNCHANGED started
      \/ \E s \in Session, u \in UC : LetGo(s, u)
      \/ \E s \in Session, u \in UC : u \in started'[s] \ started[s]
  <2>1. CASE UNCHANGED vars
    BY <2>1 DEF vars
  <2>2. ASSUME NEW s \in Session, Call(s)
        PROVE  UNCHANGED started \/ \E u \in UC : LetGo(s, u)
    BY <2>2 DEF Call, CallReserve, CallRelease, CallStart, CallComplete,
                CallMoveDone, CallDelete, MoveUc
  <2>3. ASSUME NEW s \in Session, StartUpdate(s)
        PROVE  \/ UNCHANGED started
               \/ \E u \in UC : u \in started'[s] \ started[s]
    <3>1. \/ UNCHANGED started
          \/ /\ started' = [started EXCEPT ![s] = @ \cup {arg[s]}]
             /\ arg[s] \in UC
      BY <2>3 DEF StartUpdate, IInv, TypeOK
    <3>2. started \in [Session -> SUBSET UC]
      BY DEF IInv, TypeOK
    <3>3. CASE started' = [started EXCEPT ![s] = @ \cup {arg[s]}] /\ arg[s] \in UC
      <4>1. CASE arg[s] \in started[s]
        BY <3>2, <3>3, <4>1
      <4>2. CASE arg[s] \notin started[s]
        BY <3>2, <3>3, <4>2
      <4>. QED
        BY <4>1, <4>2
    <3>. QED
      BY <3>1, <3>3
  <2>4. ASSUME NEW s \in Session, Statement(s), ~StartUpdate(s)
        PROVE  UNCHANGED started
    BY <2>4
       DEF Statement, ReserveInsert, ReserveAudit, ReserveLookup, StartInsert,
           StartLookup, ReleaseLookup, ReleaseDelete, ReleaseAudit, MoveAudit,
           CloseUpdate, CloseAuth, PurgeLock, PurgeCheck, PurgeDelete,
           PurgeCommit, Archive
  <2>5. ASSUME NEW s \in Session, Abort(s)
        PROVE  UNCHANGED started
    BY <2>5 DEF Abort
  <2>. QED
    BY <2>1, <2>2, <2>3, <2>4, <2>5 DEF Next
<1>. QED
  BY <1>1, <1>2, <1>3, <1>4

\* With one session per developer, reserve, start, release, complete, move,
\* delete and crashes together implement one lock per UC.
THEOREM RefinesLock == ASSUME OneSessionPerDeveloper PROVE Spec => ActsAsLock
<1>1. Init => Lock!Init
  BY DEF Init, Lock!Init
<1>2. IInv /\ [Next]_vars => [Lock!Next]_Working
  BY OneSessionPerDeveloper, StepRefines
<1>. QED
  BY <1>1, <1>2, Inductive, PTL DEF Spec, ActsAsLock, Lock!Spec, Working

-----------------------------------------------------------------------------
\* The audit trail.  Rows are written after what they tell of, in a statement of
\* their own, so what counts is also where the handlers are.

\* T is a finite set of n elements more than S.
Grown(T, S, n) ==
  IsFiniteSet(T) /\ Cardinality(T) \in Nat /\ Cardinality(T) = Cardinality(S) + n

\* The books of one UC, with the two sets that they count.
Books(u) ==
  /\ IsFiniteSet(Awaiting(u, "reserve_audit"))
  /\ IsFiniteSet(Awaiting(u, "release_audit"))
  /\ taken[u] = audit[u]["reserve_uc"] + stopped[u]["reserve_uc"]
                  + Cardinality(Awaiting(u, "reserve_audit"))
  /\ freed[u] <= audit[u]["release_uc"] + audit[u]["purge_uc"]
                  + stopped[u]["release_uc"]
                  + Cardinality(Awaiting(u, "release_audit"))

BooksBalance == \A u \in UC : Books(u)

\* What a step adds to the table is added to the trail, to the dead or to those
\* that are about to write: a to the first set, b to the second.
Paid(u, a, b) ==
  /\ taken'[u] - taken[u] = audit'[u]["reserve_uc"] - audit[u]["reserve_uc"]
       + stopped'[u]["reserve_uc"] - stopped[u]["reserve_uc"] + a
  /\ freed'[u] - freed[u] <= audit'[u]["release_uc"] - audit[u]["release_uc"]
       + audit'[u]["purge_uc"] - audit[u]["purge_uc"]
       + stopped'[u]["release_uc"] - stopped[u]["release_uc"] + b

LEMMA SetsGrow ==
  /\ \A S : IsFiniteSet(S) => Grown(S, S, 0)
  /\ \A S, x : IsFiniteSet(S) /\ x \notin S => Grown(S \cup {x}, S, 1)
  /\ \A S, x : IsFiniteSet(S) /\ x \in S => Grown(S \ {x}, S, -1)
<1>1. \A S : IsFiniteSet(S) => Grown(S, S, 0)
  BY FS_CardinalityType DEF Grown
<1>2. \A S, x : IsFiniteSet(S) /\ x \notin S => Grown(S \cup {x}, S, 1)
  BY FS_AddElement, FS_CardinalityType DEF Grown
<1>3. \A S, x : IsFiniteSet(S) /\ x \in S => Grown(S \ {x}, S, -1)
  BY FS_RemoveElement, FS_CardinalityType DEF Grown
<1>. QED  BY <1>1, <1>2, <1>3

LEMMA BooksKept ==
  ASSUME TypeOK, TypeOK', BooksBalance, NEW u \in UC, NEW a \in Int, NEW b \in Int,
         Grown(Awaiting(u, "reserve_audit")', Awaiting(u, "reserve_audit"), a),
         Grown(Awaiting(u, "release_audit")', Awaiting(u, "release_audit"), b),
         Paid(u, a, b)
  PROVE  Books(u)'
<1>1. PICK A, B : A = Awaiting(u, "reserve_audit") /\ B = Awaiting(u, "release_audit")
  OBVIOUS
<1>2. PICK A1, B1 : /\ A1 = Awaiting(u, "reserve_audit")'
                    /\ B1 = Awaiting(u, "release_audit")'
  OBVIOUS
<1>3. /\ \A o \in Changes : audit[u][o] \in Nat /\ audit'[u][o] \in Nat
                         /\ stopped[u][o] \in Nat /\ stopped'[u][o] \in Nat
      /\ taken[u] \in Nat /\ freed[u] \in Nat
      /\ taken'[u] \in Nat /\ freed'[u] \in Nat
  BY DEF TypeOK
<1>4. /\ Cardinality(A) \in Nat /\ Cardinality(B) \in Nat
      /\ taken[u] = audit[u]["reserve_uc"] + stopped[u]["reserve_uc"] + Cardinality(A)
      /\ freed[u] <= audit[u]["release_uc"] + audit[u]["purge_uc"]
                      + stopped[u]["release_uc"] + Cardinality(B)
  BY <1>1, FS_CardinalityType DEF BooksBalance, Books
<1>5. /\ IsFiniteSet(A1) /\ Cardinality(A1) \in Nat
      /\ Cardinality(A1) = Cardinality(A) + a
      /\ IsFiniteSet(B1) /\ Cardinality(B1) \in Nat
      /\ Cardinality(B1) = Cardinality(B) + b
  BY <1>1, <1>2 DEF Grown
<1>6. /\ "reserve_uc" \in Changes /\ "release_uc" \in Changes
      /\ "purge_uc" \in Changes
  BY DEF Changes
<1>7. /\ taken'[u] = audit'[u]["reserve_uc"] + stopped'[u]["reserve_uc"]
                      + Cardinality(A1)
      /\ freed'[u] <= audit'[u]["release_uc"] + audit'[u]["purge_uc"]
                      + stopped'[u]["release_uc"] + Cardinality(B1)
  BY <1>3, <1>4, <1>5, <1>6 DEF Paid
<1>. QED  BY <1>2, <1>5, <1>7 DEF Books

\* A step of s that writes nothing and stays away from the two labels.
LEMMA QuietBooks ==
  ASSUME TypeOK, TypeOK', BooksBalance, NEW u \in UC,
         audit'[u] = audit[u], stopped'[u] = stopped[u],
         taken'[u] = taken[u], freed'[u] = freed[u],
         Awaiting(u, "reserve_audit")' = Awaiting(u, "reserve_audit"),
         Awaiting(u, "release_audit")' = Awaiting(u, "release_audit")
  PROVE  Books(u)'
<1>1. Paid(u, 0, 0)
  BY DEF TypeOK, Paid, Changes
<1>2. /\ Grown(Awaiting(u, "reserve_audit"), Awaiting(u, "reserve_audit"), 0)
      /\ Grown(Awaiting(u, "release_audit"), Awaiting(u, "release_audit"), 0)
  BY SetsGrow DEF BooksBalance, Books
<1>. QED  BY <1>1, <1>2, BooksKept

\* Goto spelt out.
LEMMA GotoMoves ==
  ASSUME TypeOK, NEW s \in Session, NEW label, Goto(s, label)
  PROVE  /\ pc' = [pc EXCEPT ![s] = label]
         /\ arg' = [arg EXCEPT ![s] = IF label = "idle" THEN NoUC ELSE arg[s]]
  BY DEF Goto, TypeOK

\* One if a label is the other.
Is(label, k) == IF label = k THEN 1 ELSE 0

\* A statement about u changes the two sets by where it was and where it leads.
LEMMA SetsMove ==
  ASSUME TypeOK, BooksBalance, NEW s \in Session, NEW label \in Labels,
         Goto(s, label), label # pc[s], NEW u \in UC, arg[s] = u
  PROVE  \A k \in {"reserve_audit", "release_audit"} :
           Grown(Awaiting(u, k)', Awaiting(u, k), Is(label, k) - Is(pc[s], k))
<1>. TAKE k \in {"reserve_audit", "release_audit"}
<1>. k \in Labels /\ k # "idle"
  BY DEF Labels
<1>1. IsFiniteSet(Awaiting(u, k))
  BY DEF BooksBalance, Books
<1>2. PICK v : /\ pc' = [pc EXCEPT ![s] = label] /\ arg' = [arg EXCEPT ![s] = v]
               /\ label # "idle" => v = u
  BY GotoMoves
<1>3. PICK S : S = Awaiting(u, k)
  OBVIOUS
<1>4. PICK T : T = Awaiting(u, k)'
  OBVIOUS
<1>5. /\ pc[s] # k => s \notin S
      /\ pc[s] = k => s \in S
      /\ label # k => T = S \ {s}
      /\ label = k => T = S \cup {s}
  BY <1>2, <1>3, <1>4 DEF Awaiting, TypeOK
<1>6. IsFiniteSet(S)
  BY <1>1, <1>3
<1>7. CASE label = k
  <2>1. Is(label, k) - Is(pc[s], k) = 1
    BY <1>7 DEF Is
  <2>. QED  BY <1>3, <1>4, <1>5, <1>6, <1>7, <2>1, SetsGrow
<1>8. CASE pc[s] = k
  <2>1. Is(label, k) - Is(pc[s], k) = -1
    BY <1>8 DEF Is
  <2>. QED  BY <1>3, <1>4, <1>5, <1>6, <1>8, <2>1, SetsGrow
<1>9. CASE label # k /\ pc[s] # k
  <2>1. Is(label, k) - Is(pc[s], k) = 0
    BY <1>9 DEF Is
  <2>2. T = S
    BY <1>5, <1>9
  <2>. QED  BY <1>3, <1>4, <1>6, <2>1, <2>2, SetsGrow
<1>. QED  BY <1>7, <1>8, <1>9

\* The books of u after a statement about u that pays for its moves.
LEMMA BooksHere ==
  ASSUME TypeOK, TypeOK', BooksBalance, NEW s \in Session, NEW label \in Labels,
         Goto(s, label), label # pc[s], NEW u \in UC, arg[s] = u,
         Paid(u, Is(label, "reserve_audit") - Is(pc[s], "reserve_audit"),
                 Is(label, "release_audit") - Is(pc[s], "release_audit"))
  PROVE  Books(u)'
<1>. DEFINE a == Is(label, "reserve_audit") - Is(pc[s], "reserve_audit")
<1>. DEFINE b == Is(label, "release_audit") - Is(pc[s], "release_audit")
<1>1. a \in Int /\ b \in Int
  BY DEF Is
<1>2. /\ Grown(Awaiting(u, "reserve_audit")', Awaiting(u, "reserve_audit"), a)
      /\ Grown(Awaiting(u, "release_audit")', Awaiting(u, "release_audit"), b)
  BY SetsMove
<1>3. Paid(u, a, b)
  OBVIOUS
<1>. HIDE DEF a, b
<1>. QED  BY <1>1, <1>2, <1>3, BooksKept

\* What a statement or a death writes in the table, it pays for.
LEMMA StatementPays ==
  ASSUME TypeOK, TypeOK', NEW s \in Session, NEW u \in UC, arg[s] = u,
         Statement(s) \/ Abort(s)
  PROVE  \E label \in Labels :
           /\ Goto(s, label) /\ label # pc[s]
           /\ Paid(u, Is(label, "reserve_audit") - Is(pc[s], "reserve_audit"),
                      Is(label, "release_audit") - Is(pc[s], "release_audit"))
<1>0. /\ \A o \in Changes : audit[u][o] \in Nat /\ audit'[u][o] \in Nat
                         /\ stopped[u][o] \in Nat /\ stopped'[u][o] \in Nat
      /\ taken[u] \in Nat /\ freed[u] \in Nat
      /\ taken'[u] \in Nat /\ freed'[u] \in Nat
  BY DEF TypeOK
<1>1. CASE ReserveInsert(s)
  <2>1. PICK label \in {"reserve_audit", "reserve_lookup"} :
          /\ Goto(s, label)
          /\ taken'[u] = IF label = "reserve_audit" THEN taken[u] + 1 ELSE taken[u]
    BY <1>1 DEF ReserveInsert, TypeOK
  <2>. QED  BY <1>0, <1>1, <2>1 DEF ReserveInsert, Labels, Is, Paid, Changes
<1>2. CASE ReserveAudit(s)
  BY <1>0, <1>2 DEF ReserveAudit, Record, table, Labels, Is, Paid, Changes, TypeOK
<1>3. CASE StartUpdate(s)
  <2>1. /\ pc[s] = "start_update" /\ Goto(s, "idle")
        /\ UNCHANGED <<freed, stopped>>
    BY <1>3 DEF StartUpdate, table
  <2>2. \/ UNCHANGED <<taken, audit>>
        \/ /\ taken'[u] = taken[u] + 1
           /\ audit'[u] = [audit[u] EXCEPT !["reserve_uc"] = @ + 1]
    BY <1>3 DEF StartUpdate, Record, table, TypeOK
  <2>3. audit[u] \in [Changes -> Nat]
    BY DEF TypeOK
  <2>4. Paid(u, 0, 0)
    BY <1>0, <2>1, <2>2, <2>3 DEF Paid, Changes
  <2>. QED  BY <2>1, <2>4 DEF Labels, Is
<1>4. CASE ReleaseDelete(s)
  BY <1>0, <1>4 DEF ReleaseDelete, Labels, Is, Paid, Changes, TypeOK
<1>5. CASE ReleaseAudit(s)
  BY <1>0, <1>5 DEF ReleaseAudit, Record, table, Labels, Is, Paid, Changes, TypeOK
<1>6. CASE MoveAudit(s)
  BY <1>0, <1>6 DEF MoveAudit, Record, table, Labels, Is, Paid, Changes, TypeOK
<1>7. CASE PurgeCommit(s)
  <2>1. /\ pc[s] = "purge_commit" /\ Goto(s, "idle")
        /\ UNCHANGED <<taken, stopped>>
    BY <1>7 DEF PurgeCommit
  <2>2. \/ UNCHANGED <<freed, audit>>
        \/ /\ freed'[u] = freed[u] + 1
           /\ audit'[u] = [audit[u] EXCEPT !["purge_uc"] = @ + 1]
    BY <1>7 DEF PurgeCommit, Record, TypeOK
  <2>3. audit[u] \in [Changes -> Nat]
    BY DEF TypeOK
  <2>4. Paid(u, 0, 0)
    BY <1>0, <2>1, <2>2, <2>3 DEF Paid, Changes
  <2>. QED  BY <2>1, <2>4 DEF Labels, Is
<1>8. CASE Abort(s)
  BY <1>0, <1>8 DEF Abort, table, Labels, Is, Paid, Changes, TypeOK
<1>9. CASE /\ UNCHANGED <<audit, stopped, taken, freed>>
           /\ \E label \in Labels \ {"reserve_audit", "release_audit"} :
                Goto(s, label) /\ label # pc[s]
           /\ pc[s] \notin {"reserve_audit", "release_audit"}
  BY <1>0, <1>9 DEF Is, Paid, Changes
<1>10. CASE \/ ReserveLookup(s) \/ StartInsert(s) \/ StartLookup(s)
            \/ ReleaseLookup(s) \/ CloseUpdate(s) \/ CloseAuth(s)
            \/ PurgeLock(s) \/ PurgeCheck(s) \/ PurgeDelete(s) \/ Archive(s)
  BY <1>9, <1>10 DEF ReserveLookup, StartInsert, StartLookup, ReleaseLookup,
     CloseUpdate, CloseAuth, PurgeLock, PurgeCheck, PurgeDelete, Archive, table,
     Labels
<1>. QED
  BY <1>1, <1>2, <1>3, <1>4, <1>5, <1>6, <1>7, <1>8, <1>10 DEF Statement

\* A step about another use case leaves the books of u alone.
LEMMA StatementElsewhere ==
  ASSUME TypeOK, NEW s \in Session, NEW u \in UC, arg[s] # u,
         Statement(s) \/ Abort(s)
  PROVE  /\ audit'[u] = audit[u] /\ stopped'[u] = stopped[u]
         /\ taken'[u] = taken[u] /\ freed'[u] = freed[u]
         /\ \E label \in Labels : Goto(s, label)
<1>0. arg[s] \in UC
  BY DEF TypeOK, Statement, ReserveInsert, ReserveAudit, ReserveLookup, StartInsert,
     StartLookup, StartUpdate, ReleaseLookup, ReleaseDelete, ReleaseAudit,
     MoveAudit, CloseUpdate, CloseAuth, PurgeLock, PurgeCheck, PurgeDelete,
     PurgeCommit, Archive, Abort
<1>1. CASE Abort(s)
  BY <1>0, <1>1 DEF Abort, table, Labels, TypeOK
<1>2. CASE ReserveInsert(s)
  BY <1>0, <1>2 DEF ReserveInsert, Labels, TypeOK
<1>3. CASE ReserveAudit(s)
  BY <1>0, <1>3 DEF ReserveAudit, Record, table, Labels, TypeOK
<1>4. CASE StartUpdate(s)
  BY <1>0, <1>4 DEF StartUpdate, Record, table, Labels, TypeOK
<1>5. CASE ReleaseDelete(s)
  BY <1>0, <1>5 DEF ReleaseDelete, Labels, TypeOK
<1>6. CASE ReleaseAudit(s)
  BY <1>0, <1>6 DEF ReleaseAudit, Record, table, Labels, TypeOK
<1>7. CASE MoveAudit(s)
  BY <1>0, <1>7 DEF MoveAudit, Record, table, Labels, TypeOK
<1>8. CASE PurgeCommit(s)
  BY <1>0, <1>8 DEF PurgeCommit, Record, Labels, TypeOK
<1>9. CASE \/ ReserveLookup(s) \/ StartInsert(s) \/ StartLookup(s)
           \/ ReleaseLookup(s) \/ CloseUpdate(s) \/ CloseAuth(s)
           \/ PurgeLock(s) \/ PurgeCheck(s) \/ PurgeDelete(s) \/ Archive(s)
  BY <1>9 DEF ReserveLookup, StartInsert, StartLookup, ReleaseLookup,
     CloseUpdate, CloseAuth, PurgeLock, PurgeCheck, PurgeDelete, Archive, table,
     Labels
<1>. QED
  BY <1>1, <1>2, <1>3, <1>4, <1>5, <1>6, <1>7, <1>8, <1>9 DEF Statement

LEMMA NextBooks == TypeOK /\ BooksBalance /\ [Next]_vars => BooksBalance'
<1>. SUFFICES ASSUME TypeOK, BooksBalance, [Next]_vars, NEW u \in UC
              PROVE  Books(u)'
  BY DEF BooksBalance
<1>0. TypeOK'
  BY TypeCorrectStep
<1>1. ASSUME NEW s \in Session, Statement(s) \/ Abort(s), arg[s] = u
      PROVE  Books(u)'
  BY <1>0, <1>1, StatementPays, BooksHere
<1>2. ASSUME NEW s \in Session, Statement(s) \/ Abort(s), arg[s] # u
      PROVE  Books(u)'
  <2>1. PICK label \in Labels : Goto(s, label)
    BY <1>2, StatementElsewhere
  <2>2. PICK v : /\ pc' = [pc EXCEPT ![s] = label] /\ arg' = [arg EXCEPT ![s] = v]
                 /\ v # u
    BY <1>2, <2>1, GotoMoves, NoneAssumption
  <2>3. \A k \in Labels : Awaiting(u, k)' = Awaiting(u, k)
    BY <1>2, <2>2 DEF Awaiting, TypeOK
  <2>. QED  BY <1>0, <1>2, <2>3, StatementElsewhere, QuietBooks DEF Labels
<1>3. ASSUME NEW s \in Session, Call(s)
      PROVE  Books(u)'
  <2>1. /\ pc[s] = "idle" /\ UNCHANGED <<audit, stopped, taken, freed>>
        /\ \/ UNCHANGED <<pc, arg>>
           \/ \E label \in Labels, v \in UC :
                /\ pc' = [pc EXCEPT ![s] = label] /\ arg' = [arg EXCEPT ![s] = v]
                /\ label \notin {"reserve_audit", "release_audit"}
    BY <1>3 DEF Call, CallReserve, CallRelease, CallStart, CallComplete,
       CallMoveDone, CallDelete, Begin, MoveUc, table, Labels
  <2>2. \A k \in {"reserve_audit", "release_audit"} :
          Awaiting(u, k)' = Awaiting(u, k)
    <3>1. CASE UNCHANGED <<pc, arg>>
      BY <3>1 DEF Awaiting
    <3>2. CASE \E label \in Labels, v \in UC :
                /\ pc' = [pc EXCEPT ![s] = label] /\ arg' = [arg EXCEPT ![s] = v]
                /\ label \notin {"reserve_audit", "release_audit"}
      BY <2>1, <3>2 DEF Awaiting, TypeOK
    <3>. QED  BY <2>1, <3>1, <3>2
  <2>. QED  BY <1>0, <2>1, <2>2, QuietBooks
<1>4. CASE UNCHANGED vars
  BY <1>4 DEF vars, BooksBalance, Books, Awaiting
<1>. QED  BY <1>1, <1>2, <1>3, <1>4 DEF Next

LEMMA InitBooks == Init => BooksBalance
<1>. SUFFICES ASSUME Init, NEW u \in UC  PROVE Books(u)
  BY DEF BooksBalance
<1>1. \A k : k # "idle" => Awaiting(u, k) = {}
  BY DEF Init, Awaiting
<1>2. /\ \A o \in Changes : audit[u][o] = 0 /\ stopped[u][o] = 0
      /\ taken[u] = 0 /\ freed[u] = 0
  BY DEF Init
<1>. QED  BY <1>1, <1>2, FS_EmptySet DEF Books, Changes

\* No reservation is made or deleted without its row in the trail, but where a
\* handler is about to write it or died before, however many sessions anybody
\* runs; and no reserve_uc row is there for nothing.
THEOREM TheTrailIsComplete == Spec => []TrailIsComplete
<1>1. BooksBalance => TrailIsComplete
  BY DEF BooksBalance, Books, TrailIsComplete
<1>. QED  BY <1>1, InitBooks, NextBooks, TypeCorrect, PTL DEF Spec

-----------------------------------------------------------------------------
\* Who waits for whom.  A statement waits for a transaction that has its row or
\* its key; nothing here depends on who the developers are.

KeyWaits == {"reserve_insert", "start_insert"}
RowWaits == {"start_update", "close_update", "purge_lock", "archive"}
PurgeLabels == {"purge_check", "purge_delete", "purge_commit"}

\* The next statement of s need not wait.
Ready(s) ==
  /\ pc[s] \in KeyWaits => KeySettled(arg[s])
  /\ pc[s] = "release_delete" => ~PendingDelete(arg[s])
  /\ pc[s] \in RowWaits => rowLock[arg[s]] = NoSession

\* The next statement of s waits for the transaction of t.
Behind(s, t) ==
  /\ arg[s] = arg[t]
  /\ \/ pc[s] \in KeyWaits /\ wrote[t] /\ pc[t] \in {"start_update", "purge_commit"}
     \/ pc[s] = "release_delete" /\ wrote[t] /\ pc[t] = "purge_commit"
     \/ pc[s] \in RowWaits /\ rowLock[arg[s]] = t

\* Who has to wait is behind a handler that need not, or behind one that is.
NobodyIsStuck ==
  \A s \in Session :
    \/ Ready(s)
    \/ \E t \in Session :
         /\ pc[t] # "idle" /\ Ready(t)
         /\ Behind(s, t) \/ \E r \in Session : Behind(s, r) /\ Behind(r, t)

\* The row of a use case is locked by a purge that is inside its transaction.
LockedByPurge ==
  \A u \in UC : rowLock[u] # NoSession =>
    pc[rowLock[u]] \in PurgeLabels /\ arg[rowLock[u]] = u

LEMMA LockStays ==
  ASSUME TypeOK, LockedByPurge, NEW s \in Session,
         pc[s] \notin PurgeLabels, UNCHANGED rowLock,
         \A t \in Session \ {s} : pc'[t] = pc[t] /\ arg'[t] = arg[t]
  PROVE  LockedByPurge'
<1>1. ASSUME NEW u \in UC, rowLock[u] # NoSession
      PROVE  pc'[rowLock[u]] \in PurgeLabels /\ arg'[rowLock[u]] = u
  <2>1. rowLock[u] \in Session \ {s}
    BY <1>1 DEF TypeOK, LockedByPurge
  <2>. QED  BY <1>1, <2>1 DEF LockedByPurge
<1>. QED  BY <1>1 DEF LockedByPurge

\* What Goto leaves alone.
LEMMA OthersGoOn ==
  ASSUME TypeOK, NEW s \in Session, NEW label, Goto(s, label)
  PROVE  \A t \in Session \ {s} : pc'[t] = pc[t] /\ arg'[t] = arg[t]
BY DEF Goto, TypeOK

LEMMA LockStatement ==
  ASSUME TypeOK, LockedByPurge, NEW s \in Session, Statement(s)
  PROVE  LockedByPurge'
<1>. USE NoneAssumption
<1>0. \A t \in Session \ {s} : pc'[t] = pc[t] /\ arg'[t] = arg[t]
  <2>1. \E label \in Labels : Goto(s, label)
    BY DEF Statement, ReserveInsert, ReserveAudit, ReserveLookup, StartInsert,
       StartLookup, StartUpdate, ReleaseLookup, ReleaseDelete, ReleaseAudit,
       MoveAudit, CloseUpdate, CloseAuth, PurgeLock, PurgeCheck, PurgeDelete,
       PurgeCommit, Archive, Labels
  <2>. QED  BY <2>1, OthersGoOn
<1>1. CASE pc[s] \notin PurgeLabels \cup {"purge_lock"}
  <2>1. UNCHANGED rowLock
    BY <1>1 DEF Statement, ReserveInsert, ReserveAudit, ReserveLookup, StartInsert,
       StartLookup, StartUpdate, ReleaseLookup, ReleaseDelete, ReleaseAudit,
       MoveAudit, CloseUpdate, CloseAuth, PurgeLock, PurgeCheck, PurgeDelete,
       PurgeCommit, Archive, PurgeLabels
  <2>. QED  BY <1>0, <1>1, <2>1, LockStays
<1>2. CASE pc[s] \in PurgeLabels \cup {"purge_lock"}
  <2>1. arg[s] \in UC
    BY <1>2 DEF TypeOK, PurgeLabels
  <2>2. CASE PurgeLock(s)
    <3>1. CASE ucState[arg[s]] = "gone"
      BY <1>0, <2>2, <3>1, LockStays DEF PurgeLock, PurgeLabels
    <3>2. CASE ucState[arg[s]] # "gone"
      <4>1. /\ pc'[s] = "purge_check" /\ arg'[s] = arg[s]
            /\ rowLock' = [rowLock EXCEPT ![arg[s]] = s]
        BY <2>2, <3>2 DEF PurgeLock, Goto, TypeOK
      <4>. QED  BY <1>0, <2>1, <2>2, <4>1 DEF LockedByPurge, PurgeLock, PurgeLabels, TypeOK
    <3>. QED  BY <3>1, <3>2
  <2>3. CASE PurgeDelete(s)
    <3>1. /\ pc'[s] = "purge_commit" /\ arg'[s] = arg[s] /\ UNCHANGED rowLock
          /\ pc[s] = "purge_delete"
      BY <2>3 DEF PurgeDelete, Goto, TypeOK
    <3>. QED  BY <1>0, <3>1 DEF LockedByPurge, PurgeLabels, TypeOK
  <2>4. CASE PurgeCheck(s)
    <3>1. CASE UNCHANGED rowLock /\ pc'[s] = "purge_delete" /\ arg'[s] = arg[s]
      BY <1>0, <3>1 DEF LockedByPurge, PurgeLabels, TypeOK
    <3>2. CASE rowLock' = [rowLock EXCEPT ![arg[s]] = NoSession]
      BY <1>0, <2>1, <2>4, <3>2 DEF LockedByPurge, PurgeLabels, TypeOK
    <3>. QED  BY <2>4, <3>1, <3>2 DEF PurgeCheck, Goto, TypeOK
  <2>5. CASE PurgeCommit(s)
    <3>1. rowLock' = [rowLock EXCEPT ![arg[s]] = NoSession]
      BY <2>5 DEF PurgeCommit
    <3>. QED  BY <1>0, <2>1, <3>1 DEF LockedByPurge, TypeOK
  <2>. QED
    BY <1>2, <2>2, <2>3, <2>4, <2>5
    DEF Statement, ReserveInsert, ReserveAudit, ReserveLookup, StartInsert,
       StartLookup, StartUpdate, ReleaseLookup, ReleaseDelete, ReleaseAudit,
       MoveAudit, CloseUpdate, CloseAuth, Archive, PurgeLabels
<1>. QED  BY <1>1, <1>2

LEMMA LockKept == TypeOK /\ LockedByPurge /\ [Next]_vars => LockedByPurge'
<1>. SUFFICES ASSUME TypeOK, LockedByPurge, [Next]_vars PROVE LockedByPurge'
  OBVIOUS
<1>1. ASSUME NEW s \in Session, Call(s) PROVE LockedByPurge'
  <2>1. /\ pc[s] = "idle" /\ UNCHANGED rowLock
        /\ \A t \in Session \ {s} : pc'[t] = pc[t] /\ arg'[t] = arg[t]
    BY <1>1 DEF Call, CallReserve, CallRelease, CallStart, CallComplete,
       CallMoveDone, CallDelete, MoveUc, Begin, TypeOK
  <2>. QED  BY <2>1, LockStays DEF PurgeLabels
<1>2. ASSUME NEW s \in Session, Abort(s) PROVE LockedByPurge'
  <2>1. Goto(s, "idle")
    BY <1>2 DEF Abort
  <2>2. \A t \in Session \ {s} : pc'[t] = pc[t] /\ arg'[t] = arg[t]
    BY <2>1, OthersGoOn
  <2>3. \A u \in UC : rowLock'[u] = IF rowLock[u] = s THEN NoSession ELSE rowLock[u]
    BY <1>2 DEF Abort
  <2>. QED  BY <2>2, <2>3 DEF LockedByPurge, TypeOK
<1>3. CASE UNCHANGED vars
  BY <1>3 DEF LockedByPurge, vars
<1>. QED  BY <1>1, <1>2, <1>3, LockStatement DEF Next

\* Handlers never all wait for one another, whatever two sessions of a developer
\* do: a purge that has the row locked waits for nothing (its DELETE does not wait
\* for an uncommitted INSERT), a start_uc that has a key pending waits for the row
\* alone, and the others hold nothing while they wait.
THEOREM NoDeadlock == Spec => []NobodyIsStuck
<1>1. Init => LockedByPurge
  BY DEF Init, LockedByPurge
<1>2. TypeOK /\ LockedByPurge => NobodyIsStuck
  <2>. SUFFICES ASSUME TypeOK, LockedByPurge, NEW s \in Session, ~Ready(s)
                PROVE  \E t \in Session :
                         /\ pc[t] # "idle" /\ Ready(t)
                         /\ \/ Behind(s, t)
                            \/ \E r \in Session : Behind(s, r) /\ Behind(r, t)
    BY DEF NobodyIsStuck
  <2>1. ASSUME NEW t \in Session, pc[t] \in PurgeLabels
        PROVE  pc[t] # "idle" /\ Ready(t)
    BY <2>1 DEF Ready, PurgeLabels, KeyWaits, RowWaits
  <2>2. ASSUME NEW r \in Session, pc[r] \in RowWaits, rowLock[arg[r]] # NoSession
        PROVE  \E t \in Session : pc[t] \in PurgeLabels /\ Behind(r, t)
    <3>1. arg[r] \in UC
      BY <2>2 DEF TypeOK, RowWaits
    <3>2. PICK t \in Session : t = rowLock[arg[r]]
      BY <2>2, <3>1 DEF TypeOK
    <3>3. pc[t] \in PurgeLabels /\ arg[t] = arg[r]
      BY <2>2, <3>1, <3>2 DEF LockedByPurge
    <3>. QED  BY <2>2, <3>2, <3>3 DEF Behind
  <2>3. CASE pc[s] \in RowWaits
    <3>1. rowLock[arg[s]] # NoSession
      BY <2>3 DEF Ready, RowWaits, KeyWaits
    <3>. QED  BY <2>1, <2>2, <2>3, <3>1
  <2>4. CASE pc[s] \in KeyWaits \cup {"release_delete"} /\ PendingDelete(arg[s])
    <3>1. PICK t \in Session : pc[t] = "purge_commit" /\ arg[t] = arg[s] /\ wrote[t]
      BY <2>4 DEF PendingDelete
    <3>2. Behind(s, t) /\ pc[t] \in PurgeLabels
      BY <2>4, <3>1 DEF Behind, PurgeLabels
    <3>. QED  BY <2>1, <3>2
  <2>5. CASE pc[s] \in KeyWaits /\ PendingInsert(arg[s])
    <3>1. PICK r \in Session : pc[r] = "start_update" /\ arg[r] = arg[s] /\ wrote[r]
      BY <2>5 DEF PendingInsert
    <3>2. Behind(s, r) /\ pc[r] # "idle"
      BY <2>5, <3>1 DEF Behind
    <3>3. CASE rowLock[arg[r]] = NoSession
      <4>1. Ready(r)
        BY <3>1, <3>3 DEF Ready, KeyWaits
      <4>. QED  BY <3>2, <4>1
    <3>4. CASE rowLock[arg[r]] # NoSession
      <4>1. PICK t \in Session : pc[t] \in PurgeLabels /\ Behind(r, t)
        BY <2>2, <3>1, <3>4 DEF RowWaits
      <4>. QED  BY <2>1, <3>2, <4>1
    <3>. QED  BY <3>3, <3>4
  <2>. QED  BY <2>3, <2>4, <2>5 DEF Ready, KeySettled
<1>. QED  BY <1>1, <1>2, LockKept, TypeCorrect, PTL DEF Spec

=============================================================================
