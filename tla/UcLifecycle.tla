---------------------------- MODULE UcLifecycle ----------------------------
(***************************************************************************)
(* The life of a Use Case in the Native (Postgres) board: its state, its   *)
(* acceptance criteria, the human acceptance, and the events the database  *)
(* triggers leave behind when any of them changes.                         *)
(*                                                                         *)
(* The triggers run inside the writer's transaction and look at the other  *)
(* rows of the board under READ COMMITTED: they see what was committed     *)
(* when they ran, plus the writer's own row.  So a write is two actions:   *)
(* it runs, with its triggers, against the committed board, and it commits *)
(* later.  txn[s] is the open transaction of session s: the row it wrote   *)
(* and what its triggers decided.  A row lock makes a second writer of the *)
(* same row wait; nothing makes writers of different rows wait.            *)
(*                                                                         *)
(* When Concurrent is FALSE, two writes to one UC never overlap.  That is  *)
(* the hypothesis under which the triggers keep what they promise.         *)
(***************************************************************************)
EXTENDS Naturals

CONSTANTS
  Session,      \* whoever writes: MCP sessions and the panel
  UC,           \* use cases
  AC,           \* acceptance criterion ids within a UC
  NoUC, NoAC,   \* no argument
  Targets,      \* states the tools move a UC to
  Concurrent,   \* whether two writes to one UC may overlap
  MaxNow        \* bound: how many timed transactions begin

ASSUME NoneAssumption == NoUC \notin UC /\ NoAC \notin AC
ASSUME SwitchAssumption == Concurrent \in BOOLEAN
ASSUME MaxNowAssumption == MaxNow \in Nat

WorkflowStates == {"user_stories", "backlog", "in_progress", "review", "done"}
PurgeableStates == {"backlog", "archived"}

ASSUME TargetsAssumption == Targets \subseteq WorkflowStates \cup {"archived"}

\* The best receipt stored with a criterion: none, only failed ones, or one
\* that passed.
Receipts == {"none", "failed", "passed"}

\* use_cases: state ("gone": no row), started_at and completed_at (0: NULL).
ItemRow ==
  [state : WorkflowStates \cup {"archived", "gone"},
   started : Nat, completed : Nat]

\* acceptance_criteria: whether the row exists, its flags, its receipts.
AcRow == [there : BOOLEAN, done : BOOLEAN, internal : BOOLEAN,
          receipts : Receipts]

NoRow == [there |-> FALSE, done |-> FALSE, internal |-> FALSE,
          receipts |-> "none"]
NewRow == [NoRow EXCEPT !.there = TRUE]

Stages == {"none", "update_begun", "update_wrote", "criterion", "accept",
           "purge_locked", "purge_read"}

Txn == [at : Stages, uc : UC \cup {NoUC}, ac : AC \cup {NoAC},
        target : WorkflowStates \cup {"archived"},
        item : ItemRow, row : AcRow,
        stamp : Nat,       \* now(): when the transaction began
        key : Nat,         \* completed_at as its uc_ready event names it
        void : BOOLEAN,    \* its triggers delete the acceptance
        ready : BOOLEAN]   \* its triggers record uc_ready

NoTxn == [at |-> "none", uc |-> NoUC, ac |-> NoAC, target |-> "backlog",
          item |-> [state |-> "gone", started |-> 0, completed |-> 0],
          row |-> NoRow, stamp |-> 0, key |-> 0,
          void |-> FALSE, ready |-> FALSE]

VARIABLES
  item,      \* use_cases
  crit,      \* acceptance_criteria
  accepted,  \* uc_acceptances: whether a person accepted the UC
  events,    \* notification_events of kind uc_ready: <<UC, completed_at>>
  txn,       \* the open transaction of each session
  trimmed,   \* history: UCs a criterion was deleted from
  now        \* the clock: ticks when a timed transaction begins

vars == <<item, crit, accepted, events, txn, trimmed, now>>
board == <<item, crit, accepted, events, trimmed>>

TypeOK ==
  /\ item \in [UC -> ItemRow]
  /\ crit \in [UC -> [AC -> AcRow]]
  /\ accepted \in [UC -> BOOLEAN]
  /\ events \subseteq UC \X Nat
  /\ txn \in [Session -> Txn]
  /\ \A s \in Session :
       /\ txn[s].at # "none" => txn[s].uc \in UC
       /\ txn[s].at = "criterion" => txn[s].ac \in AC
  /\ trimmed \subseteq UC
  /\ now \in Nat

Init ==
  /\ item = [u \in UC |->
               [state |-> "backlog", started |-> 0, completed |-> 0]]
  /\ crit \in [UC -> [AC -> {NoRow, NewRow}]]
  /\ accepted = [u \in UC |-> FALSE]
  /\ events = {}
  /\ txn = [s \in Session |-> NoTxn]
  /\ trimmed = {}
  /\ now = 1

-----------------------------------------------------------------------------
(* What the triggers look at                                               *)

Visible(row) == row.there /\ ~row.internal

\* (mutant) a criterion that is done needs no receipt
ReadyToAcceptUnproven(it, rows, acc) ==
  /\ it.state = "done"
  /\ ~acc
  /\ \E a \in AC : Visible(rows[a])
  /\ \A a \in AC : Visible(rows[a]) => rows[a].done

\* uc_ready_to_accept: done, not accepted, some visible criterion, and every
\* visible one done with a receipt that passed.
ReadyToAccept(it, rows, acc) ==
  /\ it.state = "done"
  /\ ~acc
  /\ \E a \in AC : Visible(rows[a])
  /\ \A a \in AC : Visible(rows[a]) =>
       rows[a].done /\ rows[a].receipts = "passed"

Ready(u) == ReadyToAccept(item[u], crit[u], accepted[u])

\* uc_lifecycle_columns: the first start wins, the last completion wins.
LifecycleColumns(old, target, stamp) ==
  [state |-> target,
   started |-> IF target = "in_progress" /\ old.state # target
                    /\ old.started = 0
                 THEN stamp ELSE old.started,
   completed |-> IF target = "done" /\ old.state # target
                   THEN stamp ELSE old.completed]

\* (mutant) only a criterion that is already visible voids the acceptance
CriterionVoidsOldFlag(old, new) == old.there /\ ~new.done /\ ~old.internal

\* trg_uc_acceptance_void_on_criterion: WHEN (NOT NEW.done AND NOT NEW.internal)
CriterionVoids(old, new) == new.there /\ ~new.done /\ ~new.internal

\* uc_acceptance_void_on_state: the UC leaves done.
StateVoids(old, new) == old.state = "done" /\ new.state # "done"

\* (mutant) a UC that was completed before is not announced again
StateAnnouncesOnce(old, new, rows, acc) ==
  /\ old.completed = 0
  /\ old.state # "done"
  /\ ReadyToAccept(new, rows, acc)

\* trg_notification_uc_ready_state: the UC becomes done, and is ready.
StateAnnounces(old, new, rows, acc) ==
  /\ old.state # "done"
  /\ ReadyToAccept(new, rows, acc)

\* trg_notification_uc_ready_criterion, after the INSERT or UPDATE of a row.
CriterionAnnounces(u, a, row) ==
  /\ row.there
  /\ ReadyToAccept(item[u], [crit[u] EXCEPT ![a] = row], accepted[u])

-----------------------------------------------------------------------------
(* Locks                                                                   *)

Holds(s, u, stages) == txn[s].uc = u /\ txn[s].at \in stages

NobodyHolds(u, stages) == \A s \in Session : ~Holds(s, u, stages)

PurgeStages == {"purge_locked", "purge_read"}

\* Two transactions that delete one acceptance row wait for each other.
MayVoid(u) == \A s \in Session : ~(txn[s].uc = u /\ txn[s].void)

\* An INSERT that refers to the UC holds its row FOR KEY SHARE.
InsertsUnder(s, u) ==
  /\ Holds(s, u, {"criterion"})
  /\ txn[s].row.there
  /\ ~crit[u][txn[s].ac].there

Put(s, t) == txn' = [txn EXCEPT ![s] = t]

\* The hypothesis: a write to a UC begins when no other is open on it.
Admitted(s, u) ==
  /\ txn[s].at = "none"
  /\ Concurrent \/ \A t \in Session : txn[t].uc # u

-----------------------------------------------------------------------------
(* use_cases: start_uc_atomic, update_item and archive_item, one UPDATE of *)
(* state in a transaction that had begun before.                           *)

BeginUpdate(s, u, target) ==
  /\ Admitted(s, u)
  /\ now < MaxNow
  /\ item[u].state # "gone"
  /\ now' = now + 1
  /\ Put(s, [NoTxn EXCEPT !.at = "update_begun", !.uc = u,
                          !.target = target, !.stamp = now])
  /\ UNCHANGED board

\* The UPDATE and its triggers; no row: ValueError and rollback.
WriteUpdate(s) ==
  LET u == txn[s].uc
      new == LifecycleColumns(item[u], txn[s].target, txn[s].stamp)
  IN
  /\ txn[s].at = "update_begun"
  /\ NobodyHolds(u, {"update_wrote"} \cup PurgeStages)
  /\ \/ /\ item[u].state = "gone"
        /\ Put(s, NoTxn)
     \/ /\ item[u].state # "gone"
        /\ StateVoids(item[u], new) /\ accepted[u] => MayVoid(u)
        /\ Put(s, [txn[s] EXCEPT
             !.at = "update_wrote", !.item = new, !.key = new.completed,
             !.void = StateVoids(item[u], new) /\ accepted[u],
             !.ready = StateAnnounces(item[u], new, crit[u], accepted[u])])
  /\ UNCHANGED <<board, now>>

-----------------------------------------------------------------------------
(* acceptance_criteria: one statement each.                                *)

WriteCriterion(s, u, a, row) ==
  /\ Admitted(s, u)
  /\ \A t \in Session : Holds(t, u, {"criterion"}) => txn[t].ac # a
  /\ CriterionVoids(crit[u][a], row) /\ accepted[u] => MayVoid(u)
  /\ Put(s, [NoTxn EXCEPT
       !.at = "criterion", !.uc = u, !.ac = a, !.row = row,
       !.key = item[u].completed,
       !.void = CriterionVoids(crit[u][a], row) /\ accepted[u],
       !.ready = CriterionAnnounces(u, a, row)])
  /\ UNCHANGED <<board, now>>

\* mark_ac: one UPDATE moves done and appends the receipt, if there is one.
Mark(s, u, a, passed, filed) ==
  LET row == crit[u][a]
      kept == IF ~filed \/ row.receipts = "passed" THEN row.receipts
              ELSE IF passed THEN "passed" ELSE "failed"
  IN /\ row.there
     /\ WriteCriterion(s, u, a, [row EXCEPT !.done = passed,
                                            !.receipts = kept])

\* update_ac: the done flag alone, when it differs from what was read.
UpdateDone(s, u, a) ==
  /\ crit[u][a].there
  /\ WriteCriterion(s, u, a, [crit[u][a] EXCEPT !.done = ~@])

SetInternal(s, u, a, hidden) ==
  /\ crit[u][a].there
  /\ WriteCriterion(s, u, a, [crit[u][a] EXCEPT !.internal = hidden])

\* INSERT of a criterion: its foreign key waits for a purge, and needs the UC.
AddCriterion(s, u, a) ==
  /\ ~crit[u][a].there
  /\ item[u].state # "gone"
  /\ NobodyHolds(u, PurgeStages)
  /\ WriteCriterion(s, u, a, NewRow)

\* DELETE of a criterion: no trigger listens.
DeleteCriterion(s, u, a) ==
  /\ crit[u][a].there
  /\ WriteCriterion(s, u, a, NoRow)

-----------------------------------------------------------------------------
(* The panel (outside this repository) inserts the acceptance of a UC that *)
(* its own copy of the readiness rule offers.                              *)

Accept(s, u) ==
  /\ Admitted(s, u)
  /\ Ready(u)
  /\ NobodyHolds(u, {"accept"} \cup PurgeStages)
  /\ Put(s, [NoTxn EXCEPT !.at = "accept", !.uc = u])
  /\ UNCHANGED <<board, now>>

-----------------------------------------------------------------------------

\* The open write becomes visible, with everything its triggers did.
Commit(s) ==
  LET t == txn[s] IN
  /\ t.at \in {"update_wrote", "criterion", "accept"}
  /\ item' = IF t.at = "update_wrote" THEN [item EXCEPT ![t.uc] = t.item]
                                      ELSE item
  /\ crit' = IF t.at = "criterion" THEN [crit EXCEPT ![t.uc][t.ac] = t.row]
                                   ELSE crit
  /\ accepted' = [accepted EXCEPT ![t.uc] = (@ \/ t.at = "accept") /\ ~t.void]
  /\ events' = IF t.ready THEN events \cup {<<t.uc, t.key>>} ELSE events
  /\ trimmed' = IF t.at = "criterion" /\ ~t.row.there
                  THEN trimmed \cup {t.uc} ELSE trimmed
  /\ Put(s, NoTxn)
  /\ UNCHANGED now

\* The connection is lost, or the handler raises: nothing happened.
Rollback(s) ==
  /\ txn[s].at # "none"
  /\ Put(s, NoTxn)
  /\ UNCHANGED <<board, now>>

-----------------------------------------------------------------------------
(* purge_use_case: SELECT ... FOR UPDATE, the reads, the deletes.          *)

PurgeLock(s, u) ==
  /\ Admitted(s, u)
  /\ item[u].state # "gone"
  /\ NobodyHolds(u, {"update_wrote", "accept"} \cup PurgeStages)
  /\ \A t \in Session : ~InsertsUnder(t, u)
  /\ Put(s, [NoTxn EXCEPT !.at = "purge_locked", !.uc = u])
  /\ UNCHANGED <<board, now>>

\* Not refused.  has_evidence looks at attachments, not at receipts; refusals
\* by attachment or reservation are Rollback.
PurgeRead(s) ==
  LET u == txn[s].uc IN
  /\ txn[s].at = "purge_locked"
  /\ item[u].state \in PurgeableStates
  /\ \A a \in AC : ~crit[u][a].done
  /\ Put(s, [txn[s] EXCEPT !.at = "purge_read"])
  /\ UNCHANGED <<board, now>>

\* The deletes wait for whoever is writing a criterion, and take it all.
PurgeDelete(s) ==
  LET u == txn[s].uc IN
  /\ txn[s].at = "purge_read"
  /\ NobodyHolds(u, {"criterion"})
  /\ item' = [item EXCEPT ![u].state = "gone"]
  /\ crit' = [crit EXCEPT ![u] = [a \in AC |-> NoRow]]
  /\ accepted' = [accepted EXCEPT ![u] = FALSE]
  /\ Put(s, NoTxn)
  /\ UNCHANGED <<events, trimmed, now>>

-----------------------------------------------------------------------------

WriteAc(s, u) ==
  \E a \in AC :
    \/ \E passed, filed \in BOOLEAN : Mark(s, u, a, passed, filed)
    \/ UpdateDone(s, u, a)
    \/ \E hidden \in BOOLEAN : SetInternal(s, u, a, hidden)
    \/ AddCriterion(s, u, a)
    \/ DeleteCriterion(s, u, a)

Next ==
  \E s \in Session :
    \/ \E u \in UC :
         \/ \E target \in Targets : BeginUpdate(s, u, target)
         \/ WriteAc(s, u)
         \/ Accept(s, u)
         \/ PurgeLock(s, u)
    \/ WriteUpdate(s) \/ Commit(s) \/ Rollback(s)
    \/ PurgeRead(s) \/ PurgeDelete(s)

Spec == Init /\ [][Next]_vars

-----------------------------------------------------------------------------
(* Properties                                                              *)

\* "La aceptacion se anula sola cuando deja de valer": a UC that a person has
\* accepted is done, and every visible criterion of it is done.
AcceptanceHolds ==
  \A u \in UC : accepted[u] =>
    /\ item[u].state = "done"
    /\ \A a \in AC : Visible(crit[u][a]) => crit[u][a].done

\* A UC that a person may accept has been announced: its uc_ready event for
\* this completion is there.  A UC that has lost a criterion is exempt: no
\* trigger of 0033 fires when the deletion of the last open one makes it ready.
NotifiedUnlessTrimmed ==
  \A u \in UC \ trimmed : Ready(u) => <<u, item[u].completed>> \in events

\* No false announcement: when a uc_ready event appears, the UC is done since
\* the completion the event names, and each visible criterion is proven.
EventsAreTrue ==
  [][\A e \in events' \ events :
       LET u == e[1] IN
       /\ item'[u].state = "done"
       /\ item'[u].completed = e[2]
       /\ \A a \in AC : Visible(crit'[u][a]) =>
            crit'[u][a].done /\ crit'[u][a].receipts = "passed"]_vars

\* The lead time of a finished UC is not negative.
LeadTimeSane ==
  \A u \in UC :
    item[u].state = "done" /\ item[u].completed # 0 =>
      item[u].started <= item[u].completed
=============================================================================
