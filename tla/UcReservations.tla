--------------------------- MODULE UcReservations ---------------------------
(***************************************************************************)
(* Who may work on a Use Case (UC): the reservation table of the Native    *)
(* (Postgres) backend and the tool handlers that read and write it.        *)
(*                                                                         *)
(* A session is one MCP client connection, authenticated as a developer.   *)
(* A handler is a sequence of SQL statements; outside a transaction every  *)
(* statement commits on its own, so the statements of two handlers may     *)
(* interleave anywhere.  One action is one statement (or one transaction   *)
(* whose later statements nobody can interleave with).  pc[s] names the    *)
(* next statement of session s.                                            *)
(*                                                                         *)
(* Two transactions are longer than one action, and their locks are part   *)
(* of the model: start_uc_atomic inserts a reservation that nobody sees    *)
(* before it commits (but an insert of the same key waits for it), and     *)
(* purge_use_case holds the row lock of the UC from its first statement.   *)
(*                                                                         *)
(* Not here: acceptance criteria (UcLifecycle), the parent story           *)
(* (StoryFollow), the token checks themselves (AuthGate): here a check may *)
(* fail whenever the code makes one and goes on without the result.        *)
(***************************************************************************)
EXTENDS Naturals, FiniteSets

CONSTANTS
  Session,      \* client sessions
  Developer,    \* developer ids
  DevOf,        \* the developer a session authenticates as
  UC,           \* use cases of one project
  NoDev,        \* no row in uc_reservations
  NoSession,    \* no transaction holds the row lock
  NoUC,         \* the argument of a session that runs no tool
  Targets,      \* the states move_uc is called with
  Deleters,     \* the sessions that call delete_uc
  MaxCalls      \* bound: how many tool calls a behaviour makes

ASSUME DevOfAssumption == DevOf \in [Session -> Developer]
ASSUME NoneAssumption ==
  NoDev \notin Developer /\ NoSession \notin Session /\ NoUC \notin UC
ASSUME DeletersAssumption == Deleters \subseteq Session
ASSUME MaxCallsAssumption == MaxCalls \in Nat

WorkflowStates == {"user_stories", "backlog", "in_progress", "review", "done"}

ASSUME TargetsAssumption == Targets \subseteq WorkflowStates

PurgeableStates == {"backlog", "archived"}

VARIABLES
  ucState,  \* use_cases.state; "gone" when the row has been deleted
  holder,   \* uc_reservations.developer_id (committed rows)
  rowLock,  \* the session whose transaction has the use_cases row FOR UPDATE
  pc,       \* the next statement of each session's handler
  op,       \* the tool each session is running
  arg,      \* its uc_id
  wrote,    \* start: its INSERT wrote a row; purge: its DELETE took a row
  started,  \* the UCs a session was told it may work on, and has not let go
  taken,    \* history: rows ever inserted in uc_reservations, per UC
  freed,    \* history: rows ever deleted from uc_reservations, per UC
  audit,    \* audit_log, per UC: reserve_uc rows, release_uc rows, and the
            \* reservation rows that purge_uc rows say they deleted
  calls,    \* how many tool calls have been made
  seen,     \* history: taken of its UC when the purge of a session read the
            \* reservation
  stopped   \* history: handlers that died before the audit row they owed

vars == <<ucState, holder, rowLock, pc, op, arg, wrote, started,
          taken, freed, audit, calls, seen, stopped>>

table == <<ucState, holder, taken, freed>>

Labels ==
  {"idle",
   "reserve_insert", "reserve_lookup", "reserve_audit",
   "start_insert", "start_lookup", "start_update",
   "close_update", "close_auth",
   "release_lookup", "release_delete", "release_audit", "move_audit",
   "purge_lock", "purge_check", "purge_delete", "purge_commit",
   "archive"}

Changes == {"reserve_uc", "release_uc", "purge_uc"}

Ops == {"none", "reserve_uc", "start_uc", "release_uc", "complete_uc",
        "move_uc", "delete_uc", "delete_archived_uc"}

TypeOK ==
  /\ ucState \in [UC -> WorkflowStates \cup {"archived", "gone"}]
  /\ holder \in [UC -> Developer \cup {NoDev}]
  /\ rowLock \in [UC -> Session \cup {NoSession}]
  /\ pc \in [Session -> Labels]
  /\ op \in [Session -> Ops]
  /\ arg \in [Session -> UC \cup {NoUC}]
  /\ \A s \in Session : pc[s] # "idle" => arg[s] \in UC
  /\ wrote \in [Session -> BOOLEAN]
  /\ started \in [Session -> SUBSET UC]
  /\ taken \in [UC -> Nat]
  /\ freed \in [UC -> Nat]
  /\ audit \in [UC -> [Changes -> Nat]]
  /\ calls \in Nat
  /\ seen \in [Session -> Nat]
  /\ stopped \in [UC -> [Changes -> Nat]]

Init ==
  /\ ucState = [u \in UC |-> "backlog"]
  /\ holder = [u \in UC |-> NoDev]
  /\ rowLock = [u \in UC |-> NoSession]
  /\ pc = [s \in Session |-> "idle"]
  /\ op = [s \in Session |-> "none"]
  /\ arg = [s \in Session |-> NoUC]
  /\ wrote = [s \in Session |-> FALSE]
  /\ started = [s \in Session |-> {}]
  /\ taken = [u \in UC |-> 0]
  /\ freed = [u \in UC |-> 0]
  /\ audit = [u \in UC |-> [o \in Changes |-> 0]]
  /\ calls = 0
  /\ seen = [s \in Session |-> 0]
  /\ stopped = [u \in UC |-> [o \in Changes |-> 0]]

-----------------------------------------------------------------------------
(* Helpers                                                                 *)

\* The next statement of s; a handler that returns forgets its call.
Goto(s, label) ==
  /\ pc' = [pc EXCEPT ![s] = label]
  /\ op' = IF label = "idle" THEN [op EXCEPT ![s] = "none"] ELSE op
  /\ arg' = IF label = "idle" THEN [arg EXCEPT ![s] = NoUC] ELSE arg

\* An uncommitted INSERT of start_uc_atomic: invisible, but its key is taken.
PendingInsert(u) ==
  \E s \in Session : pc[s] = "start_update" /\ arg[s] = u /\ wrote[s]

\* An uncommitted DELETE of purge_use_case: the row is still visible.
PendingDelete(u) ==
  \E s \in Session : pc[s] = "purge_commit" /\ arg[s] = u /\ wrote[s]

\* INSERT ... ON CONFLICT DO NOTHING waits for whoever has the key pending.
KeySettled(u) == ~PendingInsert(u) /\ ~PendingDelete(u)

Record(u, what) == audit' = [audit EXCEPT ![u][what] = @ + 1]

-----------------------------------------------------------------------------
(* A tool call begins: the lookups and the token check that come before    *)
(* the first statement modelled.  A session that asks to release, complete *)
(* or close a UC no longer counts on it.                                   *)

Begin(s, u, what, label) ==
  /\ pc[s] = "idle"
  /\ calls < MaxCalls
  /\ calls' = calls + 1
  /\ pc' = [pc EXCEPT ![s] = label]
  /\ op' = [op EXCEPT ![s] = what]
  /\ arg' = [arg EXCEPT ![s] = u]
  /\ UNCHANGED <<table, rowLock, wrote, audit, seen, stopped>>

LetGo(s, u) == started' = [started EXCEPT ![s] = @ \ {u}]

CallReserve(s, u) ==
  /\ Begin(s, u, "reserve_uc", "reserve_insert")
  /\ UNCHANGED started

CallRelease(s, u) ==
  /\ Begin(s, u, "release_uc", "release_lookup")
  /\ LetGo(s, u)

\* start_uc answers UC_NOT_FOUND when the row is not there.
CallStart(s, u) ==
  /\ ucState[u] # "gone"
  /\ Begin(s, u, "start_uc", "start_insert")
  /\ UNCHANGED started

CallComplete(s, u) ==
  /\ ucState[u] # "gone"
  /\ Begin(s, u, "complete_uc", "close_update")
  /\ LetGo(s, u)

CallMoveDone(s, u) ==
  /\ ucState[u] # "gone"
  /\ Begin(s, u, "move_uc", "close_update")
  /\ LetGo(s, u)

CallDelete(s, u) ==
  /\ s \in Deleters
  /\ ucState[u] # "gone"
  /\ LET what == IF ucState[u] = "archived" THEN "delete_archived_uc"
                                             ELSE "delete_uc"
     IN  \/ Begin(s, u, what, "purge_lock")   \* purge=True
         \/ Begin(s, u, what, "archive")      \* purge=False
  /\ UNCHANGED started

\* move_uc to any state but done: one UPDATE, the reservation is kept.
MoveUc(s, u, target) ==
  /\ pc[s] = "idle"
  /\ calls < MaxCalls
  /\ target # "done"
  /\ ucState[u] # "gone"
  /\ rowLock[u] = NoSession
  /\ ucState' = [ucState EXCEPT ![u] = target]
  /\ calls' = calls + 1
  /\ UNCHANGED <<holder, taken, freed, rowLock, pc, op, arg, wrote, started,
                 audit, seen, stopped>>

-----------------------------------------------------------------------------
(* reserve_uc, each statement its own transaction.                         *)

ReserveInsert(s) ==
  LET u == arg[s] IN
  /\ pc[s] = "reserve_insert"
  /\ KeySettled(u)
  /\ \/ /\ holder[u] = NoDev
        /\ holder' = [holder EXCEPT ![u] = DevOf[s]]
        /\ taken' = [taken EXCEPT ![u] = @ + 1]
        /\ Goto(s, "reserve_audit")
     \/ /\ holder[u] # NoDev
        /\ Goto(s, "reserve_lookup")
        /\ UNCHANGED <<holder, taken>>
  /\ UNCHANGED <<ucState, freed, rowLock, calls, seen, stopped, wrote, started, audit>>

ReserveAudit(s) ==
  /\ pc[s] = "reserve_audit"
  /\ Record(arg[s], "reserve_uc")
  /\ Goto(s, "idle")
  /\ UNCHANGED <<table, rowLock, calls, seen, stopped, wrote, started>>

\* (mutant) re-reserving is recorded as a new reservation
ReserveLookupAudited(s) ==
  /\ pc[s] = "reserve_lookup"
  /\ Record(arg[s], "reserve_uc")
  /\ Goto(s, "idle")
  /\ UNCHANGED <<table, rowLock, calls, seen, stopped, wrote, started>>

\* Own reservation: idempotent success.  Somebody else's, or vanished since
\* the INSERT: ALREADY_RESERVED.  Neither writes anything.
ReserveLookup(s) ==
  /\ pc[s] = "reserve_lookup"
  /\ Goto(s, "idle")
  /\ UNCHANGED <<table, rowLock, calls, seen, stopped, wrote, started, audit>>

-----------------------------------------------------------------------------
(* start_uc_atomic: reserve_uc and the UPDATE of use_cases in one          *)
(* transaction.  Its INSERT and its audit row stay invisible until commit. *)

StartInsert(s) ==
  LET u == arg[s] IN
  /\ pc[s] = "start_insert"
  /\ KeySettled(u)
  /\ \/ /\ holder[u] = NoDev
        /\ wrote' = [wrote EXCEPT ![s] = TRUE]
        /\ Goto(s, "start_update")
     \/ /\ holder[u] # NoDev
        /\ Goto(s, "start_lookup")
        /\ UNCHANGED wrote
  /\ UNCHANGED <<table, rowLock, calls, seen, stopped, started, audit>>

\* (mutant) the owner of the existing reservation is not compared
StartLookupAnyOwner(s) ==
  /\ pc[s] = "start_lookup"
  /\ Goto(s, "start_update")
  /\ UNCHANGED <<table, rowLock, calls, seen, stopped, wrote, started, audit>>

StartLookup(s) ==
  /\ pc[s] = "start_lookup"
  /\ IF holder[arg[s]] = DevOf[s]
       THEN Goto(s, "start_update")
       ELSE Goto(s, "idle")             \* AlreadyReservedError: rollback
  /\ UNCHANGED <<table, rowLock, calls, seen, stopped, wrote, started, audit>>

\* UPDATE use_cases waits for the row lock; no row means rollback.
StartUpdate(s) ==
  LET u == arg[s] IN
  /\ pc[s] = "start_update"
  /\ rowLock[u] = NoSession
  /\ Goto(s, "idle")
  /\ wrote' = [wrote EXCEPT ![s] = FALSE]
  /\ IF ucState[u] = "gone"
       THEN UNCHANGED <<table, started, audit>>
       ELSE /\ ucState' = [ucState EXCEPT ![u] = "in_progress"]
            /\ started' = [started EXCEPT ![s] = @ \cup {u}]
            /\ IF wrote[s]
                 THEN /\ holder' = [holder EXCEPT ![u] = DevOf[s]]
                      /\ taken' = [taken EXCEPT ![u] = @ + 1]
                      /\ Record(u, "reserve_uc")
                 ELSE UNCHANGED <<holder, taken, audit>>
            /\ UNCHANGED freed
  /\ UNCHANGED <<rowLock, calls, seen, stopped>>

-----------------------------------------------------------------------------
(* release_uc of the coordination layer: SELECT, DELETE, audit.  Called by *)
(* the release_uc tool, by complete_uc and by move_uc(done).               *)

ReleaseLookup(s) ==
  /\ pc[s] = "release_lookup"
  /\ IF holder[arg[s]] = DevOf[s]
       THEN Goto(s, "release_delete")
       ELSE Goto(s, "idle")             \* nothing held, or not the owner
  /\ UNCHANGED <<table, rowLock, calls, seen, stopped, wrote, started, audit>>

\* DELETE ... WHERE project_id AND uc_id: whoever holds the row by now.
ReleaseDelete(s) ==
  LET u == arg[s] IN
  /\ pc[s] = "release_delete"
  /\ ~PendingDelete(u)
  /\ Goto(s, "release_audit")
  /\ holder' = [holder EXCEPT ![u] = NoDev]
  /\ freed' = IF holder[u] = NoDev THEN freed ELSE [freed EXCEPT ![u] = @ + 1]
  /\ UNCHANGED <<ucState, taken, rowLock, calls, seen, stopped, wrote, started, audit>>

ReleaseAudit(s) ==
  /\ pc[s] = "release_audit"
  /\ Record(arg[s], "release_uc")
  /\ IF op[s] = "move_uc" THEN Goto(s, "move_audit") ELSE Goto(s, "idle")
  /\ UNCHANGED <<table, rowLock, calls, seen, stopped, wrote, started>>

\* _release_reservation_native writes its own release_uc row as well.
MoveAudit(s) ==
  /\ pc[s] = "move_audit"
  /\ Record(arg[s], "release_uc")
  /\ Goto(s, "idle")
  /\ UNCHANGED <<table, rowLock, calls, seen, stopped, wrote, started>>

-----------------------------------------------------------------------------
(* complete_uc and move_uc(done): the UC first, then a best-effort release *)

CloseUpdate(s) ==
  LET u == arg[s] IN
  /\ pc[s] = "close_update"
  /\ rowLock[u] = NoSession
  /\ IF ucState[u] = "gone"
       THEN /\ Goto(s, "idle")          \* ValueError: item not found
            /\ UNCHANGED ucState
       ELSE /\ ucState' = [ucState EXCEPT ![u] = "done"]
            /\ Goto(s, "close_auth")
  /\ UNCHANGED <<holder, taken, freed, rowLock, calls, seen, stopped, wrote, started,
                 audit>>

\* The token is checked again; when that fails the reservation stays.
CloseAuth(s) ==
  /\ pc[s] = "close_auth"
  /\ \/ Goto(s, "release_lookup")
     \/ Goto(s, "idle")
  /\ UNCHANGED <<table, rowLock, calls, seen, stopped, wrote, started, audit>>

-----------------------------------------------------------------------------
(* delete_uc: purge_use_case, one transaction; refused, it archives.       *)

PurgeLock(s) ==
  LET u == arg[s] IN
  /\ pc[s] = "purge_lock"
  /\ rowLock[u] = NoSession
  /\ IF ucState[u] = "gone"
       THEN /\ Goto(s, "idle")
            /\ UNCHANGED rowLock
       ELSE /\ rowLock' = [rowLock EXCEPT ![u] = s]
            /\ Goto(s, "purge_check")
  /\ UNCHANGED <<table, calls, seen, stopped, wrote, started, audit>>

\* (mutant) the refusal forgets the reservation
PurgeCheckStateOnly(s) ==
  LET u == arg[s] IN
  /\ pc[s] = "purge_check"
  /\ ucState[u] \in PurgeableStates
  /\ Goto(s, "purge_delete")
  /\ seen' = [seen EXCEPT ![s] = taken[u]]
  /\ UNCHANGED <<table, rowLock, calls, stopped, wrote, started, audit>>

\* purge_refusal on the locked row and on the reservation read after it.
PurgeCheck(s) ==
  LET u == arg[s] IN
  /\ pc[s] = "purge_check"
  /\ IF ucState[u] \in PurgeableStates /\ holder[u] = NoDev
       THEN /\ Goto(s, "purge_delete")
            /\ seen' = [seen EXCEPT ![s] = taken[u]]
            /\ UNCHANGED rowLock
       ELSE /\ IF op[s] = "delete_archived_uc"
                 THEN Goto(s, "idle")       \* it was archived when looked up
                 ELSE Goto(s, "archive")
            /\ rowLock' = [rowLock EXCEPT ![u] = NoSession]
            /\ UNCHANGED seen
  /\ UNCHANGED <<table, calls, stopped, wrote, started, audit>>

\* (mutant) the delete locks the key, so it waits for an uncommitted insert
PurgeDeleteLocksKey(s) ==
  LET u == arg[s] IN
  /\ pc[s] = "purge_delete"
  /\ ~PendingInsert(u)
  /\ wrote' = [wrote EXCEPT ![s] = holder[u] # NoDev]
  /\ Goto(s, "purge_commit")
  /\ UNCHANGED <<table, rowLock, calls, seen, stopped, started, audit>>

\* DELETE FROM uc_reservations takes the row that is committed by now, if any.
PurgeDelete(s) ==
  LET u == arg[s] IN
  /\ pc[s] = "purge_delete"
  /\ wrote' = [wrote EXCEPT ![s] = holder[u] # NoDev]
  /\ Goto(s, "purge_commit")
  /\ UNCHANGED <<table, rowLock, calls, seen, stopped, started, audit>>

\* (mutant) the purge's audit row does not count the reservation it deleted
PurgeCommitUnrecorded(s) ==
  LET u == arg[s] IN
  /\ pc[s] = "purge_commit"
  /\ ucState' = [ucState EXCEPT ![u] = "gone"]
  /\ IF wrote[s]
       THEN /\ holder' = [holder EXCEPT ![u] = NoDev]
            /\ freed' = [freed EXCEPT ![u] = @ + 1]
       ELSE UNCHANGED <<holder, freed>>
  /\ rowLock' = [rowLock EXCEPT ![u] = NoSession]
  /\ wrote' = [wrote EXCEPT ![s] = FALSE]
  /\ seen' = [seen EXCEPT ![s] = 0]
  /\ Goto(s, "idle")
  /\ UNCHANGED <<taken, calls, stopped, started, audit>>

\* The purge_uc row has how many rows went from each table ("deleted"), and
\* commits with them.
PurgeCommit(s) ==
  LET u == arg[s] IN
  /\ pc[s] = "purge_commit"
  /\ ucState' = [ucState EXCEPT ![u] = "gone"]
  /\ IF wrote[s]
       THEN /\ holder' = [holder EXCEPT ![u] = NoDev]
            /\ freed' = [freed EXCEPT ![u] = @ + 1]
            /\ Record(u, "purge_uc")
       ELSE UNCHANGED <<holder, freed, audit>>
  /\ rowLock' = [rowLock EXCEPT ![u] = NoSession]
  /\ wrote' = [wrote EXCEPT ![s] = FALSE]
  /\ seen' = [seen EXCEPT ![s] = 0]
  /\ Goto(s, "idle")
  /\ UNCHANGED <<taken, calls, stopped, started>>

\* archive_item: one UPDATE; a reservation on the UC survives it.
Archive(s) ==
  LET u == arg[s] IN
  /\ pc[s] = "archive"
  /\ rowLock[u] = NoSession
  /\ ucState' = IF ucState[u] = "gone"
                  THEN ucState
                  ELSE [ucState EXCEPT ![u] = "archived"]
  /\ Goto(s, "idle")
  /\ UNCHANGED <<holder, taken, freed, rowLock, calls, seen, stopped, wrote, started,
                 audit>>

-----------------------------------------------------------------------------
(* The handler dies at any statement: connection lost, process killed.     *)
(* An open transaction rolls back; what was committed stays.               *)

Abort(s) ==
  /\ pc[s] # "idle"
  /\ stopped' = CASE pc[s] = "reserve_audit" ->
                      [stopped EXCEPT ![arg[s]]["reserve_uc"] = @ + 1]
                 [] pc[s] = "release_audit" ->
                      [stopped EXCEPT ![arg[s]]["release_uc"] = @ + 1]
                 [] OTHER -> stopped
  /\ seen' = [seen EXCEPT ![s] = 0]
  /\ Goto(s, "idle")
  /\ wrote' = [wrote EXCEPT ![s] = FALSE]
  /\ rowLock' = [u \in UC |-> IF rowLock[u] = s THEN NoSession ELSE rowLock[u]]
  /\ UNCHANGED <<table, calls, started, audit>>

-----------------------------------------------------------------------------

Call(s) ==
  \E u \in UC :
    \/ CallReserve(s, u)
    \/ CallRelease(s, u)
    \/ CallStart(s, u)
    \/ CallComplete(s, u)
    \/ CallMoveDone(s, u)
    \/ CallDelete(s, u)
    \/ \E target \in Targets : MoveUc(s, u, target)

Statement(s) ==
  \/ ReserveInsert(s) \/ ReserveAudit(s) \/ ReserveLookup(s)
  \/ StartInsert(s) \/ StartLookup(s) \/ StartUpdate(s)
  \/ ReleaseLookup(s) \/ ReleaseDelete(s) \/ ReleaseAudit(s) \/ MoveAudit(s)
  \/ CloseUpdate(s) \/ CloseAuth(s)
  \/ PurgeLock(s) \/ PurgeCheck(s) \/ PurgeDelete(s) \/ PurgeCommit(s)
  \/ Archive(s)

Next == \E s \in Session : Call(s) \/ Statement(s) \/ Abort(s)

Spec == Init /\ [][Next]_vars

\* Every statement sent to the database is eventually answered, once nothing
\* it waits for is held; no session is obliged to make a call.
FairSpec == Spec /\ \A s \in Session : WF_vars(Statement(s))

-----------------------------------------------------------------------------
(* Properties                                                              *)

\* The hypothesis of the exclusion results: nobody runs two sessions at once.
OneSessionPerDeveloper ==
  \A s, t \in Session : DevOf[s] = DevOf[t] => s = t

\* "Mutual exclusion so two developers never work the same UC at once": of two
\* developers, at most one has been told by start_uc that a UC is his.
MutualExclusion ==
  \A s, t \in Session :
    started[s] \cap started[t] # {} => DevOf[s] = DevOf[t]

\* What start_uc told a session stays true in the table until that session
\* lets go: no release, purge, archive or completion by anybody else takes it.
StartedIsHeld ==
  \A s \in Session : \A u \in started[s] : holder[u] = DevOf[s]

\* With one session per developer the whole machinery of rows, statements and
\* transactions behaves as one lock per UC.
Lock == INSTANCE WorkLock WITH
  working <- [u \in UC |-> {s \in Session : u \in started[s]}]

ActsAsLock == Lock!Spec

\* start_uc_atomic leaves no orphan: when it succeeds, the UC exists, is in
\* progress, and the reservation is this developer's, all at once.
StartCommitsBoth ==
  [][\A s \in Session :
       pc[s] = "start_update" /\ arg[s] \in started'[s] \ started[s] =>
         /\ holder'[arg[s]] = DevOf[s]
         /\ ucState'[arg[s]] = "in_progress"]_vars

\* A purge deletes a UC in backlog or archived that nobody has started and still
\* counts on, and the only reservation it can take away, or leave behind without
\* its UC, is one made after it read that there was none: none that was there
\* when it looked, however long before.
PurgeLosesOnlyTheLate ==
  [][\A s \in Session : LET u == arg[s] IN
       pc[s] = "purge_commit" /\ ucState[u] # "gone" /\ ucState'[u] = "gone" =>
         /\ ucState[u] \in PurgeableStates
         /\ \A t \in Session : u \notin started'[t]
         /\ holder[u] # NoDev => taken[u] > seen[s]]_vars

\* The sessions whose next statement about u is the one at a label.
Awaiting(u, label) == {s \in Session : pc[s] = label /\ arg[s] = u}

\* Nothing changes hands behind the trail's back: every reservation ever made,
\* and every one ever deleted, by a release or by a purge, has its row, unless
\* the handler is about to write it or died just before.  A reserve_uc row is
\* there for nothing else.  Release rows may be too many (move_uc writes a second
\* one, and a DELETE that found no row is recorded): only that they are enough.
TrailIsComplete ==
  \A u \in UC :
    /\ taken[u] = audit[u]["reserve_uc"] + stopped[u]["reserve_uc"]
                    + Cardinality(Awaiting(u, "reserve_audit"))
    /\ freed[u] <= audit[u]["release_uc"] + audit[u]["purge_uc"]
                    + stopped[u]["release_uc"]
                    + Cardinality(Awaiting(u, "release_audit"))

\* release_uc deletes the caller's reservation or none ("only the owner may
\* release it").
OwnerOnlyRelease ==
  [][\A s \in Session :
       pc[s] = "release_delete" /\ pc'[s] = "release_audit" =>
         holder[arg[s]] \in {DevOf[s], NoDev}]_vars

\* No handler waits forever: the key and row locks of start_uc, the release
\* and the purge never form a cycle.
EveryCallReturns == \A s \in Session : pc[s] # "idle" ~> pc[s] = "idle"
=============================================================================
