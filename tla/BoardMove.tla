----------------------------- MODULE BoardMove -----------------------------
(***************************************************************************)
(* switch_project_backend (tools/migration.py): moving a project to        *)
(* another tracking backend.  run_switch (migration/orchestrator.py) makes *)
(* the target, copies the items to it (write_target, migration/writer.py,  *)
(* or a batch session of BatchIngest), seeds the developer of a native     *)
(* target and turns the configuration over (BackendSwitch, here one step). *)
(*                                                                         *)
(* The source is an items.json that the call carries; a source behind an   *)
(* API is read under the id of the target (migration.py:1035) and seldom   *)
(* gets this far.  Any request to the target may fail, or be done and its  *)
(* answer lost; the server may die between two of them; a call that did    *)
(* not move the project may be made again.  Calls do not overlap.          *)
(***************************************************************************)
EXTENDS BatchIngest

CONSTANTS
    Targets,   \* kinds of target: trello, plane, native
    MaxFaults, \* bound: requests that fail, deaths of the server
    MaxCalls   \* bound: calls of the tool

ASSUME TargetsAreKnown == Targets \subseteq {"trello", "plane", "native"}
\* A call of the tool.
Calls == [todo : SUBSET Items, ids : SUBSET Items, errors : SUBSET Items,
          batch : BOOLEAN, item : Cases \cup {None}]

ASSUME NoneIsNothingElse == None \notin Items \cup Calls
ASSUME BoundsAreNumbers == MaxFaults \in Nat /\ MaxCalls \in Nat

VARIABLES
    target,  \* the kind of the target
    config,  \* the backend the configuration names: "source" or "target"
    running, \* the call that runs, or None: `todo`, the items it has yet to write,
             \* `ids`, the domain of id_map, `errors`, the items these name, `batch`,
             \* whether it ingests a session instead, `item`, the use case whose
             \* criteria come next
    named,   \* the items in the errors of the call that moved the project
    failed,  \* the items of this board with which a request went wrong
    faults,  \* faults so far
    calls    \* calls so far

move == <<target, config, running, named, failed, faults, calls>>
moveVars == <<ingest, move>>

MoveInit ==
    /\ IngestInit
    /\ target \in Targets
    /\ config = "source"
    /\ running = None
    /\ named = {} /\ failed = {}
    /\ faults = 0 /\ calls = 0

Fault == faults < MaxFaults /\ faults' = faults + 1
Trouble(i) == Fault /\ failed' = failed \cup {i}

\* Up to ensure_target; the count guard has passed.  A native tenant is made
\* when it is missing, under the id the call must give.  Another target is made
\* anew by a call that names none, which leaves an earlier one behind.
Begin(reuse, batch) ==
    /\ running = None /\ config = "source" /\ calls < MaxCalls
    /\ reuse => made
    /\ target = "native" => reuse = made
    /\ batch => target = "native"
    /\ calls' = calls + 1
    /\ made' = TRUE
    /\ board' = IF reuse THEN board ELSE [i \in Items |-> NoCard]
    /\ failed' = IF reuse THEN failed ELSE {}
    /\ running' = [todo |-> IF batch THEN {} ELSE Items, ids |-> {}, errors |-> {},
                   batch |-> batch, item |-> None]
    /\ UNCHANGED <<store, opened, target, config, named, faults>>

\* write_target goes through the stories, then the use cases.
Writing(i) ==
    /\ running # None /\ running.item = None /\ i \in running.todo
    /\ i \in Cases => running.todo \cap Stories = {}
    /\ UNCHANGED <<made, store, opened, target, config, named, calls>>

FoundNever(i) == FALSE \* (mutant) the search misses what is there

\* find_item_by_field: by the name, or on Trello by a field, and the field of
\* a story is also one of its use cases.
Found(i) ==
    \/ board[i].named > 0
    \/ /\ target = "trello"
       /\ \E c \in Cases : StoryOf[c] = i /\ board[c].named > 0 /\ board[c].linked

SkipUnmapped(i) == \* (mutant) id_map has only what this call created
    /\ Writing(i) /\ Found(i)
    /\ running' = [running EXCEPT !.todo = @ \ {i}]
    /\ UNCHANGED <<board, failed, faults>>

\* An item with its logical id is there: it is skipped, criteria and all.
Skip(i) ==
    /\ Writing(i) /\ Found(i)
    /\ running' = [running EXCEPT !.todo = @ \ {i}, !.ids = @ \cup {i}]
    /\ UNCHANGED <<board, failed, faults>>

\* The id of the story goes in the parent, or in a field on Trello.
Hangs(i) == i \in Cases /\ (target = "trello" \/ StoryOf[i] \in running.ids)

\* The clients of Trello and Plane send a request again when it timed out or
\* was answered 5xx, a creation too.
Resent(i) ==
    /\ target # "native"
    /\ board' = [board EXCEPT ![i].named = @ + (IF target = "plane" THEN 2 ELSE 1),
                              ![i].blank = @ + (IF target = "trello" THEN 1 ELSE 0),
                              ![i].linked = Hangs(i)]
    /\ Trouble(i)

Create(i) ==
    /\ Writing(i) /\ ~Found(i)
    /\ running' = [running EXCEPT !.todo = @ \ {i}, !.ids = @ \cup {i},
                                  !.item = IF i \in Criteria THEN i ELSE None]
    /\ \/ /\ board' = [board EXCEPT ![i].named = @ + 1, ![i].linked = Hangs(i)]
          /\ UNCHANGED <<failed, faults>>
       \/ Resent(i)

ErrUnsaid(i) == \* (mutant) the error is logged only
    /\ Trouble(i)
    /\ running' = [running EXCEPT !.todo = @ \ {i}]

\* An error with an item goes to the errors; the other items are written.
Err(i) ==
    /\ Trouble(i)
    /\ running' = [running EXCEPT !.todo = @ \ {i}, !.errors = @ \cup {i}]

\* The search or the creation fails with nothing done,
Refused(i) == Writing(i) /\ Err(i) /\ UNCHANGED board

\* or the item was created and what came after failed: reading it back, or on
\* Trello, where the fields are set one by one, before it had its id or story.
HalfDone(i) ==
    /\ Writing(i) /\ ~Found(i) /\ Err(i)
    /\ \/ board' = [board EXCEPT ![i].named = 1, ![i].linked = Hangs(i)]
       \/ /\ target = "trello"
          /\ \/ board' = [board EXCEPT ![i].blank = @ + 1]
             \/ board' = [board EXCEPT ![i].named = 1, ![i].linked = FALSE]

\* The criteria of the use case just created.  The marks of those that were
\* done are put one by one, and what goes wrong with a mark is not told.
List(i) ==
    /\ running # None /\ running.item = i /\ i \in Cases
    /\ \/ board' = [board EXCEPT ![i].listed = "whole"] /\ UNCHANGED <<failed, faults>>
       \/ board' = [board EXCEPT ![i].listed = "unmarked"] /\ Trouble(i)
    /\ running' = [running EXCEPT !.item = None]
    /\ UNCHANGED <<made, store, opened, target, config, named, calls>>

ListFails(i) ==
    /\ running # None /\ running.item = i /\ i \in Cases
    /\ Trouble(i)
    /\ running' = [running EXCEPT !.item = None, !.errors = @ \cup {i}]
    /\ UNCHANGED <<board, made, store, opened, target, config, named, calls>>

\* _commit_batch_session as the write step: the same checks of the chunks, none
\* of the number of the items or of the tenant they were declared for.
Ingest(s) ==
    /\ running # None /\ running.batch
    /\ store[s] # None /\ AllArrived(s) /\ Intact(s)
    /\ board' = Landed(ItemsOf(Joined(store[s].chunks)))
    /\ store' = [store EXCEPT ![s] = None]
    /\ running' = [running EXCEPT !.batch = FALSE]
    /\ UNCHANGED <<made, opened, target, config, named, failed, faults, calls>>

AllWritten == running # None /\ running.todo = {} /\ running.item = None /\ ~running.batch

\* The configuration is turned over.  A native target does not get here:
\* seed_identity is given the method `_pool` for a pool and raises.
Switch ==
    /\ AllWritten /\ target # "native"
    /\ config' = "target"
    /\ named' = running.errors
    /\ running' = None
    /\ UNCHANGED <<ingest, target, failed, faults, calls>>

\* Something raised after ensure_target: the rollback.  It deletes a native
\* tenant this call made, by the same method, which raises again and is
\* reported; other targets it leaves.  The errors so far are not reported.
RollBack ==
    /\ \/ AllWritten /\ target = "native" /\ UNCHANGED faults
       \/ AllWritten /\ target # "native" /\ Fault
       \/ running # None /\ running.batch /\ UNCHANGED faults
    /\ running' = None
    /\ UNCHANGED <<ingest, target, config, named, failed, calls>>

\* The server dies in a call, or ensure_target raises and nothing answers.
MoveDies ==
    /\ running # None /\ Fault
    /\ failed' = failed \cup ({running.item} \ {None})
    /\ running' = None
    /\ store' = [s \in Sessions |-> None]
    /\ UNCHANGED <<board, made, opened, target, config, named, calls>>

MoveStep ==
    \/ \E reuse \in BOOLEAN, batch \in BOOLEAN : Begin(reuse, batch)
    \/ \E i \in Items :
        Skip(i) \/ Create(i) \/ Refused(i) \/ HalfDone(i) \/ List(i) \/ ListFails(i)
    \/ \E s \in Sessions : Ingest(s)
    \/ Switch \/ RollBack \/ MoveDies

MoveNext ==
    \/ MoveStep
    \/ target = "native" /\ IngestNext /\ UNCHANGED move

MoveSpec == MoveInit /\ [][MoveNext]_moveVars

-----------------------------------------------------------------------------
\* Calls that are made again add no second card of an item, whatever became
\* of the earlier ones, unless a request about that item went wrong.
RepeatsAddNoCards ==
    \A i \in Items \ failed : board[i].named + board[i].blank <= 1

\* When the configuration is turned over, what is not on the target is named in
\* the errors of that call: no call passes over an item because an earlier one
\* came to grief.  Only a story on Trello, one that failed before, is passed
\* over: the search for it finds one of its use cases.
MissingIsNamed ==
    config = "target" =>
        \A i \in Items :
            board[i].named = 0 =>
                i \in named \/ (target = "trello" /\ i \in Stories \cap failed)

\* What landed without trouble is whole, however many calls it took: it hangs
\* under its story, and its criteria are there and marked.
UntroubledIsWhole ==
    config = "target" =>
        \A i \in Items \ failed :
            /\ i \in Cases => board[i].linked \/ StoryOf[i] \in failed
            /\ i \in Criteria => board[i].listed = "whole"

\* A batch session that lands leaves the items of the file it declared, each of
\* them and no other, whatever chunks were sent twice, in another order or from
\* another version.
DeclaredIsWhatLands ==
    [][\A s \in Sessions :
        (store[s] # None /\ store'[s] = None /\ board' # board) =>
            \A i \in Items :
                IF i \in ItemsOf(store[s].blob) THEN board'[i].named > 0
                ELSE board'[i] = board[i]]_moveVars

=============================================================================
