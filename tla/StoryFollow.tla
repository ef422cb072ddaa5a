---------------------------- MODULE StoryFollow ----------------------------
(***************************************************************************)
(* A User Story and its Use Cases: start_uc, move_uc and complete_uc move  *)
(* one UC and then the story to the state its UCs imply; move_us moves the *)
(* story by hand and then its UCs; delete_uc and add_uc change the UCs and *)
(* leave the story alone.                                                  *)
(*                                                                         *)
(* Every tool works on a list it read at the start: first the story's row, *)
(* then the rows of its UCs.  Each later write is a statement of its own,  *)
(* so call[s] keeps what the call of session s has read and what it has    *)
(* still to do.  Calls overlap; the properties speak of a call that met no *)
(* other, whatever overlapping and failed calls left behind before it.     *)
(* One story; a UC that does not exist is "gone".                          *)
(***************************************************************************)
EXTENDS Naturals

CONSTANTS
  Session,     \* MCP sessions
  UC,          \* the use cases of the story
  NoUC,        \* no argument
  Operations,  \* the tools in use, a subset of Tools
  Overlapping  \* those that may begin while another call is open: all, in
               \* the code; a bound of TLC's run

Tools == {"move_uc", "start_uc", "move_us", "delete_uc", "add_uc"}

ASSUME NoUCAssumption == NoUC \notin UC
ASSUME OperationsAssumption == Operations \subseteq Tools
ASSUME OverlappingAssumption == Overlapping \subseteq Tools

WorkflowStates == {"user_stories", "backlog", "in_progress", "review", "done"}
Pending == {"user_stories", "backlog"}
Started == WorkflowStates \ Pending
UcStates == WorkflowStates \cup {"archived", "gone"}
NoState == "none"

Stages == {"idle", "list_story", "list_ucs", "update", "sync", "move",
           "cascade"}

\* The tools that list the story and write it later; the others write once.
Listing == {"move_uc", "start_uc", "move_us"}

Call == [at : Stages, op : Listing, uc : UC \cup {NoUC},
         target : WorkflowStates,
         story : WorkflowStates,      \* the story's state, as listed
         seen : [UC -> UcStates],     \* its UCs' states, as listed
         left : SUBSET UC,            \* the UCs move_us has still to move
         met : BOOLEAN,               \* another call began or ran meanwhile
         ok : BOOLEAN]                \* idle: how the last call ended

Idle(ok) == [at |-> "idle", op |-> "move_uc", uc |-> NoUC,
             target |-> "backlog", story |-> "backlog",
             seen |-> [u \in UC |-> "gone"], left |-> {}, met |-> FALSE,
             ok |-> ok]

VARIABLES
  story,  \* user_stories.state
  uc,     \* use_cases.state of each UC of the story
  call    \* the open call of each session

vars == <<story, uc, call>>

TypeOK ==
  /\ story \in WorkflowStates
  /\ uc \in [UC -> UcStates]
  /\ call \in [Session -> Call]

\* As import_spec leaves them.
Init ==
  /\ story = "user_stories"
  /\ uc \in [UC -> {"backlog", "gone"}]
  /\ call = [s \in Session |-> Idle(TRUE)]

-----------------------------------------------------------------------------
(* The rules                                                               *)

\* (mutant) what is archived counts as pending
DeriveCountsArchived(states) ==
  LET ws == states \ {"gone"}
  IN IF ws = {} THEN NoState
     ELSE IF ws = {"done"} THEN "done"
     ELSE IF "in_progress" \in ws THEN "in_progress"
     ELSE IF ws \subseteq {"review", "done"} THEN "review"
     ELSE IF ws \cap {"review", "done"} # {} THEN "in_progress"
     ELSE NoState

\* derive_us_state, of the set of the UCs' states.
DeriveUsState(states) ==
  LET ws == states \cap WorkflowStates
  IN IF ws = {} THEN NoState
     ELSE IF ws = {"done"} THEN "done"
     ELSE IF "in_progress" \in ws THEN "in_progress"
     ELSE IF ws \subseteq {"review", "done"} THEN "review"
     ELSE IF ws \cap {"review", "done"} # {} THEN "in_progress"
     ELSE NoState

StatesOf(ucs) == {ucs[u] : u \in UC}

Children(ucs) == {u \in UC : ucs[u] # "gone"}

\* (mutant) review may be asked for with UCs still in progress
MoveRefusedLoosely(target, ucs) ==
  target = "done" /\ \E u \in Children(ucs) : ucs[u] # "done"

\* move_us refuses: a UC is not yet where the story wants to go.
MoveRefused(target, ucs) ==
  \/ target = "review" /\ \E u \in Children(ucs) : ucs[u] \notin {"review", "done"}
  \/ target = "done" /\ \E u \in Children(ucs) : ucs[u] # "done"

\* The UCs move_us moves with the story.
Cascades(target, ucs) ==
  CASE target = "user_stories" -> Children(ucs)
    [] target = "backlog" -> {u \in UC : ucs[u] = "user_stories"}
    [] target = "in_progress" -> {u \in UC : ucs[u] \in Pending}
    [] OTHER -> {}

\* ... and where to.
CascadeTo(target) == IF target = "user_stories" THEN target ELSE "backlog"

-----------------------------------------------------------------------------

\* A call begins, or one that is a single statement runs: every open call has
\* met it.
Meet == [s \in Session |-> IF call[s].at = "idle" THEN call[s]
                          ELSE [call[s] EXCEPT !.met = TRUE]]

Busy == \E s \in Session : call[s].at # "idle"

Admitted(op) == op \in Operations /\ (Busy => op \in Overlapping)

Open(s, c) == call' = [Meet EXCEPT ![s] = [c EXCEPT !.met = Busy]]

Put(s, c) == call' = [call EXCEPT ![s] = c]

Return(s, ok) == Put(s, Idle(ok))

\* list_story_items, the first half: the row of the story.
ListStory(s) ==
  /\ call[s].at = "list_story"
  /\ Put(s, [call[s] EXCEPT !.at = "list_ucs", !.story = story])
  /\ UNCHANGED <<story, uc>>

\* list_story_items, the second half, and the checks on what was listed: the
\* UC is not there any more, or move_us may not move the story.
ListUcs(s) ==
  LET c == call[s]
      refused == \/ c.op = "move_us" /\ MoveRefused(c.target, uc)
                 \/ c.op # "move_us" /\ uc[c.uc] = "gone"
      next == CASE c.op = "move_uc" -> "update"
                [] c.op = "start_uc" -> "sync"
                [] OTHER -> "move"
  IN /\ c.at = "list_ucs"
     /\ \/ refused /\ Return(s, FALSE)
        \/ ~refused /\ Put(s, [c EXCEPT !.at = next, !.seen = uc])
     /\ UNCHANGED <<story, uc>>

-----------------------------------------------------------------------------
(* move_uc and complete_uc; start_uc                                       *)

MoveUc(s, u, target) ==
  /\ Admitted("move_uc")
  /\ call[s].at = "idle"
  /\ uc[u] # "gone"
  /\ Open(s, [Idle(TRUE) EXCEPT !.at = "list_story", !.op = "move_uc",
                                 !.uc = u, !.target = target])
  /\ UNCHANGED <<story, uc>>

\* update_item of the UC; ValueError when it is gone.
UpdateUc(s) ==
  LET c == call[s] IN
  /\ c.at = "update"
  /\ \/ /\ uc[c.uc] = "gone"
        /\ Return(s, FALSE)
        /\ UNCHANGED uc
     \/ /\ uc[c.uc] # "gone"
        /\ uc' = [uc EXCEPT ![c.uc] = c.target]
        /\ Put(s, [c EXCEPT !.at = "sync"])
  /\ UNCHANGED story

\* start_uc_atomic moves the UC before anything is listed.  The reservation
\* it takes in the same transaction is the matter of UcReservations.
StartUc(s, u) ==
  /\ Admitted("start_uc")
  /\ call[s].at = "idle"
  /\ uc[u] # "gone"
  /\ uc' = [uc EXCEPT ![u] = "in_progress"]
  /\ Open(s, [Idle(TRUE) EXCEPT !.at = "list_story", !.op = "start_uc",
                                 !.uc = u, !.target = "in_progress"])
  /\ UNCHANGED story

\* _sync_parent_us_state goes by the list, with the moved UC counted where it
\* was moved to.  A story that was listed in the state it should have is not
\* written.  The comment _handle_uc_completion puts on the story before is left
\* out.
Sync(s) ==
  LET c == call[s]
      target == DeriveUsState(StatesOf([c.seen EXCEPT ![c.uc] = c.target]))
  IN /\ c.at = "sync"
     /\ story' = IF target \in {NoState, c.story} THEN story ELSE target
     /\ Return(s, TRUE)
     /\ UNCHANGED uc

-----------------------------------------------------------------------------
(* move_us                                                                 *)

MoveUs(s, target) ==
  /\ Admitted("move_us")
  /\ call[s].at = "idle"
  /\ Open(s, [Idle(TRUE) EXCEPT !.at = "list_story", !.op = "move_us",
                                 !.target = target])
  /\ UNCHANGED <<story, uc>>

MoveStory(s) ==
  LET c == call[s] IN
  /\ c.at = "move"
  /\ story' = c.target
  /\ Put(s, [c EXCEPT !.at = "cascade", !.left = Cascades(c.target, c.seen)])
  /\ UNCHANGED uc

\* One child after another, in any order.
Cascade(s) ==
  LET c == call[s] IN
  /\ c.at = "cascade"
  /\ \/ /\ c.left = {}
        /\ Return(s, TRUE)
        /\ UNCHANGED uc
     \/ \E u \in c.left :
          IF uc[u] = "gone"
            THEN Return(s, FALSE) /\ UNCHANGED uc
            ELSE /\ uc' = [uc EXCEPT ![u] = CascadeTo(c.target)]
                 /\ Put(s, [c EXCEPT !.left = @ \ {u}])
  /\ UNCHANGED story

-----------------------------------------------------------------------------
(* What leaves the story alone, and failures                               *)

Archive(u) ==
  /\ Admitted("delete_uc")
  /\ uc[u] # "gone"
  /\ uc' = [uc EXCEPT ![u] = "archived"]
  /\ call' = Meet
  /\ UNCHANGED story

\* delete_uc(purge=True), when nothing refuses it.
Purge(u) ==
  /\ Admitted("delete_uc")
  /\ uc[u] \in {"backlog", "archived"}
  /\ uc' = [uc EXCEPT ![u] = "gone"]
  /\ call' = Meet
  /\ UNCHANGED story

AddUc(u) ==
  /\ Admitted("add_uc")
  /\ uc[u] = "gone"
  /\ uc' = [uc EXCEPT ![u] = "backlog"]
  /\ call' = Meet
  /\ UNCHANGED story

\* A statement fails, or the process ends: what was written stays.
Fail(s) ==
  /\ call[s].at # "idle"
  /\ Return(s, FALSE)
  /\ UNCHANGED <<story, uc>>

Next ==
  \/ \E s \in Session :
       \/ \E u \in UC :
            \/ StartUc(s, u)
            \/ \E target \in WorkflowStates : MoveUc(s, u, target)
       \/ \E target \in WorkflowStates : MoveUs(s, target)
       \/ ListStory(s) \/ ListUcs(s) \/ UpdateUc(s) \/ Sync(s)
       \/ MoveStory(s) \/ Cascade(s) \/ Fail(s)
  \/ \E u \in UC : Archive(u) \/ Purge(u) \/ AddUc(u)

Spec == Init /\ [][Next]_vars

-----------------------------------------------------------------------------
(* Properties                                                              *)

Follows ==
  LET ws == StatesOf(uc) \cap WorkflowStates IN
  /\ "in_progress" \in ws => story = "in_progress"
  /\ "review" \in ws /\ ws \subseteq {"review", "done"} => story = "review"
  /\ ws = {"done"} => story = "done"

\* "The story always follows its UCs (UC-4305): In Progress while one is being
\* worked on, Review when all are in review or done, Done when all are done":
\* so it is when a start_uc, move_uc or complete_uc that met no other call has
\* ended well, whatever calls that overlapped, went by a stale list or stopped
\* halfway had left.
StoryFollows ==
  [][\A s \in Session :
       /\ call[s].at # "idle" /\ call[s].op \in {"move_uc", "start_uc"}
       /\ ~call[s].met
       /\ call'[s].at = "idle" /\ call'[s].ok
       => Follows']_vars

\* A call that met no other takes the story to review or done only when all
\* its UCs are there: by hand ("ONLY if all UCs are in Review or Done") or
\* after its UCs.
StoryClosesLast ==
  [][story' # story /\ story' \in {"review", "done"} =>
       \A s \in Session :
         call[s].at \in {"sync", "move"} /\ ~call[s].met =>
           \A u \in UC : uc'[u] \in WorkflowStates =>
             uc'[u] \in {story', "done"}]_vars
=============================================================================
