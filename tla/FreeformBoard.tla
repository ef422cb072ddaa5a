--------------------------- MODULE FreeformBoard ---------------------------
(***************************************************************************)
(* What a FreeForm board promises its callers: items.json is one list, and *)
(* each tool call changes it in one step, as FreeformBackend in            *)
(* backends/freeform_backend.py does with the list it is given.            *)
(* FreeformStore has the steps these calls really take.                    *)
(*                                                                         *)
(* The items are the use cases and their criteria; stories and epics, with *)
(* numbers of their own, are handled in the same way.                      *)
(***************************************************************************)
EXTENDS Naturals, FiniteSets, FiniteSetsExt, Functions

CONSTANTS
    Ids,     \* ids of items: a call draws new ones at random
    States,  \* states of a use case, a criterion is in "backlog" or "done"
    Texts    \* what an item may say

ASSUME StatesAreKnown == {"backlog", "done"} \subseteq States

VARIABLE board \* items.json: a function from the ids that are there

Items == [kind : {"UC", "AC"}, number : Nat, under : Ids, state : States, text : Texts]

CasesOf(b) == {i \in DOMAIN b : b[i].kind = "UC"}
CriteriaOf(b, u) == {i \in DOMAIN b : b[i].kind = "AC" /\ b[i].under = u}
NumbersOf(b) == {b[u].number : u \in CasesOf(b)}

With(b, i, item) == [j \in DOMAIN b \cup {i} |-> IF j = i THEN item ELSE b[j]]

\* What the calls make of a board.  A use case is its own parent here.
WithCase(b, u, n, t) ==
    With(b, u, [kind |-> "UC", number |-> n, under |-> u, state |-> "backlog", text |-> t])

\* add_ac takes the next number of the use case (next_ac_id).
WithCriterion(b, a, u, t) ==
    LET n == Max({0} \cup {b[c].number : c \in CriteriaOf(b, u)}) + 1
    IN  With(b, a, [kind |-> "AC", number |-> n, under |-> u, state |-> "backlog", text |-> t])

\* update_item, mark_acceptance_criterion and update_acceptance_criterion.
WithState(b, i, s) == [b EXCEPT ![i].state = s]
WithText(b, i, t) == [b EXCEPT ![i].text = t]

Without(b, gone) == Restrict(b, DOMAIN b \ gone)

\* purge_use_case deletes the use case with its criteria, if it never had work.
Gone(b, u) == {u} \cup CriteriaOf(b, u)
Purgeable(b, u) ==
    /\ b[u].state = "backlog"
    /\ \A a \in CriteriaOf(b, u) : b[a].state # "done"

\* The calls, each in one step.  A new use case takes a number that none has.
BoardInit == board = <<>>

AddCase(u, t) ==
    /\ u \in DOMAIN board' \ DOMAIN board
    /\ LET n == board'[u].number
       IN  /\ n \in Nat \ ({0} \cup NumbersOf(board))
           /\ \/ board' = WithCase(board, u, n, t)
              \/ \E a \in Ids \ (DOMAIN board \cup {u}) :
                   board' = WithCriterion(WithCase(board, u, n, t), a, u, t)

AddCriterion(u, t) ==
    /\ u \in CasesOf(board)
    /\ \E a \in Ids \ DOMAIN board : board' = WithCriterion(board, a, u, t)

Change(i) ==
    /\ i \in DOMAIN board
    /\ \/ \E s \in States : board' = WithState(board, i, s)
       \/ \E t \in Texts : board' = WithText(board, i, t)

ArchiveCase(u) == u \in CasesOf(board) /\ board' = Without(board, {u})

PurgeCase(u) ==
    \/ /\ u \in CasesOf(board) /\ Purgeable(board, u)
       /\ board' = Without(board, Gone(board, u))
    \/ /\ u \notin DOMAIN board \* the use case is in the archive already
       /\ board' = Without(board, CriteriaOf(board, u))

BoardNext ==
    \E i \in Ids :
        \/ \E t \in Texts : AddCase(i, t) \/ AddCriterion(i, t)
        \/ Change(i) \/ ArchiveCase(i) \/ PurgeCase(i)

\* Each call changes the whole board in one step, whatever else is under way.
OneBoard == BoardInit /\ [][BoardNext]_board

=============================================================================
