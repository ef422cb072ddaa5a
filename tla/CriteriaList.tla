---------------------------- MODULE CriteriaList ----------------------------
(***************************************************************************)
(* The acceptance criteria (AC) of one Use Case as a numbered list, and    *)
(* the tools that edit it: add_ac, delete_ac (which renumbers what comes   *)
(* after), update_ac, mark_ac, mark_ac_batch and import_spec.              *)
(*                                                                         *)
(* A tool reads the list once and then writes one statement at a time, so  *)
(* call[s] keeps what the call of session s has listed and what it still   *)
(* has to do.  A number is a row's key (AC-07 is 7); a text stands for the *)
(* criterion itself, done for every other column a row has.                *)
(*                                                                         *)
(* The numbers below First exist too and nobody touches them: that is how  *)
(* the end of a long list is looked at.                                    *)
(***************************************************************************)
EXTENDS Integers, FiniteSets

CONSTANTS
  Session,      \* MCP sessions
  Text,         \* the criteria people may write
  NoText,       \* no row with that number
  First, Last,  \* bound: the numbers of the list that is looked at
  Planned,      \* the criteria of the spec document import_spec reads
  Operations,   \* the tools in use, a subset of Tools
  Concurrent,   \* whether calls on this UC may overlap
  MaxBatch,     \* bound: how many criteria a batch marks
  MaxFailures   \* bound: how many statements fail

Number == First..Last

Tools == {"add_ac", "delete_ac", "update_ac", "mark_ac", "mark_ac_batch",
          "import_spec"}

ASSUME SessionAssumption == Session # {}
ASSUME NumberAssumption == First \in Nat \ {0} /\ Last \in Nat /\ First <= Last
ASSUME NoTextAssumption == NoText \notin Text
ASSUME PlannedAssumption == Planned \in [Number -> Text \cup {NoText}]
ASSUME OperationsAssumption == Operations \subseteq Tools
ASSUME SwitchAssumption == Concurrent \in BOOLEAN
ASSUME MaxBatchAssumption == MaxBatch \in Nat
ASSUME MaxFailuresAssumption == MaxFailures \in Nat

Row == [text : Text \cup {NoText}, done : BOOLEAN]
NoRow == [text |-> NoText, done |-> FALSE]
NewRow(t) == [text |-> t, done |-> FALSE]
Exists(row) == row.text # NoText

Stages == {"idle", "list", "create", "write", "delete", "shift_delete",
           "shift_create", "mark"}

Call == [at : Stages, op : Tools,
         n : Number,                   \* the number it was called with
         text : Text \cup {NoText},    \* the new text, if any
         done : BOOLEAN,               \* the new done flag
         seen : [Number -> Row],       \* the list, as it was read
         todo : SUBSET Number,         \* to renumber, or to mark
         passed : SUBSET Number,       \* a batch: those with passed=True
         batch : SUBSET Number,        \* a batch: all of it
         clean : BOOLEAN]              \* no statement failed, no error

VARIABLES
  rows,      \* acceptance_criteria of the UC, by number
  call,      \* the open call of each session
  wanted,    \* history: the criteria written and not deleted since
  failures   \* history: how many statements failed

vars == <<rows, call, wanted, failures>>

Idle(clean) ==
  [at |-> "idle", op |-> "mark_ac", n |-> First, text |-> NoText,
   done |-> FALSE, seen |-> [k \in Number |-> NoRow], todo |-> {},
   passed |-> {}, batch |-> {}, clean |-> clean]

TypeOK ==
  /\ rows \in [Number -> Row]
  /\ call \in [Session -> Call]
  /\ wanted \subseteq Text
  /\ failures \in Nat

TextsOf(list) == {list[k].text : k \in Number} \ {NoText}

\* As import_spec leaves them.
Init ==
  /\ rows = [k \in Number |-> NewRow(Planned[k])]
  /\ call = [s \in Session |-> Idle(TRUE)]
  /\ wanted = TextsOf(rows)
  /\ failures = 0

-----------------------------------------------------------------------------
(* Numbers and their order                                                 *)

\* next_ac_id: one more than the highest.
NextNumber(list) ==
  CHOOSE k \in First..(Last + 1) :
    /\ \A j \in Number : Exists(list[j]) => j < k
    /\ k = First \/ Exists(list[k - 1])

\* (mutant) the list is read from its end
ListedBeforeReversed(j, k) == j > k

\* ORDER BY id compares text: AC-01 ... AC-10, AC-100, AC-101 ... AC-11 ...
\* Two digits are followed by nothing, which sorts first.
ListedBefore(j, k) ==
  LET Digits(i) == IF i < 100 THEN 10 * i ELSE i
  IN \/ Digits(j) < Digits(k)
     \/ Digits(j) = Digits(k) /\ j < k

FirstOf(todo) == CHOOSE k \in todo : \A j \in todo \ {k} : ListedBefore(k, j)

-----------------------------------------------------------------------------
(* Calls                                                                   *)

\* The hypothesis: a call begins when no other is open on the UC.
Admitted(s, tool) ==
  /\ tool \in Operations
  /\ call[s].at = "idle"
  /\ Concurrent \/ \A t \in Session : call[t].at = "idle"

Put(s, c) == call' = [call EXCEPT ![s] = c]

Return(s, clean) == Put(s, Idle(clean))

\* A text nobody has written: it is in no row and no call goes by it.
Fresh(t) ==
  /\ t \notin TextsOf(rows) \cup wanted
  /\ \A s \in Session : t # call[s].text /\ t \notin TextsOf(call[s].seen)

CallAdd(s, t, done) ==
  /\ Admitted(s, "add_ac")
  /\ NextNumber(rows) \in Number            \* bound
  /\ Fresh(t)
  /\ Put(s, [Idle(TRUE) EXCEPT !.at = "list", !.op = "add_ac", !.text = t,
                               !.done = done])
  /\ UNCHANGED <<rows, wanted, failures>>

CallDelete(s, n) ==
  /\ Admitted(s, "delete_ac")
  /\ Put(s, [Idle(TRUE) EXCEPT !.at = "list", !.op = "delete_ac", !.n = n])
  /\ UNCHANGED <<rows, wanted, failures>>

\* update_ac of the text, of done, or of both; NoText leaves the text alone.
CallUpdate(s, n, t, done) ==
  /\ Admitted(s, "update_ac")
  /\ t = NoText \/ Fresh(t)
  /\ Put(s, [Idle(TRUE) EXCEPT !.at = "list", !.op = "update_ac", !.n = n,
                               !.text = t, !.done = done])
  /\ UNCHANGED <<rows, wanted, failures>>

CallImport(s) ==
  /\ Admitted(s, "import_spec")
  /\ Put(s, [Idle(TRUE) EXCEPT !.at = "list", !.op = "import_spec"])
  /\ UNCHANGED <<rows, wanted, failures>>

CallMarkBatch(s, batch, passed) ==
  /\ Admitted(s, "mark_ac_batch")
  /\ Cardinality(batch) <= MaxBatch
  /\ Put(s, [Idle(TRUE) EXCEPT !.at = "mark", !.op = "mark_ac_batch",
               !.todo = batch, !.batch = batch, !.passed = passed])
  /\ UNCHANGED <<rows, wanted, failures>>

\* mark_ac: one UPDATE, or AC_NOT_FOUND.
MarkAc(s, n, passed) ==
  /\ Admitted(s, "mark_ac")
  /\ \/ /\ Exists(rows[n])
        /\ rows' = [rows EXCEPT ![n].done = passed]
        /\ Return(s, TRUE)
     \/ /\ ~Exists(rows[n])
        /\ Return(s, FALSE)
        /\ UNCHANGED rows
  /\ UNCHANGED <<wanted, failures>>

\* get_acceptance_criteria, and what the tool makes of it.
List(s) ==
  LET c == [call[s] EXCEPT !.seen = rows] IN
  /\ c.at = "list"
  /\ \/ /\ c.op = "add_ac"
        /\ NextNumber(rows) \in Number        \* bound
        /\ Put(s, [c EXCEPT !.at = "create", !.n = NextNumber(rows)])
     \/ /\ c.op = "import_spec"
        /\ Put(s, [c EXCEPT !.at = "create"])
     \/ /\ c.op \in {"delete_ac", "update_ac"}
        /\ ~Exists(rows[c.n])
        /\ Return(s, FALSE)                   \* AC_NOT_FOUND
     \/ /\ c.op = "delete_ac"
        /\ Exists(rows[c.n])
        /\ Put(s, [c EXCEPT !.at = "delete"])
     \/ /\ c.op = "update_ac"
        /\ Exists(rows[c.n])
        /\ IF c.text = NoText /\ c.done = rows[c.n].done
             THEN Return(s, TRUE)             \* no_change
             ELSE Put(s, [c EXCEPT !.at = "write"])
  /\ UNCHANGED <<rows, wanted, failures>>

-----------------------------------------------------------------------------
(* add_ac, import_spec and update_ac                                       *)

\* The rows a call creates: one, or those of the document with a new number.
NewRows(c) ==
  IF c.op = "add_ac"
    THEN {c.n}
    ELSE {k \in Number : Planned[k] # NoText /\ ~Exists(c.seen[k])}

\* create_acceptance_criteria: all rows in one transaction, or the key of one
\* of them is taken and none is written.
Create(s) ==
  LET c == call[s]
      new == NewRows(c)
      TextOf(k) == IF c.op = "add_ac" THEN c.text ELSE Planned[k]
  IN
  /\ c.at = "create"
  /\ \/ /\ \E k \in new : Exists(rows[k])
        /\ Return(s, FALSE)
        /\ UNCHANGED <<rows, wanted>>
     \/ /\ \A k \in new : ~Exists(rows[k])
        /\ rows' = [k \in Number |->
                      IF k \in new THEN NewRow(TextOf(k)) ELSE rows[k]]
        /\ wanted' = wanted \cup {TextOf(k) : k \in new}
        /\ IF c.op = "add_ac" /\ c.done
             THEN Put(s, [c EXCEPT !.at = "write", !.text = NoText])
             ELSE Return(s, TRUE)
  /\ UNCHANGED failures

\* update_acceptance_criterion: only what differs from what was listed.
Write(s) ==
  LET c == call[s]
      old == rows[c.n]
  IN
  /\ c.at = "write"
  /\ \/ /\ ~Exists(old)
        /\ Return(s, c.op = "add_ac")
        /\ UNCHANGED <<rows, wanted>>
     \/ /\ Exists(old)
        /\ rows' = [rows EXCEPT ![c.n] =
             [text |-> IF c.text = NoText THEN old.text ELSE c.text,
              done |-> IF c.done = c.seen[c.n].done THEN old.done ELSE c.done]]
        /\ wanted' = IF c.text = NoText THEN wanted
                     ELSE (wanted \ {old.text}) \cup {c.text}
        /\ Return(s, c.clean)
  /\ UNCHANGED failures

-----------------------------------------------------------------------------
(* delete_ac                                                               *)

\* The call goes on with these numbers to renumber, or is over.
Rest(c, todo) ==
  IF todo = {} THEN Idle(c.clean)
               ELSE [c EXCEPT !.at = "shift_delete", !.todo = todo]

\* (mutant) the numbers below the deleted one are shifted as well
DeleteShiftsAll(s) ==
  LET c == call[s] IN
  /\ c.at = "delete"
  /\ Exists(rows[c.n])
  /\ rows' = [rows EXCEPT ![c.n] = NoRow]
  /\ wanted' = wanted \ {rows[c.n].text}
  /\ Put(s, Rest(c, {k \in Number \ {c.n, First} : Exists(c.seen[k])}))
  /\ UNCHANGED failures

Delete(s) ==
  LET c == call[s] IN
  /\ c.at = "delete"
  /\ \/ /\ ~Exists(rows[c.n])
        /\ Return(s, FALSE)
        /\ UNCHANGED <<rows, wanted>>
     \/ /\ Exists(rows[c.n])
        /\ rows' = [rows EXCEPT ![c.n] = NoRow]
        /\ wanted' = wanted \ {rows[c.n].text}
        /\ Put(s, Rest(c, {k \in Number : k > c.n /\ Exists(c.seen[k])}))
  /\ UNCHANGED failures

\* Each number after it: delete the row, then create it one lower with the
\* text that was listed.  What goes wrong is logged and the next one is tried.
ShiftDelete(s) ==
  LET c == call[s]
      k == FirstOf(c.todo)
  IN
  /\ c.at = "shift_delete"
  /\ \/ /\ Exists(rows[k])
        /\ rows' = [rows EXCEPT ![k] = NoRow]
        /\ Put(s, [c EXCEPT !.at = "shift_create"])
     \/ /\ ~Exists(rows[k])
        /\ Put(s, Rest(c, c.todo \ {k}))
        /\ UNCHANGED rows
  /\ UNCHANGED <<wanted, failures>>

ShiftCreate(s) ==
  LET c == call[s]
      k == FirstOf(c.todo)
  IN
  /\ c.at = "shift_create"
  /\ rows' = IF Exists(rows[k - 1]) THEN rows
             ELSE [rows EXCEPT ![k - 1] = NewRow(c.seen[k].text)]
  /\ Put(s, Rest(c, c.todo \ {k}))
  /\ UNCHANGED <<wanted, failures>>

-----------------------------------------------------------------------------
(* mark_ac_batch                                                           *)

\* (mutant) a criterion that is not there ends the batch
MarkStops(s) ==
  LET c == call[s] IN
  \E k \in c.todo :
  /\ c.at = "mark"
  /\ rows' = IF Exists(rows[k])
               THEN [rows EXCEPT ![k].done = k \in c.passed] ELSE rows
  /\ IF c.todo = {k} \/ ~Exists(rows[k])
       THEN Return(s, c.clean)
       ELSE Put(s, [c EXCEPT !.todo = @ \ {k}])
  /\ UNCHANGED <<wanted, failures>>

\* One after another, in the caller's order; what is not there is skipped.
Mark(s) ==
  LET c == call[s] IN
  \E k \in c.todo :
  /\ c.at = "mark"
  /\ rows' = IF Exists(rows[k])
               THEN [rows EXCEPT ![k].done = k \in c.passed] ELSE rows
  /\ IF c.todo = {k}
       THEN Return(s, c.clean)
       ELSE Put(s, [c EXCEPT !.todo = @ \ {k}])
  /\ UNCHANGED <<wanted, failures>>

-----------------------------------------------------------------------------
(* Failures                                                                *)

\* A statement fails.  Renumbering and batches swallow it and go on with the
\* next criterion; the done flag of add_ac is forgotten; any other call ends.
\* A DELETE or UPDATE that is committed and whose audit row then fails leaves
\* the rows as the statement followed by a failure, of the next one or of all.
StatementFails(s) ==
  LET c == call[s]
      k == FirstOf(c.todo)
  IN
  /\ c.at # "idle"
  /\ failures < MaxFailures
  /\ failures' = failures + 1
  /\ CASE c.at \in {"shift_delete", "shift_create"} ->
            Put(s, Rest([c EXCEPT !.clean = FALSE], c.todo \ {k}))
       [] c.at = "mark" ->
            \E j \in c.todo :
              IF c.todo = {j} THEN Return(s, FALSE)
              ELSE Put(s, [c EXCEPT !.todo = @ \ {j}, !.clean = FALSE])
       [] OTHER -> Return(s, FALSE)
  /\ UNCHANGED <<rows, wanted>>

\* The process ends: what was written stays.
Die(s) ==
  /\ call[s].at # "idle"
  /\ failures < MaxFailures
  /\ failures' = failures + 1
  /\ Return(s, FALSE)
  /\ UNCHANGED <<rows, wanted>>

\* The comments and the audit rows these tools write are left out.
Next ==
  \E s \in Session :
    \/ \E t \in Text, done \in BOOLEAN : CallAdd(s, t, done)
    \/ \E n \in Number :
         \/ CallDelete(s, n)
         \/ \E t \in Text \cup {NoText}, done \in BOOLEAN :
              CallUpdate(s, n, t, done)
         \/ \E passed \in BOOLEAN : MarkAc(s, n, passed)
    \/ \E batch \in SUBSET Number \ {{}} :
         \E passed \in SUBSET batch : CallMarkBatch(s, batch, passed)
    \/ CallImport(s)
    \/ List(s) \/ Create(s) \/ Write(s)
    \/ Delete(s) \/ ShiftDelete(s) \/ ShiftCreate(s) \/ Mark(s)
    \/ StatementFails(s) \/ Die(s)

Spec == Init /\ [][Next]_vars

-----------------------------------------------------------------------------
(* Properties                                                              *)

\* "Renumbering: if AC-03 is deleted from [AC-01 ... AC-05], the result is
\* [AC-01, AC-02, AC-03 (was AC-04), AC-04 (was AC-05)]": when a delete_ac has
\* ended and no statement of it failed, what came after the deleted criterion
\* is one lower, in the same order, and what came before is as it was.
DeleteClosesTheGap ==
  [][\A s \in Session :
       LET c == call[s] IN
       /\ c.op = "delete_ac" /\ c.at \notin {"idle", "list"}
       /\ call'[s].at = "idle" /\ call'[s].clean
       => \A k \in Number :
            IF k < c.n THEN rows'[k] = c.seen[k]
            ELSE rows'[k].text = IF k = Last THEN NoText
                                 ELSE c.seen[k + 1].text]_vars

\* A criterion that is on its way to its new number.
Moving ==
  {call[s].seen[FirstOf(call[s].todo)].text :
     s \in {r \in Session : call[r].at = "shift_create"}}

\* Renumbering deletes and creates in separate transactions and swallows what
\* fails: a criterion nobody deleted is missing only for a failed statement,
\* and one failure never costs two.
LossesAreFailures ==
  Cardinality(wanted \ (TextsOf(rows) \cup Moving)) <= failures

\* A batch none of whose statements failed has given its verdict to every
\* criterion of it that is there: one that is not does not stop the others.
CleanBatchIsRecorded ==
  [][\A s \in Session :
       LET c == call[s] IN
       /\ c.at = "mark" /\ call'[s].at = "idle" /\ call'[s].clean
       => \A k \in c.batch :
            Exists(rows'[k]) => (rows'[k].done <=> k \in c.passed)]_vars
=============================================================================
