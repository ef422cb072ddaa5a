------------------------- MODULE CriteriaListProofs -------------------------
(***************************************************************************)
(* Proofs about CriteriaList, for lists of any length below a hundred and  *)
(* any number of failures: when calls on a UC do not overlap, renumbering  *)
(* closes the gap, and loses no more criteria than statements fail.        *)
(***************************************************************************)
EXTENDS CriteriaList, TLAPS, FiniteSetTheorems, WellFoundedInduction

USE NumberAssumption, NoTextAssumption, PlannedAssumption
USE DEF Tools, Stages

-----------------------------------------------------------------------------
(* The order of the list                                                   *)

\* The order of the list has a first element in every set of numbers.
LEMMA FirstIsFirst ==
  ASSUME NEW todo \in SUBSET Number, todo # {}
  PROVE  /\ FirstOf(todo) \in todo
         /\ \A j \in todo \ {FirstOf(todo)} : ListedBefore(FirstOf(todo), j)
  <1> DEFINE Rank(j) == IF j < 100 THEN 20 * j ELSE 2 * j + 1
             R == {Rank(j) : j \in todo}
             Less == OpToRel(<, Nat)
  <1>1. todo \subseteq Nat
    BY DEF Number
  <1>2. R \subseteq Nat /\ R # {}
    <2>1. \A j \in todo : Rank(j) \in Nat
      BY <1>1
    <2> HIDE DEF Rank
    <2>2. QED
      BY <2>1
  <1>3. IsWellFoundedOn(Less, Nat)
    BY NatLessThanWellFounded
  <1>4. PICK x \in R : \A y \in R : ~(<<y, x>> \in Less)
    <2> HIDE DEF R, Less
    <2>1. QED
      BY <1>2, <1>3, WFMin
  <1>5. \A y \in R : ~(y < x)
    BY <1>2, <1>4 DEF OpToRel
  <1>6. PICK k \in todo : x = Rank(k)
    BY <1>4
  <1>7. \A j \in todo \ {k} : ListedBefore(k, j)
    <2>1. SUFFICES ASSUME NEW j \in todo, j # k PROVE ListedBefore(k, j)
      OBVIOUS
    <2>2. ~(Rank(j) < Rank(k))
      BY <1>5, <1>6
    <2>3. j \in Nat /\ k \in Nat
      BY <1>1
    <2>4. QED
      BY <2>1, <2>2, <2>3 DEF ListedBefore
  <1>8. \E k2 \in todo : \A j \in todo \ {k2} : ListedBefore(k2, j)
    BY <1>7
  <1>9. QED
    BY <1>8 DEF FirstOf

\* Below a hundred the order of the list is the order of the numbers.
LEMMA FirstIsLeast ==
  ASSUME Last < 100, NEW todo \in SUBSET Number, todo # {}
  PROVE  FirstOf(todo) \in todo /\ \A j \in todo : FirstOf(todo) <= j
  <1> DEFINE k == FirstOf(todo)
  <1>1. k \in todo /\ \A j \in todo \ {k} : ListedBefore(k, j)
    BY FirstIsFirst
  <1>2. \A j \in Number : j \in Nat /\ j < 100
    BY DEF Number
  <1> HIDE DEF k
  <1>3. \A j \in todo : j \in Nat /\ j < 100
    BY <1>2
  <1>4. ASSUME NEW j \in todo PROVE k <= j
    BY <1>1, <1>3 DEF ListedBefore
  <1>5. QED
    BY <1>1, <1>4 DEF k

-----------------------------------------------------------------------------
(* Types                                                                   *)

LEMMA RowTypes ==
  /\ NoRow \in Row
  /\ \A t \in Text \cup {NoText} : NewRow(t) \in Row
  /\ ~Exists(NoRow)
  BY DEF NoRow, NewRow, Row, Exists

LEMMA IdleType == \A ok \in BOOLEAN :
  First \in Number => Idle(ok) \in Call /\ Idle(ok).at = "idle"
  BY RowTypes DEF Idle, Call

LEMMA RestType ==
  ASSUME NEW c \in Call, NEW todo \in SUBSET Number
  PROVE  Rest(c, todo) \in Call
  <1>1. First \in Number /\ c.clean \in BOOLEAN
    BY DEF Call, Number
  <1>2. [c EXCEPT !.at = "shift_delete", !.todo = todo] \in Call
    BY DEF Call
  <1>3. QED
    BY <1>1, <1>2, IdleType DEF Rest

\* A text to add is a text, and renumbering ends with its last number.
GoodForm(c) ==
  /\ c.op = "add_ac" /\ c.at \in {"list", "create"} => c.text # NoText
  /\ c.at \in {"shift_delete", "shift_create"} => c.todo # {}

TInv == TypeOK /\ \A s \in Session : GoodForm(call[s])

\* What keeps TInv: one call is replaced by a well-typed one.
LEMMA PutType ==
  ASSUME TInv, NEW s \in Session, NEW c \in Call, GoodForm(c), Put(s, c),
         rows' \in [Number -> Row], wanted' \subseteq Text, failures' \in Nat
  PROVE  TInv'
  BY DEF TInv, TypeOK, Put

LEMMA SomeNumber == ASSUME NEW c \in Call PROVE First \in Number
  BY DEF Call, Number

LEMMA IdleGood == \A ok : GoodForm(Idle(ok))
  BY DEF GoodForm, Idle

LEMMA RestGood == ASSUME NEW c, NEW todo PROVE GoodForm(Rest(c, todo))
  BY IdleGood DEF GoodForm, Rest

LEMMA StepType == TInv /\ [Next]_vars => TInv'
  <1> SUFFICES ASSUME TInv, Next PROVE TInv'
    BY DEF vars, TInv, TypeOK
  <1> USE DEF TInv, TypeOK
  <1>1. PICK s \in Session : 
          \/ \E t \in Text, done \in BOOLEAN : CallAdd(s, t, done)
          \/ \E n \in Number :
               \/ CallDelete(s, n)
               \/ \E t \in Text \cup {NoText}, done \in BOOLEAN :
                    CallUpdate(s, n, t, done)
               \/ \E passed \in BOOLEAN : MarkAc(s, n, passed)
          \/ \E batch \in SUBSET Number \ {{}} :
               \E passed \in SUBSET batch : CallMarkBatch(s, batch, passed)
          \/ CallImport(s)
          \/ List(s) \/ Create(s) \/ Write(s)
          \/ Delete(s) \/ ShiftDelete(s) \/ ShiftCreate(s) \/ Mark(s)
          \/ StatementFails(s) \/ Die(s)
    BY DEF Next
  <1>2. First \in Number /\ call[s] \in Call /\ GoodForm(call[s])
    BY SomeNumber
  <1>3. \A ok \in BOOLEAN : Idle(ok) \in Call
    BY <1>2, IdleType
  <1>4. ASSUME NEW ok \in BOOLEAN, Return(s, ok),
               rows' \in [Number -> Row], wanted' \subseteq Text,
               failures' \in Nat
        PROVE  TInv'
    BY <1>3, <1>4, PutType, IdleGood DEF Return
  <1>5. ASSUME NEW t \in Text, NEW done \in BOOLEAN, CallAdd(s, t, done)
        PROVE  TInv'
    <2> DEFINE c == [Idle(TRUE) EXCEPT !.at = "list", !.op = "add_ac",
                                       !.text = t, !.done = done]
    <2>1. c \in Call
      BY <1>3 DEF Call, Idle
    <2>3. GoodForm(c)
      BY NoTextAssumption DEF GoodForm, Idle
    <2>2. QED
      BY <1>5, <2>1, <2>3, PutType DEF CallAdd
  <1>6. ASSUME NEW n \in Number, CallDelete(s, n)
        PROVE  TInv'
    <2> DEFINE c == [Idle(TRUE) EXCEPT !.at = "list", !.op = "delete_ac",
                                       !.n = n]
    <2>1. c \in Call /\ GoodForm(c)
      BY <1>3 DEF Call, GoodForm, Idle
    <2>2. QED
      BY <1>6, <2>1, PutType DEF CallDelete
  <1>7. ASSUME NEW n \in Number, NEW t \in Text \cup {NoText},
               NEW done \in BOOLEAN, CallUpdate(s, n, t, done)
        PROVE  TInv'
    <2> DEFINE c == [Idle(TRUE) EXCEPT !.at = "list", !.op = "update_ac",
                                       !.n = n, !.text = t, !.done = done]
    <2>1. c \in Call /\ GoodForm(c)
      BY <1>3 DEF Call, GoodForm, Idle
    <2>2. QED
      BY <1>7, <2>1, PutType DEF CallUpdate
  <1>8. ASSUME NEW n \in Number, NEW passed \in BOOLEAN, MarkAc(s, n, passed)
        PROVE  TInv'
    <2>1. rows' \in [Number -> Row]
      BY <1>8 DEF MarkAc, Row
    <2>2. QED
      BY <1>4, <1>8, <2>1 DEF MarkAc
  <1>9. ASSUME NEW batch \in SUBSET Number, NEW passed \in SUBSET batch,
               CallMarkBatch(s, batch, passed)
        PROVE  TInv'
    <2> DEFINE c == [Idle(TRUE) EXCEPT !.at = "mark", !.op = "mark_ac_batch",
                       !.todo = batch, !.batch = batch, !.passed = passed]
    <2>1. c \in Call /\ GoodForm(c)
      BY <1>3 DEF Call, GoodForm, Idle
    <2>2. QED
      BY <1>9, <2>1, PutType DEF CallMarkBatch
  <1>10. ASSUME CallImport(s)
         PROVE  TInv'
    <2> DEFINE c == [Idle(TRUE) EXCEPT !.at = "list", !.op = "import_spec"]
    <2>1. c \in Call /\ GoodForm(c)
      BY <1>3 DEF Call, GoodForm, Idle
    <2>2. QED
      BY <1>10, <2>1, PutType DEF CallImport
  <1>11. CASE List(s)
    <2> DEFINE c == [call[s] EXCEPT !.seen = rows]
               d1 == [c EXCEPT !.at = "create", !.n = NextNumber(rows)]
               d2 == [c EXCEPT !.at = "create"]
               d3 == [c EXCEPT !.at = "delete"]
               d4 == [c EXCEPT !.at = "write"]
    <2>1. c \in Call
      BY <1>2 DEF Call
    <2>2. (NextNumber(rows) \in Number => d1 \in Call)
          /\ d2 \in Call /\ d3 \in Call /\ d4 \in Call
      BY <2>1 DEF Call
    <2>3. c.at = "list" => GoodForm(d1) /\ GoodForm(d2) /\ GoodForm(d3)
                           /\ GoodForm(d4)
      BY <1>2, <2>1 DEF Call, GoodForm
    <2>4. /\ c.at = "list"
          /\ UNCHANGED <<rows, wanted, failures>>
          /\ \/ Return(s, TRUE) \/ Return(s, FALSE)
             \/ NextNumber(rows) \in Number /\ Put(s, d1)
             \/ Put(s, d2) \/ Put(s, d3) \/ Put(s, d4)
      BY <1>11, Zenon DEF List
    <2>5. /\ rows' \in [Number -> Row] 
          /\ wanted' \subseteq Text
          /\ failures' \in Nat
      BY <2>4
    <2> HIDE DEF c, d1, d2, d3, d4
    <2>6. QED
      BY <1>4, <2>2, <2>3, <2>4, <2>5, PutType
  <1>12. CASE Create(s)
    <2> DEFINE c == call[s]
               d == [c EXCEPT !.at = "write", !.text = NoText]
               TextOf(k) == IF c.op = "add_ac" THEN c.text ELSE Planned[k]
    <2>1. d \in Call /\ GoodForm(d)
      BY <1>2 DEF Call, GoodForm
    <2>2. \A k \in NewRows(c) : k \in Number /\ TextOf(k) \in Text
      <3>1. c.at = "create"
        BY <1>12 DEF Create
      <3>2. c.op = "add_ac" => c.n \in Number /\ c.text \in Text
        BY <1>2, <3>1 DEF Call, GoodForm
      <3>3. \A k \in Number : Planned[k] \in Text \cup {NoText}
        BY PlannedAssumption
      <3>4. QED
        BY <3>2, <3>3 DEF NewRows
    <2>3. rows' \in [Number -> Row] /\ wanted' \subseteq Text
          /\ failures' \in Nat
      <3>1. \/ UNCHANGED <<rows, wanted>>
            \/ /\ rows' = [k \in Number |-> IF k \in NewRows(c)
                              THEN NewRow(TextOf(k)) ELSE rows[k]]
               /\ wanted' = wanted \cup {TextOf(k) : k \in NewRows(c)}
        BY <1>12, Zenon DEF Create
      <3>2. failures' = failures
        BY <1>12, Zenon DEF Create
      <3>3. \A k \in NewRows(c) : NewRow(TextOf(k)) \in Row
        BY <2>2, RowTypes
      <3> HIDE DEF TextOf
      <3>4. QED
        BY <2>2, <3>1, <3>2, <3>3
    <2>4. Return(s, TRUE) \/ Return(s, FALSE) \/ Put(s, d)
      BY <1>12, Zenon DEF Create
    <2> HIDE DEF d
    <2>5. QED
      BY <1>4, <2>1, <2>3, <2>4, PutType
  <1>13. CASE Write(s)
    <2>1. /\ rows' \in [Number -> Row] /\ wanted' \subseteq Text
          /\ failures' \in Nat
      BY <1>2, <1>13 DEF Write, Call, Row
    <2>2. PICK ok \in BOOLEAN : Return(s, ok)
      <3>1. call[s].clean \in BOOLEAN /\ (call[s].op = "add_ac") \in BOOLEAN
        BY <1>2 DEF Call
      <3>2. Return(s, call[s].clean) \/ Return(s, call[s].op = "add_ac")
        BY <1>13, Zenon DEF Write
      <3>3. QED
        BY <3>1, <3>2, Zenon
    <2>3. QED
      BY <1>4, <2>1, <2>2, Zenon
  <1>14. CASE Delete(s)
    <2> DEFINE todo == {k \in Number : k > call[s].n /\ Exists(call[s].seen[k])}
               d == Rest(call[s], todo)
    <2>1. d \in Call /\ GoodForm(d)
      BY <1>2, RestType, RestGood
    <2>2. rows' \in [Number -> Row] /\ wanted' \subseteq Text
          /\ failures' \in Nat
      BY <1>14, RowTypes DEF Delete
    <2>3. Return(s, FALSE) \/ Put(s, d)
      BY <1>14, Zenon DEF Delete
    <2> HIDE DEF d
    <2>4. QED
      BY <1>4, <2>1, <2>2, <2>3, PutType
  <1>15. CASE ShiftDelete(s)
    <2> DEFINE c == call[s]
               d1 == [c EXCEPT !.at = "shift_create"]
               d2 == Rest(c, c.todo \ {FirstOf(c.todo)})
    <2>1. d1 \in Call /\ GoodForm(d1) /\ d2 \in Call /\ GoodForm(d2)
      <3>1. c.todo \ {FirstOf(c.todo)} \in SUBSET Number
        BY <1>2 DEF Call
      <3>2. d1 \in Call /\ GoodForm(d1)
        BY <1>2, <1>15 DEF ShiftDelete, Call, GoodForm
      <3>3. QED
        BY <1>2, <3>1, <3>2, RestType, RestGood
    <2>2. rows' \in [Number -> Row] /\ wanted' \subseteq Text
          /\ failures' \in Nat
      BY <1>15, RowTypes DEF ShiftDelete
    <2>3. Put(s, d1) \/ Put(s, d2)
      BY <1>15, Zenon DEF ShiftDelete
    <2> HIDE DEF d1, d2
    <2>4. QED
      BY <2>1, <2>2, <2>3, PutType
  <1>16. CASE ShiftCreate(s)
    <2> DEFINE c == call[s]
               d == Rest(c, c.todo \ {FirstOf(c.todo)})
    <2>1. d \in Call /\ GoodForm(d)
      <3>1. c.todo \ {FirstOf(c.todo)} \in SUBSET Number
        BY <1>2 DEF Call
      <3>2. QED
        BY <1>2, <3>1, RestType, RestGood
    <2>2. c.at = "shift_create" /\ Put(s, d)
      BY <1>16 DEF ShiftCreate
    <2>3. wanted' \subseteq Text /\ failures' \in Nat
      BY <1>16 DEF ShiftCreate
    <2>4. rows' \in [Number -> Row]
      <3> DEFINE k == FirstOf(c.todo)
      <3>1. CASE k - 1 \in Number /\ k \in Number
        <4>1. NewRow(c.seen[k].text) \in Row
          BY <1>2, <3>1, RowTypes DEF Call, Row
        <4> HIDE DEF k
        <4>2. QED
          BY <1>16, <3>1, <4>1 DEF ShiftCreate, k
      <3>2. CASE k - 1 \notin Number
        BY <1>16, <3>2 DEF ShiftCreate
      <3>3. k \in Number
        BY <1>2, <2>2, FirstIsFirst DEF Call, GoodForm
      <3>4. QED
        BY <3>1, <3>2, <3>3
    <2> HIDE DEF d
    <2>5. QED
      BY <2>1, <2>2, <2>3, <2>4, PutType
  <1>17. CASE Mark(s)
    <2>1. PICK k \in call[s].todo :
            /\ rows' = IF Exists(rows[k])
                 THEN [rows EXCEPT ![k].done = k \in call[s].passed] ELSE rows
            /\ IF call[s].todo = {k}
                 THEN Return(s, call[s].clean)
                 ELSE Put(s, [call[s] EXCEPT !.todo = @ \ {k}])
      BY <1>17 DEF Mark
    <2> DEFINE d == [call[s] EXCEPT !.todo = @ \ {k}]
    <2>2. /\ call[s].clean \in BOOLEAN /\ d \in Call
          /\ call[s].at = "mark" => GoodForm(d)
      BY <1>2 DEF Call, GoodForm
    <2>3. /\ call[s].at = "mark" /\ rows' \in [Number -> Row]
          /\ wanted' \subseteq Text /\ failures' \in Nat
      <3>1. rows' \in [Number -> Row]
        <4>1. k \in Number /\ rows[k] \in Row
          BY <1>2 DEF Call
        <4>2. \A done \in BOOLEAN : [rows[k] EXCEPT !.done = done] \in Row
          BY <4>1 DEF Row
        <4>3. (k \in call[s].passed) \in BOOLEAN
          OBVIOUS
        <4>4. QED
          BY <2>1, <4>1, <4>2, <4>3
      <3>2. QED
        BY <1>17, <3>1 DEF Mark
    <2>4. Return(s, call[s].clean) \/ Put(s, d)
      BY <2>1, Zenon
    <2> HIDE DEF d
    <2>5. QED
      BY <1>4, <2>2, <2>3, <2>4, PutType
  <1>18. CASE StatementFails(s)
    <2> DEFINE c == call[s]
               broken == [c EXCEPT !.clean = FALSE]
               d1 == Rest(broken, c.todo \ {FirstOf(c.todo)})
               d2(j) == [c EXCEPT !.todo = @ \ {j}, !.clean = FALSE]
    <2>1. d1 \in Call /\ GoodForm(d1)
      <3>1. c.todo \ {FirstOf(c.todo)} \in SUBSET Number /\ broken \in Call
        BY <1>2 DEF Call
      <3>2. QED
        BY <3>1, RestType, RestGood
    <2>2. ASSUME c.at = "mark", NEW j \in c.todo
          PROVE  d2(j) \in Call /\ GoodForm(d2(j))
      <3>1. d2(j) \in Call
        BY <1>2 DEF Call
      <3>2. d2(j).at = "mark"
        BY <1>2, <2>2 DEF Call
      <3>3. QED
        BY <3>1, <3>2 DEF GoodForm
    <2>3. rows' \in [Number -> Row] /\ wanted' \subseteq Text
          /\ failures' \in Nat
      <3>1. failures' = failures + 1 /\ UNCHANGED <<rows, wanted>>
        BY <1>18, Zenon DEF StatementFails
      <3>2. QED
        BY <3>1
    <2>4. CASE c.at \in {"shift_delete", "shift_create"}
      <3>1. Put(s, d1)
        BY <1>18, <2>4 DEF StatementFails
      <3> HIDE DEF d1
      <3>2. QED
        BY <2>1, <2>3, <3>1, PutType
    <2>5. CASE c.at = "mark"
      <3>1. PICK j \in c.todo : IF c.todo = {j} THEN Return(s, FALSE)
                                ELSE Put(s, d2(j))
        BY <1>18, <2>5 DEF StatementFails
      <3> HIDE DEF d2
      <3>2. QED
        BY <1>4, <2>2, <2>3, <2>5, <3>1, PutType
    <2>6. CASE c.at \notin {"shift_delete", "shift_create", "mark"}
      <3>1. Return(s, FALSE)
        BY <1>18, <2>6 DEF StatementFails
      <3>2. QED
        BY <1>4, <2>3, <3>1
    <2>7. QED
      BY <2>4, <2>5, <2>6
  <1>19. CASE Die(s)
    <2>1. /\ rows' \in [Number -> Row] 
          /\ wanted' \subseteq Text
          /\ failures' \in Nat
      BY <1>19 DEF Die
    <2>2. QED
      BY <1>4, <1>19, <2>1, Zenon DEF Die
  <1> HIDE DEF TInv, TypeOK
  <1>20. QED
    BY <1>1, <1>5, <1>6, <1>7, <1>8, <1>9, <1>10, <1>11, <1>12, <1>13, <1>14,
       <1>15, <1>16, <1>17, <1>18, <1>19

-----------------------------------------------------------------------------
(* What is true between two statements of a call                           *)

Shifting(c) == c.at \in {"shift_delete", "shift_create"}
Head(c) == FirstOf(c.todo)

GoodOp(c) ==
  /\ c.at = "delete" \/ Shifting(c) => c.op = "delete_ac"
  /\ c.op = "delete_ac" => c.at \in {"list", "delete"} \/ Shifting(c)

\* What is left to renumber is there, above the deleted number, and all of
\* it; the number below each is free when its turn comes, the first excepted.
GoodShift(c, list) ==
  Shifting(c) =>
    /\ \A k \in c.todo : k > c.n /\ Exists(c.seen[k])
    /\ \A k \in Number : k > Head(c) /\ Exists(c.seen[k]) => k \in c.todo
    /\ \A k \in c.todo :
         k # Head(c) \/ c.at = "shift_delete" => list[k].text = c.seen[k].text
    /\ c.at = "shift_create" => ~Exists(list[Head(c)])
    /\ \A k \in c.todo \ {Head(c)} : k - 1 \in c.todo \/ ~Exists(list[k - 1])

\* What has been renumbered without a failure is where it should be.
GoodGap(c, list) ==
  Shifting(c) /\ c.clean =>
    \A k \in Number :
      /\ k < c.n => list[k] = c.seen[k]
      /\ k >= c.n /\ k \notin c.todo =>
           list[k].text = IF k = Last \/ k + 1 \in c.todo THEN NoText
                          ELSE c.seen[k + 1].text

GoodMark(c, list) ==
  c.at = "mark" /\ c.clean =>
    \A k \in c.batch \ c.todo :
      Exists(list[k]) => (list[k].done <=> k \in c.passed)

Good(c, list) ==
  /\ GoodOp(c)
  /\ c.at = "delete" => c.seen = list
  /\ GoodShift(c, list)
  /\ GoodGap(c, list)
  /\ GoodMark(c, list)

MovingOf(c) ==
  IF c.at = "shift_create" THEN {c.seen[Head(c)].text} ELSE {}

\* A failure that left a row behind will cost the next row its place.
Owed(c, list) ==
  IF Shifting(c) /\ Exists(list[Head(c) - 1]) THEN 1 ELSE 0

Lost(w, list, c) == w \ (TextsOf(list) \cup MovingOf(c))

Bounded(w, list, c, f) ==
  /\ IsFiniteSet(Lost(w, list, c))
  /\ Cardinality(Lost(w, list, c)) + Owed(c, list) <= f

OneCall ==
  \A s, t \in Session :
    call[s].at # "idle" /\ call[t].at # "idle" => s = t

\* What is lost is counted against the call under way, if there is one.
Losses ==
  \A s \in Session :
    (\A t \in Session \ {s} : call[t].at = "idle")
      => Bounded(wanted, rows, call[s], failures)

IInv ==
  /\ TInv
  /\ OneCall
  /\ \A s \in Session : Good(call[s], rows)
  /\ Losses

LEMMA IdleIsGood == \A ok, list : Good(Idle(ok), list)
  BY DEF Good, Idle, GoodOp, GoodShift, GoodGap, GoodMark, Shifting

LEMMA QuietOwesNothing ==
  \A c, list : ~Shifting(c) => Owed(c, list) = 0 /\ MovingOf(c) = {}
  BY DEF Shifting, Owed, MovingOf

LEMMA OwedAtMostOne == \A c, list : Owed(c, list) \in {0, 1}
  BY DEF Owed

\* One call goes on while the others are idle.
LEMMA StepKeeps ==
  ASSUME IInv, TInv', NEW s \in Session, NEW c, Put(s, c),
         \A t \in Session \ {s} : call[t].at = "idle",
         Good(c, rows'), Bounded(wanted', rows', c, failures')
  PROVE  IInv'
  <1>1. call'[s] = c /\ \A t \in Session \ {s} : call'[t] = call[t]
    BY DEF Put, IInv, TInv, TypeOK
  <1>2. OneCall'
    BY <1>1 DEF OneCall
  <1>3. \A t \in Session : Good(call'[t], rows')
    <2>1. SUFFICES ASSUME NEW t \in Session \ {s} PROVE Good(call[t], rows')
      BY <1>1
    <2>2. call[t].at = "idle" /\ GoodOp(call[t])
      BY DEF IInv, Good
    <2>3. QED
      BY <2>2 DEF Good, GoodOp, GoodShift, GoodGap, GoodMark, Shifting
  <1>4. Losses'
    <2>1. SUFFICES ASSUME NEW t \in Session,
                          \A r \in Session \ {t} : call'[r].at = "idle"
                   PROVE  Bounded(wanted', rows', call'[t], failures')
      BY DEF Losses
    <2>2. CASE t = s
      BY <1>1, <2>2
    <2>3. CASE t # s
      <3>1. c.at = "idle" /\ call[t].at = "idle"
        BY <1>1, <2>1, <2>3
      <3>2. ~Shifting(c) /\ ~Shifting(call[t])
        BY <3>1 DEF Shifting
      <3>3. /\ Lost(wanted', rows', call[t]) = Lost(wanted', rows', c)
            /\ Owed(call[t], rows') = Owed(c, rows')
        BY <3>2, QuietOwesNothing DEF Lost
      <3>4. Bounded(wanted', rows', call[t], failures')
        BY <3>3 DEF Bounded
      <3>5. QED
        BY <1>1, <2>3, <3>4
    <2>4. QED
      BY <2>2, <2>3
  <1>5. QED
    BY <1>2, <1>3, <1>4 DEF IInv

LEMMA CardMore ==
  ASSUME NEW L, IsFiniteSet(L), NEW x, NEW M, M \subseteq L \cup {x}
  PROVE  IsFiniteSet(M) /\ Cardinality(M) <= Cardinality(L) + 1
  <1>1. IsFiniteSet(L \cup {x}) /\ Cardinality(L \cup {x}) <= Cardinality(L) + 1
    BY FS_AddElement, FS_CardinalityType
  <1>2. IsFiniteSet(M) /\ Cardinality(M) <= Cardinality(L \cup {x})
    BY <1>1, FS_Subset
  <1>3. QED
    BY <1>1, <1>2, FS_CardinalityType

\* Nothing more is missing.
LEMMA BoundedSame ==
  ASSUME NEW w, NEW list, NEW c, NEW f \in Nat,
         NEW w2, NEW list2, NEW c2, NEW f2 \in Nat,
         Bounded(w, list, c, f),
         Lost(w2, list2, c2) \subseteq Lost(w, list, c),
         f <= f2, Owed(c2, list2) <= Owed(c, list) + (f2 - f)
  PROVE  Bounded(w2, list2, c2, f2)
  <1> DEFINE L == Lost(w, list, c)
             M == Lost(w2, list2, c2)
  <1>1. IsFiniteSet(L) /\ Cardinality(L) + Owed(c, list) <= f
    BY DEF Bounded
  <1>2. IsFiniteSet(M) /\ Cardinality(M) <= Cardinality(L)
    BY <1>1, FS_Subset
  <1>3. Cardinality(L) \in Nat /\ Cardinality(M) \in Nat
    BY <1>1, <1>2, FS_CardinalityType
  <1>4. Owed(c, list) \in {0, 1} /\ Owed(c2, list2) \in {0, 1}
    BY OwedAtMostOne
  <1> HIDE DEF L, M
  <1>5. Cardinality(M) + Owed(c2, list2) <= f2
    BY <1>1, <1>2, <1>3, <1>4
  <1>6. QED
    BY <1>2, <1>5 DEF Bounded, M

\* One criterion more is missing, for a failure of now or before.
LEMMA BoundedMore ==
  ASSUME NEW w, NEW list, NEW c, NEW f \in Nat,
         NEW w2, NEW list2, NEW c2, NEW f2 \in Nat, NEW x,
         Bounded(w, list, c, f),
         Lost(w2, list2, c2) \subseteq Lost(w, list, c) \cup {x},
         f <= f2, Owed(c2, list2) + 1 <= Owed(c, list) + (f2 - f)
  PROVE  Bounded(w2, list2, c2, f2)
  <1> DEFINE L == Lost(w, list, c)
             M == Lost(w2, list2, c2)
  <1>1. IsFiniteSet(L) /\ Cardinality(L) + Owed(c, list) <= f
    BY DEF Bounded
  <1>2. IsFiniteSet(M) /\ Cardinality(M) <= Cardinality(L) + 1
    BY <1>1, CardMore
  <1>3. Cardinality(L) \in Nat /\ Cardinality(M) \in Nat
    BY <1>1, <1>2, FS_CardinalityType
  <1>4. Owed(c, list) \in {0, 1} /\ Owed(c2, list2) \in {0, 1}
    BY OwedAtMostOne
  <1> HIDE DEF L, M
  <1>5. Cardinality(M) + Owed(c2, list2) <= f2
    BY <1>1, <1>2, <1>3, <1>4
  <1>6. QED
    BY <1>2, <1>5 DEF Bounded, M

LEMMA QuietStep ==
  ASSUME IInv, TInv', NEW s \in Session, NEW c, Put(s, c),
         \A t \in Session \ {s} : call[t].at = "idle",
         ~Shifting(call[s]), ~Shifting(c), Good(c, rows'),
         failures <= failures',
         wanted' \ TextsOf(rows') \subseteq wanted \ TextsOf(rows)
  PROVE  IInv'
  <1>1. Bounded(wanted, rows, call[s], failures)
    BY DEF IInv, Losses
  <1>2. failures \in Nat /\ failures' \in Nat
    BY DEF IInv, TInv, TypeOK
  <1>3. Owed(c, rows') <= Owed(call[s], rows) + (failures' - failures)
    BY <1>2, QuietOwesNothing
  <1>4. Lost(wanted', rows', c) \subseteq Lost(wanted, rows, call[s])
    BY QuietOwesNothing DEF Lost
  <1>5. Bounded(wanted', rows', c, failures')
    BY <1>1, <1>2, <1>3, <1>4, BoundedSame
  <1>6. QED
    BY <1>5, StepKeeps

LEMMA Alone ==
  ASSUME IInv, NEW s \in Session, call[s].at # "idle"
  PROVE  \A t \in Session \ {s} : call[t].at = "idle"
  BY DEF IInv, OneCall

LEMMA Texts ==
  ASSUME NEW list \in [Number -> Row], NEW list2 \in [Number -> Row],
         \A k \in Number : list2[k].text = list[k].text
  PROVE  TextsOf(list2) = TextsOf(list)
  BY DEF TextsOf

\* A call begins.
LEMMA CallBegins ==
  ASSUME IInv, TInv', ~Concurrent, NEW s \in Session, NEW tool,
         Admitted(s, tool), NEW c, Put(s, c), c.at \in {"list", "mark"},
         c.op = "delete_ac" => c.at = "list", c.at = "mark" => c.batch = c.todo,
         UNCHANGED <<rows, wanted, failures>>
  PROVE  IInv'
  <1>1. \A t \in Session : call[t].at = "idle"
    BY DEF Admitted
  <1>2. ~Shifting(call[s]) /\ ~Shifting(c)
    BY <1>1 DEF Shifting
  <1>3. Good(c, rows')
    BY <1>2 DEF Good, GoodOp, GoodShift, GoodGap, GoodMark
  <1>4. failures <= failures'
    BY DEF IInv, TInv, TypeOK
  <1>5. QED
    BY <1>1, <1>2, <1>3, <1>4, QuietStep

LEMMA MarkAcKeeps ==
  ASSUME IInv, TInv', ~Concurrent, NEW s \in Session, NEW n \in Number,
         NEW passed \in BOOLEAN, MarkAc(s, n, passed)
  PROVE  IInv'
  <1>1. \A t \in Session : call[t].at = "idle"
    BY DEF MarkAc, Admitted
  <1>2. PICK ok : Put(s, Idle(ok))
    BY DEF MarkAc, Return
  <1>3. ~Shifting(call[s]) /\ ~Shifting(Idle(ok))
    BY <1>1 DEF Shifting, Idle
  <1>4. TextsOf(rows') = TextsOf(rows)
    <2>1. \A k \in Number : rows[k] \in Row
      BY DEF IInv, TInv, TypeOK
    <2>2. rows \in [Number -> Row] /\ rows' \in [Number -> Row]
      BY DEF IInv, TInv, TypeOK
    <2>3. rows' = [rows EXCEPT ![n].done = passed] \/ rows' = rows
      BY Zenon DEF MarkAc
    <2>4. \A k \in Number : rows'[k].text = rows[k].text
      BY <2>1, <2>2, <2>3 DEF Row
    <2>5. QED
      BY <2>2, <2>4, Texts
  <1>5. failures <= failures' /\ wanted' = wanted
    BY DEF MarkAc, IInv, TInv, TypeOK
  <1>6. QED
    BY <1>1, <1>2, <1>3, <1>4, <1>5, IdleIsGood, QuietStep

LEMMA ListKeeps ==
  ASSUME IInv, TInv', NEW s \in Session, List(s)
  PROVE  IInv'
  <1> DEFINE c == [call[s] EXCEPT !.seen = rows]
             d1 == [c EXCEPT !.at = "create", !.n = NextNumber(rows)]
             d2 == [c EXCEPT !.at = "create"]
             d3 == [c EXCEPT !.at = "delete"]
             d4 == [c EXCEPT !.at = "write"]
  <1>1. call[s] \in Call /\ Good(call[s], rows)
    BY DEF IInv, TInv, TypeOK
  <1>2. call[s].at = "list" /\ UNCHANGED <<rows, wanted, failures>>
    <2>1. c.at = "list" /\ UNCHANGED <<rows, wanted, failures>>
      BY Zenon DEF List
    <2>2. QED
      BY <1>1, <2>1 DEF Call
  <1>3. \/ \E ok : Put(s, Idle(ok))
        \/ /\ call[s].op = "add_ac"
           /\ Put(s, d1)
        \/ /\ call[s].op = "import_spec"
           /\ Put(s, d2)
        \/ /\ call[s].op = "delete_ac"
           /\ Put(s, d3)
        \/ /\ call[s].op = "update_ac"
           /\ Put(s, d4)
    <2>1. c.op = call[s].op
      BY <1>1 DEF Call
    <2>2. QED
      BY <2>1, Zenon DEF List, Return
  <1>4. /\ d1.at = "create" /\ d1.op = call[s].op
        /\ d2.at = "create" /\ d2.op = call[s].op
        /\ d3.at = "delete" /\ d3.op = call[s].op /\ d3.seen = rows
        /\ d4.at = "write" /\ d4.op = call[s].op
    BY <1>1 DEF Call
  <1> HIDE DEF c, d1, d2, d3, d4
  <1>5. /\ call[s].op = "add_ac" => Good(d1, rows')
        /\ call[s].op = "import_spec" => Good(d2, rows')
        /\ call[s].op = "delete_ac" => Good(d3, rows')
        /\ call[s].op = "update_ac" => Good(d4, rows')
    BY <1>2, <1>4 DEF Good, GoodOp, GoodShift, GoodGap, GoodMark, Shifting
  <1>6. /\ ~Shifting(call[s]) /\ ~Shifting(d1) /\ ~Shifting(d2)
        /\ ~Shifting(d3) /\ ~Shifting(d4) /\ \A ok : ~Shifting(Idle(ok))
    BY <1>2, <1>4 DEF Shifting, Idle
  <1>7. failures <= failures'
    BY <1>2 DEF IInv, TInv, TypeOK
  <1>8. \A t \in Session \ {s} : call[t].at = "idle"
    BY <1>2, Alone
  <1>9. QED
    BY <1>2, <1>3, <1>5, <1>6, <1>7, <1>8, IdleIsGood, QuietStep

LEMMA CreateKeeps ==
  ASSUME IInv, TInv', NEW s \in Session, Create(s)
  PROVE  IInv'
  <1> DEFINE c == call[s]
             d == [c EXCEPT !.at = "write", !.text = NoText]
             TextOf(k) == IF c.op = "add_ac" THEN c.text ELSE Planned[k]
  <1>1. c \in Call /\ rows \in [Number -> Row] /\ rows' \in [Number -> Row]
        /\ wanted' \subseteq Text /\ failures \in Nat
    BY DEF IInv, TInv, TypeOK
  <1>2. c.at = "create" /\ failures' = failures
    BY Zenon DEF Create
  <1>3. (\E ok : Put(s, Idle(ok))) \/ (c.op = "add_ac" /\ Put(s, d))
    BY Zenon DEF Create, Return
  <1>4. d.at = "write" /\ d.op = c.op
    BY <1>1 DEF Call
  <1>5. wanted' \ TextsOf(rows') \subseteq wanted \ TextsOf(rows)
    <2>1. \/ UNCHANGED <<rows, wanted>>
          \/ /\ \A k \in NewRows(c) : ~Exists(rows[k])
             /\ rows' = [k \in Number |-> IF k \in NewRows(c)
                            THEN NewRow(TextOf(k)) ELSE rows[k]]
             /\ wanted' = wanted \cup {TextOf(k) : k \in NewRows(c)}
      BY Zenon DEF Create
    <2>2. CASE UNCHANGED <<rows, wanted>>
      BY <2>2
    <2>3. CASE /\ \A k \in NewRows(c) : ~Exists(rows[k])
               /\ rows' = [k \in Number |-> IF k \in NewRows(c)
                              THEN NewRow(TextOf(k)) ELSE rows[k]]
               /\ wanted' = wanted \cup {TextOf(k) : k \in NewRows(c)}
      <3> SUFFICES ASSUME NEW x \in wanted', x \notin TextsOf(rows')
                   PROVE  x \in wanted /\ x \notin TextsOf(rows)
        OBVIOUS
      <3>1. x \in Text /\ x # NoText
        BY <1>1, NoTextAssumption
      <3>2. \A k \in Number : rows'[k].text # x
        BY <3>1 DEF TextsOf
      <3>3. NewRows(c) \subseteq Number
        BY <1>1 DEF NewRows, Call
      <3>4. \A k \in NewRows(c) : rows'[k].text = TextOf(k)
        BY <2>3, <3>3 DEF NewRow
      <3> HIDE DEF TextOf
      <3>5. x \in wanted
        BY <2>3, <3>2, <3>3, <3>4
      <3>6. \A k \in Number : rows[k].text # x
        BY <2>3, <3>1, <3>2 DEF Exists
      <3>7. QED
        BY <3>5, <3>6 DEF TextsOf
    <2>4. QED
      BY <2>1, <2>2, <2>3
  <1> HIDE DEF d
  <1>6. c.op = "add_ac" => Good(d, rows')
    BY <1>4 DEF Good, GoodOp, GoodShift, GoodGap, GoodMark, Shifting
  <1>7. ~Shifting(c) /\ ~Shifting(d) /\ \A ok : ~Shifting(Idle(ok))
    BY <1>2, <1>4 DEF Shifting, Idle
  <1>8. failures <= failures' /\ \A t \in Session \ {s} : call[t].at = "idle"
    BY <1>1, <1>2, Alone
  <1>9. QED
    BY <1>3, <1>5, <1>6, <1>7, <1>8, IdleIsGood, QuietStep

LEMMA WriteKeeps ==
  ASSUME IInv, TInv', NEW s \in Session, Write(s)
  PROVE  IInv'
  <1> DEFINE c == call[s]
  <1>1. c \in Call /\ rows \in [Number -> Row] /\ rows' \in [Number -> Row]
        /\ wanted' \subseteq Text /\ failures \in Nat
    BY DEF IInv, TInv, TypeOK
  <1>2. c.at = "write" /\ failures' = failures
    BY Zenon DEF Write
  <1>3. \E ok : Put(s, Idle(ok))
    BY Zenon DEF Write, Return
  <1>4. wanted' \ TextsOf(rows') \subseteq wanted \ TextsOf(rows)
    <2>1. \/ UNCHANGED <<rows, wanted>>
          \/ \E done :
             /\ rows' = [rows EXCEPT ![c.n] =
                  [text |-> IF c.text = NoText THEN rows[c.n].text ELSE c.text,
                   done |-> done]]
             /\ wanted' = IF c.text = NoText THEN wanted
                          ELSE (wanted \ {rows[c.n].text}) \cup {c.text}
      BY Zenon DEF Write
    <2>2. CASE UNCHANGED <<rows, wanted>>
      BY <2>2
    <2>3. ASSUME NEW done,
                 rows' = [rows EXCEPT ![c.n] =
                   [text |-> IF c.text = NoText THEN rows[c.n].text ELSE c.text,
                    done |-> done]],
                 wanted' = IF c.text = NoText THEN wanted
                           ELSE (wanted \ {rows[c.n].text}) \cup {c.text}
          PROVE  wanted' \ TextsOf(rows') \subseteq wanted \ TextsOf(rows)
      <3> SUFFICES ASSUME NEW x \in wanted', x \notin TextsOf(rows')
                   PROVE  x \in wanted /\ x \notin TextsOf(rows)
        OBVIOUS
      <3>1. x \in Text /\ x # NoText
        BY <1>1, NoTextAssumption
      <3>2. c.n \in Number /\ \A k \in Number : rows'[k].text # x
        BY <1>1, <3>1 DEF TextsOf, Call
      <3>3. rows'[c.n].text = IF c.text = NoText THEN rows[c.n].text ELSE c.text
        BY <1>1, <2>3, <3>2
      <3>4. \A k \in Number \ {c.n} : rows'[k] = rows[k]
        BY <1>1, <2>3, <3>2
      <3>5. x \in wanted
        BY <2>3, <3>2, <3>3
      <3>6. \A k \in Number : rows[k].text # x
        BY <2>3, <3>2, <3>3, <3>4
      <3>7. QED
        BY <3>5, <3>6 DEF TextsOf
    <2>4. QED
      BY <2>1, <2>2, <2>3
  <1>5. ~Shifting(c) /\ \A ok : ~Shifting(Idle(ok))
    BY <1>2 DEF Shifting, Idle
  <1>6. failures <= failures' /\ \A t \in Session \ {s} : call[t].at = "idle"
    BY <1>1, <1>2, Alone
  <1>7. QED
    BY <1>3, <1>4, <1>5, <1>6, IdleIsGood, QuietStep

LEMMA MarkKeeps ==
  ASSUME IInv, TInv', NEW s \in Session, Mark(s)
  PROVE  IInv'
  <1> DEFINE c == call[s]
  <1>1. c \in Call /\ rows \in [Number -> Row] /\ rows' \in [Number -> Row]
        /\ failures \in Nat /\ Good(c, rows)
    BY DEF IInv, TInv, TypeOK
  <1>2. PICK k \in c.todo :
          /\ rows' = IF Exists(rows[k])
               THEN [rows EXCEPT ![k].done = k \in c.passed] ELSE rows
          /\ IF c.todo = {k} THEN Return(s, c.clean)
             ELSE Put(s, [c EXCEPT !.todo = @ \ {k}])
    BY DEF Mark
  <1> DEFINE d == [c EXCEPT !.todo = @ \ {k}]
  <1>3. c.at = "mark" /\ UNCHANGED <<wanted, failures>>
    BY DEF Mark
  <1>4. Put(s, Idle(c.clean)) \/ Put(s, d)
    BY <1>2, Zenon DEF Return
  <1>5. d.at = "mark" /\ d.op = c.op /\ d.todo = c.todo \ {k}
        /\ d.clean = c.clean /\ d.batch = c.batch /\ d.passed = c.passed
    BY <1>1, <1>3 DEF Call
  <1>6. k \in Number /\ rows[k] \in Row /\ (k \in c.passed) \in BOOLEAN
    BY <1>1 DEF Call
  <1>7. /\ \A j \in Number \ {k} : rows'[j] = rows[j]
        /\ rows'[k].text = rows[k].text
        /\ Exists(rows[k]) => rows'[k].done = (k \in c.passed)
    BY <1>1, <1>2, <1>6 DEF Row
  <1>8. TextsOf(rows') = TextsOf(rows)
    <2>1. \A j \in Number : rows'[j].text = rows[j].text
      BY <1>7
    <2>2. QED
      BY <1>1, <2>1, Texts
  <1> HIDE DEF d
  <1>9. GoodMark(d, rows')
    <2> SUFFICES ASSUME d.clean, NEW j \in d.batch \ d.todo, Exists(rows'[j])
                 PROVE  rows'[j].done <=> j \in d.passed
      BY DEF GoodMark
    <2>1. CASE j = k
      <3>1. Exists(rows[k])
        BY <1>7, <2>1 DEF Exists
      <3>2. QED
        BY <1>5, <1>7, <2>1, <3>1
    <2>2. CASE j # k
      <3>1. j \in Number /\ j \in c.batch \ c.todo
        BY <1>1, <1>5, <2>2 DEF Call
      <3>2. rows'[j] = rows[j]
        BY <1>7, <2>2, <3>1
      <3>3. QED
        BY <1>1, <1>3, <1>5, <3>1, <3>2 DEF Good, GoodMark
    <2>3. QED
      BY <2>1, <2>2
  <1>10. Good(d, rows')
    <2>1. c.op # "delete_ac"
      BY <1>1, <1>3 DEF Good, GoodOp, Shifting
    <2>2. QED
      BY <1>5, <1>9, <2>1 DEF Good, GoodOp, GoodShift, GoodGap, Shifting
  <1>11. ~Shifting(c) /\ ~Shifting(d) /\ \A ok : ~Shifting(Idle(ok))
    BY <1>3, <1>5 DEF Shifting, Idle
  <1>12. failures <= failures' /\ \A t \in Session \ {s} : call[t].at = "idle"
    BY <1>1, <1>3, Alone
  <1>13. QED
    BY <1>3, <1>4, <1>8, <1>10, <1>11, <1>12, IdleIsGood, QuietStep

-----------------------------------------------------------------------------
(* Renumbering                                                             *)

\* The first number to renumber, and what is between it and the deleted one.
LEMMA HeadFacts ==
  ASSUME Last < 100, NEW c \in Call, Shifting(c), c.todo # {}, NEW list,
         GoodShift(c, list)
  PROVE  /\ Head(c) \in c.todo /\ Head(c) \in Number
         /\ Head(c) - 1 \in Number /\ Head(c) - 1 >= c.n
         /\ Head(c) - 1 \notin c.todo
         /\ \A j \in c.todo : Head(c) <= j
  <1> DEFINE h == Head(c)
  <1>1. c.todo \subseteq Number /\ c.n \in Number
    BY DEF Call
  <1>2. h \in c.todo /\ \A j \in c.todo : h <= j
    BY <1>1, FirstIsLeast DEF Head
  <1>3. h > c.n
    BY <1>2 DEF GoodShift
  <1>4. h \in Int /\ c.n \in Int /\ First <= c.n /\ h <= Last
    BY <1>1, <1>2 DEF Number
  <1> HIDE DEF h
  <1>5. h - 1 >= c.n /\ h - 1 \in Number /\ ~(h <= h - 1)
    BY <1>3, <1>4 DEF Number
  <1>6. QED
    BY <1>1, <1>2, <1>5 DEF h

LEMMA RestShape ==
  ASSUME NEW c \in Call, NEW todo \in SUBSET Number, todo # {}
  PROVE  LET d == Rest(c, todo) IN
         /\ d.at = "shift_delete" /\ d.op = c.op /\ d.n = c.n
         /\ d.seen = c.seen /\ d.todo = todo /\ d.clean = c.clean
  BY DEF Rest, Call

LEMMA DeleteKeeps ==
  ASSUME Last < 100, IInv, TInv', NEW s \in Session, Delete(s)
  PROVE  IInv'
  <1> DEFINE c == call[s]
             todo == {k \in Number : k > c.n /\ Exists(c.seen[k])}
             d == Rest(c, todo)
  <1>1. c \in Call /\ rows \in [Number -> Row] /\ rows' \in [Number -> Row]
        /\ failures \in Nat /\ Good(c, rows) /\ wanted \subseteq Text
        /\ Bounded(wanted, rows, c, failures)
    <2>1. c.at = "delete"
      BY DEF Delete
    <2>2. QED
      BY <2>1, Alone DEF IInv, TInv, TypeOK, Losses
  <1>2. c.at = "delete" /\ failures' = failures
    BY Zenon DEF Delete
  <1>3. c.n \in Number /\ c.seen = rows /\ c.op = "delete_ac"
    BY <1>1, <1>2 DEF Good, GoodOp, Call
  <1>4. ~Shifting(c) /\ \A ok : ~Shifting(Idle(ok))
    BY <1>2 DEF Shifting, Idle
  <1>5. failures <= failures' /\ \A t \in Session \ {s} : call[t].at = "idle"
    BY <1>1, <1>2, Alone
  <1>6. CASE UNCHANGED <<rows, wanted>> /\ Return(s, FALSE)
    BY <1>4, <1>5, <1>6, IdleIsGood, QuietStep DEF Return
  <1>7. CASE /\ rows' = [rows EXCEPT ![c.n] = NoRow]
             /\ wanted' = wanted \ {rows[c.n].text}
             /\ Put(s, d)
    <2>1. /\ ~Exists(rows'[c.n]) /\ rows'[c.n].text = NoText
          /\ \A k \in Number \ {c.n} : rows'[k] = rows[k]
      BY <1>1, <1>3, <1>7 DEF NoRow, Exists
    <2>2. wanted' \ TextsOf(rows') \subseteq wanted \ TextsOf(rows)
      <3> SUFFICES ASSUME NEW x \in wanted', x \notin TextsOf(rows')
                   PROVE  x \in wanted /\ x \notin TextsOf(rows)
        OBVIOUS
      <3>1. x \in wanted /\ x # NoText /\ x # rows[c.n].text
        BY <1>1, <1>7, NoTextAssumption
      <3>2. \A k \in Number : rows'[k].text # x
        BY <3>1 DEF TextsOf
      <3>3. \A k \in Number : rows[k].text # x
        BY <2>1, <3>1, <3>2
      <3>4. QED
        BY <3>1, <3>3 DEF TextsOf
    <2>3. CASE todo = {}
      <3>1. Put(s, Idle(c.clean))
        BY <1>7, <2>3, Zenon DEF Rest
      <3>2. QED
        BY <1>4, <1>5, <2>2, <3>1, IdleIsGood, QuietStep
    <2>4. CASE todo # {}
      <3>1. /\ d.at = "shift_delete" /\ d.op = c.op /\ d.n = c.n
            /\ d.seen = rows /\ d.todo = todo
        BY <1>1, <1>3, <2>4, RestShape
      <3>2. d \in Call
        BY <1>1, RestType
      <3>3. Shifting(d)
        BY <3>1 DEF Shifting
      <3>4. \A k \in Number : k \in todo <=> k > c.n /\ Exists(rows[k])
        BY <1>3
      <3>5. todo \subseteq Number
        OBVIOUS
      <3> HIDE DEF d, todo
      <3>6. \A k \in todo : k - 1 \in Number /\ k - 1 >= c.n
                            /\ (k - 1 \in todo \/ ~Exists(rows'[k - 1]))
        <4> SUFFICES ASSUME NEW k \in todo
                     PROVE  k - 1 \in Number /\ k - 1 >= c.n
                            /\ (k - 1 \in todo \/ ~Exists(rows'[k - 1]))
          OBVIOUS
        <4>1. k - 1 \in Number /\ k - 1 >= c.n /\ (k - 1 > c.n \/ k - 1 = c.n)
          BY <1>3, <3>4, <3>5 DEF Number
        <4>2. QED
          BY <2>1, <3>4, <4>1
      <3>7. GoodShift(d, rows')
        <4>1. Head(d) \in todo /\ \A j \in todo : Head(d) <= j
          BY <2>4, <3>1, <3>5, FirstIsLeast DEF Head
        <4>2. \A k \in todo : k > c.n /\ Exists(rows[k])
          BY <3>4, <3>5
        <4>3. \A k \in Number : k > Head(d) /\ Exists(rows[k]) => k \in todo
          <5>1. \A k \in Number : k \in Int
            BY DEF Number
          <5>2. Head(d) > c.n /\ Head(d) \in Number
            BY <3>5, <4>1, <4>2
          <5>3. QED
            BY <1>3, <3>4, <5>1, <5>2
        <4>4. \A k \in todo : rows'[k].text = rows[k].text
          BY <1>3, <2>1, <3>5, <4>2 DEF Number
        <4>5. QED
          BY <3>1, <3>6, <4>2, <4>3, <4>4 DEF GoodShift
      <3>8. GoodGap(d, rows')
        <4> SUFFICES ASSUME NEW k \in Number
                     PROVE  /\ k < c.n => rows'[k] = rows[k]
                            /\ k >= c.n /\ k \notin todo =>
                                 rows'[k].text =
                                   IF k = Last \/ k + 1 \in todo THEN NoText
                                   ELSE rows[k + 1].text
          BY <3>1 DEF GoodGap
        <4>1. k \in Int /\ c.n \in Int /\ Last \in Int
              /\ (k # Last => k + 1 \in Number)
          BY <1>3 DEF Number
        <4>2. k < c.n => rows'[k] = rows[k]
          BY <2>1, <4>1
        <4>3. ASSUME k >= c.n, k \notin todo PROVE rows'[k].text = NoText
          BY <2>1, <3>4, <4>1, <4>3 DEF Exists
        <4>4. ASSUME k >= c.n, k # Last, k + 1 \notin todo
              PROVE  rows[k + 1].text = NoText
          BY <3>4, <4>1, <4>4 DEF Exists
        <4>5. QED
          BY <4>2, <4>3, <4>4
      <3>9. Good(d, rows')
        BY <1>3, <3>1, <3>3, <3>7, <3>8 DEF Good, GoodOp, GoodMark
      <3>10. Owed(d, rows') = 0
        <4>1. Head(d) - 1 \notin todo /\ Head(d) \in todo
          BY <2>4, <3>1, <3>2, <3>3, <3>7, HeadFacts
        <4>2. QED
          BY <3>6, <4>1 DEF Owed
      <3>11. MovingOf(d) = {} /\ MovingOf(c) = {} /\ Owed(c, rows) = 0
        BY <1>4, <3>1, QuietOwesNothing DEF MovingOf
      <3>12. Bounded(wanted', rows', d, failures')
        <4>1. Lost(wanted', rows', d) \subseteq Lost(wanted, rows, c)
          BY <2>2, <3>11 DEF Lost
        <4>2. Owed(d, rows') <= Owed(c, rows) + (failures' - failures)
          BY <1>1, <1>2, <3>10, <3>11
        <4>3. QED
          BY <1>1, <1>2, <1>5, <4>1, <4>2, BoundedSame
      <3>13. QED
        BY <1>5, <1>7, <3>9, <3>12, StepKeeps
    <2>5. QED
      BY <2>3, <2>4
  <1>8. QED
    BY <1>6, <1>7, Zenon DEF Delete

LEMMA ShiftDeleteFacts ==
  ASSUME Last < 100, IInv, NEW s \in Session, ShiftDelete(s)
  PROVE  LET c == call[s]
             h == Head(c)
         IN
         /\ c.at = "shift_delete" /\ Shifting(c)
         /\ GoodShift(c, rows) /\ GoodGap(c, rows)
         /\ h \in c.todo /\ h \in Number /\ h - 1 \in Number
         /\ h - 1 >= c.n /\ h - 1 \notin c.todo
         /\ rows[h].text = c.seen[h].text /\ h > c.n
         /\ rows' = [rows EXCEPT ![h] = NoRow]
         /\ Put(s, [c EXCEPT !.at = "shift_create"])
         /\ UNCHANGED <<wanted, failures>>
  <1> DEFINE c == call[s]
             h == Head(c)
             d == [c EXCEPT !.at = "shift_create"]
  <1>1. c \in Call /\ Good(c, rows) /\ GoodForm(c)
    BY DEF IInv, TInv, TypeOK
  <1>2. c.at = "shift_delete" /\ UNCHANGED <<wanted, failures>>
    BY Zenon DEF ShiftDelete
  <1>3. Shifting(c) /\ c.todo # {} /\ GoodShift(c, rows) /\ GoodGap(c, rows)
    BY <1>1, <1>2 DEF Shifting, GoodForm, Good
  <1>4. /\ h \in c.todo /\ h \in Number /\ h - 1 \in Number
        /\ h - 1 >= c.n /\ h - 1 \notin c.todo
    BY <1>1, <1>3, HeadFacts
  <1>5. rows[h].text = c.seen[h].text /\ Exists(rows[h]) /\ h > c.n
    BY <1>2, <1>3, <1>4 DEF GoodShift, Exists
  <1>6. rows' = [rows EXCEPT ![h] = NoRow] /\ Put(s, d)
    <2>1. Exists(rows[FirstOf(call[s].todo)])
      BY <1>5 DEF Head
    <2>2. QED
      BY <2>1, Zenon DEF ShiftDelete, Head
  <1>7. QED
    BY <1>2, <1>3, <1>4, <1>5, <1>6, Zenon

LEMMA ShiftDeleteKeeps ==
  ASSUME Last < 100, IInv, TInv', NEW s \in Session, ShiftDelete(s)
  PROVE  IInv'
  <1> DEFINE c == call[s]
             h == Head(c)
             d == [c EXCEPT !.at = "shift_create"]
  <1>1. c \in Call /\ rows \in [Number -> Row] /\ rows' \in [Number -> Row]
        /\ failures \in Nat /\ Good(c, rows)
    BY DEF IInv, TInv, TypeOK
  <1>2. c.at = "shift_delete" /\ UNCHANGED <<wanted, failures>>
    BY ShiftDeleteFacts, Zenon
  <1>3. Shifting(c) /\ GoodShift(c, rows) /\ GoodGap(c, rows)
    BY ShiftDeleteFacts, Zenon
  <1>4. /\ h \in c.todo /\ h \in Number /\ h - 1 \in Number
        /\ h - 1 >= c.n /\ h - 1 \notin c.todo
    BY ShiftDeleteFacts, Zenon
  <1>5. rows[h].text = c.seen[h].text /\ h > c.n
    BY ShiftDeleteFacts, Zenon
  <1>6. rows' = [rows EXCEPT ![h] = NoRow] /\ Put(s, d)
    BY ShiftDeleteFacts, Zenon
  <1>7. /\ d.at = "shift_create" /\ d.op = c.op /\ d.n = c.n
        /\ d.seen = c.seen /\ d.todo = c.todo /\ d.clean = c.clean
    BY <1>1 DEF Call
  <1>8. Head(d) = h /\ Shifting(d)
    BY <1>7 DEF Head, Shifting
  <1>9. /\ ~Exists(rows'[h]) /\ rows'[h].text = NoText
        /\ \A k \in Number \ {h} : rows'[k] = rows[k]
    BY <1>1, <1>4, <1>6 DEF NoRow, Exists
  <1>10. c.todo \subseteq Number
    BY <1>1 DEF Call
  <1>11. h \in Int /\ h - 1 # h
    BY <1>4 DEF Number
  <1> HIDE DEF d, h
  <1>12. GoodShift(d, rows')
    <2>1. \A k \in c.todo : k > c.n /\ Exists(c.seen[k])
      BY <1>3 DEF GoodShift
    <2>2. \A k \in Number : k > h /\ Exists(c.seen[k]) => k \in c.todo
      BY <1>3 DEF GoodShift, h
    <2>3. \A k \in c.todo : k # h => rows'[k].text = c.seen[k].text
      BY <1>2, <1>3, <1>9, <1>10 DEF GoodShift
    <2>4. ASSUME NEW k \in c.todo \ {h}
          PROVE  k - 1 \in c.todo \/ ~Exists(rows'[k - 1])
      <3>1. k - 1 \in c.todo \/ ~Exists(rows[k - 1])
        BY <1>3 DEF GoodShift, h
      <3>2. k - 1 \in Number
        <4>1. k \in Number /\ k > c.n /\ c.n \in Number
          BY <1>1, <1>10, <2>1 DEF Call
        <4>2. QED
          BY <4>1 DEF Number
      <3>3. QED
        BY <1>9, <3>1, <3>2
    <2>5. QED
      BY <1>7, <1>8, <1>9, <2>1, <2>2, <2>3, <2>4 DEF GoodShift
  <1>13. GoodGap(d, rows')
    <2> SUFFICES ASSUME c.clean, NEW k \in Number
                 PROVE  /\ k < c.n => rows'[k] = c.seen[k]
                        /\ k >= c.n /\ k \notin c.todo =>
                             rows'[k].text =
                               IF k = Last \/ k + 1 \in c.todo THEN NoText
                               ELSE c.seen[k + 1].text
      BY <1>7 DEF GoodGap
    <2>1. k < c.n => k # h
      BY <1>1, <1>5, <1>11 DEF Call, Number
    <2>2. k \notin c.todo => k # h
      BY <1>4 DEF h
    <2>3. k # h => rows'[k] = rows[k]
      BY <1>9
    <2>4. QED
      BY <1>3, <2>1, <2>2, <2>3 DEF GoodGap
  <1>14. Good(d, rows')
    <2>1. c.op = "delete_ac"
      BY <1>1, <1>3 DEF Good, GoodOp
    <2>2. QED
      BY <1>7, <1>8, <1>12, <1>13, <2>1 DEF Good, GoodOp, GoodMark
  <1>15. Bounded(wanted', rows', d, failures')
    <2>1. MovingOf(d) = {rows[h].text} /\ MovingOf(c) = {}
      BY <1>2, <1>5, <1>7, <1>8 DEF MovingOf
    <2>2. Lost(wanted', rows', d) \subseteq Lost(wanted, rows, c)
      <3> SUFFICES ASSUME NEW x \in Lost(wanted', rows', d)
                   PROVE  x \in wanted /\ x \notin TextsOf(rows)
        BY <2>1 DEF Lost
      <3>1. x \in wanted /\ x \notin TextsOf(rows') /\ x # rows[h].text
        BY <1>2, <2>1 DEF Lost
      <3>2. x # NoText
        BY <3>1, NoTextAssumption DEF IInv, TInv, TypeOK
      <3>3. \A k \in Number : rows'[k].text # x
        BY <3>1, <3>2 DEF TextsOf
      <3>4. \A k \in Number : rows[k].text # x
        BY <1>9, <3>1, <3>3
      <3>5. QED
        BY <3>1, <3>4 DEF TextsOf
    <2>3. rows'[h - 1] = rows[h - 1]
      BY <1>4, <1>9, <1>11 DEF h
    <2>4. Owed(d, rows') = Owed(c, rows)
      BY <1>3, <1>8, <2>3 DEF Owed, h
    <2>5. Owed(c, rows) \in {0, 1}
      BY OwedAtMostOne
    <2>6. Bounded(wanted, rows, c, failures)
      BY <1>2, Alone DEF IInv, Losses
    <2>7. failures' = failures
      BY <1>2
    <2>8. failures <= failures'
          /\ Owed(d, rows') <= Owed(c, rows) + (failures' - failures)
      BY <1>1, <2>4, <2>5, <2>7
    <2>9. QED
      BY <1>1, <2>2, <2>6, <2>7, <2>8, BoundedSame
  <1>16. QED
    BY <1>2, <1>6, <1>14, <1>15, Alone, StepKeeps

\* The first number is dealt with, and its new row is all that has changed;
\* c2 is the call, with the note that a statement failed or without it.
Advances(c, list, c2, list2) ==
  /\ c \in Call /\ Shifting(c) /\ c.op = "delete_ac" /\ c.todo # {}
  /\ GoodShift(c, list)
  /\ \A k \in Number \ {Head(c) - 1} : list2[k] = list[k]
  /\ c2 \in Call /\ c2.at = c.at /\ c2.op = c.op /\ c2.n = c.n
  /\ c2.seen = c.seen /\ c2.todo = c.todo

LEMMA Advance ==
  ASSUME Last < 100, NEW c, NEW list, NEW c2, NEW list2,
         Advances(c, list, c2, list2)
  PROVE  LET d == Rest(c2, c.todo \ {Head(c)}) IN
         /\ GoodOp(d) /\ GoodShift(d, list2) /\ GoodMark(d, list2)
         /\ d.at # "delete" /\ MovingOf(d) = {}
         /\ c.at = "shift_create" => Owed(d, list2) = 0
         /\ d.clean = c2.clean
  <1> DEFINE h == Head(c)
             todo == c.todo \ {h}
             d == Rest(c2, todo)
  <1> USE DEF Advances
  <1>1. CASE todo = {}
    <2>1. d = Idle(c2.clean)
      BY <1>1 DEF Rest
    <2>2. d.at = "idle" /\ ~Shifting(d) /\ d.clean = c2.clean
      BY <2>1 DEF Idle, Shifting
    <2>3. GoodOp(d) /\ GoodShift(d, list2) /\ GoodMark(d, list2)
      BY <2>1, IdleIsGood DEF Good
    <2>4. QED
      BY <2>2, <2>3, QuietOwesNothing
  <1>2. CASE todo # {}
    <2>1. h \in c.todo /\ h \in Number /\ h - 1 \in Number
          /\ \A j \in c.todo : h <= j
      BY HeadFacts
    <2>2. c.todo \subseteq Number /\ todo \subseteq Number
      BY DEF Call
    <2>3. /\ d.at = "shift_delete" /\ d.op = c.op /\ d.n = c.n
          /\ d.seen = c.seen /\ d.todo = todo /\ d.clean = c2.clean
      BY <1>2, <2>2, RestShape
    <2> HIDE DEF d
    <2>4. Shifting(d) /\ MovingOf(d) = {}
      BY <2>3 DEF Shifting, MovingOf
    <2>5. Head(d) \in todo /\ \A j \in todo : Head(d) <= j
      BY <1>2, <2>2, <2>3, FirstIsLeast DEF Head
    <2>6. \A k \in Number : k \in Int
      BY DEF Number
    <2> HIDE DEF h
    <2>7. \A j \in todo : j > h
      BY <2>1, <2>2, <2>6
    <2>8. \A k \in Number : k >= h => list2[k] = list[k]
      BY <2>1, <2>6 DEF h
    <2>9. \A k \in c.todo : k > c.n /\ Exists(c.seen[k])
      BY DEF GoodShift
    <2>10. ASSUME NEW k \in Number, k > Head(d), Exists(c.seen[k])
           PROVE  k \in todo
      <3>1. k > h
        BY <2>1, <2>2, <2>5, <2>6, <2>7, <2>10
      <3>2. k \in c.todo
        BY <2>10, <3>1 DEF GoodShift, h
      <3>3. QED
        BY <2>1, <2>6, <3>1, <3>2
    <2>11. \A k \in todo : list2[k].text = c.seen[k].text
      <3>1. \A k \in todo : list[k].text = c.seen[k].text
        BY DEF GoodShift, h
      <3>2. \A k \in todo : list2[k] = list[k]
        BY <2>1, <2>2, <2>6, <2>7, <2>8
      <3>3. QED
        BY <3>1, <3>2
    <2>12. ASSUME NEW k \in todo
           PROVE  /\ k - 1 \in Number /\ k - 1 >= h
                  /\ k - 1 = h \/ k - 1 \in todo \/ ~Exists(list2[k - 1])
      <3>1. k \in Number /\ k > h /\ First <= h
        BY <2>1, <2>2, <2>7 DEF Number
      <3>2. k - 1 \in Number /\ k - 1 >= h
        BY <2>1, <3>1 DEF Number
      <3>3. k - 1 \in c.todo \/ ~Exists(list[k - 1])
        BY DEF GoodShift, h
      <3>4. QED
        BY <2>8, <3>2, <3>3
    <2>13. ASSUME NEW k \in todo, k # Head(d)
           PROVE  k - 1 \in todo \/ ~Exists(list2[k - 1])
      <3>1. k > Head(d) /\ Head(d) > h
        BY <2>2, <2>5, <2>6, <2>7, <2>13
      <3>2. k - 1 # h
        BY <2>1, <2>2, <2>5, <2>6, <3>1
      <3>3. QED
        BY <2>12, <3>2
    <2>14. GoodShift(d, list2)
      BY <2>3, <2>9, <2>10, <2>11, <2>13 DEF GoodShift
    <2>15. ASSUME c.at = "shift_create" PROVE Owed(d, list2) = 0
      <3>1. ~Exists(list2[h])
        BY <2>1, <2>6, <2>8, <2>15 DEF GoodShift, h
      <3>2. Head(d) - 1 \notin todo
        BY <2>2, <2>5, <2>6
      <3>3. ~Exists(list2[Head(d) - 1])
        BY <2>5, <2>12, <3>1, <3>2
      <3>4. QED
        BY <3>3 DEF Owed
    <2>16. GoodOp(d) /\ GoodMark(d, list2)
      BY <2>3, <2>4 DEF GoodOp, GoodMark
    <2>17. d.at # "delete" /\ d.clean = c2.clean
      BY <2>3
    <2>18. QED
      BY <2>4, <2>14, <2>15, <2>16, <2>17, Zenon DEF d, h
  <1>3. QED
    BY <1>1, <1>2

LEMMA ShiftCreateFacts ==
  ASSUME Last < 100, IInv, TInv', NEW s \in Session, ShiftCreate(s)
  PROVE  LET c == call[s]
             h == Head(c)
         IN
         /\ c \in Call /\ c.at = "shift_create" /\ Shifting(c)
         /\ c.op = "delete_ac" /\ c.todo # {}
         /\ GoodShift(c, rows) /\ GoodGap(c, rows)
         /\ h \in c.todo /\ h \in Number /\ h - 1 \in Number
         /\ h - 1 >= c.n /\ h - 1 \notin c.todo /\ ~Exists(rows[h])
         /\ Exists(c.seen[h])
         /\ \A k \in Number \ {h - 1} : rows'[k] = rows[k]
         /\ IF Exists(rows[h - 1]) THEN rows' = rows
            ELSE rows'[h - 1].text = c.seen[h].text
         /\ Put(s, Rest(c, c.todo \ {h}))
         /\ UNCHANGED <<wanted, failures>>
  <1> DEFINE c == call[s]
             h == Head(c)
  <1>1. c \in Call /\ rows \in [Number -> Row]
        /\ Good(c, rows) /\ GoodForm(c)
    BY DEF IInv, TInv, TypeOK
  <1>2. c.at = "shift_create" /\ UNCHANGED <<wanted, failures>>
    BY Zenon DEF ShiftCreate
  <1>3. Shifting(c) /\ c.todo # {} /\ GoodShift(c, rows) /\ GoodGap(c, rows)
        /\ c.op = "delete_ac"
    BY <1>1, <1>2 DEF Shifting, GoodForm, Good, GoodOp
  <1>4. /\ h \in c.todo /\ h \in Number /\ h - 1 \in Number
        /\ h - 1 >= c.n /\ h - 1 \notin c.todo
    BY <1>1, <1>3, HeadFacts
  <1>5. Exists(c.seen[h]) /\ ~Exists(rows[h])
    BY <1>2, <1>3, <1>4 DEF GoodShift
  <1>6. /\ rows' = IF Exists(rows[h - 1]) THEN rows
                   ELSE [rows EXCEPT ![h - 1] = NewRow(c.seen[h].text)]
        /\ Put(s, Rest(c, c.todo \ {h}))
    BY Zenon DEF ShiftCreate, Head
  <1> HIDE DEF h
  <1>7. /\ \A k \in Number \ {h - 1} : rows'[k] = rows[k]
        /\ IF Exists(rows[h - 1]) THEN rows' = rows
           ELSE rows'[h - 1].text = c.seen[h].text
    BY <1>1, <1>4, <1>6 DEF NewRow
  <1>8. QED
    BY <1>1, <1>2, <1>3, <1>4, <1>5, <1>6, <1>7, Zenon DEF h

\* After the last number nothing is left to renumber: the gap is closed.
LEMMA ShiftCreateGap ==
  ASSUME Last < 100, IInv, TInv', NEW s \in Session, ShiftCreate(s),
         call[s].clean, NEW k \in Number
  PROVE  LET c == call[s]
             todo == c.todo \ {Head(c)}
         IN
         /\ k < c.n => rows'[k] = c.seen[k]
         /\ k >= c.n /\ k \notin todo =>
              rows'[k].text = IF k = Last \/ k + 1 \in todo THEN NoText
                              ELSE c.seen[k + 1].text
  <1> DEFINE c == call[s]
             h == Head(c)
             todo == c.todo \ {h}
  <1>1. /\ c \in Call /\ Shifting(c)
        /\ GoodShift(c, rows) /\ GoodGap(c, rows)
        /\ h \in c.todo /\ h \in Number /\ h - 1 \in Number
        /\ h - 1 >= c.n /\ h - 1 \notin c.todo /\ ~Exists(rows[h])
        /\ \A j \in Number \ {h - 1} : rows'[j] = rows[j]
        /\ IF Exists(rows[h - 1]) THEN rows' = rows
           ELSE rows'[h - 1].text = c.seen[h].text
    BY ShiftCreateFacts
  <1>2. \A j \in Number : j \in Int /\ j <= Last /\ (j # Last => j + 1 \in Number)
    BY DEF Number
  <1>3. h \in Int /\ Last \in Int /\ h - 1 + 1 = h /\ h - 1 # Last
    <2>1. h \in Int /\ h <= Last
      BY <1>1, <1>2
    <2>2. Last \in Int
      BY NumberAssumption
    <2>3. QED
      BY <2>1, <2>2
  <1>4. c.n \in Int
    BY <1>1, <1>2 DEF Call
  <1> HIDE DEF h
  <1>5. /\ k < c.n => rows[k] = c.seen[k]
        /\ k >= c.n /\ k \notin c.todo =>
             rows[k].text = IF k = Last \/ k + 1 \in c.todo THEN NoText
                            ELSE c.seen[k + 1].text
    BY <1>1 DEF GoodGap
  <1>6. rows'[h - 1].text = c.seen[h].text
    <2>1. rows[h - 1].text = NoText
      BY <1>1, <1>3 DEF GoodGap
    <2>2. QED
      BY <1>1, <2>1 DEF Exists
  <1>7. CASE k = h - 1
    BY <1>1, <1>3, <1>4, <1>6, <1>7 DEF h
  <1>8. CASE k = h
    <2>1. rows'[k].text = NoText
      BY <1>1, <1>3, <1>8 DEF Exists
    <2>2. k # Last /\ k + 1 \notin todo => c.seen[k + 1].text = NoText
      <3>1. k # Last => k + 1 \in Number /\ k + 1 > h /\ k + 1 # h
        BY <1>2, <1>3, <1>8
      <3>2. QED
        BY <1>1, <3>1 DEF GoodShift, Exists, h
    <2>3. ~(k < c.n)
      BY <1>1, <1>3, <1>4, <1>8
    <2>4. QED
      BY <2>1, <2>2, <2>3 DEF h
  <1>9. CASE k # h /\ k # h - 1
    <2>1. rows'[k] = rows[k] /\ k + 1 # h
      BY <1>1, <1>2, <1>3, <1>9
    <2>2. QED
      BY <1>5, <1>9, <2>1 DEF h
  <1>10. QED
    BY <1>7, <1>8, <1>9

LEMMA ShiftCreateKeeps ==
  ASSUME Last < 100, IInv, TInv', NEW s \in Session, ShiftCreate(s)
  PROVE  IInv'
  <1> DEFINE c == call[s]
             h == Head(c)
             d == Rest(c, c.todo \ {h})
  <1>1. /\ c \in Call /\ c.at = "shift_create" /\ Shifting(c)
        /\ c.op = "delete_ac" /\ c.todo # {}
        /\ GoodShift(c, rows) /\ ~Exists(rows[h])
        /\ h \in Number /\ h - 1 \in Number
        /\ \A k \in Number \ {h - 1} : rows'[k] = rows[k]
        /\ IF Exists(rows[h - 1]) THEN rows' = rows
           ELSE rows'[h - 1].text = c.seen[h].text
        /\ Put(s, d)
        /\ UNCHANGED <<wanted, failures>>
    BY ShiftCreateFacts, Zenon
  <1>2. /\ GoodOp(d) /\ GoodShift(d, rows') /\ GoodMark(d, rows')
        /\ d.at # "delete" /\ MovingOf(d) = {} /\ Owed(d, rows') = 0
        /\ d.clean = c.clean
    <2>1. Advances(c, rows, c, rows')
      BY <1>1 DEF Advances
    <2>2. /\ GoodOp(d) /\ GoodShift(d, rows') /\ GoodMark(d, rows')
          /\ d.at # "delete" /\ MovingOf(d) = {}
          /\ c.at = "shift_create" => Owed(d, rows') = 0
          /\ d.clean = c.clean
      BY <2>1, Advance, Zenon
    <2> HIDE DEF c, d
    <2>3. QED
      BY <1>1, <2>2
  <1>3. GoodGap(d, rows')
    <2>1. CASE c.todo \ {h} = {}
      <3>1. ~Shifting(d)
        BY <2>1 DEF Rest, Idle, Shifting
      <3>2. QED
        BY <3>1 DEF GoodGap
    <2>2. CASE c.todo \ {h} # {}
      <3>1. d.n = c.n /\ d.seen = c.seen /\ d.todo = c.todo \ {h}
        <4>1. c.todo \ {h} \in SUBSET Number
          BY <1>1 DEF Call
        <4>2. QED
          BY <1>1, <2>2, <4>1, RestShape
      <3>2. SUFFICES ASSUME c.clean, NEW k \in Number
                     PROVE  /\ k < c.n => rows'[k] = c.seen[k]
                            /\ k >= c.n /\ k \notin c.todo \ {h} =>
                                 rows'[k].text =
                                   IF k = Last \/ k + 1 \in c.todo \ {h}
                                     THEN NoText ELSE c.seen[k + 1].text
        <4> HIDE DEF d
        <4>1. QED
          BY <1>2, <3>1 DEF GoodGap
      <3>3. QED
        BY <3>2, ShiftCreateGap, Zenon
    <2>3. QED
      BY <2>1, <2>2
  <1>4. Good(d, rows')
    BY <1>2, <1>3 DEF Good
  <1>5. Bounded(wanted, rows, c, failures) /\ failures \in Nat
        /\ wanted \subseteq Text
    BY <1>1, Alone DEF IInv, TInv, TypeOK, Losses
  <1>6. MovingOf(c) = {c.seen[h].text}
    BY <1>1 DEF MovingOf
  <1>7. CASE Exists(rows[h - 1])
    <2>1. Owed(c, rows) = 1 /\ rows' = rows
      BY <1>1, <1>7 DEF Owed
    <2>2. Lost(wanted', rows', d)
            \subseteq Lost(wanted, rows, c) \cup {c.seen[h].text}
      BY <1>1, <1>2, <1>6, <2>1 DEF Lost
    <2>3. failures' = failures /\ failures <= failures'
          /\ Owed(d, rows') + 1 <= Owed(c, rows) + (failures' - failures)
      <3> HIDE DEF c, d
      <3>1. QED
        BY <1>1, <1>2, <1>5, <2>1
    <2>4. Bounded(wanted', rows', d, failures')
      <3> HIDE DEF c, d
      <3>1. QED
        BY <1>5, <2>2, <2>3, BoundedMore
    <2>5. QED
      BY <1>1, <1>4, <2>4, Alone, StepKeeps
  <1>8. CASE ~Exists(rows[h - 1])
    <2>1. Owed(c, rows) = 0
      BY <1>8 DEF Owed
    <2>2. Lost(wanted', rows', d) \subseteq Lost(wanted, rows, c)
      <3> SUFFICES ASSUME NEW x \in Lost(wanted', rows', d)
                   PROVE  x \in wanted /\ x \notin TextsOf(rows) 
                          /\ x # c.seen[h].text
        BY <1>6 DEF Lost
      <3>1. x \in wanted /\ x \notin TextsOf(rows') /\ x # NoText
        BY <1>1, <1>5, NoTextAssumption DEF Lost
      <3>2. \A k \in Number : rows'[k].text # x
        BY <3>1 DEF TextsOf
      <3>3. x # c.seen[h].text
        BY <1>1, <1>8, <3>2
      <3>4. \A k \in Number : rows[k].text # x
        BY <1>1, <1>8, <3>1, <3>2 DEF Exists
      <3>5. QED
        BY <3>1, <3>3, <3>4 DEF TextsOf
    <2>3. failures' = failures /\ failures <= failures'
          /\ Owed(d, rows') <= Owed(c, rows) + (failures' - failures)
      <3> HIDE DEF c, d
      <3>1. QED
        BY <1>1, <1>2, <1>5, <2>1
    <2>4. Bounded(wanted', rows', d, failures')
      <3> HIDE DEF c, d
      <3>1. QED
        BY <1>5, <2>2, <2>3, BoundedSame
    <2>5. QED
      BY <1>1, <1>4, <2>4, Alone, StepKeeps
  <1>9. QED
    BY <1>7, <1>8

-----------------------------------------------------------------------------
(* Failures                                                                *)

LEMMA Ends ==
  ASSUME IInv, TInv', NEW s \in Session, call[s].at # "idle", NEW ok,
         Put(s, Idle(ok)), failures' = failures + 1, UNCHANGED <<rows, wanted>>
  PROVE  IInv'
  <1> DEFINE c == call[s]
             d == Idle(ok)
  <1>1. /\ Bounded(wanted, rows, c, failures) /\ failures \in Nat
        /\ \A t \in Session \ {s} : call[t].at = "idle"
    BY Alone DEF IInv, TInv, TypeOK, Losses
  <1>2. ~Shifting(d)
    BY DEF Idle, Shifting
  <1>3. Owed(d, rows') = 0 /\ MovingOf(d) = {}
    BY <1>2, QuietOwesNothing
  <1>4. PICK x : MovingOf(c) \subseteq {x}
    BY DEF MovingOf
  <1>5. Lost(wanted', rows', d) \subseteq Lost(wanted, rows, c) \cup {x}
    BY <1>3, <1>4 DEF Lost
  <1>6. Owed(c, rows) \in {0, 1}
    BY OwedAtMostOne
  <1> HIDE DEF c, d
  <1>7. /\ failures' \in Nat /\ failures <= failures'
        /\ Owed(d, rows') + 1 <= Owed(c, rows) + (failures' - failures)
    BY <1>1, <1>3, <1>6
  <1>8. Bounded(wanted', rows', d, failures')
    BY <1>1, <1>5, <1>7, BoundedMore
  <1>9. QED
    BY <1>1, <1>8, IdleIsGood, StepKeeps DEF d

LEMMA StatementFailsKeeps ==
  ASSUME Last < 100, IInv, TInv', NEW s \in Session, StatementFails(s)
  PROVE  IInv'
  <1> DEFINE c == call[s]
  <1>1. /\ c.at # "idle" /\ failures' = failures + 1
        /\ UNCHANGED <<rows, wanted>>
    BY Zenon DEF StatementFails
  <1>2. /\ c \in Call /\ Good(c, rows) /\ GoodForm(c) /\ failures \in Nat
        /\ Bounded(wanted, rows, c, failures)
        /\ \A t \in Session \ {s} : call[t].at = "idle"
    BY <1>1, Alone DEF IInv, TInv, TypeOK, Losses
  <1>3. CASE c.at \in {"shift_delete", "shift_create"}
    <2> DEFINE c2 == [c EXCEPT !.clean = FALSE]
               d == Rest(c2, c.todo \ {Head(c)})
    <2>1. Put(s, d)
      BY <1>3 DEF StatementFails, Head
    <2>2. /\ c2 \in Call /\ c2.at = c.at /\ c2.op = c.op /\ c2.n = c.n
          /\ c2.seen = c.seen /\ c2.todo = c.todo /\ c2.clean = FALSE
      BY <1>2 DEF Call
    <2>3. /\ Shifting(c) /\ c.op = "delete_ac" /\ c.todo # {}
          /\ GoodShift(c, rows)
      BY <1>2, <1>3 DEF Shifting, Good, GoodOp, GoodForm
    <2>4. Advances(c, rows, c2, rows')
      <3> HIDE DEF c2
      <3>1. QED
        BY <1>1, <1>2, <2>2, <2>3 DEF Advances
    <2>5. /\ GoodOp(d) /\ GoodShift(d, rows') /\ GoodMark(d, rows')
          /\ d.at # "delete" /\ MovingOf(d) = {}
          /\ c.at = "shift_create" => Owed(d, rows') = 0
          /\ d.clean = c2.clean
      BY <2>4, Advance, Zenon
    <2>6. Owed(c, rows) \in {0, 1} /\ Owed(d, rows') \in {0, 1}
      BY OwedAtMostOne
    <2> HIDE DEF c, c2, d
    <2>7. Good(d, rows')
      BY <2>2, <2>5 DEF Good, GoodGap
    <2>8. failures' \in Nat /\ failures <= failures'
      BY <1>1, <1>2
    <2>9. CASE c.at = "shift_create"
      <3>1. MovingOf(c) = {c.seen[Head(c)].text}
        BY <2>9 DEF MovingOf
      <3>2. Lost(wanted', rows', d)
              \subseteq Lost(wanted, rows, c) \cup {c.seen[Head(c)].text}
        BY <1>1, <2>5, <3>1 DEF Lost
      <3>3. Owed(d, rows') + 1 <= Owed(c, rows) + (failures' - failures)
        BY <1>1, <1>2, <2>5, <2>6, <2>9
      <3>4. QED
        <4>1. Bounded(wanted', rows', d, failures')
          BY <1>2, <2>8, <3>2, <3>3, BoundedMore
        <4>2. QED
          BY <1>2, <2>1, <2>7, <4>1, StepKeeps
    <2>10. CASE c.at # "shift_create"
      <3>1. Lost(wanted', rows', d) \subseteq Lost(wanted, rows, c)
        BY <1>1, <2>5, <2>10 DEF Lost, MovingOf
      <3>2. Owed(d, rows') <= Owed(c, rows) + (failures' - failures)
        BY <1>1, <1>2, <2>6
      <3>3. QED
        <4>1. Bounded(wanted', rows', d, failures')
          BY <1>2, <2>8, <3>1, <3>2, BoundedSame
        <4>2. QED
          BY <1>2, <2>1, <2>7, <4>1, StepKeeps
    <2>11. QED
      BY <2>9, <2>10
  <1>4. CASE c.at = "mark"
    <2>1. PICK j \in c.todo : IF c.todo = {j} THEN Return(s, FALSE)
            ELSE Put(s, [c EXCEPT !.todo = @ \ {j}, !.clean = FALSE])
      BY <1>4 DEF StatementFails
    <2> DEFINE d == [c EXCEPT !.todo = @ \ {j}, !.clean = FALSE]
    <2>2. d.at = "mark" /\ d.op = c.op /\ d.clean = FALSE
      BY <1>2, <1>4 DEF Call
    <2>3. Put(s, Idle(FALSE)) \/ Put(s, d)
      BY <2>1, Zenon DEF Return
    <2>4. c.op # "delete_ac" /\ ~Shifting(c)
      BY <1>2, <1>4 DEF Good, GoodOp, Shifting
    <2> HIDE DEF c, d
    <2>5. ~Shifting(d) /\ Good(d, rows')
      BY <2>2, <2>4 DEF Good, GoodOp, GoodShift, GoodGap, GoodMark, Shifting
    <2>6. failures <= failures'
      BY <1>1, <1>2
    <2>7. CASE Put(s, d)
      BY <1>1, <1>2, <2>4, <2>5, <2>6, <2>7, QuietStep DEF c
    <2>8. CASE Put(s, Idle(FALSE))
      BY <1>1, <2>8, Ends DEF c
    <2>9. QED
      BY <2>3, <2>7, <2>8
  <1>5. CASE c.at \notin {"shift_delete", "shift_create", "mark"}
    <2>1. Return(s, FALSE)
      BY <1>5 DEF StatementFails
    <2>2. QED
      BY <1>1, <2>1, Ends DEF Return
  <1>6. QED
    BY <1>3, <1>4, <1>5

-----------------------------------------------------------------------------
(* The invariant                                                           *)

LEMMA InvInit == Init => IInv
  <1> SUFFICES ASSUME Init PROVE IInv
    OBVIOUS
  <1>1. \A s \in Session : call[s] = Idle(TRUE)
    BY DEF Init
  <1>2. \A ok : Idle(ok).at = "idle"
    BY DEF Idle
  <1>3. TInv
    <2>1. rows \in [Number -> Row]
      BY RowTypes, PlannedAssumption DEF Init
    <2>2. wanted \subseteq Text
      BY <2>1 DEF Init, TextsOf, Row
    <2>3. call \in [Session -> Call]
      <3>1. First \in Number
        BY NumberAssumption DEF Number
      <3>2. QED
        BY <3>1, IdleType DEF Init
    <2>4. QED
      BY <1>1, <2>1, <2>2, <2>3, IdleGood DEF TInv, TypeOK, Init
  <1>4. OneCall
    BY <1>1, <1>2 DEF OneCall
  <1>5. \A s \in Session : Good(call[s], rows)
    BY <1>1, IdleIsGood
  <1>6. \A ok : Bounded(wanted, rows, Idle(ok), 0)
    <2>1. \A ok : Lost(wanted, rows, Idle(ok)) = {}
      BY DEF Init, Lost
    <2>2. \A ok : Owed(Idle(ok), rows) = 0
      BY QuietOwesNothing DEF Idle, Shifting
    <2>3. QED
      BY <2>1, <2>2, FS_EmptySet DEF Bounded
  <1>7. QED
    BY <1>1, <1>3, <1>4, <1>5, <1>6 DEF IInv, Losses, Init

LEMMA InvNext ==
  ASSUME ~Concurrent, Last < 100, IInv, [Next]_vars
  PROVE  IInv'
  <1>1. TInv'
    BY StepType DEF IInv
  <1>2. CASE UNCHANGED vars
    BY <1>2 DEF vars, IInv, TInv, TypeOK, OneCall, Losses
  <1>3. CASE Next
    <2>1. PICK s \in Session :
            \/ \E t \in Text, done \in BOOLEAN : CallAdd(s, t, done)
            \/ \E n \in Number :
                 \/ CallDelete(s, n)
                 \/ \E t \in Text \cup {NoText}, done \in BOOLEAN :
                      CallUpdate(s, n, t, done)
                 \/ \E passed \in BOOLEAN : MarkAc(s, n, passed)
            \/ \E batch \in SUBSET Number \ {{}} :
                 \E passed \in SUBSET batch : CallMarkBatch(s, batch, passed)
            \/ CallImport(s)
            \/ List(s) \/ Create(s) \/ Write(s)
            \/ Delete(s) \/ ShiftDelete(s) \/ ShiftCreate(s) \/ Mark(s)
            \/ StatementFails(s) \/ Die(s)
      BY <1>3 DEF Next
    <2>2. \A ok : /\ Idle(ok).at = "idle" /\ Idle(ok).op = "mark_ac"
                  /\ Idle(ok).todo = {} /\ Idle(ok).batch = {}
      BY DEF Idle
    <2>3. ASSUME NEW t \in Text, NEW done \in BOOLEAN, CallAdd(s, t, done)
          PROVE  IInv'
      <3> DEFINE c == [Idle(TRUE) EXCEPT !.at = "list", !.op = "add_ac",
                                         !.text = t, !.done = done]
      <3>1. c.at = "list" /\ c.op = "add_ac"
        BY DEF Idle
      <3>2. /\ Admitted(s, "add_ac") /\ Put(s, c)
            /\ UNCHANGED <<rows, wanted, failures>>
        BY <2>3, Zenon DEF CallAdd
      <3> HIDE DEF c
      <3>3. QED
        BY <1>1, <3>1, <3>2, CallBegins
    <2>4. ASSUME NEW n \in Number, CallDelete(s, n) PROVE IInv'
      <3> DEFINE c == [Idle(TRUE) EXCEPT !.at = "list", !.op = "delete_ac",
                                         !.n = n]
      <3>1. c.at = "list"
        BY DEF Idle
      <3>2. /\ Admitted(s, "delete_ac") /\ Put(s, c)
            /\ UNCHANGED <<rows, wanted, failures>>
        BY <2>4, Zenon DEF CallDelete
      <3> HIDE DEF c
      <3>3. QED
        BY <1>1, <3>1, <3>2, CallBegins
    <2>5. ASSUME NEW n \in Number, NEW t \in Text \cup {NoText},
                 NEW done \in BOOLEAN, CallUpdate(s, n, t, done)
          PROVE  IInv'
      <3> DEFINE c == [Idle(TRUE) EXCEPT !.at = "list", !.op = "update_ac",
                                         !.n = n, !.text = t, !.done = done]
      <3>1. c.at = "list"
        BY DEF Idle
      <3>2. /\ Admitted(s, "update_ac") /\ Put(s, c)
            /\ UNCHANGED <<rows, wanted, failures>>
        BY <2>5, Zenon DEF CallUpdate
      <3> HIDE DEF c
      <3>3. QED
        BY <1>1, <3>1, <3>2, CallBegins
    <2>6. ASSUME NEW n \in Number, NEW passed \in BOOLEAN, MarkAc(s, n, passed)
          PROVE  IInv'
      BY <1>1, <2>6, MarkAcKeeps
    <2>7. ASSUME NEW batch \in SUBSET Number, NEW passed \in SUBSET batch,
                 CallMarkBatch(s, batch, passed)
          PROVE  IInv'
      <3> DEFINE c == [Idle(TRUE) EXCEPT !.at = "mark", !.op = "mark_ac_batch",
                         !.todo = batch, !.batch = batch, !.passed = passed]
      <3>1. c.at = "mark" /\ c.op = "mark_ac_batch" /\ c.todo = c.batch
        BY DEF Idle
      <3>2. /\ Admitted(s, "mark_ac_batch") /\ Put(s, c)
            /\ UNCHANGED <<rows, wanted, failures>>
        BY <2>7, Zenon DEF CallMarkBatch
      <3> HIDE DEF c
      <3>3. QED
        BY <1>1, <3>1, <3>2, CallBegins
    <2>8. ASSUME CallImport(s) PROVE IInv'
      <3> DEFINE c == [Idle(TRUE) EXCEPT !.at = "list", !.op = "import_spec"]
      <3>1. c.at = "list"
        BY DEF Idle
      <3>2. /\ Admitted(s, "import_spec") /\ Put(s, c)
            /\ UNCHANGED <<rows, wanted, failures>>
        BY <2>8, Zenon DEF CallImport
      <3> HIDE DEF c
      <3>3. QED
        BY <1>1, <3>1, <3>2, CallBegins
    <2>9. ASSUME Die(s) PROVE IInv'
      BY <1>1, <2>9, Ends DEF Die, Return
    <2>10. QED
      BY <1>1, <2>1, <2>3, <2>4, <2>5, <2>6, <2>7, <2>8, <2>9, ListKeeps,
         CreateKeeps, WriteKeeps, DeleteKeeps, ShiftDeleteKeeps,
         ShiftCreateKeeps, MarkKeeps, StatementFailsKeeps
  <1>4. QED
    BY <1>2, <1>3

-----------------------------------------------------------------------------
(* What follows                                                            *)

\* Rows, calls and counters keep their types, overlapping calls or not.
THEOREM TypeCorrect == Spec => []TypeOK
  <1>1. Init => TInv
    BY InvInit DEF IInv
  <1>2. TInv => TypeOK
    BY DEF TInv
  <1>3. QED
    BY <1>1, <1>2, StepType, PTL DEF Spec

\* What is true between two statements when calls on a UC do not overlap and
\* the list stays below a hundred criteria.
THEOREM Inductive ==
  ASSUME ~Concurrent, Last < 100
  PROVE  Spec => []IInv
  <1>1. IInv /\ [Next]_vars => IInv'
    BY InvNext
  <1>2. QED
    BY <1>1, InvInit, PTL DEF Spec

\* Renumbering, cut short anywhere and as often as statements fail, never
\* loses more criteria than that.
THEOREM RenumberingLosesOnlyFailures ==
  ASSUME ~Concurrent, Last < 100
  PROVE  Spec => []LossesAreFailures
  <1>1. IInv => LossesAreFailures
    <2> SUFFICES ASSUME IInv PROVE LossesAreFailures
      OBVIOUS
    <2>1. /\ failures \in Nat /\ wanted \subseteq Text 
          /\ call \in [Session -> Call]
      BY DEF IInv, TInv, TypeOK
    <2>2. PICK s \in Session : \A t \in Session \ {s} : call[t].at = "idle"
      <3>1. CASE \A s \in Session : call[s].at = "idle"
        BY <3>1, SessionAssumption
      <3>2. ASSUME NEW s \in Session, call[s].at # "idle"
            PROVE  \A t \in Session \ {s} : call[t].at = "idle"
        BY <3>2, Alone
      <3>3. QED
        BY <3>1, <3>2
    <2>3. Bounded(wanted, rows, call[s], failures)
      BY <2>2 DEF IInv, Losses
    <2>4. Moving = MovingOf(call[s])
      BY <2>2 DEF Moving, MovingOf, Head
    <2>5. wanted \ (TextsOf(rows) \cup Moving) = Lost(wanted, rows, call[s])
      BY <2>4 DEF Lost
    <2>6. Cardinality(Lost(wanted, rows, call[s])) \in Nat
      BY <2>3, FS_CardinalityType DEF Bounded
    <2>7. Owed(call[s], rows) \in {0, 1}
      BY OwedAtMostOne
    <2>8. QED
      BY <2>1, <2>3, <2>5, <2>6, <2>7 DEF LossesAreFailures, Bounded
  <1>2. QED
    BY <1>1, Inductive, PTL

\* While a call is open, every step is one of that call.
LEMMA OwnStep ==
  ASSUME IInv, Next, ~Concurrent, NEW r \in Session, call[r].at # "idle"
  PROVE  \/ List(r) \/ Create(r) \/ Write(r)
         \/ Delete(r) \/ ShiftDelete(r) \/ ShiftCreate(r) \/ Mark(r)
         \/ StatementFails(r) \/ Die(r)
  <1>1. PICK s \in Session :
          \/ \E t \in Text, done \in BOOLEAN : CallAdd(s, t, done)
          \/ \E n \in Number :
               \/ CallDelete(s, n)
               \/ \E t \in Text \cup {NoText}, done \in BOOLEAN :
                    CallUpdate(s, n, t, done)
               \/ \E passed \in BOOLEAN : MarkAc(s, n, passed)
          \/ \E batch \in SUBSET Number \ {{}} :
               \E passed \in SUBSET batch : CallMarkBatch(s, batch, passed)
          \/ CallImport(s)
          \/ List(s) \/ Create(s) \/ Write(s)
          \/ Delete(s) \/ ShiftDelete(s) \/ ShiftCreate(s) \/ Mark(s)
          \/ StatementFails(s) \/ Die(s)
    BY DEF Next
  <1>2. \A tool : ~Admitted(s, tool)
    BY DEF Admitted
  <1>3. \/ List(s) \/ Create(s) \/ Write(s)
        \/ Delete(s) \/ ShiftDelete(s) \/ ShiftCreate(s) \/ Mark(s)
        \/ StatementFails(s) \/ Die(s)
    BY <1>1, <1>2, Zenon DEF CallAdd, CallDelete, CallUpdate, MarkAc, CallMarkBatch,
                      CallImport
  <1>4. call[s].at # "idle"
    <2>1. List(s) => [call[s] EXCEPT !.seen = rows].at = "list"
      BY Zenon DEF List
    <2>2. call[s] \in Call
      BY DEF IInv, TInv, TypeOK
    <2>3. List(s) => call[s].at # "idle"
      BY <2>1, <2>2 DEF Call
    <2>4. /\ Create(s) => call[s].at = "create"
          /\ Write(s) => call[s].at = "write"
          /\ Delete(s) => call[s].at = "delete"
          /\ ShiftDelete(s) => call[s].at = "shift_delete"
          /\ ShiftCreate(s) => call[s].at = "shift_create"
          /\ Mark(s) => call[s].at = "mark"
          /\ StatementFails(s) => call[s].at # "idle"
          /\ Die(s) => call[s].at # "idle"
      BY Zenon DEF Create, Write, Delete, ShiftDelete, ShiftCreate, Mark,
         StatementFails, Die
    <2>5. QED
      BY <1>3, <2>3, <2>4
  <1>5. s = r
    BY <1>4 DEF IInv, OneCall
  <1>6. QED
    BY <1>3, <1>5

\* What a call that ends without a failure has ended with.
LEMMA EndsClean ==
  ASSUME IInv, NEW s \in Session, NEW c, Put(s, c), call'[s].at = "idle",
         call'[s].clean
  PROVE  c.at = "idle" /\ c.clean
  BY DEF Put, IInv, TInv, TypeOK

LEMMA FailuresAreNotClean ==
  ASSUME IInv, NEW s \in Session, StatementFails(s) \/ Die(s)
  PROVE  ~(call'[s].at = "idle" /\ call'[s].clean)
  <1> SUFFICES ASSUME call'[s].at = "idle", call'[s].clean PROVE FALSE
    OBVIOUS
  <1> DEFINE c == call[s]
             broken == [c EXCEPT !.clean = FALSE]
  <1>1. ~Idle(FALSE).clean
    BY DEF Idle
  <1>2. c \in Call
    BY DEF IInv, TInv, TypeOK
  <1>3. \A todo : Rest(broken, todo).at = "idle" => ~Rest(broken, todo).clean
    BY <1>1, <1>2 DEF Rest, Call
  <1>4. CASE Die(s)
    BY <1>1, <1>4, EndsClean DEF Die, Return
  <1>5. CASE StatementFails(s)
    <2>1. CASE c.at \in {"shift_delete", "shift_create"}
      <3>1. Put(s, Rest(broken, c.todo \ {FirstOf(c.todo)}))
        BY <1>5, <2>1 DEF StatementFails
      <3> HIDE DEF broken
      <3>2. QED
        BY <1>3, <3>1, EndsClean
    <2>2. CASE c.at = "mark"
      <3>1. PICK j \in c.todo : IF c.todo = {j} THEN Return(s, FALSE)
              ELSE Put(s, [c EXCEPT !.todo = @ \ {j}, !.clean = FALSE])
        BY <1>5, <2>2 DEF StatementFails
      <3> DEFINE d == [c EXCEPT !.todo = @ \ {j}, !.clean = FALSE]
      <3>2. d.at = "mark"
        BY <1>2, <2>2 DEF Call
      <3>3. Put(s, Idle(FALSE)) \/ Put(s, d)
        BY <3>1, Zenon DEF Return
      <3> HIDE DEF d
      <3>4. QED
        BY <1>1, <3>2, <3>3, EndsClean
    <2>3. CASE c.at \notin {"shift_delete", "shift_create", "mark"}
      <3>1. Put(s, Idle(FALSE))
        BY <1>5, <2>3 DEF StatementFails, Return
      <3>2. QED
        BY <1>1, <3>1, EndsClean
    <2>4. QED
      BY <2>1, <2>2, <2>3
  <1>6. QED
    BY <1>4, <1>5

\* delete_ac that ends without a failure has closed the gap.
LEMMA GapStep ==
  ASSUME ~Concurrent, Last < 100, IInv, Next, NEW s \in Session,
         call[s].op = "delete_ac", call[s].at \notin {"idle", "list"},
         call'[s].at = "idle", call'[s].clean, NEW k \in Number
  PROVE  IF k < call[s].n THEN rows'[k] = call[s].seen[k]
         ELSE rows'[k].text = IF k = Last THEN NoText
                              ELSE call[s].seen[k + 1].text
  <1> DEFINE c == call[s]
  <1>1. c \in Call /\ Good(c, rows) /\ rows \in [Number -> Row] /\ TInv'
    BY StepType DEF IInv, TInv, TypeOK
  <1>2. c.at = "delete" \/ Shifting(c)
    BY <1>1 DEF Good, GoodOp
  <1>3. Delete(s) \/ ShiftDelete(s) \/ ShiftCreate(s)
    <2>1. \/ List(s) \/ Create(s) \/ Write(s)
          \/ Delete(s) \/ ShiftDelete(s) \/ ShiftCreate(s) \/ Mark(s)
      BY OwnStep, FailuresAreNotClean
    <2>2. /\ Create(s) => c.at = "create"
          /\ Write(s) => c.at = "write"
          /\ Mark(s) => c.at = "mark"
          /\ List(s) => [c EXCEPT !.seen = rows].at = "list"
      BY Zenon DEF Create, Write, Mark, List
    <2>3. [c EXCEPT !.seen = rows].at = c.at
      BY <1>1 DEF Call
    <2>4. QED
      BY <1>2, <2>1, <2>2, <2>3 DEF Shifting
  <1>4. c.n \in Number /\ k \in Int /\ c.n \in Int
        /\ (k # Last => k + 1 \in Number /\ k + 1 > k)
    BY <1>1, NumberAssumption DEF Call, Number
  <1>5. CASE Delete(s)
    <2> DEFINE todo == {j \in Number : j > c.n /\ Exists(c.seen[j])}
    <2>1. c.seen = rows
      BY <1>1, <1>5 DEF Good, Delete
    <2>2. ~Idle(FALSE).clean
      BY DEF Idle
    <2>3. ~Put(s, Idle(FALSE))
      BY <2>2, EndsClean
    <2>4. rows' = [rows EXCEPT ![c.n] = NoRow] /\ Put(s, Rest(c, todo))
      BY <1>5, <2>3, Zenon DEF Delete, Return
    <2>5. todo = {}
      <3>1. Rest(c, todo).at = "idle"
        BY <2>4, EndsClean
      <3>2. todo \in SUBSET Number
        OBVIOUS
      <3> HIDE DEF todo
      <3>3. QED
        BY <1>1, <3>1, <3>2, RestShape
    <2>6. \A j \in Number : j > c.n => rows[j].text = NoText
      BY <2>1, <2>5 DEF Exists
    <2>7. rows'[c.n].text = NoText /\ \A j \in Number \ {c.n} : rows'[j] = rows[j]
      BY <1>1, <1>4, <2>4 DEF NoRow
    <2>8. QED
      BY <1>4, <2>1, <2>6, <2>7
  <1>6. CASE ShiftDelete(s)
    <2>1. Put(s, [c EXCEPT !.at = "shift_create"])
      BY <1>6, ShiftDeleteFacts, Zenon
    <2>2. [c EXCEPT !.at = "shift_create"].at = "shift_create"
      BY <1>1 DEF Call
    <2>3. QED
      BY <2>1, <2>2, EndsClean
  <1>7. CASE ShiftCreate(s)
    <2> DEFINE todo == c.todo \ {Head(c)}
    <2>1. Put(s, Rest(c, todo))
      BY <1>1, <1>7, ShiftCreateFacts, Zenon
    <2>2. Rest(c, todo).at = "idle" /\ Rest(c, todo).clean
      BY <2>1, EndsClean
    <2>3. todo = {}
      <3>1. todo \in SUBSET Number
        BY <1>1 DEF Call
      <3> HIDE DEF todo
      <3>2. QED
        BY <1>1, <2>2, <3>1, RestShape
    <2>4. c.clean
      <3> HIDE DEF todo
      <3>1. QED
        BY <2>2, <2>3 DEF Rest, Idle
    <2>5. /\ k < c.n => rows'[k] = c.seen[k]
          /\ k >= c.n /\ k \notin todo =>
               rows'[k].text = IF k = Last \/ k + 1 \in todo THEN NoText
                               ELSE c.seen[k + 1].text
      BY <1>1, <1>7, <2>4, ShiftCreateGap, Zenon
    <2> HIDE DEF todo, c
    <2>6. QED
      BY <1>4, <2>3, <2>5 DEF c
  <1>8. QED
    BY <1>3, <1>5, <1>6, <1>7

\* A delete_ac whose statements all succeed leaves the criteria before the
\* deleted one as they were, and those after it one lower, in order.
THEOREM DeletingClosesTheGap ==
  ASSUME ~Concurrent, Last < 100
  PROVE  Spec => DeleteClosesTheGap
  <1>1. IInv /\ Next =>
          \A s \in Session :
            LET c == call[s] IN
            /\ c.op = "delete_ac" /\ c.at \notin {"idle", "list"}
            /\ call'[s].at = "idle" /\ call'[s].clean
            => \A k \in Number :
                 IF k < c.n THEN rows'[k] = c.seen[k]
                 ELSE rows'[k].text = IF k = Last THEN NoText
                                      ELSE c.seen[k + 1].text
    BY GapStep, Zenon
  <1>2. QED
    BY <1>1, Inductive, PTL DEF Spec, DeleteClosesTheGap

LEMMA BatchStep ==
  ASSUME ~Concurrent, IInv, Next, NEW s \in Session, call[s].at = "mark",
         call'[s].at = "idle", call'[s].clean, NEW k \in call[s].batch,
         Exists(rows'[k])
  PROVE  rows'[k].done <=> k \in call[s].passed
  <1> DEFINE c == call[s]
  <1>1. c \in Call /\ Good(c, rows) /\ rows \in [Number -> Row]
    BY DEF IInv, TInv, TypeOK
  <1>2. Mark(s)
    <2>1. \/ List(s) \/ Create(s) \/ Write(s)
          \/ Delete(s) \/ ShiftDelete(s) \/ ShiftCreate(s) \/ Mark(s)
      BY OwnStep, FailuresAreNotClean
    <2>2. /\ Create(s) => c.at = "create"
          /\ Write(s) => c.at = "write"
          /\ Delete(s) => c.at = "delete"
          /\ ShiftDelete(s) => c.at = "shift_delete"
          /\ ShiftCreate(s) => c.at = "shift_create"
          /\ List(s) => [c EXCEPT !.seen = rows].at = "list"
      BY Zenon DEF Create, Write, Delete, ShiftDelete, ShiftCreate, List
    <2>3. [c EXCEPT !.seen = rows].at = c.at
      BY <1>1 DEF Call
    <2>4. QED
      BY <2>1, <2>2, <2>3
  <1>3. PICK j \in c.todo :
          /\ rows' = IF Exists(rows[j])
               THEN [rows EXCEPT ![j].done = j \in c.passed] ELSE rows
          /\ IF c.todo = {j} THEN Return(s, c.clean)
             ELSE Put(s, [c EXCEPT !.todo = @ \ {j}])
    BY <1>2 DEF Mark
  <1> DEFINE d == [c EXCEPT !.todo = @ \ {j}]
  <1>4. c.todo = {j} /\ Put(s, Idle(c.clean))
    <2>1. d.at = "mark"
      BY <1>1 DEF Call
    <2>2. ~Put(s, d)
      <3> HIDE DEF d
      <3>1. QED
        BY <2>1, EndsClean
    <2>3. QED
      BY <1>3, <2>2, Zenon DEF Return
  <1>5. c.clean
    <2>1. Idle(c.clean).clean
      BY <1>4, EndsClean
    <2>2. QED
      BY <2>1 DEF Idle
  <1>6. j \in Number /\ k \in Number /\ rows[j] \in Row
        /\ (j \in c.passed) \in BOOLEAN
    BY <1>1 DEF Call
  <1>7. CASE k = j
    <2>1. rows'[j].text = rows[j].text
          /\ (Exists(rows[j]) => rows'[j].done = (j \in c.passed))
      BY <1>1, <1>3, <1>6 DEF Row
    <2>2. QED
      BY <1>7, <2>1 DEF Exists
  <1>8. CASE k # j
    <2>1. rows'[k] = rows[k]
      BY <1>1, <1>3, <1>6, <1>8
    <2>2. QED
      BY <1>1, <1>4, <1>5, <1>8, <2>1 DEF Good, GoodMark
  <1>9. QED
    BY <1>7, <1>8

\* A batch none of whose statements failed has recorded every verdict on a
\* criterion that is there.
THEOREM CleanBatchesAreRecorded ==
  ASSUME ~Concurrent, Last < 100
  PROVE  Spec => CleanBatchIsRecorded
  <1>1. IInv /\ Next =>
          \A s \in Session :
            LET c == call[s] IN
            /\ c.at = "mark" /\ call'[s].at = "idle" /\ call'[s].clean
            => \A k \in c.batch :
                 Exists(rows'[k]) => (rows'[k].done <=> k \in c.passed)
    BY BatchStep, Zenon
  <1>2. QED
    BY <1>1, Inductive, PTL DEF Spec, CleanBatchIsRecorded
=============================================================================
