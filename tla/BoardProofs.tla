---------------------------- MODULE BoardProofs ----------------------------
(***************************************************************************)
(* Proofs about FreeformStore, for any items, texts and calls: when calls  *)
(* about one use case do not overlap, the file changes as FreeformBoard    *)
(* has it; whatever overlaps, no number is given twice and nothing that    *)
(* was taken out comes back; and what a local server removes is kept.      *)
(* About StoryFollow, for any sessions and use cases: after a call that    *)
(* met no other the story follows its UCs, whatever was before.            *)
(***************************************************************************)
EXTENDS FreeformStore, StoryFollow, FiniteSetTheorems, WellFoundedInduction, TLAPS

-----------------------------------------------------------------------------
(***************************************************************************)
(* FreeformStore: numbers.                                                 *)
(***************************************************************************)

\* The one use of well-foundedness: a finite set of numbers has a greatest.
LEMMA GreatestNumber ==
  ASSUME NEW S \in SUBSET Nat, S # {}, IsFiniteSet(S)
  PROVE  Max(S) \in S /\ \A n \in S : n <= Max(S)
<1>. DEFINE Has(U) == \E m \in U : \A n \in U : m >= n
            Lack == {U \in FiniteSubsetsOf(S) : U # {} /\ ~Has(U)}
<1>1. Lack = {}
  <2>. SUFFICES ASSUME Lack # {} PROVE FALSE
    OBVIOUS
  <2>1. PICK U \in Lack : \A V \in Lack : ~(<<V, U>> \in StrictSubsetOrdering(S))
    <3>1. Lack \subseteq FiniteSubsetsOf(S)
      OBVIOUS
    <3>. HIDE DEF Lack
    <3>. QED  BY <3>1, FS_StrictSubsetOrderingWellFounded, WFMin
  <2>2. PICK x : x \in U
    OBVIOUS
  <2>3. U \in SUBSET S /\ IsFiniteSet(U) /\ x \in Nat
    BY <2>2 DEF FiniteSubsetsOf
  <2>4. PICK V : V = U \ {x}
    OBVIOUS
  <2>5. V \in FiniteSubsetsOf(S) /\ <<V, U>> \in StrictSubsetOrdering(S)
    BY <2>2, <2>3, <2>4, FS_Subset DEF FiniteSubsetsOf, StrictSubsetOrdering
  <2>6. V = {} \/ Has(V)
    BY <2>1, <2>5
  <2>7. CASE V = {}
    <3>1. U = {x} /\ x >= x
      BY <2>2, <2>3, <2>4, <2>7
    <3>. QED  BY <3>1
  <2>8. CASE Has(V)
    <3>1. PICK m \in V : \A n \in V : m >= n
      BY <2>8
    <3>2. V \subseteq Nat /\ U = V \cup {x}
      BY <2>2, <2>3, <2>4
    <3>3. CASE m >= x
      <4>1. \A n \in U : m >= n
        BY <3>1, <3>2, <3>3
      <4>. QED  BY <3>1, <3>2, <4>1
    <3>4. CASE ~(m >= x)
      <4>1. \A n \in U : x >= n
        BY <2>3, <3>1, <3>2, <3>4
      <4>. QED  BY <2>2, <4>1
    <3>. QED  BY <3>3, <3>4
  <2>. QED  BY <2>6, <2>7, <2>8
<1>2. S \in FiniteSubsetsOf(S)
  BY DEF FiniteSubsetsOf
<1>3. \E m \in S : \A n \in S : m >= n
  BY <1>1, <1>2
<1>4. Max(S) \in S /\ \A n \in S : Max(S) >= n
  BY <1>3 DEF Max
<1>. QED  BY <1>4

-----------------------------------------------------------------------------
(***************************************************************************)
(* FreeformStore: what the calls make of a board.                          *)
(***************************************************************************)

\* A list whose ids are among those drawn.  A criterion may outlive its use case,
\* in the archive, but is under no other item.
BoardOK(b, drawn) ==
    /\ b \in [DOMAIN b -> Items] /\ DOMAIN b \subseteq drawn
    /\ drawn \subseteq Ids /\ IsFiniteSet(drawn)
    /\ \A i \in DOMAIN b :
         /\ b[i].under \in drawn
         /\ b[i].kind = "UC" => b[i].under = i
         /\ b[i].under \in DOMAIN b => b[b[i].under].kind = "UC"

\* Use case w with its criteria is in b and c, and the same.
Alike(b, c, w) ==
    /\ w \in CasesOf(b) \cap CasesOf(c)
    /\ Gone(b, w) = Gone(c, w)
    /\ \A i \in Gone(b, w) : b[i] = c[i]

LEMMA AlikeAll ==
  ASSUME NEW a, NEW b, NEW c, NEW w, Alike(a, b, w), Alike(b, c, w)
  PROVE  Alike(a, c, w)
BY DEF Alike

LEMMA NumbersAreFinite ==
  ASSUME NEW b, NEW drawn, BoardOK(b, drawn), NEW ids \in SUBSET DOMAIN b
  PROVE  /\ {b[i].number : i \in ids} \in SUBSET Nat
         /\ IsFiniteSet({b[i].number : i \in ids})
<1>1. \A i \in ids : b[i].number \in Nat
  BY DEF BoardOK, Items
<1>2. IsFiniteSet(ids)
  BY FS_Subset DEF BoardOK
<1>3. [i \in ids |-> b[i].number] \in Surjection(ids, {b[i].number : i \in ids})
  BY DEF Surjection
<1>. QED  BY <1>1, <1>2, <1>3, FS_Surjection

\* The number after the highest is a new one.
LEMMA TopIsHighest ==
  ASSUME NEW b, NEW drawn, BoardOK(b, drawn), NEW more \in SUBSET Nat,
         IsFiniteSet(more), NEW n, n = Max({0} \cup NumbersOf(b) \cup more)
  PROVE  n \in Nat /\ n + 1 # 0 /\ \A k \in NumbersOf(b) \cup more : k \in Nat /\ n + 1 > k
<1>1. NumbersOf(b) \in SUBSET Nat /\ IsFiniteSet(NumbersOf(b))
  BY NumbersAreFinite DEF NumbersOf, CasesOf
<1>2. PICK all : all = {0} \cup NumbersOf(b) \cup more
  OBVIOUS
<1>3. IsFiniteSet(all) /\ all \in SUBSET Nat /\ all # {}
  <2>1. IsFiniteSet({0}) /\ IsFiniteSet({0} \cup NumbersOf(b))
    BY <1>1, FS_Union, FS_Singleton
  <2>2. IsFiniteSet(({0} \cup NumbersOf(b)) \cup more)
    BY <2>1, FS_Union
  <2>3. all = ({0} \cup NumbersOf(b)) \cup more /\ {0} \in SUBSET Nat
    BY <1>2
  <2>4. all \in SUBSET Nat /\ all # {}
    BY <1>1, <2>3
  <2>. QED  BY <2>2, <2>3, <2>4
<1>4. n \in all /\ \A k \in all : k <= n
  BY <1>2, <1>3, GreatestNumber
<1>5. n \in Nat
  BY <1>3, <1>4
<1>6. ASSUME NEW k \in NumbersOf(b) \cup more PROVE k \in Nat /\ n + 1 > k
  <2>1. k \in Nat /\ k <= n
    BY <1>2, <1>3, <1>4
  <2>. QED  BY <1>5, <2>1
<1>7. n + 1 # 0
  BY <1>5
<1>. QED  BY <1>5, <1>6, <1>7

\* The item of a new use case.
LEMMA NewCase ==
  ASSUME NEW u \in Ids, NEW n \in Nat, NEW t \in Texts
  PROVE  \E new \in Items :
           /\ new.kind = "UC" /\ new.under = u /\ new.number = n
           /\ \A b : WithCase(b, u, n, t) = With(b, u, new)
<1>1. PICK new : new = [kind |-> "UC", number |-> n, under |-> u, state |-> "backlog",
                        text |-> t]
  OBVIOUS
<1>2. new \in Items
  BY <1>1, StatesAreKnown DEF Items
<1>. QED  BY <1>1, <1>2 DEF WithCase

\* create_item: nothing is about a new id yet.
LEMMA CaseAdded ==
  ASSUME NEW b, NEW drawn, BoardOK(b, drawn), NEW u \in Ids \ drawn,
         NEW new \in Items, new.kind = "UC", new.under = u,
         NEW c, c = With(b, u, new)
  PROVE  /\ BoardOK(c, drawn \cup {u}) /\ u \in CasesOf(c) /\ c[u] = new
         /\ CriteriaOf(c, u) = {}
         /\ NumbersOf(c) \subseteq NumbersOf(b) \cup {new.number}
         /\ \A w \in CasesOf(b) : Alike(b, c, w)
<1>1. /\ b \in [DOMAIN b -> Items] /\ DOMAIN b \subseteq drawn /\ u \notin DOMAIN b
      /\ \A i \in DOMAIN b : b[i].under \in drawn /\ b[i].under # u
  BY DEF BoardOK
<1>2. DOMAIN c = DOMAIN b \cup {u} /\ c[u] = new /\ \A i \in DOMAIN b : c[i] = b[i]
  BY <1>1 DEF With
<1>3. BoardOK(c, drawn \cup {u})
  <2>1. c \in [DOMAIN c -> Items]
    BY <1>1 DEF With
  <2>2. IsFiniteSet(drawn \cup {u}) /\ drawn \cup {u} \subseteq Ids
    BY FS_AddElement DEF BoardOK
  <2>3. ASSUME NEW i \in DOMAIN c
        PROVE  /\ c[i].under \in drawn \cup {u}
               /\ c[i].kind = "UC" => c[i].under = i
               /\ c[i].under \in DOMAIN c => c[c[i].under].kind = "UC"
    <3>1. CASE i = u
      BY <1>2, <3>1
    <3>2. CASE i \in DOMAIN b
      <4>1. /\ b[i].under \in drawn /\ b[i].under # u
            /\ b[i].kind = "UC" => b[i].under = i
            /\ b[i].under \in DOMAIN b => b[b[i].under].kind = "UC"
        BY <1>1, <3>2 DEF BoardOK
      <4>. QED  BY <1>2, <3>2, <4>1
    <3>. QED  BY <1>2, <3>1, <3>2
  <2>. QED  BY <1>1, <1>2, <2>1, <2>2, <2>3 DEF BoardOK
<1>4. u \in CasesOf(c) /\ c[u] = new
  BY <1>2 DEF CasesOf
<1>5. CriteriaOf(c, u) = {}
  <2>1. ASSUME NEW i \in DOMAIN c, c[i].kind = "AC" PROVE c[i].under # u
    BY <1>1, <1>2, <2>1
  <2>. QED  BY <2>1 DEF CriteriaOf
<1>6. CasesOf(c) = CasesOf(b) \cup {u}
  BY <1>1, <1>2 DEF CasesOf
<1>7. NumbersOf(c) \subseteq NumbersOf(b) \cup {new.number}
  <2>1. \A w \in CasesOf(c) : c[w].number \in NumbersOf(b) \cup {new.number}
    <3>1. ASSUME NEW w \in CasesOf(c) PROVE c[w].number \in NumbersOf(b) \cup {new.number}
      <4>1. CASE w = u
        BY <1>2, <4>1
      <4>2. CASE w \in CasesOf(b)
        BY <1>2, <4>2 DEF CasesOf, NumbersOf
      <4>. QED  BY <1>6, <4>1, <4>2
    <3>. QED  BY <3>1
  <2>. QED  BY <2>1 DEF NumbersOf
<1>8. ASSUME NEW w \in CasesOf(b) PROVE Alike(b, c, w)
  <2>1. w \in DOMAIN b /\ w # u
    BY <1>1 DEF CasesOf
  <2>2. CriteriaOf(c, w) = CriteriaOf(b, w)
    BY <1>1, <1>2, <2>1 DEF CriteriaOf
  <2>3. Gone(b, w) \subseteq DOMAIN b
    BY <2>1 DEF Gone, CriteriaOf
  <2>. QED  BY <1>2, <1>6, <2>2, <2>3 DEF Alike, Gone
<1>. QED  BY <1>3, <1>4, <1>5, <1>7, <1>8

\* create_acceptance_criteria.
LEMMA CriterionAdded ==
  ASSUME NEW b, NEW drawn, BoardOK(b, drawn), NEW a \in Ids \ drawn,
         NEW u \in CasesOf(b), NEW t \in Texts, NEW c, c = WithCriterion(b, a, u, t)
  PROVE  /\ BoardOK(c, drawn \cup {a})
         /\ \A i \in DOMAIN b : i \in DOMAIN c /\ c[i] = b[i]
         /\ NumbersOf(c) \subseteq NumbersOf(b)
         /\ \A w \in CasesOf(b) \ {u} : Alike(b, c, w)
<1>1. PICK n : n = Max({0} \cup {b[i].number : i \in CriteriaOf(b, u)})
  OBVIOUS
<1>2. n + 1 \in Nat
  <2>1. PICK some : some = {b[i].number : i \in CriteriaOf(b, u)}
    OBVIOUS
  <2>2. some \in SUBSET Nat /\ IsFiniteSet(some)
    BY <2>1, NumbersAreFinite DEF CriteriaOf
  <2>3. IsFiniteSet({0} \cup some)
    BY <2>2, FS_Singleton, FS_Union
  <2>4. {0} \cup some \in SUBSET Nat /\ {0} \cup some # {}
    BY <2>2
  <2>5. n \in {0} \cup some
    BY <1>1, <2>1, <2>3, <2>4, GreatestNumber
  <2>. QED  BY <2>2, <2>5
<1>3. PICK new : new = [kind |-> "AC", number |-> n + 1, under |-> u,
                        state |-> "backlog", text |-> t]
  OBVIOUS
<1>4. /\ b \in [DOMAIN b -> Items] /\ DOMAIN b \subseteq drawn /\ a \notin DOMAIN b
      /\ u \in DOMAIN b /\ u \in drawn /\ u \in Ids /\ b[u].kind = "UC"
      /\ \A i \in DOMAIN b : b[i].under \in drawn /\ b[i].under # a
  BY DEF BoardOK, CasesOf
<1>5. new \in Items
  BY <1>2, <1>3, <1>4, StatesAreKnown DEF Items
<1>6. new.kind = "AC" /\ new.under = u
  BY <1>3
<1>7. c = With(b, a, new)
  BY <1>1, <1>3 DEF WithCriterion
<1>8. DOMAIN c = DOMAIN b \cup {a} /\ c[a] = new /\ \A i \in DOMAIN b : c[i] = b[i]
  BY <1>4, <1>7 DEF With
<1>9. BoardOK(c, drawn \cup {a})
  <2>1. c \in [DOMAIN c -> Items]
    BY <1>4, <1>5, <1>7 DEF With
  <2>2. IsFiniteSet(drawn \cup {a}) /\ drawn \cup {a} \subseteq Ids
    BY FS_AddElement DEF BoardOK
  <2>3. ASSUME NEW i \in DOMAIN c
        PROVE  /\ c[i].under \in drawn \cup {a}
               /\ c[i].kind = "UC" => c[i].under = i
               /\ c[i].under \in DOMAIN c => c[c[i].under].kind = "UC"
    <3>1. CASE i = a
      BY <1>4, <1>6, <1>8, <3>1
    <3>2. CASE i \in DOMAIN b
      <4>1. /\ b[i].under \in drawn /\ b[i].under # a
            /\ b[i].kind = "UC" => b[i].under = i
            /\ b[i].under \in DOMAIN b => b[b[i].under].kind = "UC"
        BY <1>4, <3>2 DEF BoardOK
      <4>. QED  BY <1>8, <3>2, <4>1
    <3>. QED  BY <1>8, <3>1, <3>2
  <2>. QED  BY <1>4, <1>8, <2>1, <2>2, <2>3 DEF BoardOK
<1>10. CasesOf(c) = CasesOf(b)
  BY <1>4, <1>6, <1>8 DEF CasesOf
<1>11. NumbersOf(c) \subseteq NumbersOf(b)
  BY <1>8, <1>10 DEF CasesOf, NumbersOf
<1>12. ASSUME NEW w \in CasesOf(b) \ {u} PROVE Alike(b, c, w)
  <2>1. w \in DOMAIN b /\ w # u /\ w # a
    BY <1>4 DEF CasesOf
  <2>2. CriteriaOf(c, w) = CriteriaOf(b, w)
    BY <1>4, <1>6, <1>8, <2>1 DEF CriteriaOf
  <2>3. Gone(b, w) \subseteq DOMAIN b
    BY <2>1 DEF Gone, CriteriaOf
  <2>. QED  BY <1>8, <1>10, <2>2, <2>3 DEF Alike, Gone
<1>. QED  BY <1>8, <1>9, <1>11, <1>12

\* update_item: another state or text.
LEMMA ItemChanged ==
  ASSUME NEW b, NEW drawn, BoardOK(b, drawn), NEW i \in DOMAIN b, NEW c,
         \/ \E s \in States : c = WithState(b, i, s)
         \/ \E t \in Texts : c = WithText(b, i, t)
  PROVE  /\ BoardOK(c, drawn)
         /\ NumbersOf(c) \subseteq NumbersOf(b)
         /\ \A w \in CasesOf(b) \ {b[i].under} : Alike(b, c, w)
<1>1. b \in [DOMAIN b -> Items] /\ b[i] \in Items
  BY DEF BoardOK
<1>2. PICK new : new = c[i]
  OBVIOUS
<1>3. /\ c = [b EXCEPT ![i] = new] /\ new \in Items
      /\ new.kind = b[i].kind /\ new.under = b[i].under /\ new.number = b[i].number
  <2>1. CASE \E s \in States : c = WithState(b, i, s)
    <3>1. PICK s \in States : c = [b EXCEPT ![i].state = s]
      BY <2>1 DEF WithState
    <3>2. new = [b[i] EXCEPT !.state = s]
      BY <1>1, <1>2, <3>1
    <3>. QED  BY <1>1, <3>1, <3>2 DEF Items
  <2>2. CASE \E t \in Texts : c = WithText(b, i, t)
    <3>1. PICK t \in Texts : c = [b EXCEPT ![i].text = t]
      BY <2>2 DEF WithText
    <3>2. new = [b[i] EXCEPT !.text = t]
      BY <1>1, <1>2, <3>1
    <3>. QED  BY <1>1, <3>1, <3>2 DEF Items
  <2>. QED  BY <2>1, <2>2
<1>4. DOMAIN c = DOMAIN b /\ c[i] = new /\ \A j \in DOMAIN b : j # i => c[j] = b[j]
  BY <1>1, <1>3
<1>5. \A j \in DOMAIN b : /\ c[j].kind = b[j].kind /\ c[j].under = b[j].under
                          /\ c[j].number = b[j].number
  BY <1>3, <1>4
<1>6. BoardOK(c, drawn)
  <2>1. c \in [DOMAIN c -> Items]
    BY <1>1, <1>3
  <2>. QED  BY <1>4, <1>5, <2>1 DEF BoardOK
<1>7. CasesOf(c) = CasesOf(b) /\ NumbersOf(c) = NumbersOf(b)
  <2>1. CasesOf(c) = CasesOf(b)
    BY <1>4, <1>5 DEF CasesOf
  <2>2. \A w \in CasesOf(b) : c[w].number = b[w].number
    BY <1>5 DEF CasesOf
  <2>. QED  BY <2>1, <2>2 DEF NumbersOf
<1>8. ASSUME NEW w \in CasesOf(b) \ {b[i].under} PROVE Alike(b, c, w)
  <2>1. CriteriaOf(c, w) = CriteriaOf(b, w)
    BY <1>4, <1>5 DEF CriteriaOf
  <2>2. i \notin CriteriaOf(b, w)
    BY <1>8 DEF CriteriaOf
  <2>3. w # i
    BY <1>8 DEF BoardOK, CasesOf
  <2>4. Gone(b, w) \subseteq DOMAIN b \ {i}
    BY <2>2, <2>3 DEF Gone, CriteriaOf, CasesOf
  <2>. QED  BY <1>4, <1>7, <2>1, <2>4 DEF Alike, Gone
<1>. QED  BY <1>6, <1>7, <1>8

\* archive_item and purge_use_case.
LEMMA CaseRemoved ==
  ASSUME NEW b, NEW drawn, BoardOK(b, drawn), NEW u, u \in CasesOf(b) \/ u \notin DOMAIN b,
         NEW gone \in SUBSET Gone(b, u),
         NEW c, c = Without(b, gone)
  PROVE  /\ BoardOK(c, drawn)
         /\ NumbersOf(c) \subseteq NumbersOf(b)
         /\ \A w \in CasesOf(b) \ {u} : Alike(b, c, w)
<1>1. c = [i \in DOMAIN b \ gone |-> b[i]]
  BY DEF Without, Restrict
<1>2. DOMAIN c = DOMAIN b \ gone /\ \A i \in DOMAIN c : c[i] = b[i]
  BY <1>1
<1>3. BoardOK(c, drawn)
  <2>1. c \in [DOMAIN c -> Items]
    BY <1>1 DEF BoardOK
  <2>. QED  BY <1>2, <2>1 DEF BoardOK
<1>4. CasesOf(c) = CasesOf(b) \ gone
  BY <1>2 DEF CasesOf
<1>5. NumbersOf(c) \subseteq NumbersOf(b)
  BY <1>2, <1>4 DEF NumbersOf, CasesOf
<1>6. ASSUME NEW w \in CasesOf(b) \ {u} PROVE Alike(b, c, w)
  <2>1. ASSUME NEW i \in gone PROVE i # w /\ i \notin CriteriaOf(b, w)
    <3>1. i = u \/ i \in CriteriaOf(b, u)
      BY DEF Gone
    <3>2. i \in CriteriaOf(b, u) => b[i].kind = "AC" /\ b[i].under = u
      BY DEF CriteriaOf
    <3>3. w \in DOMAIN b /\ b[w].kind = "UC" /\ w # u
      BY <1>6 DEF CasesOf
    <3>4. i \in CriteriaOf(b, w) => i \in DOMAIN b /\ b[i].kind = "AC" /\ b[i].under = w
      BY DEF CriteriaOf
    <3>5. u \notin CriteriaOf(b, w)
      BY DEF CriteriaOf, CasesOf
    <3>. QED  BY <3>1, <3>2, <3>3, <3>4, <3>5
  <2>2. CriteriaOf(c, w) = CriteriaOf(b, w)
    BY <1>2, <2>1 DEF CriteriaOf
  <2>3. Gone(b, w) \subseteq DOMAIN c
    BY <1>2, <1>6, <2>1 DEF Gone, CriteriaOf, CasesOf
  <2>. QED  BY <1>2, <1>4, <1>6, <2>1, <2>2, <2>3 DEF Alike, Gone
<1>. QED  BY <1>3, <1>5, <1>6

\* The number of a new criterion depends on those of its use case alone.
LEMMA SameCriterion ==
  ASSUME NEW b, NEW s, NEW u, CriteriaOf(b, u) = CriteriaOf(s, u),
         \A i \in CriteriaOf(b, u) : b[i] = s[i], NEW a, NEW t
  PROVE  \E new :
           /\ WithCriterion(b, a, u, t) = With(b, a, new)
           /\ WithCriterion(s, a, u, t) = With(s, a, new)
<1>1. {b[i].number : i \in CriteriaOf(b, u)} = {s[i].number : i \in CriteriaOf(s, u)}
  OBVIOUS
<1>2. PICK n : /\ n = Max({0} \cup {b[i].number : i \in CriteriaOf(b, u)}) + 1
               /\ n = Max({0} \cup {s[i].number : i \in CriteriaOf(s, u)}) + 1
  BY <1>1
<1>3. PICK new : new = [kind |-> "AC", number |-> n, under |-> u, state |-> "backlog",
                        text |-> t]
  OBVIOUS
<1>. QED  BY <1>2, <1>3 DEF WithCriterion

-----------------------------------------------------------------------------
(***************************************************************************)
(* FreeformStore: each change of the list is a step of FreeformBoard.      *)
(***************************************************************************)

\* One step of the board, or none, which leaves the use cases but `about` as they
\* are and numbers none but with `numbers`.
Effect(about, numbers) ==
    /\ BoardNext \/ board' = board
    /\ BoardOK(board', born')
    /\ NumbersOf(board') \subseteq NumbersOf(board) \cup numbers
    /\ \A w \in CasesOf(board) \ about : Alike(board, board', w)

LEMMA NoEffect ==
  ASSUME BoardOK(board, born), UNCHANGED <<board, born>>, NEW about, NEW numbers
  PROVE  Effect(about, numbers)
BY DEF Effect, Alike

LEMMA CaseEffect ==
  ASSUME BoardOK(board, born), NEW u \in Ids \ born, NEW t \in Texts,
         NEW n \in Nat, n # 0, n \notin NumbersOf(board),
         board' = WithCase(board, u, n, t), born' = born \cup {u}
  PROVE  Effect({}, {n}) /\ u \in CasesOf(board')
<1>1. PICK new \in Items :
        /\ new.kind = "UC" /\ new.under = u /\ new.number = n
        /\ board' = With(board, u, new)
  BY NewCase
<1>2. PICK c : c = board'
  OBVIOUS
<1>3. /\ BoardOK(c, born \cup {u}) /\ u \in CasesOf(c) /\ c[u] = new
      /\ NumbersOf(c) \subseteq NumbersOf(board) \cup {n}
      /\ \A w \in CasesOf(board) : Alike(board, c, w)
  BY <1>1, <1>2, CaseAdded
<1>4. u \notin DOMAIN board /\ u \in DOMAIN board' /\ board'[u].number = n
  BY <1>1, <1>2, <1>3 DEF BoardOK, CasesOf
<1>5. AddCase(u, t)
  BY <1>4 DEF AddCase
<1>6. BoardNext
  BY <1>5 DEF BoardNext
<1>. QED  BY <1>2, <1>3, <1>6 DEF Effect

LEMMA CaseAndCriterionEffect ==
  ASSUME BoardOK(board, born), NEW u \in Ids \ born, NEW a \in Ids \ born, a # u,
         NEW t \in Texts, NEW n \in Nat, n # 0, n \notin NumbersOf(board),
         board' = WithCriterion(WithCase(board, u, n, t), a, u, t),
         born' = born \cup {u, a}
  PROVE  Effect({}, {n})
<1>1. PICK new \in Items :
        /\ new.kind = "UC" /\ new.under = u /\ new.number = n
        /\ WithCase(board, u, n, t) = With(board, u, new)
  BY NewCase
<1>2. PICK b, c : b = WithCase(board, u, n, t) /\ c = board'
  OBVIOUS
<1>3. /\ BoardOK(b, born \cup {u}) /\ u \in CasesOf(b) /\ b[u].number = n
      /\ NumbersOf(b) \subseteq NumbersOf(board) \cup {n}
      /\ \A w \in CasesOf(board) : Alike(board, b, w)
  BY SMTT(60), <1>1, <1>2, CaseAdded
<1>4. /\ BoardOK(c, (born \cup {u}) \cup {a})
      /\ \A i \in DOMAIN b : i \in DOMAIN c /\ c[i] = b[i]
      /\ NumbersOf(c) \subseteq NumbersOf(b)
      /\ \A w \in CasesOf(b) \ {u} : Alike(b, c, w)
  <2>1. a \in Ids \ (born \cup {u}) /\ c = WithCriterion(b, a, u, t)
    BY <1>2
  <2>. QED  BY ZenonT(60), <1>3, <2>1, CriterionAdded
<1>5. BoardOK(c, born')
  <2>1. born' = (born \cup {u}) \cup {a}
    OBVIOUS
  <2>. QED  BY <1>4, <2>1
<1>6. u \notin DOMAIN board /\ a \notin DOMAIN board /\ u \in DOMAIN b
  BY <1>3 DEF BoardOK, CasesOf
<1>7. u \in DOMAIN board' /\ board'[u].number = n
  BY <1>2, <1>3, <1>4, <1>6
<1>8. AddCase(u, t)
  BY <1>1, <1>2, <1>6, <1>7 DEF AddCase
<1>9. BoardNext
  BY <1>8 DEF BoardNext
<1>10. ASSUME NEW w \in CasesOf(board) PROVE Alike(board, c, w)
  <2>1. Alike(board, b, w) /\ w # u
    BY <1>3, <1>6 DEF CasesOf
  <2>2. w \in CasesOf(b)
    BY <2>1 DEF Alike
  <2>3. Alike(b, c, w)
    BY <1>4, <2>1, <2>2
  <2>. QED  BY <2>1, <2>3, AlikeAll
<1>. QED  BY <1>2, <1>3, <1>4, <1>5, <1>9, <1>10 DEF Effect

LEMMA CriterionEffect ==
  ASSUME BoardOK(board, born), NEW u \in CasesOf(board), NEW a \in Ids \ born,
         NEW t \in Texts, board' = WithCriterion(board, a, u, t), born' = born \cup {a}
  PROVE  Effect({u}, {})
<1>1. PICK c : c = board'
  OBVIOUS
<1>2. /\ BoardOK(c, born \cup {a}) /\ NumbersOf(c) \subseteq NumbersOf(board)
      /\ \A w \in CasesOf(board) \ {u} : Alike(board, c, w)
  BY <1>1, CriterionAdded
<1>3. a \notin DOMAIN board /\ u \in Ids
  BY DEF BoardOK, CasesOf
<1>4. BoardNext
  BY <1>3 DEF AddCriterion, BoardNext
<1>. QED  BY <1>1, <1>2, <1>4 DEF Effect

LEMMA ChangeEffect ==
  ASSUME BoardOK(board, born), NEW i \in DOMAIN board, born' = born,
         \/ \E s \in States : board' = WithState(board, i, s)
         \/ \E t \in Texts : board' = WithText(board, i, t)
  PROVE  Effect({board[i].under}, {})
<1>1. PICK c : c = board'
  OBVIOUS
<1>2. /\ BoardOK(c, born) /\ NumbersOf(c) \subseteq NumbersOf(board)
      /\ \A w \in CasesOf(board) \ {board[i].under} : Alike(board, c, w)
  BY <1>1, ItemChanged
<1>3. i \in Ids /\ Change(i)
  BY DEF BoardOK, Change
<1>4. BoardNext
  BY <1>3 DEF BoardNext
<1>. QED  BY <1>1, <1>2, <1>4 DEF Effect

LEMMA RemovalEffect ==
  ASSUME BoardOK(board, born), NEW u \in Ids, born' = born,
         \/ u \in CasesOf(board) /\ board' = Without(board, {u})
         \/ /\ (u \in CasesOf(board) /\ Purgeable(board, u)) \/ u \notin DOMAIN board
            /\ board' = Without(board, Gone(board, u))
  PROVE  Effect({u}, {})
<1>1. PICK gone \in SUBSET Gone(board, u) : board' = Without(board, gone)
  BY DEF Gone
<1>2. PICK c : c = board'
  OBVIOUS
<1>3. /\ BoardOK(c, born) /\ NumbersOf(c) \subseteq NumbersOf(board)
      /\ \A w \in CasesOf(board) \ {u} : Alike(board, c, w)
  BY <1>1, <1>2, CaseRemoved
<1>4. u \notin DOMAIN board => Without(board, Gone(board, u)) = Without(board, CriteriaOf(board, u))
  <2>1. u \notin DOMAIN board => DOMAIN board \ Gone(board, u) = DOMAIN board \ CriteriaOf(board, u)
    BY DEF Gone
  <2>. QED  BY <2>1 DEF Without
<1>5. ArchiveCase(u) \/ PurgeCase(u)
  BY <1>4 DEF ArchiveCase, PurgeCase
<1>6. BoardNext
  BY <1>5 DEF BoardNext
<1>. QED  BY <1>2, <1>3, <1>6 DEF Effect

-----------------------------------------------------------------------------
(***************************************************************************)
(* FreeformStore: the invariant, when calls about one use case do not      *)
(* overlap.                                                                *)
(***************************************************************************)

\* What was sent of the use case a call is about is how the board still has it.
Current(sent, ask, u) ==
    /\ Alike(sent, board, u)
    /\ ask.item \in Gone(board, u)
    /\ ask.tool \notin {"archive", "purge"} => DOMAIN sent = Gone(board, u)

\* The number reserved for a new use case is free.
SentOK(p) ==
    /\ p.ask \in Asked /\ p.reserves \in Nat
    /\ \/ /\ p.ask.tool = "add_uc" /\ p.about = {} /\ p.sent = <<>>
          /\ p.floor \in Nat /\ p.reserves = p.floor + 1
          /\ p.reserves \notin NumbersOf(board)
       \/ /\ p.ask.tool # "add_uc" /\ p.reserves = 0
          /\ \E u \in Ids : p.about = {u} /\ Current(p.sent, p.ask, u)

\* Two calls do not meet.
Beside(p, q) ==
    /\ p.about \cap q.about = {}
    /\ p.ask.tool = "add_uc" /\ q.ask.tool = "add_uc" => p.reserves # q.reserves

\* The case that List and Unlist need is there, and the next id is new.
DoingOK ==
    doing # None =>
        /\ doing \in Unfinished
        /\ doing.step \in {"listing", "shelved"} => doing.item \in CasesOf(board)
        /\ doing.step = "listing" => doing.next \in Ids \ born

StoreInv ==
    /\ BoardOK(board, born)
    /\ IsFiniteSet(made) /\ UnderWay \subseteq made
    /\ DOMAIN pending = Calls
    /\ remote => doing = None
    /\ ~remote => UnderWay = {}
    /\ DoingOK
    /\ \A c \in UnderWay : SentOK(pending[c])
    /\ \A c, d \in UnderWay : c # d => Beside(pending[c], pending[d])

-----------------------------------------------------------------------------
(***************************************************************************)
(* FreeformStore: an answer, wherever it was worked out, changes the board *)
(* as if it had been worked out on it.                                     *)
(***************************************************************************)

\* What a call makes of the board; a new use case is number n.
Done(ask, n, new) ==
    \/ /\ ask.tool = "add_uc" /\ ~ask.listed
       /\ board' = WithCase(board, new[1], n, ask.text)
    \/ /\ ask.tool = "add_uc" /\ ask.listed
       /\ board' = WithCriterion(WithCase(board, new[1], n, ask.text), new[2], new[1], ask.text)
    \/ /\ ask.tool = "add_ac" /\ ask.item \in CasesOf(board)
       /\ board' = WithCriterion(board, new[1], ask.item, ask.text)
    \/ /\ ask.tool = "state" /\ ask.item \in DOMAIN board
       /\ board' = WithState(board, ask.item, ask.state)
    \/ /\ ask.tool = "text" /\ ask.item \in DOMAIN board
       /\ board' = WithText(board, ask.item, ask.text)
    \/ /\ ask.tool \in {"archive", "purge"} /\ ask.item \in CasesOf(board)
       /\ \/ board' = Without(board, {ask.item})
          \/ Purgeable(board, ask.item) /\ board' = Without(board, Gone(board, ask.item))

LEMMA DrawnIds ==
  ASSUME NEW ask \in Asked, NEW new \in Drawn(ask)
  PROVE  /\ ask.tool = "add_uc" /\ ask.listed =>
              /\ new[1] \in Ids \ born /\ new[2] \in Ids \ born /\ new[2] # new[1]
              /\ Range(new) = {new[1], new[2]}
         /\ (ask.tool = "add_uc" /\ ~ask.listed) \/ ask.tool = "add_ac" =>
              new[1] \in Ids \ born /\ Range(new) = {new[1]}
         /\ ask.tool \notin {"add_uc", "add_ac"} => Range(new) = {}
<1>1. CASE ask.tool = "add_uc" /\ ask.listed
  <2>1. new \in Injection(1..2, Ids \ born)
    BY <1>1 DEF Drawn, WithCriteria
  <2>2. /\ new \in [1..2 -> Ids \ born]
        /\ \A i, j \in 1..2 : new[i] = new[j] => i = j
    BY <2>1 DEF Injection, IsInjective
  <2>3. 1 \in 1..2 /\ 2 \in 1..2 /\ 1..2 = {1, 2}
    OBVIOUS
  <2>. QED  BY <1>1, <2>2, <2>3 DEF Range
<1>2. CASE (ask.tool = "add_uc" /\ ~ask.listed) \/ ask.tool = "add_ac"
  <2>1. new \in Injection(1..1, Ids \ born)
    BY <1>2 DEF Drawn, WithCriteria
  <2>2. new \in [1..1 -> Ids \ born]
    BY <2>1 DEF Injection
  <2>3. 1 \in 1..1 /\ 1..1 = {1}
    OBVIOUS
  <2>. QED  BY <1>2, <2>2, <2>3 DEF Range
<1>3. CASE ask.tool \notin {"add_uc", "add_ac"}
  <2>1. new \in Injection(1..0, Ids \ born)
    BY <1>3 DEF Drawn, WithCriteria
  <2>2. new \in [1..0 -> Ids \ born]
    BY <2>1 DEF Injection
  <2>3. 1..0 = {}
    OBVIOUS
  <2>. QED  BY <1>3, <2>2, <2>3 DEF Range
<1>. QED  BY <1>1, <1>2, <1>3

LEMMA DoneEffect ==
  ASSUME BoardOK(board, born), NEW ask \in Asked, NEW n, NEW new \in Drawn(ask),
         ask.tool = "add_uc" => n \in Nat /\ n # 0 /\ n \notin NumbersOf(board),
         Done(ask, n, new), born' = born \cup Range(new)
  PROVE  Effect(About(ask), {n})
<1>1. CASE ask.tool = "add_uc" /\ ~ask.listed
  <2>1. board' = WithCase(board, new[1], n, ask.text)
    BY <1>1 DEF Done
  <2>2. new[1] \in Ids \ born /\ born' = born \cup {new[1]} /\ ask.text \in Texts
    BY <1>1, DrawnIds DEF Asked
  <2>3. Effect({}, {n})
    BY <1>1, <2>1, <2>2, CaseEffect
  <2>. QED  BY <1>1, <2>3 DEF About
<1>2. CASE ask.tool = "add_uc" /\ ask.listed
  <2>1. board' = WithCriterion(WithCase(board, new[1], n, ask.text), new[2], new[1], ask.text)
    BY <1>2 DEF Done
  <2>2. /\ new[1] \in Ids \ born /\ new[2] \in Ids \ born /\ new[2] # new[1]
        /\ born' = born \cup {new[1], new[2]} /\ ask.text \in Texts
    BY <1>2, DrawnIds DEF Asked
  <2>3. Effect({}, {n})
    BY <1>2, <2>1, <2>2, CaseAndCriterionEffect
  <2>. QED  BY <1>2, <2>3 DEF About
<1>3. CASE ask.tool = "add_ac"
  <2>1. ask.item \in CasesOf(board) /\ board' = WithCriterion(board, new[1], ask.item, ask.text)
    BY <1>3 DEF Done
  <2>2. new[1] \in Ids \ born /\ born' = born \cup {new[1]} /\ ask.text \in Texts
    BY <1>3, DrawnIds DEF Asked
  <2>3. Effect({ask.item}, {})
    BY <2>1, <2>2, CriterionEffect
  <2>4. About(ask) = {ask.item}
    BY <1>3, <2>1 DEF About, BoardOK, CasesOf
  <2>. QED  BY <2>3, <2>4 DEF Effect
<1>4. CASE ask.tool \in {"state", "text"}
  <2>1. /\ ask.item \in DOMAIN board
        /\ \/ \E s \in States : board' = WithState(board, ask.item, s)
           \/ \E t \in Texts : board' = WithText(board, ask.item, t)
    <3>1. ask.tool = "state" => ask.state \in States
      BY DEF Asked
    <3>2. ask.tool = "text" => ask.text \in Texts
      BY DEF Asked
    <3>. QED  BY <1>4, <3>1, <3>2 DEF Done
  <2>2. born' = born
    BY <1>4, DrawnIds
  <2>3. Effect({board[ask.item].under}, {})
    BY <2>1, <2>2, ChangeEffect
  <2>. QED  BY <1>4, <2>3 DEF Effect, About
<1>5. CASE ask.tool \in {"archive", "purge"}
  <2>1. /\ ask.item \in CasesOf(board)
        /\ \/ board' = Without(board, {ask.item})
           \/ Purgeable(board, ask.item) /\ board' = Without(board, Gone(board, ask.item))
    BY <1>5 DEF Done
  <2>2. born' = born /\ ask.item \in Ids
    BY <1>5, DrawnIds DEF Asked
  <2>3. Effect({ask.item}, {})
    BY <2>1, <2>2, RemovalEffect
  <2>4. About(ask) = {ask.item}
    BY <1>5, <2>1 DEF About, BoardOK, CasesOf
  <2>. QED  BY <2>3, <2>4 DEF Effect
<1>6. ask.tool \in {"add_uc", "add_ac", "state", "text", "archive", "purge"}
  BY DEF Asked
<1>. QED  BY <1>1, <1>2, <1>3, <1>4, <1>5, <1>6

\* A field that the tool left alone stays.
LEMMA Untouched ==
  ASSUME NEW item \in Items, NEW sent
  PROVE  MergedItem(item, sent, sent) = item
BY DEF MergedItem, Items

\* mergeFragment, item by item.
ListOfItems(b) == \A i \in DOMAIN b : b[i] \in Items

MergedAs(local, sent, back, m) ==
    /\ m = [i \in DOMAIN m |-> m[i]]
    /\ DOMAIN m = (DOMAIN local \ (DOMAIN sent \ DOMAIN back)) \cup (DOMAIN back \ DOMAIN sent)
    /\ \A i \in DOMAIN m :
         /\ i \notin DOMAIN back => m[i] = local[i]
         /\ i \in DOMAIN back /\ i \notin DOMAIN sent => m[i] = back[i]
         /\ i \in DOMAIN back /\ i \in DOMAIN sent /\ back[i] = sent[i] => m[i] = local[i]

LEMMA MergedItems ==
  ASSUME NEW local, ListOfItems(local), NEW sent, NEW back
  PROVE  MergedAs(local, sent, back, Merged(local, sent, back))
<1>. DEFINE m == Merged(local, sent, back)
<1>1. m = [i \in DOMAIN m |-> m[i]]
  BY DEF Merged
<1>2. DOMAIN m = (DOMAIN local \ (DOMAIN sent \ DOMAIN back)) \cup (DOMAIN back \ DOMAIN sent)
  BY DEF Merged
<1>3. ASSUME NEW i \in DOMAIN m
      PROVE  /\ i \notin DOMAIN back => m[i] = local[i]
             /\ i \in DOMAIN back /\ i \notin DOMAIN sent => m[i] = back[i]
  BY DEF Merged
<1>4. ASSUME NEW i \in DOMAIN m, i \in DOMAIN back, i \in DOMAIN sent, back[i] = sent[i]
      PROVE  m[i] = local[i]
  <2>1. m[i] = MergedItem(local[i], sent[i], sent[i])
    BY <1>4 DEF Merged
  <2>2. local[i] \in Items
    BY <1>2, <1>4 DEF ListOfItems
  <2>. QED  BY <2>1, <2>2, Untouched
<1>. HIDE DEF m
<1>5. MergedAs(local, sent, back, m)
  BY <1>2, <1>3, <1>4, <1>1 DEF MergedAs
<1>. QED  BY <1>5 DEF m

\* mergeFragment with an answer that has one item more.
LEMMA MergedNew ==
  ASSUME NEW local, ListOfItems(local), NEW sent, NEW a,
         a \notin DOMAIN local, a \notin DOMAIN sent, NEW item, NEW back,
         back = With(sent, a, item)
  PROVE  Merged(local, sent, back) = With(local, a, item)
<1>1. /\ DOMAIN back = DOMAIN sent \cup {a} /\ back[a] = item
      /\ \A i \in DOMAIN sent : back[i] = sent[i]
  BY DEF With
<1>2. PICK m : m = Merged(local, sent, back) /\ MergedAs(local, sent, back, m)
  BY MergedItems
<1>3. m = [i \in DOMAIN m |-> m[i]]
  BY <1>2 DEF MergedAs
<1>4. DOMAIN m = DOMAIN local \cup {a}
  BY <1>1, <1>2 DEF MergedAs
<1>5. \A i \in DOMAIN m : m[i] = IF i = a THEN item ELSE local[i]
  BY <1>1, <1>2, <1>4 DEF MergedAs
<1>6. m = With(local, a, item)
  BY <1>3, <1>4, <1>5 DEF With
<1>. QED  BY <1>2, <1>6

\* With two items more, and nothing sent.
LEMMA MergedTwo ==
  ASSUME NEW local, ListOfItems(local), NEW u, NEW x, NEW a, NEW y,
         u \notin DOMAIN local, a \notin DOMAIN local, NEW back,
         back = With(With(<<>>, u, x), a, y)
  PROVE  Merged(local, <<>>, back) = With(With(local, u, x), a, y)
<1>1. DOMAIN <<>> = {}
  OBVIOUS
<1>2. DOMAIN back = {u, a} /\ \A i \in DOMAIN back : back[i] = IF i = a THEN y ELSE x
  BY <1>1 DEF With
<1>3. PICK m, w : /\ m = Merged(local, <<>>, back) /\ MergedAs(local, <<>>, back, m)
                  /\ w = With(With(local, u, x), a, y)
  BY MergedItems
<1>4. /\ w = [i \in DOMAIN w |-> w[i]] /\ DOMAIN w = DOMAIN local \cup {u, a}
      /\ \A i \in DOMAIN w : w[i] = IF i = a THEN y ELSE IF i = u THEN x ELSE local[i]
  BY <1>3 DEF With
<1>5. m = [i \in DOMAIN m |-> m[i]]
  BY <1>3 DEF MergedAs
<1>6. DOMAIN m = DOMAIN local \cup {u, a}
  BY <1>1, <1>2, <1>3 DEF MergedAs
<1>7. ASSUME NEW i \in DOMAIN m
      PROVE  m[i] = IF i = a THEN y ELSE IF i = u THEN x ELSE local[i]
  <2>1. /\ i \notin DOMAIN back => m[i] = local[i]
        /\ i \in DOMAIN back /\ i \notin DOMAIN <<>> => m[i] = back[i]
    BY <1>3 DEF MergedAs
  <2>. QED  BY <1>1, <1>2, <2>1
<1>8. m = w
  BY <1>4, <1>5, <1>6, <1>7
<1>. QED  BY <1>3, <1>8

\* With an item changed, which is there as it was sent.
LEMMA MergedChange ==
  ASSUME NEW local, ListOfItems(local), NEW sent,
         DOMAIN sent \subseteq DOMAIN local, NEW i \in DOMAIN sent, sent[i] = local[i],
         NEW back,
         NEW c,
         \/ \E s : back = WithState(sent, i, s) /\ c = WithState(local, i, s)
         \/ \E t : back = WithText(sent, i, t) /\ c = WithText(local, i, t)
  PROVE  Merged(local, sent, back) = c
<1>1. PICK m : m = Merged(local, sent, back) /\ MergedAs(local, sent, back, m)
  BY MergedItems
<1>2. local[i] \in Items /\ sent[i] = local[i]
  BY DEF ListOfItems
<1>3. /\ DOMAIN back = DOMAIN sent
      /\ \A j \in DOMAIN sent \ {i} : back[j] = sent[j]
  BY DEF WithState, WithText
<1>4. /\ c = [j \in DOMAIN c |-> c[j]] /\ DOMAIN c = DOMAIN local
      /\ \A j \in DOMAIN c \ {i} : c[j] = local[j]
  BY DEF WithState, WithText
<1>5. m = [j \in DOMAIN m |-> m[j]] /\ DOMAIN m = DOMAIN local
  BY <1>1, <1>3 DEF MergedAs
<1>6. \A j \in DOMAIN m \ {i} : m[j] = local[j]
  BY <1>1, <1>3, <1>5 DEF MergedAs
<1>7. m[i] = c[i]
  <2>1. m[i] = MergedItem(local[i], sent[i], back[i])
    BY <1>1, <1>3, <1>5 DEF Merged
  <2>2. CASE \E s : back = WithState(sent, i, s) /\ c = WithState(local, i, s)
    <3>1. PICK s : back = WithState(sent, i, s) /\ c = WithState(local, i, s)
      BY <2>2
    <3>2. back[i] = [sent[i] EXCEPT !.state = s] /\ c[i] = [local[i] EXCEPT !.state = s]
      BY <3>1 DEF WithState
    <3>3. PICK x \in Items : x = local[i]
      BY <1>2
    <3>4. /\ back[i] = [x EXCEPT !.state = s] /\ c[i] = [x EXCEPT !.state = s]
          /\ m[i] = MergedItem(x, x, [x EXCEPT !.state = s])
      BY <1>2, <2>1, <3>2, <3>3
    <3>5. [x EXCEPT !.state = s].state = s /\ [x EXCEPT !.state = s].text = x.text
      BY DEF Items
    <3>6. MergedItem(x, x, [x EXCEPT !.state = s]) = [x EXCEPT !.state = s, !.text = x.text]
      BY <3>5 DEF MergedItem
    <3>7. [x EXCEPT !.state = s, !.text = x.text] = [x EXCEPT !.state = s]
      BY DEF Items
    <3>. QED  BY <3>4, <3>6, <3>7
  <2>3. CASE \E t : back = WithText(sent, i, t) /\ c = WithText(local, i, t)
    <3>1. PICK t : back = WithText(sent, i, t) /\ c = WithText(local, i, t)
      BY <2>3
    <3>2. back[i] = [sent[i] EXCEPT !.text = t] /\ c[i] = [local[i] EXCEPT !.text = t]
      BY <3>1 DEF WithText
    <3>. QED  BY <1>2, <2>1, <3>2 DEF MergedItem, Items
  <2>. QED  BY <2>2, <2>3
<1>8. m = c
  BY <1>4, <1>5, <1>6, <1>7
<1>. QED  BY <1>1, <1>8

\* With items removed.
LEMMA MergedRemoval ==
  ASSUME NEW local, ListOfItems(local), NEW sent, NEW gone,
         gone \subseteq DOMAIN sent, NEW back, back = Without(sent, gone)
  PROVE  Merged(local, sent, back) = Without(local, gone)
<1>1. DOMAIN back = DOMAIN sent \ gone /\ \A i \in DOMAIN back : back[i] = sent[i]
  BY DEF Without, Restrict
<1>2. PICK m, w : /\ m = Merged(local, sent, back) /\ MergedAs(local, sent, back, m)
                  /\ w = Without(local, gone)
  BY MergedItems
<1>3. /\ w = [i \in DOMAIN w |-> w[i]] /\ DOMAIN w = DOMAIN local \ gone
      /\ \A i \in DOMAIN w : w[i] = local[i]
  BY <1>2 DEF Without, Restrict
<1>4. m = [i \in DOMAIN m |-> m[i]]
  BY <1>2 DEF MergedAs
<1>5. DOMAIN m = DOMAIN local \ gone
  BY <1>1, <1>2 DEF MergedAs
<1>6. \A i \in DOMAIN m : m[i] = local[i]
  BY <1>1, <1>2 DEF MergedAs
<1>7. m = w
  BY <1>3, <1>4, <1>5, <1>6
<1>. QED  BY <1>2, <1>7

LEMMA TopOfNone ==
  ASSUME NEW floor \in Nat
  PROVE  Top(<<>>, floor) = floor
<1>1. NumbersOf(<<>>) = {}
  BY DEF NumbersOf, CasesOf
<1>2. PICK S : S = {floor} \cup NumbersOf(<<>>)
  OBVIOUS
<1>3. S = {floor} /\ S \in SUBSET Nat /\ S # {}
  BY <1>1, <1>2
<1>4. IsFiniteSet(S)
  BY <1>3, FS_Singleton
<1>5. Max(S) \in S
  BY <1>3, <1>4, GreatestNumber
<1>. QED  BY <1>2, <1>3, <1>5 DEF Top

\* PostToolUse.
LEMMA ReceivedDone ==
  ASSUME BoardOK(board, born), NEW p, SentOK(p), Possible(p.sent, p.ask),
         NEW new \in Drawn(p.ask),
         board' = Merged(board, p.sent, Answer(p.sent, p.floor, p.ask, new))
  PROVE  Done(p.ask, p.reserves, new)
<1>. DEFINE ask == p.ask
            sent == p.sent
            back == Answer(p.sent, p.floor, p.ask, new)
<1>1. /\ ask \in Asked /\ DOMAIN board \subseteq born
      /\ ListOfItems(board)
  BY DEF SentOK, BoardOK, ListOfItems
<1>2. CASE ask.tool = "add_uc"
  <2>1. sent = <<>> /\ p.floor \in Nat /\ p.reserves = p.floor + 1
    BY <1>2 DEF SentOK
  <2>2. PICK n \in Nat : n = Top(sent, p.floor) + 1 /\ n = p.reserves
    BY <2>1, TopOfNone
  <2>3. ask.text \in Texts /\ ask.listed \in BOOLEAN
    BY <1>1, <1>2 DEF Asked
  <2>4. new[1] \in Ids \ born
    BY <1>1, <1>2, <2>3, DrawnIds
  <2>5. PICK u, x : /\ u = new[1] /\ x \in Items /\ x.kind = "UC" /\ x.under = u
                    /\ \A b : WithCase(b, u, n, ask.text) = With(b, u, x)
    BY <2>2, <2>3, <2>4, NewCase
  <2>6. u \notin DOMAIN board /\ u \notin DOMAIN sent /\ u \in Ids \ born
    BY <1>1, <2>1, <2>4, <2>5
  <2>7. CASE ~ask.listed
    <3>1. back = With(sent, u, x)
      BY <1>2, <2>2, <2>5, <2>7 DEF Answer, WithCriteria
    <3>2. Merged(board, sent, back) = With(board, u, x)
      BY <1>1, <2>6, <3>1, MergedNew
    <3>. QED  BY <1>2, <2>2, <2>5, <2>7, <3>2 DEF Done
  <2>8. CASE ask.listed
    <3>1. new[2] \in Ids \ born /\ new[2] # new[1]
      BY <1>1, <1>2, <2>8, DrawnIds
    <3>2. PICK b, s : b = With(board, u, x) /\ s = With(sent, u, x)
      OBVIOUS
    <3>3. BoardOK(sent, born)
      BY <2>1 DEF BoardOK
    <3>4. CriteriaOf(b, u) = {} /\ CriteriaOf(s, u) = {}
      BY <2>5, <2>6, <3>2, <3>3, CaseAdded
    <3>5. PICK a, y : /\ a = new[2]
                      /\ WithCriterion(b, a, u, ask.text) = With(b, a, y)
                      /\ WithCriterion(s, a, u, ask.text) = With(s, a, y)
      BY <3>4, SameCriterion
    <3>6. back = With(With(<<>>, u, x), a, y)
      <4>1. back = WithCriterion(WithCase(sent, u, n, ask.text), a, u, ask.text)
        BY <1>2, <2>2, <2>5, <2>8, <3>5 DEF Answer, WithCriteria
      <4>. QED  BY <2>1, <2>5, <3>2, <3>5, <4>1
    <3>7. a \notin DOMAIN board
      BY <1>1, <3>1, <3>5
    <3>8. Merged(board, <<>>, back) = With(With(board, u, x), a, y)
      BY <1>1, <2>6, <3>6, <3>7, MergedTwo
    <3>9. board' = WithCriterion(WithCase(board, u, n, ask.text), a, u, ask.text)
      BY <2>1, <2>5, <3>2, <3>5, <3>8
    <3>. QED  BY <1>2, <2>2, <2>5, <2>8, <3>5, <3>9 DEF Done
  <2>. QED  BY <2>3, <2>7, <2>8
<1>3. CASE ask.tool # "add_uc"
  <2>1. PICK u \in Ids : Current(sent, ask, u)
    BY <1>3 DEF SentOK
  <2>2. /\ u \in CasesOf(sent) /\ u \in CasesOf(board)
        /\ CriteriaOf(sent, u) = CriteriaOf(board, u) /\ Gone(sent, u) = Gone(board, u)
        /\ \A i \in Gone(board, u) : sent[i] = board[i]
        /\ ask.item \in Gone(board, u)
    <3>1. Gone(sent, u) = Gone(board, u) /\ u \in CasesOf(sent) /\ u \in CasesOf(board)
      BY <2>1 DEF Current, Alike
    <3>2. u \notin CriteriaOf(sent, u) /\ u \notin CriteriaOf(board, u)
      BY <3>1 DEF CasesOf, CriteriaOf
    <3>3. CriteriaOf(sent, u) = CriteriaOf(board, u)
      BY <3>1, <3>2 DEF Gone
    <3>. QED  BY <2>1, <3>1, <3>3 DEF Current, Alike
  <2>3. /\ Gone(board, u) \subseteq DOMAIN board /\ Gone(sent, u) \subseteq DOMAIN sent
        /\ CriteriaOf(board, u) \subseteq Gone(board, u) /\ u \in Gone(board, u)
    BY <2>2 DEF Gone, CasesOf, CriteriaOf
  <2>4. ask.item \in CasesOf(sent) => ask.item = u
    BY <2>2 DEF Gone, CasesOf, CriteriaOf
  <2>5. CASE ask.tool = "add_ac"
    <3>1. ask.item = u /\ ask.item \in CasesOf(board)
      BY <2>2, <2>4, <2>5 DEF Possible
    <3>2. new[1] \in Ids \ born
      BY <1>1, <2>5, DrawnIds
    <3>3. DOMAIN sent = Gone(board, u)
      BY <2>1, <2>5 DEF Current
    <3>4. PICK a, y : /\ a = new[1]
                      /\ WithCriterion(board, a, u, ask.text) = With(board, a, y)
                      /\ WithCriterion(sent, a, u, ask.text) = With(sent, a, y)
      BY <2>2, <2>3, SameCriterion
    <3>5. a \notin DOMAIN board /\ a \notin DOMAIN sent
      BY <1>1, <2>3, <3>2, <3>3, <3>4
    <3>6. back = With(sent, a, y)
      BY <2>5, <3>1, <3>4 DEF Answer
    <3>7. Merged(board, sent, back) = With(board, a, y)
      BY <1>1, <3>5, <3>6, MergedNew
    <3>. QED  BY <2>5, <3>1, <3>4, <3>7 DEF Done
  <2>6. CASE ask.tool \in {"state", "text"}
    <3>1. DOMAIN sent = Gone(board, u)
      BY <2>1, <2>6 DEF Current
    <3>2. /\ DOMAIN sent \subseteq DOMAIN board /\ ask.item \in DOMAIN sent
          /\ sent[ask.item] = board[ask.item]
      BY <2>2, <2>3, <3>1
    <3>3. CASE ask.tool = "state"
      <4>1. back = WithState(sent, ask.item, ask.state)
        BY <3>3 DEF Answer
      <4>2. PICK i, v, b, c : /\ i = ask.item /\ v = ask.state /\ b = back
                              /\ c = WithState(board, i, v) /\ b = WithState(sent, i, v)
        BY <4>1
      <4>3. /\ DOMAIN sent \subseteq DOMAIN board /\ i \in DOMAIN sent
            /\ sent[i] = board[i]
        BY <3>2, <4>2
      <4>4. \E w : b = WithState(sent, i, w) /\ c = WithState(board, i, w)
        BY <4>2
      <4>5. Merged(board, sent, b) = c
        BY <1>1, <4>3, <4>4, MergedChange
      <4>. QED  BY <3>2, <3>3, <4>2, <4>5 DEF Done
    <3>4. CASE ask.tool = "text"
      <4>1. back = WithText(sent, ask.item, ask.text)
        BY <3>4 DEF Answer
      <4>2. PICK i, v, b, c : /\ i = ask.item /\ v = ask.text /\ b = back
                              /\ c = WithText(board, i, v) /\ b = WithText(sent, i, v)
        BY <4>1
      <4>3. /\ DOMAIN sent \subseteq DOMAIN board /\ i \in DOMAIN sent
            /\ sent[i] = board[i]
        BY <3>2, <4>2
      <4>4. \E w : b = WithText(sent, i, w) /\ c = WithText(board, i, w)
        BY <4>2
      <4>5. Merged(board, sent, b) = c
        BY SMTT(60), <1>1, <4>3, <4>4, MergedChange
      <4>. QED  BY <3>2, <3>4, <4>2, <4>5 DEF Done
    <3>. QED  BY <2>6, <3>3, <3>4
  <2>7. CASE ask.tool \in {"archive", "purge"}
    <3>1. ask.item = u
      BY <2>4, <2>7 DEF Possible
    <3>2. \/ back = Without(sent, {u})
          \/ Purgeable(sent, u) /\ back = Without(sent, Gone(board, u))
      BY <2>2, <2>7, <3>1 DEF Answer
    <3>3. Purgeable(sent, u) => Purgeable(board, u)
      BY <2>2, <2>3 DEF Purgeable
    <3>4. {u} \subseteq DOMAIN sent /\ Gone(board, u) \subseteq DOMAIN sent
      BY <2>2, <2>3
    <3>5. back = Without(sent, {u}) => Merged(board, sent, back) = Without(board, {u})
      BY <1>1, <3>4, MergedRemoval
    <3>6. back = Without(sent, Gone(board, u)) =>
            Merged(board, sent, back) = Without(board, Gone(board, u))
      BY <1>1, <3>4, MergedRemoval
    <3>. QED  BY <2>2, <2>7, <3>1, <3>2, <3>3, <3>5, <3>6 DEF Done
  <2>. QED  BY <1>1, <1>3, <2>5, <2>6, <2>7 DEF Asked
<1>. QED  BY <1>2, <1>3

-----------------------------------------------------------------------------
(***************************************************************************)
(* FreeformStore: every step keeps the invariant.                          *)
(***************************************************************************)

\* A call is about the use case it names.
LEMMA AboutIt ==
  ASSUME BoardOK(board, born), NEW p, SentOK(p)
  PROVE  About(p.ask) = p.about
<1>1. CASE p.ask.tool = "add_uc"
  BY <1>1 DEF SentOK, About
<1>2. CASE p.ask.tool # "add_uc"
  <2>1. PICK u \in Ids : p.about = {u} /\ Current(p.sent, p.ask, u)
    BY <1>2 DEF SentOK
  <2>2. p.ask.item \in Gone(board, u) /\ u \in CasesOf(board)
    BY <2>1 DEF Current, Alike
  <2>3. board[p.ask.item].under = u
    BY <2>2 DEF Gone, CasesOf, CriteriaOf, BoardOK
  <2>. QED  BY <1>2, <2>1, <2>3 DEF About
<1>. QED  BY <1>1, <1>2

\* What the answer to one call changes is nothing that another call was sent.
LEMMA OthersKept ==
  ASSUME NEW about, NEW n, Effect(about, {n}), NEW q, SentOK(q),
         q.about \cap about = {}, q.ask.tool = "add_uc" => q.reserves # n
  PROVE  SentOK(q)'
<1>1. CASE q.ask.tool = "add_uc"
  <2>1. q.reserves \notin NumbersOf(board')
    BY <1>1 DEF SentOK, Effect
  <2>. QED  BY <1>1, <2>1 DEF SentOK
<1>2. CASE q.ask.tool # "add_uc"
  <2>1. PICK u \in Ids : q.about = {u} /\ Current(q.sent, q.ask, u)
    BY <1>2 DEF SentOK
  <2>2. Alike(q.sent, board, u) /\ q.ask.item \in Gone(board, u)
    BY <2>1 DEF Current
  <2>3. u \in CasesOf(board) \ about
    BY <2>1, <2>2 DEF Alike
  <2>4. Alike(board, board', u)
    BY <2>3 DEF Effect
  <2>5. Alike(q.sent, board', u)
    BY <2>2, <2>4, AlikeAll
  <2>6. Gone(board', u) = Gone(board, u)
    BY <2>4 DEF Alike
  <2>7. Current(q.sent, q.ask, u)'
    BY <2>1, <2>2, <2>5, <2>6 DEF Current
  <2>. QED  BY <1>2, <2>1, <2>7 DEF SentOK
<1>. QED  BY <1>1, <1>2

\* PostToolUse, or no answer.
LEMMA AnsweredKept ==
  ASSUME StoreInv, NEW c \in UnderWay, Effect(pending[c].about, {pending[c].reserves}),
         pending' = [pending EXCEPT ![c] = None], UNCHANGED <<remote, made, doing>>
  PROVE  StoreInv'
<1>. USE DEF StoreInv
<1>1. UnderWay' = UnderWay \ {c} /\ \A d \in UnderWay' : pending'[d] = pending[d]
  BY DEF UnderWay
<1>2. BoardOK(board, born)'
  BY DEF Effect
<1>3. remote /\ doing = None
  BY <1>1
<1>4. ASSUME NEW d \in UnderWay' PROVE SentOK(pending[d])'
  <2>1. PICK p, q : p = pending[c] /\ q = pending[d]
    OBVIOUS
  <2>2. SentOK(p) /\ SentOK(q) /\ Beside(p, q)
    BY <1>1, <1>4, <2>1
  <2>3. q.about \cap p.about = {} /\ Effect(p.about, {p.reserves})
    BY <2>1, <2>2 DEF Beside
  <2>4. q.ask.tool = "add_uc" => q.reserves # p.reserves
    BY <2>2 DEF Beside, SentOK
  <2>5. SentOK(q)'
    BY <2>2, <2>3, <2>4, OthersKept
  <2>6. pending'[d] = q
    BY <1>1, <2>1
  <2>. QED  BY <2>5, <2>6 DEF SentOK
<1>5. ASSUME NEW d \in UnderWay', NEW e \in UnderWay', d # e
      PROVE  Beside(pending[d], pending[e])'
  <2>1. Beside(pending[d], pending[e])
    BY <1>1, <1>5
  <2>. QED  BY <1>1, <1>5, <2>1 DEF Beside
<1>6. IsFiniteSet(made') /\ UnderWay' \subseteq made' /\ DOMAIN pending' = Calls
  BY <1>1
<1>7. doing' = None /\ remote' /\ DoingOK'
  BY <1>3 DEF DoingOK
<1>. QED  BY <1>2, <1>4, <1>5, <1>6, <1>7

LEMMA ReceiveKeeps ==
  ASSUME StoreInv, NEW c \in Calls, Receive(c)
  PROVE  StoreInv' /\ (BoardNext \/ board' = board)
<1>1. PICK p : p = pending[c]
  OBVIOUS
<1>2. c \in UnderWay /\ SentOK(p) /\ BoardOK(board, born)
  BY <1>1 DEF Receive, StoreInv
<1>3. Effect(p.about, {p.reserves})
  <2>1. CASE Possible(p.sent, p.ask)
    <3>1. PICK new \in Drawn(p.ask) :
            /\ board' = Merged(board, p.sent, Answer(p.sent, p.floor, p.ask, new))
            /\ born' = born \cup Range(new)
      BY <1>1, <2>1 DEF Receive
    <3>2. Done(p.ask, p.reserves, new)
      BY <1>2, <2>1, <3>1, ReceivedDone
    <3>3. /\ p.ask \in Asked
          /\ p.ask.tool = "add_uc" => /\ p.reserves \in Nat /\ p.reserves # 0
                                      /\ p.reserves \notin NumbersOf(board)
      BY <1>2 DEF SentOK
    <3>4. PICK ask, n : ask = p.ask /\ n = p.reserves
      OBVIOUS
    <3>5. Effect(About(ask), {n})
      BY <1>2, <3>1, <3>2, <3>3, <3>4, DoneEffect
    <3>. QED  BY <1>2, <3>4, <3>5, AboutIt
  <2>2. CASE ~Possible(p.sent, p.ask)
    <3>1. UNCHANGED <<board, born>>
      BY <1>1, <2>2 DEF Receive
    <3>. QED  BY <1>2, <3>1, NoEffect
  <2>. QED  BY <2>1, <2>2
<1>4. StoreInv'
  BY <1>1, <1>2, <1>3, AnsweredKept DEF Receive
<1>. QED  BY <1>3, <1>4 DEF Effect

LEMMA ForgetKeeps ==
  ASSUME StoreInv, NEW c \in Calls, Forget(c)
  PROVE  StoreInv' /\ board' = board
<1>1. BoardOK(board, born) /\ UNCHANGED <<board, born>>
  BY DEF Forget, StoreInv
<1>2. Effect(pending[c].about, {pending[c].reserves})
  BY <1>1, NoEffect
<1>3. StoreInv'
  BY <1>2, AnsweredKept DEF Forget
<1>. QED  BY <1>1, <1>3

\* PreToolUse.
LEMMA SendKeeps ==
  ASSUME StoreInv, ~Overlap, NEW c \in Calls, NEW ask \in Asked, Send(c, ask)
  PROVE  StoreInv' /\ board' = board
<1>1. PICK floor, p :
        /\ floor = Max({0} \cup NumbersOf(board) \cup Reserved)
        /\ p = [ask |-> ask, sent |-> FragmentOf(ask), floor |-> floor, about |-> About(ask),
                reserves |-> IF ask.tool = "add_uc" THEN floor + 1 ELSE 0]
        /\ pending' = [pending EXCEPT ![c] = p]
  BY DEF Send
<1>2. /\ p.ask = ask /\ p.sent = FragmentOf(ask) /\ p.floor = floor /\ p.about = About(ask)
      /\ p.reserves = IF ask.tool = "add_uc" THEN floor + 1 ELSE 0
  BY <1>1
<1>3. /\ remote /\ c \notin made /\ made' = made \cup {c}
      /\ UNCHANGED <<board, remote, born, doing>>
      /\ ask.tool # "add_uc" => /\ ask.item \in DOMAIN board
                                /\ board[ask.item].under \in DOMAIN board
      /\ \A d \in UnderWay : pending[d].about \cap About(ask) = {}
  BY DEF Send
<1>4. /\ BoardOK(board, born) /\ IsFiniteSet(made) /\ UnderWay \subseteq made
      /\ DOMAIN pending = Calls /\ doing = None
      /\ \A d \in UnderWay : SentOK(pending[d])
      /\ \A d, e \in UnderWay : d # e => Beside(pending[d], pending[e])
  BY <1>3 DEF StoreInv
<1>5. /\ UnderWay' \subseteq UnderWay \cup {c} /\ c \notin UnderWay
      /\ \A d \in UnderWay : pending'[d] = pending[d]
      /\ pending'[c] = p
  BY <1>1, <1>3, <1>4 DEF UnderWay
<1>6. /\ floor \in Nat /\ floor + 1 # 0
      /\ \A k \in NumbersOf(board) \cup Reserved : k \in Nat /\ floor + 1 > k
  <2>1. IsFiniteSet(UnderWay)
    BY <1>4, FS_Subset
  <2>2. [d \in UnderWay |-> pending[d].reserves] \in Surjection(UnderWay, Reserved)
    BY DEF Surjection, Reserved
  <2>3. IsFiniteSet(Reserved)
    BY <2>1, <2>2, FS_Surjection
  <2>4. Reserved \in SUBSET Nat
    BY <1>4 DEF Reserved, SentOK
  <2>. QED  BY <1>1, <1>4, <2>3, <2>4, TopIsHighest
<1>7. SentOK(p)
  <2>1. CASE ask.tool = "add_uc"
    <3>1. p.about = {} /\ p.sent = <<>>
      BY <1>2, <2>1 DEF About, FragmentOf
    <3>2. p.reserves = floor + 1 /\ p.reserves \in Nat
      BY <1>2, <1>6, <2>1
    <3>3. p.reserves \notin NumbersOf(board)
      <4>1. ASSUME NEW k \in NumbersOf(board) PROVE k # floor + 1
        BY <1>6
      <4>. QED  BY <3>2, <4>1
    <3>. QED  BY <1>2, <1>6, <2>1, <3>1, <3>2, <3>3 DEF SentOK
  <2>2. CASE ask.tool # "add_uc"
    <3>1. PICK u : u = board[ask.item].under
      OBVIOUS
    <3>2. u \in CasesOf(board) /\ u \in Ids /\ ask.item \in Gone(board, u)
      BY <1>3, <1>4, <2>2, <3>1 DEF BoardOK, CasesOf, CriteriaOf, Gone, Items
    <3>3. p.about = {u}
      BY <1>2, <2>2, <3>1 DEF About
    <3>4. CASE ask.tool \in {"archive", "purge"}
      <4>1. p.sent = board
        BY <1>2, <3>4 DEF FragmentOf
      <4>2. Current(p.sent, p.ask, u)
        BY <1>2, <3>2, <3>4, <4>1 DEF Current, Alike
      <4>. QED  BY <1>2, <2>2, <3>2, <3>3, <4>2 DEF SentOK
    <3>5. CASE ask.tool \notin {"archive", "purge"}
      <4>1. p.sent = Restrict(board, UNION {Gone(board, w) : w \in {u}})
        BY <1>2, <2>2, <3>3, <3>5 DEF FragmentOf
      <4>2. UNION {Gone(board, w) : w \in {u}} = Gone(board, u)
        OBVIOUS
      <4>3. p.sent = Restrict(board, Gone(board, u))
        BY <4>1, <4>2
      <4>4. DOMAIN p.sent = Gone(board, u) /\ \A i \in Gone(board, u) : p.sent[i] = board[i]
        BY <4>3 DEF Restrict
      <4>5. Gone(board, u) \subseteq DOMAIN board /\ u \in Gone(board, u)
        BY <3>2 DEF Gone, CasesOf, CriteriaOf
      <4>6. u \in CasesOf(p.sent)
        BY <3>2, <4>4, <4>5 DEF CasesOf
      <4>7. CriteriaOf(p.sent, u) = CriteriaOf(board, u)
        BY <4>4, <4>5 DEF CriteriaOf, Gone
      <4>8. Alike(p.sent, board, u)
        BY <3>2, <4>4, <4>6, <4>7 DEF Alike, Gone
      <4>9. Current(p.sent, p.ask, u)
        BY <1>2, <3>2, <4>4, <4>8 DEF Current
      <4>. QED  BY <1>2, <2>2, <3>2, <3>3, <4>9 DEF SentOK
    <3>. QED  BY <3>4, <3>5
  <2>. QED  BY <2>1, <2>2
<1>8. ASSUME NEW d \in UnderWay PROVE Beside(p, pending[d]) /\ Beside(pending[d], p)
  <2>1. pending[d].about \cap p.about = {}
    BY <1>2, <1>3
  <2>2. pending[d].reserves \in Reserved
    BY DEF Reserved
  <2>3. pending[d].reserves # floor + 1
    BY <1>6, <2>2
  <2>4. ask.tool = "add_uc" => p.reserves # pending[d].reserves
    BY <1>2, <2>3
  <2>. QED  BY <1>2, <2>1, <2>4 DEF Beside
<1>9. ASSUME NEW d \in UnderWay' PROVE SentOK(pending[d])'
  <2>1. PICK q : q = pending'[d] /\ SentOK(q)
    BY <1>4, <1>5, <1>7
  <2>2. SentOK(q)'
    <3>1. \A sent, a, u : Current(sent, a, u)' <=> Current(sent, a, u)
      BY <1>3 DEF Current
    <3>. QED  BY <1>3, <2>1, <3>1 DEF SentOK
  <2>. QED  BY <2>1, <2>2 DEF SentOK
<1>10. ASSUME NEW d \in UnderWay', NEW e \in UnderWay', d # e
       PROVE  Beside(pending[d], pending[e])'
  <2>1. Beside(pending'[d], pending'[e])
    BY <1>4, <1>5, <1>8, <1>10
  <2>. QED  BY <2>1 DEF Beside
<1>11. IsFiniteSet(made') /\ UnderWay' \subseteq made' /\ DOMAIN pending' = Calls
  BY <1>1, <1>3, <1>4, <1>5, FS_AddElement
<1>12. BoardOK(board, born)' /\ remote' /\ doing' = None /\ DoingOK'
  BY <1>3, <1>4 DEF DoingOK, BoardOK
<1>. QED  BY <1>3, <1>9, <1>10, <1>11, <1>12 DEF StoreInv

\* Beside the server no fragment is under way.
LEMMA LocalKept ==
  ASSUME StoreInv, ~remote, UNCHANGED <<remote, pending>>, IsFiniteSet(made'),
         BoardOK(board, born)', DoingOK'
  PROVE  StoreInv'
<1>1. UnderWay' = {} /\ DOMAIN pending' = Calls /\ ~remote'
  BY DEF StoreInv, UnderWay
<1>. QED  BY <1>1 DEF StoreInv

LEMMA BeginOnce ==
  ASSUME StoreInv, NEW c \in Calls, Begin(c)
  PROVE  IsFiniteSet(made') /\ ~remote /\ doing = None
BY FS_AddElement DEF StoreInv, Begin, Usable

\* The number of a new use case, worked out on the list itself.
LEMMA TopIsNew ==
  ASSUME BoardOK(board, born)
  PROVE  /\ Top(board, 0) + 1 \in Nat /\ Top(board, 0) + 1 # 0
         /\ Top(board, 0) + 1 \notin NumbersOf(board)
<1>1. PICK n : n = Top(board, 0)
  OBVIOUS
<1>2. {} \in SUBSET Nat /\ IsFiniteSet({})
  BY FS_EmptySet
<1>3. n = Max({0} \cup NumbersOf(board) \cup {})
  <2>1. {0} \cup NumbersOf(board) \cup {} = {0} \cup NumbersOf(board)
    OBVIOUS
  <2>. QED  BY <1>1, <2>1 DEF Top
<1>4. n \in Nat /\ n + 1 # 0 /\ \A k \in NumbersOf(board) \cup {} : k \in Nat /\ n + 1 > k
  BY <1>2, <1>3, TopIsHighest
<1>5. ASSUME NEW k \in NumbersOf(board) PROVE k # n + 1
  BY <1>4
<1>. QED  BY <1>1, <1>4, <1>5

LEMMA WriteKeeps ==
  ASSUME StoreInv, NEW c \in Calls, NEW ask \in Asked, Write(c, ask)
  PROVE  StoreInv' /\ (BoardNext \/ board' = board)
<1>1. BoardOK(board, born) /\ IsFiniteSet(made') /\ ~remote /\ doing = None
  BY BeginOnce DEF Write, StoreInv
<1>2. PICK new \in Drawn(ask) : board' = Answer(board, 0, ask, new) /\ born' = born \cup Range(new)
  BY DEF Write
<1>3. /\ ask.tool \in {"add_uc", "add_ac", "state", "text"}
      /\ ask.tool = "add_uc" => ~ask.listed
      /\ Possible(board, ask) /\ UNCHANGED <<remote, pending, doing>>
  BY DEF Write, Asked, WithCriteria
<1>4. PICK n : n = Top(board, 0) + 1
  OBVIOUS
<1>5. n \in Nat /\ n # 0 /\ n \notin NumbersOf(board)
  BY <1>1, <1>4, TopIsNew
<1>6. Done(ask, n, new)
  <2>1. CASE ask.tool = "add_uc"
    BY <1>2, <1>3, <1>4, <2>1 DEF Answer, Done, WithCriteria
  <2>2. CASE ask.tool = "add_ac"
    BY <1>2, <1>3, <2>2 DEF Answer, Done, Possible
  <2>3. CASE ask.tool = "state"
    BY <1>2, <1>3, <2>3 DEF Answer, Done, Possible
  <2>4. CASE ask.tool = "text"
    BY <1>2, <1>3, <2>4 DEF Answer, Done, Possible
  <2>. QED  BY <1>3, <2>1, <2>2, <2>3, <2>4
<1>7. Effect(About(ask), {n})
  BY <1>1, <1>2, <1>5, <1>6, DoneEffect
<1>8. DoingOK'
  BY <1>1, <1>3 DEF DoingOK
<1>. QED  BY <1>1, <1>3, <1>7, <1>8, LocalKept DEF Effect

\* The first of the two writes of add_uc with criteria.
LEMMA AddedOnce ==
  ASSUME NEW ask \in Asked, ask.tool = "add_uc", NEW new,
         board' = Answer(board, 0, [ask EXCEPT !.listed = FALSE], new)
  PROVE  board' = WithCase(board, new[1], Top(board, 0) + 1, ask.text)
<1>1. ask \in [tool : {"add_uc"}, text : Texts, listed : BOOLEAN]
  BY DEF Asked
<1>2. PICK once : once = [ask EXCEPT !.listed = FALSE]
  OBVIOUS
<1>3. once.tool = "add_uc" /\ once.text = ask.text
  BY <1>1, <1>2
<1>4. once.listed = FALSE
  BY <1>1, <1>2
<1>. QED  BY <1>2, <1>3, <1>4 DEF Answer, WithCriteria

LEMMA WriteCaseKeeps ==
  ASSUME StoreInv, NEW c \in Calls, NEW ask \in Asked, WriteCase(c, ask)
  PROVE  StoreInv' /\ BoardNext
<1>1. BoardOK(board, born) /\ IsFiniteSet(made') /\ ~remote
  BY BeginOnce DEF WriteCase, StoreInv
<1>2. PICK new \in Drawn(ask) :
        /\ board' = Answer(board, 0, [ask EXCEPT !.listed = FALSE], new)
        /\ born' = born \cup {new[1]}
        /\ doing' = [step |-> "listing", item |-> new[1], next |-> new[2], text |-> ask.text]
  BY DEF WriteCase
<1>3. /\ ask.tool = "add_uc" /\ ask.listed /\ ask.text \in Texts
      /\ UNCHANGED <<remote, pending>>
  BY DEF WriteCase, WithCriteria, Asked
<1>4. new[1] \in Ids \ born /\ new[2] \in Ids \ born /\ new[2] # new[1]
  BY <1>3, DrawnIds
<1>5. PICK n : n = Top(board, 0) + 1
  OBVIOUS
<1>6. n \in Nat /\ n # 0 /\ n \notin NumbersOf(board)
  BY <1>1, <1>5, TopIsNew
<1>7. board' = WithCase(board, new[1], n, ask.text)
  BY <1>2, <1>3, <1>5, AddedOnce
<1>8. Effect({}, {n}) /\ new[1] \in CasesOf(board')
  BY <1>1, <1>2, <1>3, <1>4, <1>6, <1>7, CaseEffect
<1>9. BoardNext
  <2>1. new[1] \in DOMAIN board' \ DOMAIN board
    BY <1>1, <1>4, <1>8 DEF BoardOK, CasesOf
  <2>2. board'[new[1]].number = n
    BY <1>7 DEF WithCase, With
  <2>3. AddCase(new[1], ask.text)
    BY <1>6, <1>7, <2>1, <2>2 DEF AddCase
  <2>. QED  BY <1>3, <1>4, <2>3 DEF BoardNext
<1>10. DoingOK'
  <2>1. doing' \in Unfinished
    BY <1>2, <1>3, <1>4 DEF Unfinished
  <2>2. /\ doing'.step = "listing" /\ doing'.item = new[1] /\ doing'.next = new[2]
        /\ new[2] \in Ids \ born'
    BY <1>2, <1>4
  <2>. QED  BY <1>8, <2>1, <2>2 DEF DoingOK
<1>. QED  BY <1>1, <1>3, <1>8, <1>9, <1>10, LocalKept DEF Effect

LEMMA ListKeeps ==
  ASSUME StoreInv, List
  PROVE  StoreInv' /\ (BoardNext \/ board' = board)
<1>1. /\ doing # None /\ doing.step = "listing"
      /\ board' = WithCriterion(board, doing.next, doing.item, doing.text)
      /\ born' = born \cup {doing.next} /\ doing' = None
      /\ UNCHANGED <<remote, pending, made>>
  BY DEF List
<1>2. /\ BoardOK(board, born) /\ IsFiniteSet(made) /\ ~remote
      /\ doing.item \in CasesOf(board) /\ doing.next \in Ids \ born
  BY <1>1 DEF StoreInv, DoingOK
<1>3. doing.text \in Texts
  BY <1>1 DEF StoreInv, DoingOK, Unfinished
<1>4. PICK u, a, t : u = doing.item /\ a = doing.next /\ t = doing.text
  OBVIOUS
<1>5. Effect({u}, {})
  BY <1>1, <1>2, <1>3, <1>4, CriterionEffect
<1>6. DoingOK'
  BY <1>1 DEF DoingOK
<1>. QED  BY <1>1, <1>2, <1>5, <1>6, LocalKept DEF Effect

LEMMA ShelveKeeps ==
  ASSUME StoreInv, NEW c \in Calls, NEW u \in Ids, NEW purge, Shelve(c, u, purge)
  PROVE  StoreInv' /\ board' = board
<1>1. BoardOK(board, born) /\ IsFiniteSet(made') /\ ~remote
  BY BeginOnce DEF Shelve, StoreInv
<1>2. /\ u \in CasesOf(board) /\ doing' = [step |-> "shelved", item |-> u]
      /\ UNCHANGED <<board, born, remote, pending>>
  BY DEF Shelve
<1>3. DoingOK'
  <2>1. doing' \in Unfinished /\ doing'.step = "shelved" /\ doing'.item = u
    BY <1>2 DEF Unfinished
  <2>2. CasesOf(board') = CasesOf(board)
    BY <1>2
  <2>. QED  BY <1>2, <2>1, <2>2 DEF DoingOK
<1>4. BoardOK(board, born)'
  BY <1>1, <1>2 DEF BoardOK
<1>. QED  BY <1>1, <1>2, <1>3, <1>4, LocalKept

LEMMA UnlistKeeps ==
  ASSUME StoreInv, Unlist
  PROVE  StoreInv' /\ (BoardNext \/ board' = board)
<1>1. /\ doing # None /\ doing.step = "shelved"
      /\ board' = Without(board, {doing.item}) /\ doing' = None
      /\ UNCHANGED <<remote, pending, made, born>>
  BY DEF Unlist
<1>2. /\ BoardOK(board, born) /\ IsFiniteSet(made) /\ ~remote
      /\ doing.item \in CasesOf(board)
  BY <1>1 DEF StoreInv, DoingOK
<1>3. PICK u : u = doing.item /\ u \in Ids
  BY <1>2 DEF CasesOf, BoardOK
<1>4. Effect({u}, {})
  BY <1>1, <1>2, <1>3, RemovalEffect
<1>5. DoingOK'
  BY <1>1 DEF DoingOK
<1>. QED  BY <1>1, <1>2, <1>4, <1>5, LocalKept DEF Effect

LEMMA EraseKeeps ==
  ASSUME StoreInv, NEW c \in Calls, NEW u \in Ids, Erase(c, u)
  PROVE  StoreInv' /\ (BoardNext \/ board' = board)
<1>1. BoardOK(board, born) /\ IsFiniteSet(made') /\ ~remote
  BY BeginOnce DEF Erase, StoreInv
<1>2. /\ (u \in CasesOf(board) /\ Purgeable(board, u)) \/ u \notin DOMAIN board
      /\ board' = Without(board, Gone(board, u))
      /\ doing' = [step |-> IF u \in DOMAIN board THEN "unshelved" ELSE "erased", item |-> u,
                   gone |-> Gone(board, u)]
      /\ UNCHANGED <<remote, pending, born>>
  BY DEF Erase
<1>3. Effect({u}, {})
  BY <1>1, <1>2, RemovalEffect
<1>4. DoingOK'
  <2>1. Gone(board, u) \in SUBSET Ids
    BY <1>1 DEF Gone, CriteriaOf, BoardOK
  <2>2. doing' \in Unfinished /\ doing'.step \in {"erased", "unshelved"}
    BY <1>2, <2>1 DEF Unfinished
  <2>. QED  BY <2>2 DEF DoingOK
<1>. QED  BY <1>1, <1>2, <1>3, <1>4, LocalKept DEF Effect

\* The other files.
LEMMA RestKeeps ==
  ASSUME StoreInv, Unshelve \/ Log \/ Die \/ TearItems \/ TearArchive
  PROVE  StoreInv' /\ board' = board
<1>1. /\ doing # None \/ ~remote
      /\ UNCHANGED <<board, born, remote, pending, made>>
      /\ \/ doing' = None
         \/ /\ doing # None /\ doing.step = "erased"
            /\ doing' = [doing EXCEPT !.step = "unshelved"]
  BY DEF Unshelve, Log, Die, TearItems, TearArchive, Usable
<1>2. BoardOK(board, born) /\ IsFiniteSet(made) /\ ~remote /\ DoingOK
  BY <1>1 DEF StoreInv
<1>3. DoingOK'
  <2>1. CASE doing' = None
    BY <2>1 DEF DoingOK
  <2>2. CASE /\ doing # None /\ doing.step = "erased"
             /\ doing' = [doing EXCEPT !.step = "unshelved"]
    <3>1. doing \in [step : {"erased", "unshelved"}, item : Ids, gone : SUBSET Ids]
      BY <1>1, <1>2, <2>2 DEF DoingOK, Unfinished
    <3>2. doing' \in Unfinished /\ doing'.step = "unshelved"
      BY <2>2, <3>1 DEF Unfinished
    <3>. QED  BY <3>2 DEF DoingOK
  <2>. QED  BY <1>1, <2>1, <2>2
<1>4. BoardOK(board, born)'
  BY <1>1, <1>2 DEF BoardOK
<1>. QED  BY <1>1, <1>2, <1>3, <1>4, LocalKept

LEMMA StoreInvStarts == StoreInit => StoreInv
<1>. SUFFICES ASSUME StoreInit PROVE StoreInv
  OBVIOUS
<1>1. board = <<>> /\ DOMAIN board = {} /\ born = {} /\ made = {} /\ doing = None
      /\ pending = [c \in Calls |-> None]
  BY DEF StoreInit, BoardInit
<1>2. BoardOK(board, born) /\ IsFiniteSet(made)
  BY <1>1, FS_EmptySet DEF BoardOK
<1>3. UnderWay = {}
  BY <1>1 DEF UnderWay
<1>4. DoingOK
  BY <1>1 DEF DoingOK
<1>. QED  BY <1>1, <1>2, <1>3, <1>4 DEF StoreInv

LEMMA StoreInvKept ==
  ASSUME StoreInv, ~Overlap, [StoreNext]_storeVars
  PROVE  StoreInv' /\ [BoardNext]_board
<1>1. ASSUME NEW c \in Calls, NEW ask \in Asked, Send(c, ask) \/ Write(c, ask) \/ WriteCase(c, ask)
      PROVE  StoreInv' /\ [BoardNext]_board
  BY <1>1, SendKeeps, WriteKeeps, WriteCaseKeeps
<1>2. ASSUME NEW c \in Calls, Receive(c) \/ Forget(c)
      PROVE  StoreInv' /\ [BoardNext]_board
  BY <1>2, ReceiveKeeps, ForgetKeeps
<1>3. ASSUME NEW c \in Calls, NEW u \in Ids,
             Erase(c, u) \/ \E purge \in BOOLEAN : Shelve(c, u, purge)
      PROVE  StoreInv' /\ [BoardNext]_board
  BY <1>3, EraseKeeps, ShelveKeeps
<1>4. CASE List \/ Unlist \/ Unshelve \/ Log \/ Die \/ TearItems \/ TearArchive
  BY <1>4, ListKeeps, UnlistKeeps, RestKeeps
<1>5. CASE UNCHANGED storeVars
  <2>1. UNCHANGED <<board, remote, pending, made, born, doing>>
    BY <1>5 DEF storeVars, store
  <2>2. UnderWay' = UnderWay
    BY <2>1 DEF UnderWay
  <2>3. BoardOK(board, born)' /\ DoingOK'
    BY <2>1 DEF StoreInv, BoardOK, DoingOK
  <2>4. ASSUME NEW c \in UnderWay' PROVE SentOK(pending[c])'
    <3>1. SentOK(pending[c])
      BY <2>2, <2>4 DEF StoreInv
    <3>2. \A sent, a, u : Current(sent, a, u)' <=> Current(sent, a, u)
      BY <2>1 DEF Current
    <3>. QED  BY <2>1, <3>1, <3>2 DEF SentOK
  <2>5. ASSUME NEW c \in UnderWay', NEW d \in UnderWay', c # d
        PROVE  Beside(pending[c], pending[d])'
    <3>1. Beside(pending[c], pending[d])
      BY <2>2, <2>5 DEF StoreInv
    <3>. QED  BY <2>1, <3>1 DEF Beside
  <2>. QED  BY <2>1, <2>2, <2>3, <2>4, <2>5 DEF StoreInv
<1>6. CASE StoreNext
  BY <1>1, <1>2, <1>3, <1>4, <1>6 DEF StoreNext
<1>. QED  BY <1>5, <1>6

\* FreeformStore: when no two calls about one use case are under way together, what
\* the hook and a remote server do together, with late and lost answers, and what
\* a local server does file by file, changes items.json as FreeformBoard has it:
\* each call at one moment, on all of the board as it is then.
THEOREM EachCallIsOneStep ==
  ASSUME ~Overlap
  PROVE  StoreSpec => OneBoard
<1>1. StoreInit => BoardInit
  BY DEF StoreInit
<1>2. StoreInv /\ [StoreNext]_storeVars => StoreInv' /\ [BoardNext]_board
  BY StoreInvKept
<1>. QED  BY <1>1, <1>2, StoreInvStarts, PTL DEF StoreSpec, OneBoard

-----------------------------------------------------------------------------
(***************************************************************************)
(* FreeformStore: what a local server removes.                             *)
(***************************************************************************)

\* Where an item is, for all that was last written: in a file that can be read or
\* not.
Whereabouts ==
    ~remote =>
        \A i \in born :
            \/ i \in DOMAIN board \cup purged \cup cut
            \/ archive[i] > 0
            \/ doing # None /\ doing.step \in {"erased", "unshelved"} /\ i \in doing.gone

\* What stood in a file that cannot be read is known.
TornOK ==
    ~remote =>
        /\ "items" \in torn => DOMAIN board \subseteq cut /\ doing = None
        /\ "archive" \in torn => \A i \in Ids : archive[i] > 0 => i \in cut

\* Whatever overlaps.
LocalInv ==
    /\ Whereabouts
    /\ TornOK
    /\ ~remote =>
         /\ UnderWay = {}
         /\ DOMAIN board \subseteq Ids /\ born \subseteq Ids
         /\ archive \in [Ids -> Nat]
         /\ doing # None =>
              /\ doing \in Unfinished
              /\ doing.step = "shelved" => archive[doing.item] > 0
              /\ doing.step = "erased" => doing.item \in doing.gone

\* A call that only adds and changes items.
LEMMA NothingRemoved ==
  ASSUME LocalInv, ~remote, UNCHANGED <<remote, pending, archive, purged, torn, cut>>,
         doing = None => "items" \notin torn,
         DOMAIN board \subseteq DOMAIN board', DOMAIN board' \subseteq Ids,
         born' \subseteq Ids, born' \subseteq born \cup DOMAIN board',
         doing = None \/ doing.step = "listing",
         doing' # None => doing' \in Unfinished /\ doing'.step = "listing"
  PROVE  LocalInv'
<1>1. UnderWay' = {}
  BY DEF LocalInv, UnderWay
<1>2. ASSUME NEW i \in born' PROVE i \in DOMAIN board' \cup purged' \cup cut' \/ archive'[i] > 0
  <2>1. i \in born => i \in DOMAIN board \cup purged \cup cut \/ archive[i] > 0
    BY DEF LocalInv, Whereabouts
  <2>. QED  BY <2>1
<1>3. TornOK'
  BY DEF LocalInv, TornOK
<1>. QED  BY <1>1, <1>2, <1>3 DEF LocalInv, Whereabouts

LEMMA WriteLocal ==
  ASSUME LocalInv, NEW c \in Calls, NEW ask \in Asked, Write(c, ask)
  PROVE  LocalInv'
<1>1. /\ ~remote /\ doing = None /\ "items" \notin torn
      /\ UNCHANGED <<remote, pending, archive, purged, torn, cut, doing>>
      /\ ask.tool \in {"add_uc", "add_ac", "state", "text"}
      /\ ask.tool = "add_uc" => ~ask.listed
      /\ Possible(board, ask)
  BY DEF Write, Begin, Usable, Asked, WithCriteria
<1>2. PICK new \in Drawn(ask) : board' = Answer(board, 0, ask, new) /\ born' = born \cup Range(new)
  BY DEF Write
<1>3. DOMAIN board \subseteq Ids /\ born \subseteq Ids
  BY <1>1 DEF LocalInv
<1>4. CASE ask.tool = "add_uc"
  <2>1. board' = WithCase(board, new[1], Top(board, 0) + 1, ask.text)
    BY <1>1, <1>2, <1>4 DEF Answer, WithCriteria
  <2>2. DOMAIN board' = DOMAIN board \cup {new[1]}
    BY <2>1 DEF WithCase, With
  <2>3. new[1] \in Ids /\ Range(new) = {new[1]}
    BY <1>1, <1>4, DrawnIds
  <2>. QED  BY <1>1, <1>2, <1>3, <2>2, <2>3, NothingRemoved
<1>5. CASE ask.tool = "add_ac"
  <2>1. board' = WithCriterion(board, new[1], ask.item, ask.text)
    BY <1>2, <1>5 DEF Answer
  <2>2. DOMAIN board' = DOMAIN board \cup {new[1]}
    BY <2>1 DEF WithCriterion, With
  <2>3. new[1] \in Ids /\ Range(new) = {new[1]}
    BY <1>5, DrawnIds
  <2>. QED  BY <1>1, <1>2, <1>3, <2>2, <2>3, NothingRemoved
<1>6. CASE ask.tool \in {"state", "text"}
  <2>2. ask.tool = "state" => DOMAIN board' = DOMAIN board
    BY <1>2 DEF Answer, WithState
  <2>3. ask.tool = "text" => DOMAIN board' = DOMAIN board
    BY <1>2 DEF Answer, WithText
  <2>4. Range(new) = {}
    BY <1>6, DrawnIds
  <2>. QED  BY <1>1, <1>2, <1>3, <1>6, <2>2, <2>3, <2>4, NothingRemoved
<1>. QED  BY <1>1, <1>4, <1>5, <1>6

LEMMA WriteCaseLocal ==
  ASSUME LocalInv, NEW c \in Calls, NEW ask \in Asked, WriteCase(c, ask)
  PROVE  LocalInv'
<1>1. /\ ~remote /\ doing = None /\ "items" \notin torn
      /\ UNCHANGED <<remote, pending, archive, purged, torn, cut>>
      /\ ask.tool = "add_uc" /\ ask.listed /\ ask.text \in Texts
  BY DEF WriteCase, Begin, Usable, WithCriteria, Asked
<1>2. PICK new \in Drawn(ask) :
        /\ board' = Answer(board, 0, [ask EXCEPT !.listed = FALSE], new)
        /\ born' = born \cup {new[1]}
        /\ doing' = [step |-> "listing", item |-> new[1], next |-> new[2], text |-> ask.text]
  BY DEF WriteCase
<1>3. DOMAIN board \subseteq Ids /\ born \subseteq Ids
  BY <1>1 DEF LocalInv
<1>4. new[1] \in Ids /\ new[2] \in Ids
  BY <1>1, DrawnIds
<1>5. DOMAIN board' = DOMAIN board \cup {new[1]}
  <2>1. board' = WithCase(board, new[1], Top(board, 0) + 1, ask.text)
    BY <1>1, <1>2, AddedOnce
  <2>. QED  BY <2>1 DEF WithCase, With
<1>6. doing' \in Unfinished /\ doing'.step = "listing"
  BY <1>1, <1>2, <1>4 DEF Unfinished
<1>. QED  BY <1>1, <1>2, <1>3, <1>4, <1>5, <1>6, NothingRemoved

LEMMA ListLocal ==
  ASSUME LocalInv, ~remote, List
  PROVE  LocalInv'
<1>1. /\ doing # None /\ doing.step = "listing"
      /\ board' = WithCriterion(board, doing.next, doing.item, doing.text)
      /\ born' = born \cup {doing.next} /\ doing' = None
      /\ UNCHANGED <<remote, pending, archive, purged, torn, cut>>
  BY DEF List
<1>2. doing.next \in Ids /\ DOMAIN board \subseteq Ids /\ born \subseteq Ids
  BY <1>1 DEF LocalInv, Unfinished
<1>3. DOMAIN board' = DOMAIN board \cup {doing.next}
  BY <1>1 DEF WithCriterion, With
<1>. QED  BY <1>1, <1>2, <1>3, NothingRemoved

LEMMA ShelveLocal ==
  ASSUME LocalInv, NEW c \in Calls, NEW u \in Ids, NEW purge, Shelve(c, u, purge)
  PROVE  LocalInv'
<1>1. /\ ~remote /\ doing = None /\ "items" \notin torn
      /\ doing' = [step |-> "shelved", item |-> u]
      /\ archive' = [Archived EXCEPT ![u] = @ + 1]
      /\ torn' = torn \ {"archive"}
      /\ UNCHANGED <<board, remote, pending, born, purged, cut>>
  BY DEF Shelve, Begin, Usable
<1>2. /\ archive \in [Ids -> Nat] /\ born \subseteq Ids
      /\ UnderWay' = {}
  BY <1>1 DEF LocalInv, UnderWay
<1>3. PICK a \in [Ids -> Nat] : a = Archived
  BY <1>2 DEF Archived
<1>4. /\ archive' \in [Ids -> Nat] /\ archive'[u] > 0
      /\ \A i \in Ids : archive'[i] >= a[i]
  BY <1>1, <1>3
<1>5. \A i \in Ids : archive[i] > 0 => a[i] > 0 \/ i \in cut
  BY <1>1, <1>3 DEF LocalInv, TornOK, Archived
<1>6. doing' \in Unfinished /\ doing'.step = "shelved" /\ doing'.item = u
  BY <1>1 DEF Unfinished
<1>7. ASSUME NEW i \in born' PROVE i \in DOMAIN board' \cup purged' \cup cut' \/ archive'[i] > 0
  <2>1. i \in born /\ i \in Ids /\ a[i] \in Nat /\ archive'[i] \in Nat
    BY <1>1, <1>2, <1>3, <1>4, <1>7
  <2>2. i \in DOMAIN board \cup purged \cup cut \/ archive[i] > 0
    BY <1>1, <2>1 DEF LocalInv, Whereabouts
  <2>3. a[i] > 0 => archive'[i] > 0
    BY <1>4, <2>1
  <2>. QED  BY <1>1, <1>5, <2>1, <2>2, <2>3
<1>8. TornOK'
  BY <1>1 DEF TornOK
<1>. QED  BY <1>1, <1>2, <1>4, <1>6, <1>7, <1>8 DEF LocalInv, Whereabouts

LEMMA UnlistLocal ==
  ASSUME LocalInv, ~remote, Unlist
  PROVE  LocalInv'
<1>1. /\ doing # None /\ doing.step = "shelved" /\ doing' = None
      /\ board' = Without(board, {doing.item})
      /\ UNCHANGED <<remote, pending, born, archive, purged, torn, cut>>
  BY DEF Unlist
<1>2. DOMAIN board' = DOMAIN board \ {doing.item} /\ archive[doing.item] > 0 /\ UnderWay' = {}
  BY <1>1 DEF LocalInv, Without, Restrict, UnderWay
<1>3. ASSUME NEW i \in born' PROVE i \in DOMAIN board' \cup purged' \cup cut' \/ archive'[i] > 0
  <2>1. i \in DOMAIN board \cup purged \cup cut \/ archive[i] > 0
    BY <1>1, <1>3 DEF LocalInv, Whereabouts
  <2>. QED  BY <1>1, <1>2, <2>1
<1>4. TornOK'
  BY <1>1 DEF LocalInv, TornOK
<1>. QED  BY <1>1, <1>2, <1>3, <1>4 DEF LocalInv, Whereabouts

LEMMA EraseLocal ==
  ASSUME LocalInv, NEW c \in Calls, NEW u \in Ids, Erase(c, u)
  PROVE  LocalInv'
<1>1. /\ ~remote /\ doing = None /\ "items" \notin torn
      /\ board' = Without(board, Gone(board, u))
      /\ doing' = [step |-> IF u \in DOMAIN board THEN "unshelved" ELSE "erased", item |-> u,
                   gone |-> Gone(board, u)]
      /\ UNCHANGED <<remote, pending, born, archive, purged, torn, cut>>
  BY DEF Erase, Begin, Usable
<1>2. /\ DOMAIN board' = DOMAIN board \ Gone(board, u) /\ UnderWay' = {}
      /\ u \in Gone(board, u) /\ Gone(board, u) \in SUBSET Ids
  BY <1>1 DEF LocalInv, Without, Restrict, UnderWay, Gone, CriteriaOf
<1>3. /\ doing' \in Unfinished /\ doing'.step \in {"erased", "unshelved"}
      /\ doing'.item = u /\ doing'.gone = Gone(board, u)
  BY <1>1, <1>2 DEF Unfinished
<1>4. doing' # None
  BY <1>3, NoneIsFinished
<1>5. ASSUME NEW i \in born'
      PROVE  i \in DOMAIN board' \cup purged' \cup cut' \/ archive'[i] > 0 \/ i \in doing'.gone
  <2>1. i \in DOMAIN board \cup purged \cup cut \/ archive[i] > 0
    BY <1>1, <1>5 DEF LocalInv, Whereabouts
  <2>. QED  BY <1>1, <1>2, <1>3, <2>1
<1>6. TornOK'
  BY <1>1 DEF LocalInv, TornOK
<1>. QED  BY <1>1, <1>2, <1>3, <1>4, <1>5, <1>6 DEF LocalInv, Whereabouts

LEMMA UnshelveLocal ==
  ASSUME LocalInv, ~remote, Unshelve
  PROVE  LocalInv'
<1>1. /\ doing # None /\ doing.step = "erased"
      /\ archive' = [archive EXCEPT ![doing.item] = 0]
      /\ doing' = [doing EXCEPT !.step = "unshelved"]
      /\ UNCHANGED <<board, remote, pending, born, purged, torn, cut>>
  BY DEF Unshelve
<1>2. /\ doing \in [step : {"erased", "unshelved"}, item : Ids, gone : SUBSET Ids]
      /\ doing.item \in doing.gone /\ archive \in [Ids -> Nat] /\ UnderWay' = {}
      /\ born \subseteq Ids
  BY <1>1 DEF LocalInv, Unfinished, UnderWay
<1>3. /\ doing' \in Unfinished /\ doing'.step = "unshelved" /\ doing'.gone = doing.gone
  BY <1>1, <1>2 DEF Unfinished
<1>4. doing' # None
  BY <1>3, NoneIsFinished
<1>5. archive' \in [Ids -> Nat] /\ \A i \in Ids : i # doing.item => archive'[i] = archive[i]
  BY <1>1, <1>2
<1>6. ASSUME NEW i \in born'
      PROVE  i \in DOMAIN board' \cup purged' \cup cut' \/ archive'[i] > 0 \/ i \in doing'.gone
  <2>1. i \in DOMAIN board \cup purged \cup cut \/ archive[i] > 0 \/ i \in doing.gone
    BY <1>1, <1>6 DEF LocalInv, Whereabouts
  <2>2. i \in Ids
    BY <1>1, <1>2, <1>6
  <2>. QED  BY <1>1, <1>2, <1>3, <1>5, <2>1, <2>2
<1>7. TornOK'
  <2>1. ASSUME NEW i \in Ids, archive'[i] > 0 PROVE archive[i] > 0
    <3>1. CASE i = doing.item
      BY <1>1, <1>2, <2>1, <3>1
    <3>2. CASE i # doing.item
      BY <1>5, <2>1, <3>2
    <3>. QED  BY <3>1, <3>2
  <2>. QED  BY <1>1, <2>1 DEF LocalInv, TornOK
<1>. QED  BY <1>1, <1>2, <1>3, <1>4, <1>5, <1>6, <1>7 DEF LocalInv, Whereabouts

\* The copy is written, or the server dies between two files.
LEMMA EndLocal ==
  ASSUME LocalInv, ~remote, Log \/ Die
  PROVE  LocalInv'
<1>1. /\ doing # None /\ doing' = None
      /\ \/ doing.step = "unshelved" /\ purged' = purged \cup doing.gone /\ cut' = cut
         \/ /\ purged' = purged
            /\ cut' = IF doing.step \in {"shelved", "listing"} THEN cut ELSE cut \cup doing.gone
      /\ UNCHANGED <<board, remote, pending, born, archive, torn>>
  BY DEF Log, Die
<1>2. UnderWay' = {}
  BY <1>1 DEF LocalInv, UnderWay
<1>3. ASSUME NEW i \in born' PROVE i \in DOMAIN board' \cup purged' \cup cut' \/ archive'[i] > 0
  <2>1. \/ i \in DOMAIN board \cup purged \cup cut \/ archive[i] > 0
        \/ doing.step \in {"erased", "unshelved"} /\ i \in doing.gone
    BY <1>1, <1>3 DEF LocalInv, Whereabouts
  <2>. QED  BY <1>1, <2>1
<1>4. TornOK'
  BY <1>1 DEF LocalInv, TornOK
<1>. QED  BY <1>1, <1>2, <1>3, <1>4 DEF LocalInv, Whereabouts

\* The server dies inside a file: all that stood in it is taken as lost.
LEMMA TearLocal ==
  ASSUME LocalInv, ~remote, TearItems \/ TearArchive
  PROVE  LocalInv'
<1>1. /\ doing' = None /\ cut \subseteq cut'
      /\ UNCHANGED <<board, remote, pending, born, archive, purged>>
      /\ doing # None /\ doing.step \in {"erased", "unshelved"} => doing.gone \subseteq cut'
  BY DEF TearItems, TearArchive, Usable
<1>2. UnderWay' = {}
  BY <1>1 DEF LocalInv, UnderWay
<1>3. ASSUME NEW i \in born' PROVE i \in DOMAIN board' \cup purged' \cup cut' \/ archive'[i] > 0
  <2>1. \/ i \in DOMAIN board \cup purged \cup cut \/ archive[i] > 0
        \/ doing # None /\ doing.step \in {"erased", "unshelved"} /\ i \in doing.gone
    BY <1>1, <1>3 DEF LocalInv, Whereabouts
  <2>. QED  BY <1>1, <2>1
<1>4. TornOK'
  <2>1. CASE TearItems
    <3>1. torn' = torn \cup {"items"} /\ DOMAIN board \subseteq cut'
      BY <2>1 DEF TearItems
    <3>. QED  BY <1>1, <3>1 DEF LocalInv, TornOK
  <2>2. CASE TearArchive
    <3>1. torn' = torn \cup {"archive"} /\ {i \in Ids : Archived[i] > 0} \subseteq cut'
      BY <2>2 DEF TearArchive
    <3>2. ASSUME NEW i \in Ids, archive[i] > 0 PROVE i \in cut'
      <4>1. CASE "archive" \in torn
        BY <1>1, <3>2, <4>1 DEF LocalInv, TornOK
      <4>2. CASE "archive" \notin torn
        BY <3>1, <3>2, <4>2 DEF Archived
      <4>. QED  BY <4>1, <4>2
    <3>3. "items" \in torn' => DOMAIN board' \subseteq cut'
      BY <1>1, <3>1 DEF LocalInv, TornOK
    <3>. QED  BY <1>1, <3>1, <3>2, <3>3 DEF TornOK
  <2>. QED  BY <2>1, <2>2
<1>. QED  BY <1>1, <1>2, <1>3, <1>4 DEF LocalInv, Whereabouts

\* RemovedIsKept: beside a local server, an id ever drawn can be read in items.json,
\* in archive.json or in purged.jsonl, but for what a purge is deleting or was when
\* the server died, and for what stood in a file when the server died in a write of
\* it.  It needs that archive_item writes archive.json first, that a call gives up
\* on an items.json it cannot read, and a purge on such an archive.json.
THEOREM NothingVanishes == StoreSpec => []RemovedIsKept
<1>1. StoreInit => LocalInv
  <2>. SUFFICES ASSUME StoreInit PROVE LocalInv
    OBVIOUS
  <2>1. /\ board = <<>> /\ DOMAIN board = {} /\ born = {} /\ doing = None /\ torn = {}
        /\ pending = [c \in Calls |-> None] /\ archive = [i \in Ids |-> 0]
    BY DEF StoreInit, BoardInit
  <2>2. UnderWay = {}
    BY <2>1 DEF UnderWay
  <2>. QED  BY <2>1, <2>2 DEF LocalInv, Whereabouts, TornOK
<1>2. LocalInv /\ [StoreNext]_storeVars => LocalInv'
  <2>. SUFFICES ASSUME LocalInv, [StoreNext]_storeVars PROVE LocalInv'
    OBVIOUS
  <2>1. CASE UNCHANGED storeVars
    <3>1. UnderWay' = UnderWay
      BY <2>1 DEF storeVars, store, UnderWay
    <3>. QED  BY <2>1, <3>1 DEF storeVars, store, LocalInv, Whereabouts, TornOK
  <2>2. CASE remote /\ StoreNext
    <3>1. remote'
      BY <2>2 DEF StoreNext, Send, Write, WriteCase, Receive, Forget, Erase, Shelve, List, Unlist,
                  Unshelve, Log, Die, TearItems, TearArchive
    <3>. QED  BY <3>1 DEF LocalInv, Whereabouts, TornOK
  <2>3. CASE ~remote /\ StoreNext
    <3>1. ASSUME NEW c \in Calls, NEW ask \in Asked,
                 Send(c, ask) \/ Write(c, ask) \/ WriteCase(c, ask)
          PROVE  LocalInv'
      <4>1. ~Send(c, ask)
        BY <2>3 DEF Send
      <4>. QED  BY <3>1, <4>1, WriteLocal, WriteCaseLocal
    <3>2. ASSUME NEW c \in Calls PROVE ~Receive(c) /\ ~Forget(c)
      BY <2>3 DEF LocalInv, Receive, Forget
    <3>3. ASSUME NEW c \in Calls, NEW u \in Ids,
                 Erase(c, u) \/ \E purge \in BOOLEAN : Shelve(c, u, purge)
          PROVE  LocalInv'
      BY <3>3, EraseLocal, ShelveLocal
    <3>4. CASE List \/ Unlist \/ Unshelve \/ Log \/ Die \/ TearItems \/ TearArchive
      BY <2>3, <3>4, ListLocal, UnlistLocal, UnshelveLocal, EndLocal, TearLocal
    <3>. QED  BY <2>3, <3>1, <3>2, <3>3, <3>4 DEF StoreNext
  <2>. QED  BY <2>1, <2>2, <2>3
<1>3. LocalInv => RemovedIsKept
  BY DEF LocalInv, Whereabouts, TornOK, RemovedIsKept, Archived
<1>. QED  BY <1>1, <1>2, <1>3, PTL DEF StoreSpec

-----------------------------------------------------------------------------
(***************************************************************************)
(* FreeformStore: what the reservations are for.                           *)
(***************************************************************************)

DistinctNumbers(b) == \A u, v \in CasesOf(b) : b[u].number = b[v].number => u = v

LEMMA DistinctKept ==
  ASSUME BoardOK(board, born), DistinctNumbers(board), [BoardNext]_board
  PROVE  DistinctNumbers(board')
<1>1. ASSUME \A w \in CasesOf(board') : w \in CasesOf(board) /\ board'[w].number = board[w].number
      PROVE  DistinctNumbers(board')
  BY <1>1 DEF DistinctNumbers
<1>2. ASSUME NEW u \in Ids, NEW t \in Texts, AddCase(u, t)
      PROVE  DistinctNumbers(board')
  <2>1. PICK n : n = board'[u].number
    OBVIOUS
  <2>2. u \notin DOMAIN board /\ n \notin NumbersOf(board)
    BY <1>2, <2>1 DEF AddCase
  <2>3. ASSUME NEW w \in CasesOf(board'), w # u
        PROVE  w \in CasesOf(board) /\ board'[w].number = board[w].number
    <3>1. CASE board' = WithCase(board, u, n, t)
      BY <2>3, <3>1 DEF WithCase, With, CasesOf
    <3>2. CASE \E a \in Ids \ (DOMAIN board \cup {u}) :
                 board' = WithCriterion(WithCase(board, u, n, t), a, u, t)
      <4>1. PICK a, b : /\ a \notin DOMAIN board /\ b = WithCase(board, u, n, t)
                        /\ board' = WithCriterion(b, a, u, t)
        BY <3>2
      <4>2. /\ DOMAIN board' = DOMAIN b \cup {a} /\ board'[a].kind = "AC"
            /\ \A i \in DOMAIN b : i # a => board'[i] = b[i]
        BY <4>1 DEF WithCriterion, With
      <4>3. w # a /\ w \in DOMAIN b
        BY <2>3, <4>2 DEF CasesOf
      <4>4. w \in DOMAIN board /\ board'[w] = board[w]
        BY <2>3, <4>1, <4>2, <4>3 DEF WithCase, With
      <4>. QED  BY <4>4 DEF CasesOf
    <3>. QED  BY <1>2, <2>1, <3>1, <3>2 DEF AddCase
  <2>4. ASSUME NEW w \in CasesOf(board'), w # u PROVE board'[w].number # n
    <3>1. board'[w].number \in NumbersOf(board)
      BY <2>3, <2>4 DEF NumbersOf
    <3>. QED  BY <2>2, <3>1
  <2>5. ASSUME NEW v \in CasesOf(board'), NEW w \in CasesOf(board'),
               board'[v].number = board'[w].number
        PROVE  v = w
    <3>1. CASE v = u \/ w = u
      BY <2>1, <2>4, <2>5, <3>1
    <3>2. CASE v # u /\ w # u
      BY <2>3, <2>5, <3>2 DEF DistinctNumbers
    <3>. QED  BY <3>1, <3>2
  <2>. QED  BY <2>5 DEF DistinctNumbers
<1>3. ASSUME NEW u \in Ids, NEW t \in Texts, AddCriterion(u, t)
      PROVE  DistinctNumbers(board')
  <2>1. PICK a : a \notin DOMAIN board /\ board' = WithCriterion(board, a, u, t)
    BY <1>3 DEF AddCriterion
  <2>2. /\ DOMAIN board' = DOMAIN board \cup {a} /\ board'[a].kind = "AC"
        /\ \A i \in DOMAIN board : board'[i] = board[i]
    BY <2>1 DEF WithCriterion, With
  <2>. QED  BY <1>1, <2>2 DEF CasesOf
<1>4. ASSUME NEW i \in Ids, Change(i)
      PROVE  DistinctNumbers(board')
  <2>1. /\ i \in DOMAIN board /\ board[i] \in Items
        /\ \/ \E s \in States : board' = [board EXCEPT ![i].state = s]
           \/ \E t \in Texts : board' = [board EXCEPT ![i].text = t]
    BY <1>4 DEF Change, BoardOK, WithState, WithText
  <2>2. /\ DOMAIN board' = DOMAIN board
        /\ \A j \in DOMAIN board : /\ board'[j].kind = board[j].kind
                                   /\ board'[j].number = board[j].number
    BY <2>1 DEF Items
  <2>. QED  BY <1>1, <2>2 DEF CasesOf
<1>5. ASSUME NEW gone, board' = Without(board, gone)
      PROVE  DistinctNumbers(board')
  <2>1. DOMAIN board' \subseteq DOMAIN board /\ \A j \in DOMAIN board' : board'[j] = board[j]
    BY <1>5 DEF Without, Restrict
  <2>. QED  BY <1>1, <2>1 DEF CasesOf
<1>6. CASE UNCHANGED board
  BY <1>6 DEF DistinctNumbers, CasesOf
<1>7. CASE BoardNext
  BY <1>2, <1>3, <1>4, <1>5, <1>7 DEF BoardNext, ArchiveCase, PurgeCase
<1>. QED  BY <1>6, <1>7

\* What was in items.json before a step and is in it after, is the same item; what
\* is new in it has a new id.
Settles(c) ==
    \A i \in DOMAIN c \cap born :
        /\ i \in DOMAIN board
        /\ c[i].kind = board[i].kind /\ c[i].number = board[i].number
        /\ c[i].under = board[i].under

\* An item in two lists is of one kind.
Akin(b, c) == \A i \in DOMAIN b \cap DOMAIN c : b[i].kind = c[i].kind

\* A fragment may be out of date: what it has of the board is still of its kind.
SentSome(p) ==
    \/ p.ask.tool = "add_uc" /\ SentOK(p)
    \/ /\ p.ask.tool # "add_uc" /\ p.ask \in Asked /\ p.reserves = 0
       /\ BoardOK(p.sent, born) /\ Akin(p.sent, board)

Distinct(p, q) == p.ask.tool = "add_uc" /\ q.ask.tool = "add_uc" => p.reserves # q.reserves

\* Whatever overlaps.
NumberInv ==
    /\ BoardOK(board, born) /\ DistinctNumbers(board)
    /\ IsFiniteSet(made) /\ UnderWay \subseteq made
    /\ DOMAIN pending = Calls
    /\ remote => doing = None
    /\ ~remote => UnderWay = {}
    /\ DoingOK
    /\ \A c \in UnderWay : SentSome(pending[c])
    /\ \A c, d \in UnderWay : c # d => Distinct(pending[c], pending[d])

\* What an answer adds are criteria of the use cases that were sent.
Adds(sent, back) ==
    \A i \in DOMAIN back \ DOMAIN sent :
        i \notin born /\ back[i].kind = "AC" /\ back[i].under \in CasesOf(sent)

\* The answers but that of add_uc, worked out on any list.
LEMMA AnswerOK ==
  ASSUME NEW sent, BoardOK(sent, born), NEW ask \in Asked, ask.tool # "add_uc",
         Possible(sent, ask), NEW floor, NEW new \in Drawn(ask),
         NEW back, back = Answer(sent, floor, ask, new)
  PROVE  BoardOK(back, born \cup Range(new)) /\ Adds(sent, back)
<1>1. CASE ask.tool = "add_ac"
  <2>1. PICK a, u, t : a = new[1] /\ u = ask.item /\ t = ask.text
    OBVIOUS
  <2>2. a \in Ids \ born /\ Range(new) = {a} /\ t \in Texts
    BY <1>1, <2>1, DrawnIds DEF Asked
  <2>3. u \in CasesOf(sent) /\ back = WithCriterion(sent, a, u, t)
    BY <1>1, <2>1 DEF Possible, Answer
  <2>4. BoardOK(back, born \cup {a})
    BY ZenonT(60), <2>2, <2>3, CriterionAdded
  <2>5. DOMAIN back = DOMAIN sent \cup {a} /\ back[a].kind = "AC" /\ back[a].under = u
    BY <2>3 DEF WithCriterion, With
  <2>. QED  BY <2>2, <2>3, <2>4, <2>5 DEF Adds
<1>2. CASE ask.tool \in {"state", "text"}
  <2>1. PICK i : i = ask.item
    OBVIOUS
  <2>2. i \in DOMAIN sent
    BY <1>2, <2>1 DEF Possible
  <2>3. \/ \E s \in States : back = WithState(sent, i, s)
        \/ \E t \in Texts : back = WithText(sent, i, t)
    <3>1. ask.tool = "state" => ask.state \in States
      BY DEF Asked
    <3>2. ask.tool = "text" => ask.text \in Texts
      BY DEF Asked
    <3>. QED  BY <1>2, <2>1, <3>1, <3>2 DEF Answer
  <2>4. BoardOK(back, born)
    BY <2>2, <2>3, ItemChanged
  <2>5. DOMAIN back = DOMAIN sent
    BY <2>3 DEF WithState, WithText
  <2>6. born \cup Range(new) = born
    BY <1>2, DrawnIds
  <2>. QED  BY <2>4, <2>5, <2>6 DEF Adds
<1>3. CASE ask.tool \in {"archive", "purge"}
  <2>1. PICK u : u = ask.item
    OBVIOUS
  <2>2. u \in CasesOf(sent)
    BY <1>3, <2>1 DEF Possible
  <2>3. PICK gone \in SUBSET Gone(sent, u) : back = Without(sent, gone)
    BY <1>3, <2>1 DEF Answer, Gone
  <2>4. BoardOK(back, born)
    BY <2>2, <2>3, CaseRemoved
  <2>5. DOMAIN back \subseteq DOMAIN sent
    BY <2>3 DEF Without, Restrict
  <2>6. born \cup Range(new) = born
    BY <1>3, DrawnIds
  <2>. QED  BY <2>4, <2>5, <2>6 DEF Adds
<1>4. ask.tool \in {"add_uc", "add_ac", "state", "text", "archive", "purge"}
  BY DEF Asked
<1>. QED  BY <1>1, <1>2, <1>3, <1>4

\* mergeFragment with any answer: an item is that of the file, or a new one of the
\* answer, or has the state and text of the answer.
LEMMA MergedIsOfBoth ==
  ASSUME NEW local, ListOfItems(local), NEW sent, NEW back, ListOfItems(back),
         NEW m, m = Merged(local, sent, back), NEW i \in DOMAIN m
  PROVE  /\ m[i] \in Items
         /\ \/ i \in DOMAIN back \ DOMAIN sent /\ m[i] = back[i]
            \/ /\ i \in DOMAIN local /\ m[i].kind = local[i].kind
               /\ m[i].number = local[i].number /\ m[i].under = local[i].under
<1>1. MergedAs(local, sent, back, m)
  BY MergedItems
<1>2. CASE i \in DOMAIN back \ DOMAIN sent
  <2>1. m[i] = back[i]
    BY <1>1, <1>2 DEF MergedAs
  <2>. QED  BY <1>2, <2>1 DEF ListOfItems
<1>3. CASE i \notin DOMAIN back
  <2>1. i \in DOMAIN local /\ m[i] = local[i]
    BY <1>1, <1>3 DEF MergedAs
  <2>. QED  BY <2>1 DEF ListOfItems
<1>4. CASE i \in DOMAIN back /\ i \in DOMAIN sent
  <2>1. i \in DOMAIN local
    BY <1>1, <1>4 DEF MergedAs
  <2>2. PICK x, y, z : x = local[i] /\ y = sent[i] /\ z = back[i]
    OBVIOUS
  <2>3. x \in Items /\ z \in Items
    BY <1>4, <2>1, <2>2 DEF ListOfItems
  <2>4. m[i] = MergedItem(x, y, z)
    BY <1>4, <2>2 DEF Merged
  <2>5. PICK s, t : /\ s = IF z.state = y.state THEN x.state ELSE z.state
                    /\ t = IF z.text = y.text THEN x.text ELSE z.text
    OBVIOUS
  <2>6. s \in States /\ t \in Texts
    BY <2>3, <2>5 DEF Items
  <2>7. m[i] = [x EXCEPT !.state = s, !.text = t]
    BY <2>4, <2>5 DEF MergedItem
  <2>8. m[i] \in Items /\ m[i].kind = x.kind /\ m[i].number = x.number /\ m[i].under = x.under
    BY <2>3, <2>6, <2>7 DEF Items
  <2>. QED  BY <2>1, <2>2, <2>8
<1>. QED  BY <1>2, <1>3, <1>4

\* mergeFragment with an answer to an older state of the board.
LEMMA MergedOK ==
  ASSUME BoardOK(board, born), NEW sent, BoardOK(sent, born), Akin(sent, board),
         NEW drawn, born \subseteq drawn, NEW back, BoardOK(back, drawn),
         Adds(sent, back), NEW m, m = Merged(board, sent, back)
  PROVE  BoardOK(m, drawn) /\ Settles(m) /\ CasesOf(m) \subseteq born
<1>1. ListOfItems(board) /\ ListOfItems(back)
  BY DEF BoardOK, ListOfItems
<1>2. ASSUME NEW i \in DOMAIN m
      PROVE  /\ m[i] \in Items
             /\ \/ i \in DOMAIN back \ DOMAIN sent /\ m[i] = back[i]
                \/ /\ i \in DOMAIN board /\ m[i].kind = board[i].kind
                   /\ m[i].number = board[i].number /\ m[i].under = board[i].under
  BY <1>1, MergedIsOfBoth
<1>3. ASSUME NEW i \in DOMAIN m, i \in born
      PROVE  /\ i \in DOMAIN board /\ m[i].kind = board[i].kind
             /\ m[i].number = board[i].number /\ m[i].under = board[i].under
  BY <1>2, <1>3 DEF Adds
<1>4. ASSUME NEW i \in DOMAIN m, i \notin born
      PROVE  i \in DOMAIN back \ DOMAIN sent /\ m[i] = back[i]
  BY <1>2, <1>4 DEF BoardOK
<1>5. CasesOf(m) \subseteq born
  <2>1. ASSUME NEW i \in CasesOf(m), i \notin born PROVE FALSE
    <3>1. i \in DOMAIN m /\ m[i].kind = "UC"
      BY <2>1 DEF CasesOf
    <3>2. i \in DOMAIN back \ DOMAIN sent /\ m[i] = back[i]
      BY <1>4, <2>1, <3>1
    <3>. QED  BY <3>1, <3>2 DEF Adds
  <2>. QED  BY <2>1
<1>6. BoardOK(m, drawn)
  <2>1. m \in [DOMAIN m -> Items]
    <3>1. m = [i \in DOMAIN m |-> m[i]]
      BY DEF Merged
    <3>. QED  BY <1>2, <3>1
  <2>2. DOMAIN m \subseteq drawn
    BY <1>3, <1>4 DEF BoardOK
  <2>3. drawn \subseteq Ids /\ IsFiniteSet(drawn)
    BY DEF BoardOK
  <2>4. ASSUME NEW i \in DOMAIN m
        PROVE  /\ m[i].under \in born
               /\ m[i].kind = "UC" => m[i].under = i
               /\ m[i].under \in DOMAIN m => m[m[i].under].kind = "UC"
    <3>1. CASE i \in born
      <4>1. PICK u : u = board[i].under
        OBVIOUS
      <4>2. /\ i \in DOMAIN board /\ m[i].kind = board[i].kind /\ m[i].under = u
        BY <1>3, <3>1, <4>1
      <4>3. /\ u \in born
            /\ board[i].kind = "UC" => u = i
            /\ u \in DOMAIN board => board[u].kind = "UC"
        BY <4>1, <4>2 DEF BoardOK
      <4>4. u \in DOMAIN m => m[u].kind = "UC"
        BY <1>3, <4>3
      <4>. QED  BY <4>2, <4>3, <4>4
    <3>2. CASE i \notin born
      <4>1. i \in DOMAIN back \ DOMAIN sent /\ m[i] = back[i]
        BY <1>4, <3>2
      <4>2. PICK u : u = back[i].under
        OBVIOUS
      <4>3. u \in CasesOf(sent) /\ m[i].under = u /\ m[i].kind = "AC"
        BY <4>1, <4>2 DEF Adds
      <4>4. u \in DOMAIN sent /\ sent[u].kind = "UC" /\ u \in born
        BY <4>3 DEF CasesOf, BoardOK
      <4>5. u \in DOMAIN m => m[u].kind = "UC"
        BY <1>3, <4>4 DEF Akin
      <4>. QED  BY <4>3, <4>4, <4>5
    <3>. QED  BY <3>1, <3>2
  <2>. QED  BY <2>1, <2>2, <2>3, <2>4 DEF BoardOK
<1>. QED  BY <1>3, <1>5, <1>6 DEF Settles

\* A call changes the board and leaves the items as they are, but for their states
\* and texts.
LEMMA DoneSettles ==
  ASSUME BoardOK(board, born), NEW ask \in Asked, NEW n, NEW new \in Drawn(ask),
         ask.tool = "add_uc", Done(ask, n, new)
  PROVE  Settles(board')
<1>1. ask.listed \in BOOLEAN
  BY DEF Asked
<1>2. CASE ~ask.listed
  <2>1. new[1] \notin born
    BY <1>2, DrawnIds
  <2>2. board' = WithCase(board, new[1], n, ask.text)
    BY <1>2 DEF Done
  <2>3. DOMAIN board' = DOMAIN board \cup {new[1]}
    BY <2>2 DEF WithCase, With
  <2>4. \A i \in DOMAIN board : i # new[1] => board'[i] = board[i]
    BY <2>2 DEF WithCase, With
  <2>. QED  BY <2>1, <2>3, <2>4 DEF Settles
<1>3. CASE ask.listed
  <2>1. new[1] \notin born /\ new[2] \notin born
    BY <1>3, DrawnIds
  <2>2. PICK b : /\ b = WithCase(board, new[1], n, ask.text)
                 /\ board' = WithCriterion(b, new[2], new[1], ask.text)
    BY <1>3 DEF Done
  <2>3. /\ DOMAIN b = DOMAIN board \cup {new[1]}
        /\ \A i \in DOMAIN board : i # new[1] => b[i] = board[i]
    BY <2>2 DEF WithCase, With
  <2>4. /\ DOMAIN board' = DOMAIN b \cup {new[2]}
        /\ \A i \in DOMAIN b : i # new[2] => board'[i] = b[i]
    BY <2>2 DEF WithCriterion, With
  <2>. QED  BY <2>1, <2>3, <2>4 DEF Settles
<1>. QED  BY <1>1, <1>2, <1>3

\* Use cases that were there and keep their numbers keep them apart.
LEMMA SettledApart ==
  ASSUME DistinctNumbers(board), Settles(board'), CasesOf(board') \subseteq born
  PROVE  DistinctNumbers(board') /\ NumbersOf(board') \subseteq NumbersOf(board)
<1>1. ASSUME NEW u \in CasesOf(board')
      PROVE  u \in CasesOf(board) /\ board'[u].number = board[u].number
  BY DEF Settles, CasesOf
<1>2. DistinctNumbers(board')
  BY <1>1 DEF DistinctNumbers
<1>3. NumbersOf(board') \subseteq NumbersOf(board)
  BY <1>1 DEF NumbersOf
<1>. QED  BY <1>2, <1>3

\* The numbers that the other calls have reserved are still free.
StillFree(c) ==
    \A d \in UnderWay : d # c /\ pending[d].ask.tool = "add_uc" =>
                          pending[d].reserves \notin NumbersOf(board')

LEMMA FewerNumbers ==
  ASSUME NumberInv, NumbersOf(board') \subseteq NumbersOf(board), NEW c
  PROVE  StillFree(c)
BY DEF NumberInv, SentSome, SentOK, StillFree

\* PostToolUse, or no answer: the other fragments are still of the board's items, and
\* the numbers reserved still free.
LEMMA OthersOfTheBoard ==
  ASSUME NumberInv, remote, NEW c \in UnderWay,
         BoardOK(board', born'), born \subseteq born', Settles(board'),
         DistinctNumbers(board'), StillFree(c),
         pending' = [pending EXCEPT ![c] = None], UNCHANGED <<remote, made, doing>>
  PROVE  NumberInv'
<1>. USE DEF NumberInv
<1>1. /\ UnderWay' = UnderWay \ {c} /\ \A d \in UnderWay' : pending'[d] = pending[d]
  BY DEF UnderWay
<1>2. BoardOK(board, born)' /\ DistinctNumbers(board)'
  BY DEF DistinctNumbers, CasesOf
<1>3. ASSUME NEW d \in UnderWay' PROVE SentSome(pending[d])'
  <2>1. PICK q : q = pending[d] /\ q = pending'[d]
    BY <1>1
  <2>2. SentSome(q) /\ d \in UnderWay /\ d # c
    BY <1>1, <2>1
  <2>3. CASE q.ask.tool = "add_uc"
    <3>1. SentOK(q) /\ q.reserves \notin NumbersOf(board')
      BY <2>1, <2>2, <2>3 DEF SentSome, StillFree
    <3>2. SentOK(q)'
      BY <2>3, <3>1 DEF SentOK
    <3>. QED  BY <2>1, <2>3, <3>2 DEF SentSome, SentOK
  <2>4. CASE q.ask.tool # "add_uc"
    <3>1. BoardOK(q.sent, born) /\ Akin(q.sent, board) /\ q.ask \in Asked /\ q.reserves = 0
      BY <2>2, <2>4 DEF SentSome
    <3>2. BoardOK(q.sent, born')
      <4>1. IsFiniteSet(born') /\ born' \subseteq Ids
        BY DEF BoardOK
      <4>. QED  BY <3>1, <4>1 DEF BoardOK
    <3>3. Akin(q.sent, board')
      <4>1. DOMAIN q.sent \subseteq born
        BY <3>1 DEF BoardOK
      <4>. QED  BY <3>1, <4>1 DEF Akin, Settles
    <3>. QED  BY <2>1, <2>4, <3>1, <3>2, <3>3 DEF SentSome
  <2>. QED  BY <2>3, <2>4
<1>4. ASSUME NEW d \in UnderWay', NEW e \in UnderWay', d # e
      PROVE  Distinct(pending[d], pending[e])'
  <2>1. Distinct(pending[d], pending[e])
    BY <1>1, <1>4
  <2>. QED  BY <1>1, <1>4, <2>1 DEF Distinct
<1>5. IsFiniteSet(made') /\ UnderWay' \subseteq made' /\ DOMAIN pending' = Calls
  BY <1>1
<1>6. doing' = None /\ remote' /\ DoingOK'
  BY DEF DoingOK
<1>. QED  BY <1>2, <1>3, <1>4, <1>5, <1>6

LEMMA ReceiveSettles ==
  ASSUME NumberInv, NEW c \in Calls, Receive(c)
  PROVE  NumberInv' /\ Settles(board')
<1>1. PICK p : p = pending[c]
  OBVIOUS
<1>2. /\ c \in UnderWay /\ SentSome(p) /\ BoardOK(board, born) /\ remote
      /\ DistinctNumbers(board)
      /\ \A d \in UnderWay : d # c => Distinct(p, pending[d])
      /\ pending' = [pending EXCEPT ![c] = None] /\ UNCHANGED <<remote, made, doing>>
  BY <1>1 DEF Receive, NumberInv
<1>3. CASE ~Possible(p.sent, p.ask)
  <2>1. UNCHANGED <<board, born>>
    BY <1>1, <1>3 DEF Receive
  <2>2. Settles(board')
    BY <2>1 DEF Settles
  <2>3. /\ BoardOK(board', born') /\ DistinctNumbers(board')
        /\ StillFree(c) /\ born \subseteq born'
    BY <1>2, <2>1, FewerNumbers
  <2>. QED  BY <1>2, <2>1, <2>2, <2>3, OthersOfTheBoard
<1>4. CASE Possible(p.sent, p.ask)
  <2>1. PICK new \in Drawn(p.ask) :
          /\ board' = Merged(board, p.sent, Answer(p.sent, p.floor, p.ask, new))
          /\ born' = born \cup Range(new)
    BY <1>1, <1>4 DEF Receive
  <2>2. CASE p.ask.tool = "add_uc"
    <3>1. SentOK(p) /\ p.ask \in Asked /\ p.about = {}
      BY <1>2, <2>2 DEF SentSome, SentOK
    <3>2. PICK ask, n : ask = p.ask /\ n = p.reserves
      OBVIOUS
    <3>3. Done(ask, n, new)
      BY <1>2, <1>4, <2>1, <3>1, <3>2, ReceivedDone
    <3>4. n \in Nat /\ n # 0 /\ n \notin NumbersOf(board)
      BY <2>2, <3>1, <3>2 DEF SentOK
    <3>5. Effect(About(ask), {n})
      BY <1>2, <2>1, <3>1, <3>2, <3>3, <3>4, DoneEffect
    <3>6. Settles(board')
      BY <1>2, <2>1, <2>2, <3>1, <3>2, <3>3, DoneSettles
    <3>7. DistinctNumbers(board')
      BY <1>2, <3>5, DistinctKept DEF Effect
    <3>8. BoardOK(board', born') /\ NumbersOf(board') \subseteq NumbersOf(board) \cup {n}
      BY <3>5 DEF Effect
    <3>9. StillFree(c)
      <4>1. ASSUME NEW d \in UnderWay, d # c, pending[d].ask.tool = "add_uc"
            PROVE  pending[d].reserves \notin NumbersOf(board')
        <5>1. pending[d].reserves # n
          BY <1>2, <2>2, <3>2, <4>1 DEF Distinct
        <5>2. pending[d].reserves \notin NumbersOf(board)
          BY <4>1 DEF NumberInv, SentSome, SentOK
        <5>. QED  BY <3>8, <5>1, <5>2
      <4>. QED  BY <4>1 DEF StillFree
    <3>. QED  BY <1>2, <2>1, <3>6, <3>7, <3>8, <3>9, OthersOfTheBoard
  <2>3. CASE p.ask.tool # "add_uc"
    <3>1. PICK sent, ask, floor, back, m, drawn :
            /\ sent = p.sent /\ ask = p.ask /\ floor = p.floor
            /\ back = Answer(sent, floor, ask, new) /\ m = Merged(board, sent, back)
            /\ drawn = born \cup Range(new)
      OBVIOUS
    <3>2. /\ ask \in Asked /\ ask.tool # "add_uc" /\ BoardOK(sent, born) /\ Akin(sent, board)
          /\ Possible(sent, ask) /\ new \in Drawn(ask) /\ board' = m /\ born' = drawn
      BY <1>2, <1>4, <2>1, <2>3, <3>1 DEF SentSome
    <3>3. BoardOK(back, drawn) /\ Adds(sent, back)
      BY <3>1, <3>2, AnswerOK
    <3>4. born \subseteq drawn
      BY <3>1
    <3>5. BoardOK(m, drawn) /\ Settles(m) /\ CasesOf(m) \subseteq born
      BY <1>2, <3>1, <3>2, <3>3, <3>4, MergedOK
    <3>6. Settles(board')
      BY <3>2, <3>5
    <3>7. DistinctNumbers(board') /\ NumbersOf(board') \subseteq NumbersOf(board)
      BY <1>2, <3>2, <3>5, <3>6, SettledApart
    <3>8. BoardOK(board', born') /\ StillFree(c)
      BY <3>2, <3>5, <3>7, FewerNumbers
    <3>. QED  BY <1>2, <3>2, <3>4, <3>6, <3>7, <3>8, OthersOfTheBoard
  <2>. QED  BY <2>2, <2>3
<1>. QED  BY <1>3, <1>4

LEMMA ForgetSettles ==
  ASSUME NumberInv, NEW c \in Calls, Forget(c)
  PROVE  NumberInv' /\ Settles(board')
<1>1. /\ c \in UnderWay /\ UNCHANGED <<board, born, remote, made, doing>>
      /\ pending' = [pending EXCEPT ![c] = None]
  BY DEF Forget
<1>2. remote /\ BoardOK(board', born') /\ DistinctNumbers(board')
  BY <1>1 DEF NumberInv
<1>3. Settles(board') /\ StillFree(c) /\ born \subseteq born'
  BY <1>1, FewerNumbers DEF Settles
<1>. QED  BY <1>1, <1>2, <1>3, OthersOfTheBoard

\* PreToolUse: a fragment of the board is a list of its items.
LEMMA FragmentOK ==
  ASSUME BoardOK(board, born), NEW ask \in Asked, ask.tool # "add_uc",
         ask.item \in DOMAIN board, board[ask.item].under \in DOMAIN board,
         NEW sent, sent = FragmentOf(ask)
  PROVE  BoardOK(sent, born) /\ Akin(sent, board)
<1>1. CASE ask.tool \in {"archive", "purge"}
  BY <1>1 DEF FragmentOf, Akin
<1>2. CASE ask.tool \notin {"archive", "purge"}
  <2>1. PICK u : u = board[ask.item].under
    OBVIOUS
  <2>2. sent = Restrict(board, UNION {Gone(board, w) : w \in {u}})
    BY <1>2, <2>1 DEF FragmentOf, About
  <2>3. UNION {Gone(board, w) : w \in {u}} = Gone(board, u)
    OBVIOUS
  <2>4. sent = [i \in Gone(board, u) |-> board[i]]
    BY <2>2, <2>3 DEF Restrict
  <2>5. Gone(board, u) \subseteq DOMAIN board
    BY <2>1 DEF Gone, CriteriaOf
  <2>6. DOMAIN sent \subseteq DOMAIN board /\ \A i \in DOMAIN sent : sent[i] = board[i]
    BY <2>4, <2>5
  <2>7. sent \in [DOMAIN sent -> Items]
    BY <2>4, <2>5 DEF BoardOK
  <2>8. BoardOK(sent, born)
    BY <2>6, <2>7 DEF BoardOK
  <2>. QED  BY <2>6, <2>8 DEF Akin
<1>. QED  BY <1>1, <1>2

LEMMA SendSettles ==
  ASSUME NumberInv, NEW c \in Calls, NEW ask \in Asked, Send(c, ask)
  PROVE  NumberInv' /\ Settles(board')
<1>1. PICK floor, p :
        /\ floor = Max({0} \cup NumbersOf(board) \cup Reserved)
        /\ p = [ask |-> ask, sent |-> FragmentOf(ask), floor |-> floor, about |-> About(ask),
                reserves |-> IF ask.tool = "add_uc" THEN floor + 1 ELSE 0]
        /\ pending' = [pending EXCEPT ![c] = p]
  BY DEF Send
<1>2. /\ p.ask = ask /\ p.sent = FragmentOf(ask) /\ p.floor = floor /\ p.about = About(ask)
      /\ p.reserves = IF ask.tool = "add_uc" THEN floor + 1 ELSE 0
  BY <1>1
<1>3. /\ remote /\ c \notin made /\ made' = made \cup {c}
      /\ UNCHANGED <<board, remote, born, doing>>
      /\ ask.tool # "add_uc" => /\ ask.item \in DOMAIN board
                                /\ board[ask.item].under \in DOMAIN board
  BY DEF Send
<1>4. /\ BoardOK(board, born) /\ DistinctNumbers(board)
      /\ IsFiniteSet(made) /\ UnderWay \subseteq made
      /\ DOMAIN pending = Calls /\ doing = None
      /\ \A d \in UnderWay : SentSome(pending[d])
      /\ \A d, e \in UnderWay : d # e => Distinct(pending[d], pending[e])
  BY <1>3 DEF NumberInv
<1>5. /\ UnderWay' \subseteq UnderWay \cup {c} /\ c \notin UnderWay
      /\ \A d \in UnderWay : pending'[d] = pending[d]
      /\ pending'[c] = p
  BY <1>1, <1>3, <1>4 DEF UnderWay
<1>6. /\ floor \in Nat /\ floor + 1 # 0
      /\ \A k \in NumbersOf(board) \cup Reserved : k \in Nat /\ floor + 1 > k
  <2>1. IsFiniteSet(UnderWay)
    BY <1>4, FS_Subset
  <2>2. [d \in UnderWay |-> pending[d].reserves] \in Surjection(UnderWay, Reserved)
    BY DEF Surjection, Reserved
  <2>3. IsFiniteSet(Reserved)
    BY <2>1, <2>2, FS_Surjection
  <2>4. Reserved \in SUBSET Nat
    BY <1>4 DEF Reserved, SentSome, SentOK
  <2>. QED  BY <1>1, <1>4, <2>3, <2>4, TopIsHighest
<1>7. \A k \in NumbersOf(board) \cup Reserved : k # floor + 1
  BY <1>6
<1>8. SentSome(p)
  <2>1. CASE ask.tool = "add_uc"
    <3>1. p.about = {} /\ p.sent = <<>>
      BY <1>2, <2>1 DEF About, FragmentOf
    <3>2. p.reserves = floor + 1 /\ p.reserves \in Nat
      BY <1>2, <1>6, <2>1
    <3>3. p.reserves \notin NumbersOf(board)
      BY <1>7, <3>2
    <3>. QED  BY <1>2, <1>6, <2>1, <3>1, <3>2, <3>3 DEF SentOK, SentSome
  <2>2. CASE ask.tool # "add_uc"
    <3>1. PICK sent : sent = FragmentOf(ask) /\ sent = p.sent
      BY <1>2
    <3>2. BoardOK(sent, born) /\ Akin(sent, board)
      BY <1>3, <1>4, <2>2, <3>1, FragmentOK
    <3>. QED  BY <1>2, <2>2, <3>1, <3>2 DEF SentSome
  <2>. QED  BY <2>1, <2>2
<1>9. ASSUME NEW d \in UnderWay PROVE Distinct(p, pending[d]) /\ Distinct(pending[d], p)
  <2>1. pending[d].reserves \in Reserved
    BY DEF Reserved
  <2>2. ask.tool = "add_uc" => p.reserves # pending[d].reserves
    BY <1>2, <1>7, <2>1
  <2>. QED  BY <1>2, <2>2 DEF Distinct
<1>10. ASSUME NEW d \in UnderWay' PROVE SentSome(pending[d])'
  <2>1. PICK q : q = pending'[d] /\ SentSome(q)
    BY <1>4, <1>5, <1>8
  <2>2. \A sent, a, u : Current(sent, a, u)' <=> Current(sent, a, u)
    BY <1>3 DEF Current
  <2>3. SentSome(q)'
    BY <1>3, <2>1, <2>2 DEF SentSome, SentOK
  <2>. QED  BY <2>1, <2>3 DEF SentSome, SentOK
<1>11. ASSUME NEW d \in UnderWay', NEW e \in UnderWay', d # e
       PROVE  Distinct(pending[d], pending[e])'
  <2>1. Distinct(pending'[d], pending'[e])
    BY <1>4, <1>5, <1>9, <1>11
  <2>. QED  BY <2>1 DEF Distinct
<1>12. IsFiniteSet(made') /\ UnderWay' \subseteq made' /\ DOMAIN pending' = Calls
  BY <1>1, <1>3, <1>4, <1>5, FS_AddElement
<1>13. BoardOK(board, born)' /\ DistinctNumbers(board)' /\ remote' /\ doing' = None /\ DoingOK'
  BY <1>3, <1>4 DEF DoingOK, BoardOK, DistinctNumbers, CasesOf
<1>14. Settles(board')
  BY <1>3 DEF Settles
<1>. QED  BY <1>3, <1>10, <1>11, <1>12, <1>13, <1>14 DEF NumberInv

\* Beside the server every write is a step of the board, with new ids.
LEMMA StepSettles ==
  ASSUME BoardOK(board, born), BoardNext \/ board' = board,
         DOMAIN board' \cap born \subseteq DOMAIN board
  PROVE  Settles(board')
<1>. DEFINE Same(i) == /\ board'[i].kind = board[i].kind /\ board'[i].number = board[i].number
                       /\ board'[i].under = board[i].under
<1>. SUFFICES ASSUME NEW i \in DOMAIN board, i \in DOMAIN board' PROVE Same(i)
  BY DEF Settles
<1>1. ASSUME NEW u \in Ids, NEW t \in Texts, AddCase(u, t)
      PROVE  Same(i)
  <2>1. PICK n : /\ u \notin DOMAIN board
                 /\ \/ board' = WithCase(board, u, n, t)
                    \/ \E a \in Ids \ (DOMAIN board \cup {u}) :
                         board' = WithCriterion(WithCase(board, u, n, t), a, u, t)
    BY <1>1 DEF AddCase
  <2>2. CASE board' = WithCase(board, u, n, t)
    BY <2>1, <2>2 DEF WithCase, With
  <2>3. CASE \E a \in Ids \ (DOMAIN board \cup {u}) :
               board' = WithCriterion(WithCase(board, u, n, t), a, u, t)
    <3>1. PICK a, b : /\ a \notin DOMAIN board /\ b = WithCase(board, u, n, t)
                      /\ board' = WithCriterion(b, a, u, t)
      BY <2>3
    <3>2. i \in DOMAIN b /\ b[i] = board[i]
      BY <2>1, <3>1 DEF WithCase, With
    <3>3. board'[i] = b[i]
      BY <3>1, <3>2 DEF WithCriterion, With
    <3>. QED  BY <3>2, <3>3
  <2>. QED  BY <2>1, <2>2, <2>3
<1>2. ASSUME NEW u \in Ids, NEW t \in Texts, AddCriterion(u, t)
      PROVE  Same(i)
  BY <1>2 DEF AddCriterion, WithCriterion, With
<1>3. ASSUME NEW j \in Ids, Change(j)
      PROVE  Same(i)
  <2>1. /\ board[i] \in Items
        /\ \/ \E s \in States : board' = [board EXCEPT ![j].state = s]
           \/ \E t \in Texts : board' = [board EXCEPT ![j].text = t]
    BY <1>3 DEF Change, BoardOK, WithState, WithText
  <2>. QED  BY <2>1 DEF Items
<1>4. ASSUME NEW gone, board' = Without(board, gone)
      PROVE  Same(i)
  BY <1>4 DEF Without, Restrict
<1>. QED  BY <1>1, <1>2, <1>3, <1>4 DEF BoardNext, ArchiveCase, PurgeCase

\* The ids that a write beside the server adds to items.json are new.
LEMMA LocalIdsAreNew ==
  ASSUME StoreInv, ~remote, StoreNext
  PROVE  DOMAIN board' \cap born \subseteq DOMAIN board
<1>1. ASSUME NEW c \in Calls, NEW ask \in Asked, Write(c, ask)
      PROVE  DOMAIN board' \cap born \subseteq DOMAIN board
  <2>1. PICK new \in Drawn(ask) : board' = Answer(board, 0, ask, new)
    BY <1>1 DEF Write
  <2>2. /\ ask.tool \in {"add_uc", "add_ac", "state", "text"}
        /\ ask.tool = "add_uc" => ~ask.listed
    BY <1>1 DEF Write, Asked, WithCriteria
  <2>3. CASE ask.tool \in {"add_uc", "add_ac"}
    <3>1. DOMAIN board' = DOMAIN board \cup {new[1]}
      BY <2>1, <2>2, <2>3 DEF Answer, WithCriteria, WithCase, WithCriterion, With
    <3>2. new[1] \notin born
      BY <2>2, <2>3, DrawnIds
    <3>. QED  BY <3>1, <3>2
  <2>4. CASE ask.tool \in {"state", "text"}
    BY <2>1, <2>4 DEF Answer, WithState, WithText
  <2>. QED  BY <2>2, <2>3, <2>4
<1>2. ASSUME NEW c \in Calls, NEW ask \in Asked, WriteCase(c, ask)
      PROVE  DOMAIN board' \cap born \subseteq DOMAIN board
  <2>1. PICK new \in Drawn(ask) : board' = Answer(board, 0, [ask EXCEPT !.listed = FALSE], new)
    BY <1>2 DEF WriteCase
  <2>2. ask.tool = "add_uc" /\ ask.listed
    BY <1>2 DEF WriteCase, WithCriteria
  <2>3. board' = WithCase(board, new[1], Top(board, 0) + 1, ask.text)
    BY <2>1, <2>2, AddedOnce
  <2>4. DOMAIN board' = DOMAIN board \cup {new[1]}
    BY <2>3 DEF WithCase, With
  <2>5. new[1] \notin born
    BY <2>2, DrawnIds
  <2>. QED  BY <2>4, <2>5
<1>3. ASSUME List
      PROVE  DOMAIN board' \cap born \subseteq DOMAIN board
  <2>1. doing # None /\ doing.step = "listing"
    BY <1>3 DEF List
  <2>2. DOMAIN board' = DOMAIN board \cup {doing.next}
    BY <1>3 DEF List, WithCriterion, With
  <2>3. doing.next \notin born
    BY <2>1 DEF StoreInv, DoingOK
  <2>. QED  BY <2>2, <2>3
<1>4. ASSUME NEW gone, board' = Without(board, gone)
      PROVE  DOMAIN board' \cap born \subseteq DOMAIN board
  BY <1>4 DEF Without, Restrict
<1>5. ASSUME Unlist \/ \E c \in Calls, u \in Ids : Erase(c, u)
      PROVE  DOMAIN board' \cap born \subseteq DOMAIN board
  BY <1>4, <1>5 DEF Unlist, Erase
<1>6. ASSUME \/ Unshelve \/ Log \/ Die \/ TearItems \/ TearArchive
             \/ \E c \in Calls, u \in Ids : \E purge \in BOOLEAN : Shelve(c, u, purge)
      PROVE  DOMAIN board' \cap born \subseteq DOMAIN board
  BY <1>6 DEF Unshelve, Log, Die, TearItems, TearArchive, Shelve
<1>7. ASSUME NEW c \in Calls
      PROVE  /\ ~Receive(c) /\ ~Forget(c)
             /\ \A ask \in Asked : ~Send(c, ask)
  BY DEF StoreInv, Receive, Forget, Send
<1>. QED  BY <1>1, <1>2, <1>3, <1>5, <1>6, <1>7 DEF StoreNext

LEMMA LocalSettles ==
  ASSUME NumberInv, ~remote, StoreNext
  PROVE  NumberInv' /\ Settles(board')
<1>1. StoreInv
  BY DEF NumberInv, StoreInv
<1>2. ASSUME NEW c \in Calls
      PROVE  /\ ~Receive(c) /\ ~Forget(c)
             /\ \A ask \in Asked : ~Send(c, ask)
  BY DEF NumberInv, Receive, Forget, Send
<1>3. StoreInv' /\ (BoardNext \/ board' = board)
  <2>1. ASSUME NEW c \in Calls, NEW ask \in Asked, Write(c, ask) \/ WriteCase(c, ask)
        PROVE  StoreInv' /\ (BoardNext \/ board' = board)
    BY <1>1, <2>1, WriteKeeps, WriteCaseKeeps
  <2>2. ASSUME NEW c \in Calls, NEW u \in Ids,
               Erase(c, u) \/ \E purge \in BOOLEAN : Shelve(c, u, purge)
        PROVE  StoreInv' /\ (BoardNext \/ board' = board)
    BY <1>1, <2>2, EraseKeeps, ShelveKeeps
  <2>3. CASE List \/ Unlist \/ Unshelve \/ Log \/ Die \/ TearItems \/ TearArchive
    BY <1>1, <2>3, ListKeeps, UnlistKeeps, RestKeeps
  <2>. QED  BY <1>2, <2>1, <2>2, <2>3 DEF StoreNext
<1>4. BoardOK(board, born) /\ DistinctNumbers(board)
  BY DEF NumberInv
<1>5. DistinctNumbers(board')
  BY <1>3, <1>4, DistinctKept
<1>6. Settles(board')
  BY <1>1, <1>3, <1>4, LocalIdsAreNew, StepSettles
<1>7. ~remote'
  BY <1>2 DEF StoreNext, Write, WriteCase, Erase, Shelve, List, Unlist, Unshelve, Log, Die,
              TearItems, TearArchive
<1>8. UnderWay' = {} /\ DistinctNumbers(board)'
  BY <1>3, <1>5, <1>7 DEF StoreInv, DistinctNumbers, CasesOf
<1>9. NumberInv'
  BY <1>3, <1>7, <1>8 DEF NumberInv, StoreInv
<1>. QED  BY <1>6, <1>9

LEMMA NumberInvKept ==
  ASSUME NumberInv, [StoreNext]_storeVars
  PROVE  NumberInv' /\ Settles(board')
<1>1. CASE UNCHANGED storeVars
  <2>1. UNCHANGED <<board, remote, pending, made, born, doing>>
    BY <1>1 DEF storeVars, store
  <2>2. UnderWay' = UnderWay /\ Settles(board')
    BY <2>1 DEF UnderWay, Settles
  <2>3. BoardOK(board, born)' /\ DoingOK' /\ DistinctNumbers(board)'
    BY <2>1 DEF NumberInv, BoardOK, DoingOK, DistinctNumbers, CasesOf
  <2>4. ASSUME NEW c \in UnderWay' PROVE SentSome(pending[c])'
    <3>1. SentSome(pending[c])
      BY <2>2, <2>4 DEF NumberInv
    <3>2. \A sent, a, u : Current(sent, a, u)' <=> Current(sent, a, u)
      BY <2>1 DEF Current
    <3>. QED  BY <2>1, <3>1, <3>2 DEF SentSome, SentOK
  <2>5. ASSUME NEW c \in UnderWay', NEW d \in UnderWay', c # d
        PROVE  Distinct(pending[c], pending[d])'
    <3>1. Distinct(pending[c], pending[d])
      BY <2>2, <2>5 DEF NumberInv
    <3>. QED  BY <2>1, <3>1 DEF Distinct
  <2>. QED  BY <2>1, <2>2, <2>3, <2>4, <2>5 DEF NumberInv
<1>2. CASE StoreNext /\ ~remote
  BY <1>2, LocalSettles
<1>3. CASE StoreNext /\ remote
  <2>1. doing = None
    BY <1>3 DEF NumberInv
  <2>2. /\ ~(List \/ Unlist \/ Unshelve \/ Log \/ Die \/ TearItems \/ TearArchive)
        /\ \A c \in Calls : ~Begin(c)
    BY <1>3, <2>1 DEF List, Unlist, Unshelve, Log, Die, TearItems, TearArchive, Begin, Usable
  <2>3. PICK c \in Calls : Receive(c) \/ Forget(c) \/ \E ask \in Asked : Send(c, ask)
    BY <1>3, <2>2 DEF StoreNext, Write, WriteCase, Erase, Shelve
  <2>. QED  BY <2>3, ReceiveSettles, ForgetSettles, SendSettles
<1>. QED  BY <1>1, <1>2, <1>3

LEMMA NumberInvStarts == StoreInit => NumberInv
<1>. SUFFICES ASSUME StoreInit PROVE NumberInv
  OBVIOUS
<1>1. StoreInv
  BY StoreInvStarts
<1>2. board = <<>> /\ DOMAIN board = {} /\ UnderWay = {}
  BY DEF StoreInit, BoardInit, UnderWay
<1>3. DistinctNumbers(board)
  BY <1>2 DEF DistinctNumbers, CasesOf
<1>. QED  BY <1>1, <1>2, <1>3 DEF StoreInv, NumberInv

\* FreeformStore: no two use cases of a board ever have the same number, whatever
\* calls overlap, however out of date the fragments they were sent and whichever of
\* the answers are late or never come: what the floor that the hook sends, and
\* reserves, is for.
THEOREM NoNumberTwice == StoreSpec => []DistinctNumbers(board)
<1>1. NumberInv /\ [StoreNext]_storeVars => NumberInv'
  BY NumberInvKept
<1>2. NumberInv => DistinctNumbers(board)
  BY DEF NumberInv
<1>. QED  BY <1>1, <1>2, NumberInvStarts, PTL DEF StoreSpec

\* FreeformStore: whatever overlaps, an item of items.json keeps its kind, its number
\* and its use case, and one that was taken out of it never comes back, not even by an
\* answer to a call that was sent the board from before: mergeFragment adds only what
\* the tool added.
THEOREM NothingComesBack == StoreSpec => [][Settles(board')]_storeVars
<1>1. NumberInv /\ [StoreNext]_storeVars => NumberInv' /\ Settles(board')
  BY NumberInvKept
<1>. QED  BY <1>1, NumberInvStarts, PTL DEF StoreSpec

-----------------------------------------------------------------------------
(***************************************************************************)
(* StoryFollow.                                                            *)
(***************************************************************************)
USE DEF WorkflowStates, Pending, Started, UcStates, NoState, Listing, Stages

-----------------------------------------------------------------------------
(* Types                                                                   *)

LEMMA IdleType == \A ok \in BOOLEAN : Idle(ok) \in Call
  BY DEF Idle, Call

LEMMA DeriveType ==
  ASSUME NEW states
  PROVE  DeriveUsState(states) \in WorkflowStates \cup {NoState}
  BY DEF DeriveUsState

\* What keeps TypeOK: one call is replaced by a well-typed one.
LEMMA PutType ==
  ASSUME TypeOK, NEW s \in Session, NEW c \in Call, Put(s, c),
         story' \in WorkflowStates, uc' \in [UC -> UcStates]
  PROVE  TypeOK'
  BY DEF TypeOK, Put

LEMMA ReturnType ==
  ASSUME TypeOK, NEW s \in Session, NEW ok \in BOOLEAN, Return(s, ok),
         story' \in WorkflowStates, uc' \in [UC -> UcStates]
  PROVE  TypeOK'
  BY IdleType, PutType DEF Return

-----------------------------------------------------------------------------
(* The inductive invariant                                                 *)

\* Of two calls that are open together each has met the other.
OneCall == \A s, t \in Session :
             s # t /\ call[s].at # "idle" /\ call[t].at # "idle" => call[s].met

\* What a call has read is still so, but for the UC it has moved.
StillTrue(c) ==
  /\ c.at # "idle" /\ c.op # "move_us" => c.uc \in UC
  /\ c.at \in {"list_ucs", "update", "sync"} => c.story = story
  /\ c.at \in {"list_story", "list_ucs"} /\ c.op = "start_uc" =>
       c.target = "in_progress" /\ uc[c.uc] = "in_progress"
  /\ c.at = "update" =>
       c.op = "move_uc" /\ c.seen = uc /\ uc[c.uc] # "gone"
  /\ c.at = "sync" =>
       /\ c.op \in {"move_uc", "start_uc"}
       /\ uc = [c.seen EXCEPT ![c.uc] = c.target]
       /\ c.seen[c.uc] # "gone"
  /\ c.at = "move" =>
       c.op = "move_us" /\ c.seen = uc /\ ~MoveRefused(c.target, uc)
  /\ c.at = "cascade" => c.op = "move_us"

IInv == TypeOK /\ OneCall /\ \A s \in Session : call[s].met \/ StillTrue(call[s])

\* A step of an open call: the calls open beside it have met it.
LEMMA PutKeeps ==
  ASSUME IInv, TypeOK', NEW s \in Session, NEW c \in Call, Put(s, c),
         call[s].at # "idle", c.at = "idle" \/ c.met = call[s].met,
         c.met \/ StillTrue(c)'
  PROVE  IInv'
  <1>1. \A r \in Session : call'[r] = IF r = s THEN c ELSE call[r]
    BY DEF Put, IInv, TypeOK
  <1>2. OneCall'
    BY <1>1 DEF IInv, OneCall
  <1>3. ASSUME NEW r \in Session PROVE (call[r].met \/ StillTrue(call[r]))'
    <2>1. CASE r = s
      BY <1>1, <2>1
    <2>2. CASE r # s /\ call[r].at = "idle"
      <3>1. call'[r].at = "idle"
        BY <1>1, <2>2
      <3>2. QED
        BY <3>1 DEF StillTrue
    <2>3. CASE r # s /\ call[r].at # "idle"
      BY <1>1, <2>3 DEF IInv, OneCall
    <2>4. QED
      BY <2>1, <2>2, <2>3
  <1>4. QED
    BY <1>2, <1>3 DEF IInv

LEMMA ReturnKeeps ==
  ASSUME IInv, TypeOK', NEW s \in Session, NEW ok \in BOOLEAN, Return(s, ok),
         call[s].at # "idle"
  PROVE  IInv'
  <1>1. PICK c \in Call : c = Idle(ok)
    BY IdleType
  <1>2. Put(s, c) /\ c.at = "idle"
    BY <1>1 DEF Return, Idle
  <1>3. StillTrue(c)'
    BY <1>2 DEF StillTrue
  <1>4. QED
    BY <1>2, <1>3, PutKeeps

LEMMA MeetType ==
  ASSUME TypeOK
  PROVE  /\ Meet \in [Session -> Call]
         /\ \A s \in Session : /\ Meet[s].at = call[s].at
                               /\ call[s].at # "idle" => Meet[s].met
  <1>1. \A s \in Session : call[s] \in Call
    BY DEF TypeOK
  <1>2. \A c \in Call : /\ [c EXCEPT !.met = TRUE] \in Call
                        /\ [c EXCEPT !.met = TRUE].at = c.at
                        /\ [c EXCEPT !.met = TRUE].met
    BY DEF Call
  <1>3. QED
    BY <1>1, <1>2 DEF Meet

\* A call begins: every other is idle or has met it.
LEMMA OpenKeeps ==
  ASSUME IInv, TypeOK', NEW s \in Session, NEW c \in Call, Open(s, c),
         \A d \in Call : (/\ d.at = c.at /\ d.op = c.op /\ d.uc = c.uc
                          /\ d.target = c.target) => StillTrue(d)'
  PROVE  IInv'
  <1>1. PICK d \in Call : d = [c EXCEPT !.met = Busy]
    BY DEF Call, Busy
  <1>2. /\ d.at = c.at /\ d.op = c.op /\ d.uc = c.uc /\ d.target = c.target
        /\ d.met = Busy
    BY <1>1 DEF Call
  <1>3. \A r \in Session : call'[r] = IF r = s THEN d ELSE Meet[r]
    BY <1>1, MeetType DEF Open, IInv
  <1>4. \A r \in Session \ {s} : call'[r].at = "idle" \/ (call'[r].met /\ d.met)
    BY <1>2, <1>3, MeetType DEF IInv, Busy
  <1>5. OneCall'
    BY <1>3, <1>4 DEF OneCall
  <1>6. ASSUME NEW r \in Session PROVE (call[r].met \/ StillTrue(call[r]))'
    <2>1. CASE r = s
      BY <1>2, <1>3, <2>1
    <2>2. CASE r # s
      BY <1>4, <2>2 DEF StillTrue
    <2>3. QED
      BY <2>1, <2>2
  <1>7. QED
    BY <1>5, <1>6 DEF IInv

-----------------------------------------------------------------------------
(* Types and invariant, action by action                                   *)

LEMMA ListStoryType ==
  ASSUME TypeOK, NEW s \in Session, ListStory(s) PROVE TypeOK'
  <1> DEFINE c == call[s]
  <1>0. c \in Call /\ story \in WorkflowStates
    BY DEF TypeOK
  <1>1. [c EXCEPT !.at = "list_ucs", !.story = story] \in Call
    BY <1>0 DEF Call
  <1>2. QED
    BY <1>1, PutType DEF ListStory, TypeOK

LEMMA ListUcsType ==
  ASSUME TypeOK, NEW s \in Session, ListUcs(s) PROVE TypeOK'
  <1>0. call[s] \in Call /\ uc \in [UC -> UcStates]
    BY DEF TypeOK
  <1>1. ASSUME NEW at \in Stages
        PROVE  [call[s] EXCEPT !.at = at, !.seen = uc] \in Call
    BY <1>0 DEF Call
  <1>2. UNCHANGED <<story, uc>>
    BY DEF ListUcs
  <1>3. \/ Return(s, FALSE)
        \/ \E at \in Stages : Put(s, [call[s] EXCEPT !.at = at, !.seen = uc])
    BY DEF ListUcs
  <1>4. QED
    BY <1>1, <1>2, <1>3, PutType, ReturnType DEF TypeOK

LEMMA UpdateUcType ==
  ASSUME TypeOK, NEW s \in Session, UpdateUc(s) PROVE TypeOK'
  <1>0. call[s] \in Call
    BY DEF TypeOK
  <1>1. [call[s] EXCEPT !.at = "sync"] \in Call /\ call[s].target \in UcStates
    BY <1>0 DEF Call
  <1>2. uc' \in [UC -> UcStates] /\ story' \in WorkflowStates
    BY <1>1 DEF UpdateUc, TypeOK
  <1>3. Return(s, FALSE) \/ Put(s, [call[s] EXCEPT !.at = "sync"])
    BY DEF UpdateUc
  <1>4. QED
    BY <1>1, <1>2, <1>3, PutType, ReturnType

LEMMA SyncType ==
  ASSUME TypeOK, NEW s \in Session, Sync(s) PROVE TypeOK'
  <1>1. story' \in WorkflowStates
    BY DeriveType DEF Sync, TypeOK
  <1>2. uc' \in [UC -> UcStates] /\ Return(s, TRUE)
    BY DEF Sync, TypeOK
  <1>3. QED
    BY <1>1, <1>2, ReturnType

LEMMA MoveStoryType ==
  ASSUME TypeOK, NEW s \in Session, MoveStory(s) PROVE TypeOK'
  <1>1. call[s] \in Call
    BY DEF TypeOK
  <1>2. Cascades(call[s].target, call[s].seen) \in SUBSET UC
    BY DEF Cascades, Children
  <1>3. [call[s] EXCEPT !.at = "cascade",
           !.left = Cascades(call[s].target, call[s].seen)] \in Call
    BY <1>1, <1>2 DEF Call
  <1>4. story' \in WorkflowStates
    BY <1>1 DEF MoveStory, Call
  <1>5. QED
    BY <1>3, <1>4, PutType DEF MoveStory, TypeOK

LEMMA CascadeType ==
  ASSUME TypeOK, NEW s \in Session, Cascade(s) PROVE TypeOK'
  <1>1. call[s] \in Call /\ CascadeTo(call[s].target) \in UcStates
    BY DEF TypeOK, Call, CascadeTo
  <1>2. UNCHANGED story
    BY DEF Cascade
  <1>3. CASE Return(s, TRUE) /\ UNCHANGED uc
    BY <1>2, <1>3, ReturnType DEF TypeOK
  <1>4. ASSUME NEW u \in call[s].left,
               IF uc[u] = "gone"
                 THEN Return(s, FALSE) /\ UNCHANGED uc
                 ELSE /\ uc' = [uc EXCEPT ![u] = CascadeTo(call[s].target)]
                      /\ Put(s, [call[s] EXCEPT !.left = @ \ {u}])
        PROVE  TypeOK'
    <2>1. [call[s] EXCEPT !.left = @ \ {u}] \in Call
      BY <1>1 DEF Call
    <2>2. uc' \in [UC -> UcStates]
      BY <1>1, <1>4 DEF TypeOK
    <2>3. QED
      BY <1>2, <1>4, <2>1, <2>2, PutType, ReturnType DEF TypeOK
  <1>5. QED
    BY <1>3, <1>4 DEF Cascade

LEMMA BeginPutsType ==
  ASSUME TypeOK, NEW s \in Session, NEW c \in Call, Open(s, c),
         story' \in WorkflowStates, uc' \in [UC -> UcStates]
  PROVE  TypeOK'
  <1>1. [c EXCEPT !.met = Busy] \in Call
    BY DEF Call, Busy
  <1>2. QED
    BY <1>1, MeetType DEF Open, TypeOK

LEMMA BeginType ==
  ASSUME NEW s \in Session, TypeOK,
         \/ \E u \in UC : StartUc(s, u) \/ \E t \in WorkflowStates : MoveUc(s, u, t)
         \/ \E t \in WorkflowStates : MoveUs(s, t)
  PROVE  TypeOK'
  <1>1. ASSUME NEW u \in UC, StartUc(s, u) PROVE TypeOK'
    <2>1. PICK c \in Call :
            c = [Idle(TRUE) EXCEPT !.at = "list_story", !.op = "start_uc",
                                   !.uc = u, !.target = "in_progress"]
      BY DEF Idle, Call
    <2>2. Open(s, c) /\ uc' \in [UC -> UcStates] /\ story' = story
      BY ZenonT(60), <1>1, <2>1 DEF StartUc, TypeOK
    <2>3. QED
      BY <2>2, BeginPutsType DEF TypeOK
  <1>2. ASSUME NEW u \in UC, NEW t \in WorkflowStates, MoveUc(s, u, t)
        PROVE  TypeOK'
    <2>1. PICK c \in Call :
            c = [Idle(TRUE) EXCEPT !.at = "list_story", !.op = "move_uc",
                                   !.uc = u, !.target = t]
      <3>1. Idle(TRUE) \in Call
        BY IdleType
      <3>2. QED
        BY <3>1 DEF Call
    <2>2. Open(s, c) /\ uc' = uc /\ story' = story
      BY ZenonT(60), <1>2, <2>1 DEF MoveUc
    <2>3. QED
      BY <2>2, BeginPutsType DEF TypeOK
  <1>3. ASSUME NEW t \in WorkflowStates, MoveUs(s, t) PROVE TypeOK'
    <2>1. PICK c \in Call :
            c = [Idle(TRUE) EXCEPT !.at = "list_story", !.op = "move_us",
                                   !.target = t]
      BY DEF Idle, Call
    <2>2. Open(s, c) /\ uc' = uc /\ story' = story
      BY <1>3, <2>1 DEF MoveUs
    <2>3. QED
      BY <2>2, BeginPutsType DEF TypeOK
  <1>4. QED
    BY <1>1, <1>2, <1>3

LEMMA TypeStep == TypeOK /\ [Next]_vars => TypeOK'
  <1> SUFFICES ASSUME TypeOK, [Next]_vars PROVE TypeOK'
    OBVIOUS
  <1>1. CASE UNCHANGED vars
    BY <1>1 DEF TypeOK, vars
  <1>2. ASSUME NEW u \in UC, Archive(u) \/ Purge(u) \/ AddUc(u) PROVE TypeOK'
    BY <1>2, MeetType DEF Archive, Purge, AddUc, TypeOK
  <1>3. ASSUME NEW s \in Session, Fail(s) PROVE TypeOK'
    BY <1>3, ReturnType DEF Fail, TypeOK
  <1>4. QED
    BY <1>1, <1>2, <1>3, BeginType, ListStoryType, ListUcsType, UpdateUcType,
       SyncType, MoveStoryType, CascadeType
    DEF Next

\* Every reachable state of a story and its UCs has the declared types,
\* whether calls overlap or not.
THEOREM TypeCorrect == Spec => []TypeOK
  <1>1. Init => TypeOK
    BY IdleType DEF Init, TypeOK
  <1>2. QED
    BY <1>1, TypeStep, PTL DEF Spec

-----------------------------------------------------------------------------
(* Every action keeps the invariant                                        *)

LEMMA BeginKeeps ==
  ASSUME IInv, TypeOK', NEW s \in Session,
         \/ \E u \in UC : StartUc(s, u) \/ \E t \in WorkflowStates : MoveUc(s, u, t)
         \/ \E t \in WorkflowStates : MoveUs(s, t)
  PROVE  IInv'
  <1>1. ASSUME NEW u \in UC, StartUc(s, u) PROVE IInv'
    <2>1. PICK c \in Call :
            c = [Idle(TRUE) EXCEPT !.at = "list_story", !.op = "start_uc",
                                   !.uc = u, !.target = "in_progress"]
      BY DEF Idle, Call
    <2>2. /\ c.at = "list_story" /\ c.op = "start_uc" /\ c.uc = u
          /\ c.target = "in_progress"
      BY <2>1 DEF Idle
    <2>3. Open(s, c) /\ uc'[u] = "in_progress"
      BY ZenonT(60), <1>1, <2>1 DEF StartUc, IInv, TypeOK
    <2>4. QED
      BY <2>2, <2>3, OpenKeeps DEF StillTrue
  <1>2. ASSUME NEW u \in UC, NEW t \in WorkflowStates, MoveUc(s, u, t)
        PROVE  IInv'
    <2>1. PICK c \in Call :
            c = [Idle(TRUE) EXCEPT !.at = "list_story", !.op = "move_uc",
                                   !.uc = u, !.target = t]
      <3>1. Idle(TRUE) \in Call
        BY IdleType
      <3>2. QED
        BY <3>1 DEF Call
    <2>2. c.at = "list_story" /\ c.op = "move_uc" /\ c.uc = u
      BY <2>1 DEF Idle
    <2>3. Open(s, c)
      BY ZenonT(60), <1>2, <2>1 DEF MoveUc
    <2>4. QED
      BY <2>2, <2>3, OpenKeeps DEF StillTrue
  <1>3. ASSUME NEW t \in WorkflowStates, MoveUs(s, t) PROVE IInv'
    <2>1. PICK c \in Call :
            c = [Idle(TRUE) EXCEPT !.at = "list_story", !.op = "move_us",
                                   !.target = t]
      BY DEF Idle, Call
    <2>2. c.at = "list_story" /\ c.op = "move_us"
      BY <2>1 DEF Idle
    <2>3. Open(s, c)
      BY <1>3, <2>1 DEF MoveUs
    <2>4. QED
      BY <2>2, <2>3, OpenKeeps DEF StillTrue
  <1>4. QED
    BY <1>1, <1>2, <1>3

LEMMA ListStoryKeeps ==
  ASSUME IInv, TypeOK', NEW s \in Session, ListStory(s) PROVE IInv'
  <1> DEFINE b == call[s]
  <1>1. b \in Call /\ story \in WorkflowStates /\ b.at = "list_story"
        /\ (b.met \/ StillTrue(b))
    BY DEF IInv, TypeOK, ListStory
  <1>2. PICK c \in Call : c = [b EXCEPT !.at = "list_ucs", !.story = story]
    BY <1>1 DEF Call
  <1>3. /\ c.at = "list_ucs" /\ c.met = b.met /\ c.story = story /\ c.op = b.op /\ c.uc = b.uc
        /\ c.target = b.target
    BY <1>1, <1>2 DEF Call
  <1>4. Put(s, c) /\ UNCHANGED <<story, uc>>
    BY <1>2 DEF ListStory
  <1>5. c.met \/ StillTrue(c)'
    BY <1>1, <1>3, <1>4 DEF StillTrue
  <1>6. QED
    BY <1>1, <1>3, <1>4, <1>5, PutKeeps

LEMMA ListUcsKeeps ==
  ASSUME IInv, TypeOK', NEW s \in Session, ListUcs(s) PROVE IInv'
  <1> DEFINE b == call[s]
             at == CASE b.op = "move_uc" -> "update"
                     [] b.op = "start_uc" -> "sync"
                     [] OTHER -> "move"
  <1>1. b \in Call /\ uc \in [UC -> UcStates] /\ b.at = "list_ucs"
        /\ (b.met \/ StillTrue(b)) /\ UNCHANGED <<story, uc>>
    BY DEF IInv, TypeOK, ListUcs
  <1>2. CASE Return(s, FALSE)
    BY <1>1, <1>2, ReturnKeeps
  <1>3. CASE /\ ~(b.op = "move_us" /\ MoveRefused(b.target, uc))
             /\ ~(b.op # "move_us" /\ uc[b.uc] = "gone")
             /\ Put(s, [b EXCEPT !.at = at, !.seen = uc])
    <2>1. PICK c \in Call : c = [b EXCEPT !.at = at, !.seen = uc]
      BY <1>1 DEF Call
    <2>2. /\ c.at = at /\ c.met = b.met /\ c.seen = uc /\ c.op = b.op /\ c.uc = b.uc
          /\ c.target = b.target /\ c.story = b.story
      BY <1>1, <2>1 DEF Call
    <2>3. b.op \in Listing
      BY <1>1 DEF Call
    <2>4. MoveRefused(c.target, uc)' = MoveRefused(c.target, uc)
      BY <1>1 DEF MoveRefused, Children
    <2>5. c.met \/ StillTrue(c)'
      <3>1. CASE b.op = "move_uc"
        BY <1>1, <1>3, <2>2, <3>1 DEF StillTrue
      <3>2. CASE b.op = "start_uc"
        BY <1>1, <1>3, <2>2, <3>2 DEF StillTrue
      <3>3. CASE b.op = "move_us"
        BY <1>1, <1>3, <2>2, <2>4, <3>3 DEF StillTrue
      <3>4. QED
        BY <2>3, <3>1, <3>2, <3>3
    <2>6. QED
      BY <1>1, <1>3, <2>1, <2>2, <2>5, PutKeeps
  <1>4. QED
    BY <1>2, <1>3 DEF ListUcs

LEMMA UpdateUcKeeps ==
  ASSUME IInv, TypeOK', NEW s \in Session, UpdateUc(s) PROVE IInv'
  <1> DEFINE b == call[s]
  <1>1. /\ b \in Call /\ b.at = "update" /\ (b.met \/ StillTrue(b)) /\ UNCHANGED story
        /\ uc \in [UC -> UcStates]
    BY DEF IInv, TypeOK, UpdateUc
  <1>2. CASE Return(s, FALSE)
    BY <1>1, <1>2, ReturnKeeps
  <1>3. CASE /\ uc[b.uc] # "gone" /\ uc' = [uc EXCEPT ![b.uc] = b.target]
             /\ Put(s, [b EXCEPT !.at = "sync"])
    <2>1. PICK c \in Call : c = [b EXCEPT !.at = "sync"]
      BY <1>1 DEF Call
    <2>2. /\ c.at = "sync" /\ c.met = b.met /\ c.seen = b.seen /\ c.op = b.op /\ c.uc = b.uc
          /\ c.target = b.target /\ c.story = b.story
      BY <1>1, <2>1 DEF Call
    <2>3. c.met \/ StillTrue(c)'
      BY <1>1, <1>3, <2>2 DEF StillTrue
    <2>4. QED
      BY <1>1, <1>3, <2>1, <2>2, <2>3, PutKeeps
  <1>4. QED
    BY <1>2, <1>3 DEF UpdateUc

LEMMA MoveStoryKeeps ==
  ASSUME IInv, TypeOK', NEW s \in Session, MoveStory(s) PROVE IInv'
  <1> DEFINE b == call[s]
             left == Cascades(b.target, b.seen)
  <1>1. b \in Call /\ b.at = "move" /\ (b.met \/ StillTrue(b)) /\ UNCHANGED uc
    BY DEF IInv, TypeOK, MoveStory
  <1>2. left \in SUBSET UC
    BY DEF Cascades, Children
  <1>3. PICK c \in Call : c = [b EXCEPT !.at = "cascade", !.left = left]
    BY <1>1, <1>2 DEF Call
  <1>4. /\ c.at = "cascade" /\ c.met = b.met /\ c.left = left /\ c.op = b.op
        /\ c.target = b.target
    BY <1>1, <1>3 DEF Call
  <1>6. c.met \/ StillTrue(c)'
    BY <1>1, <1>4 DEF StillTrue
  <1>7. Put(s, c)
    BY <1>3 DEF MoveStory
  <1>8. QED
    BY <1>1, <1>4, <1>6, <1>7, PutKeeps

LEMMA CascadeKeeps ==
  ASSUME IInv, TypeOK', NEW s \in Session, Cascade(s) PROVE IInv'
  <1> DEFINE b == call[s]
  <1>1. /\ b \in Call /\ b.at = "cascade" /\ (b.met \/ StillTrue(b))
        /\ uc \in [UC -> UcStates]
    BY DEF IInv, TypeOK, Cascade
  <1>2. CASE Return(s, TRUE) \/ Return(s, FALSE)
    BY <1>1, <1>2, ReturnKeeps
  <1>3. ASSUME NEW u \in b.left, uc' = [uc EXCEPT ![u] = CascadeTo(b.target)],
               Put(s, [b EXCEPT !.left = @ \ {u}])
        PROVE  IInv'
    <2>1. PICK c \in Call : c = [b EXCEPT !.left = @ \ {u}]
      BY <1>1 DEF Call
    <2>2. /\ c.at = "cascade" /\ c.met = b.met /\ c.left = b.left \ {u} /\ c.op = b.op
          /\ c.target = b.target
      BY <1>1, <2>1 DEF Call
    <2>4. c.met \/ StillTrue(c)'
      BY <1>1, <2>2 DEF StillTrue
    <2>5. QED
      BY <1>1, <1>3, <2>1, <2>2, <2>4, PutKeeps
  <1>4. QED
    BY <1>2, <1>3 DEF Cascade

\* A UC is archived, purged or added: every open call has met it.
LEMMA BetweenCalls ==
  ASSUME IInv, TypeOK', NEW u \in UC, Archive(u) \/ Purge(u) \/ AddUc(u)
  PROVE  IInv'
  <1>1. call' = Meet
    BY DEF Archive, Purge, AddUc
  <1>2. \A s \in Session : call'[s].at = "idle" \/ call'[s].met
    BY <1>1, MeetType DEF IInv
  <1>3. \A s \in Session : (call[s].met \/ StillTrue(call[s]))'
    BY <1>2 DEF StillTrue
  <1>4. QED
    BY <1>2, <1>3 DEF IInv, OneCall

LEMMA InvStep == IInv /\ [Next]_vars => IInv'
  <1> SUFFICES ASSUME IInv, [Next]_vars PROVE IInv'
    OBVIOUS
  <1>1. TypeOK'
    BY TypeStep DEF IInv
  <1>2. CASE UNCHANGED vars
    <2>1. UNCHANGED <<story, uc, call>>
      BY <1>2 DEF vars
    <2>2. \A s \in Session : (call[s].met \/ StillTrue(call[s]))'
      BY <2>1 DEF IInv, StillTrue, MoveRefused, Children
    <2>3. QED
      BY <1>1, <2>1, <2>2 DEF IInv, OneCall
  <1>3. ASSUME NEW s \in Session, Sync(s) \/ Fail(s) PROVE IInv'
    <2>1. call[s].at # "idle" /\ (Return(s, TRUE) \/ Return(s, FALSE))
      BY <1>3 DEF Sync, Fail
    <2>2. QED
      BY <1>1, <2>1, ReturnKeeps
  <1>4. QED
    BY <1>1, <1>2, <1>3, BeginKeeps, ListStoryKeeps, ListUcsKeeps,
       UpdateUcKeeps, MoveStoryKeeps, CascadeKeeps, BetweenCalls
    DEF Next

LEMMA InvInit == Init => IInv
  <1> SUFFICES ASSUME Init PROVE IInv
    OBVIOUS
  <1>1. TypeOK
    BY IdleType DEF Init, TypeOK
  <1>2. \A s \in Session : call[s].at = "idle"
    BY DEF Init, Idle
  <1>3. QED
    BY <1>1, <1>2 DEF IInv, OneCall, StillTrue

\* What an open call has read is still so, as long as it has met no other.
THEOREM Inductive == Spec => []IInv
  <1>1. IInv /\ [Next]_vars => IInv'
    BY InvStep
  <1>2. QED
    BY <1>1, InvInit, PTL DEF Spec

-----------------------------------------------------------------------------
(* Who changes what                                                        *)

LEMMA WhoMovesStory ==
  ASSUME [Next]_vars, story' # story
  PROVE  \E s \in Session : Sync(s) \/ MoveStory(s)
  <1>1. ASSUME NEW u \in UC
        PROVE  /\ ~Archive(u) /\ ~Purge(u) /\ ~AddUc(u)
               /\ \A s \in Session : ~StartUc(s, u)
               /\ \A s \in Session, t \in WorkflowStates : ~MoveUc(s, u, t)
    BY ZenonT(60) DEF Archive, Purge, AddUc, StartUc, MoveUc
  <1>2. ASSUME NEW s \in Session
        PROVE  /\ \A t \in WorkflowStates : ~MoveUs(s, t)
               /\ ~ListStory(s) /\ ~ListUcs(s) /\ ~UpdateUc(s) /\ ~Cascade(s)
               /\ ~Fail(s)
    BY ZenonT(60)
    DEF MoveUs, ListStory, ListUcs, UpdateUc, Cascade, Fail
  <1>3. QED
    BY <1>1, <1>2 DEF Next, vars

\* In Sync, what was listed and where the UC went give what is so.
LEMMA SyncSees ==
  ASSUME IInv, NEW s \in Session, Sync(s), ~call[s].met
  PROVE  /\ call[s].story = story
         /\ uc = [call[s].seen EXCEPT ![call[s].uc] = call[s].target]
         /\ Children(call[s].seen) = Children(uc)
         /\ uc' = uc
         /\ story' = IF DeriveUsState(StatesOf(uc)) \in {NoState, story}
                       THEN story ELSE DeriveUsState(StatesOf(uc))
  <1> DEFINE c == call[s]
  <1>1. c \in Call /\ c.at = "sync" /\ StillTrue(c)
    BY DEF IInv, TypeOK, Sync
  <1>2. /\ c.story = story /\ uc = [c.seen EXCEPT ![c.uc] = c.target]
        /\ c.seen[c.uc] # "gone" /\ c.uc \in UC
    BY <1>1 DEF StillTrue
  <1>3. Children(c.seen) = Children(uc)
    BY <1>1, <1>2 DEF Children, Call
  <1>4. QED
    BY <1>2, <1>3 DEF Sync

\* The story ends where the doc of move_uc says.
LEMMA SyncFollows ==
  ASSUME IInv, NEW s \in Session, Sync(s), ~call[s].met
  PROVE  Follows'
  <1> DEFINE ws == StatesOf(uc) \cap WorkflowStates
             t == DeriveUsState(StatesOf(uc))
  <1>1. /\ "in_progress" \in ws => t = "in_progress"
        /\ "review" \in ws /\ ws \subseteq {"review", "done"} => t = "review"
        /\ ws = {"done"} => t = "done"
    BY DEF DeriveUsState
  <1>2. t # NoState => story' = t
    BY SyncSees
  <1>3. uc' = uc
    BY SyncSees
  <1>4. QED
    BY <1>1, <1>2, <1>3 DEF Follows, StatesOf

-----------------------------------------------------------------------------
(* What holds of every step                                                *)

\* A call on a UC that ends well has just moved the story.
LEMMA EndsInSync ==
  ASSUME IInv, [Next]_vars, NEW s \in Session, ~call[s].met,
         call[s].op \in {"move_uc", "start_uc"}, call[s].at # "idle",
         call'[s].at = "idle", call'[s].ok
  PROVE  Sync(s)
  <1>1. \A r \in Session : \A c : Put(r, c) =>
          call'[s] = IF r = s THEN c ELSE call[s]
    BY DEF Put, IInv, TypeOK
  <1>2. \A r \in Session \ {s} : call[r].at = "idle"
    BY DEF IInv, OneCall
  <1>3. call' # call /\ call' # Meet
    BY MeetType DEF IInv
  <1>4. ~Idle(FALSE).ok
    BY DEF Idle
  <1>5. call[s] \in Call /\ StillTrue(call[s])
    BY DEF IInv, TypeOK
  <1>6. ASSUME NEW r \in Session, r # s
        PROVE  /\ ~ListStory(r) /\ ~ListUcs(r) /\ ~UpdateUc(r) /\ ~Sync(r)
               /\ ~MoveStory(r) /\ ~Cascade(r) /\ ~Fail(r)
    BY ZenonT(60), <1>2, <1>6
    DEF ListStory, ListUcs, UpdateUc, Sync, MoveStory, Cascade, Fail
  <1>7. ASSUME NEW r \in Session
        PROVE  /\ \A u \in UC : ~StartUc(r, u)
               /\ \A u \in UC, t \in WorkflowStates : ~MoveUc(r, u, t)
               /\ \A t \in WorkflowStates : ~MoveUs(r, t)
    <2>1. CASE r = s
      BY ZenonT(60), <2>1 DEF StartUc, MoveUc, MoveUs
    <2>2. CASE r # s
      <3>1. \A c : Open(r, c) => call'[s] = Meet[s]
        BY <2>2, MeetType DEF Open, IInv
      <3>2. \A c : ~Open(r, c)
        BY <3>1, MeetType DEF IInv
      <3>3. QED
        BY ZenonT(60), <3>2 DEF StartUc, MoveUc, MoveUs
    <2>3. QED
      BY SMTT(60), <2>1, <2>2
  <1>8. ~ListStory(s)
    <2>1. SUFFICES ASSUME ListStory(s) PROVE FALSE
      OBVIOUS
    <2>2. call'[s] = [call[s] EXCEPT !.at = "list_ucs", !.story = story]
      BY <1>1, <2>1 DEF ListStory
    <2>3. QED
      BY <1>5, <2>2 DEF Call
  <1>9. ~ListUcs(s)
    <2>1. ~Return(s, FALSE)
      BY <1>1, <1>4 DEF Return
    <2>2. ASSUME NEW at \in {"update", "sync", "move"},
                 Put(s, [call[s] EXCEPT !.at = at, !.seen = uc])
          PROVE  FALSE
      <3>1. call'[s] = [call[s] EXCEPT !.at = at, !.seen = uc]
        BY <1>1, <2>2
      <3>2. QED
        BY <1>5, <2>2, <3>1 DEF Call
    <2>3. ListUcs(s) => \/ Return(s, FALSE)
                        \/ \E at \in {"update", "sync", "move"} :
                             Put(s, [call[s] EXCEPT !.at = at, !.seen = uc])
      BY ZenonT(60) DEF ListUcs
    <2>4. QED
      BY ZenonT(60), <2>1, <2>2, <2>3
  <1>10. ~UpdateUc(s) /\ ~Fail(s)
    <2>1. ~Return(s, FALSE)
      BY <1>1, <1>4 DEF Return
    <2>2. ~Put(s, [call[s] EXCEPT !.at = "sync"])
      <3>1. SUFFICES ASSUME Put(s, [call[s] EXCEPT !.at = "sync"]) PROVE FALSE
        OBVIOUS
      <3>2. call'[s] = [call[s] EXCEPT !.at = "sync"]
        BY <1>1, <3>1
      <3>3. QED
        BY <1>5, <3>2 DEF Call
    <2>3. QED
      BY <2>1, <2>2 DEF UpdateUc, Fail
  <1>11. ~MoveStory(s) /\ ~Cascade(s)
    BY <1>5 DEF MoveStory, Cascade, StillTrue
  <1>12. \A u \in UC : ~Archive(u) /\ ~Purge(u) /\ ~AddUc(u)
    BY <1>3 DEF Archive, Purge, AddUc
  <1>13. Next
    BY <1>3 DEF vars
  <1>14. QED
    BY <1>6, <1>7, <1>8, <1>9, <1>10, <1>11, <1>12, <1>13 DEF Next

\* After a start_uc, move_uc or complete_uc that met no other call the story
\* follows its UCs, whatever overlapping, stale and failed calls had left.
THEOREM TheStoryFollows == Spec => StoryFollows
  <1> DEFINE A == \A s \in Session :
                    /\ call[s].at # "idle" /\ call[s].op \in {"move_uc", "start_uc"}
                    /\ ~call[s].met
                    /\ call'[s].at = "idle" /\ call'[s].ok
                    => Follows'
  <1>1. ASSUME IInv, [Next]_vars PROVE A
    BY <1>1, EndsInSync, SyncFollows
  <1>2. IInv /\ [Next]_vars => [A]_vars
    BY <1>1
  <1>3. QED
    BY <1>2, Inductive, PTL DEF Spec, StoryFollows

\* A call that met no other takes the story to review or done only when all
\* its UCs are there.
THEOREM TheStoryClosesLast == Spec => StoryClosesLast
  <1> DEFINE A == story' # story /\ story' \in {"review", "done"} =>
                    \A s \in Session :
                      call[s].at \in {"sync", "move"} /\ ~call[s].met =>
                        \A u \in UC : uc'[u] \in WorkflowStates =>
                          uc'[u] \in {story', "done"}
  <1>1. ASSUME IInv, [Next]_vars PROVE A
    <2> SUFFICES ASSUME story' # story, story' \in {"review", "done"},
                        NEW s \in Session, call[s].at \in {"sync", "move"},
                        ~call[s].met,
                        NEW u \in UC, uc'[u] \in WorkflowStates
                 PROVE  uc'[u] \in {story', "done"}
      OBVIOUS
    <2>1. \A r \in Session \ {s} : call[r].at = "idle"
      BY <1>1 DEF IInv, OneCall
    <2>2. Sync(s) \/ MoveStory(s)
      <3>1. PICK r \in Session : Sync(r) \/ MoveStory(r)
        BY <1>1, WhoMovesStory
      <3>2. call[r].at # "idle"
        BY <3>1 DEF Sync, MoveStory
      <3>3. QED
        BY <2>1, <3>1, <3>2
    <2>3. CASE Sync(s)
      <3>1. story' = DeriveUsState(StatesOf(uc)) /\ uc' = uc
        BY <1>1, <2>3, SyncSees
      <3>2. uc[u] \in StatesOf(uc) \cap WorkflowStates
        BY <3>1 DEF StatesOf
      <3>3. QED
        BY <3>1, <3>2 DEF DeriveUsState
    <2>4. CASE MoveStory(s)
      <3>1. StillTrue(call[s]) /\ call[s].at = "move" /\ uc' = uc
            /\ story' = call[s].target
        BY <1>1, <2>4 DEF IInv, MoveStory
      <3>2. ~MoveRefused(story', uc)
        BY <3>1 DEF StillTrue
      <3>3. QED
        BY <3>1, <3>2 DEF MoveRefused, Children
    <2>5. QED
      BY <2>2, <2>3, <2>4
  <1>2. IInv /\ [Next]_vars => [A]_vars
    BY <1>1
  <1>3. QED
    BY <1>2, Inductive, PTL DEF Spec, StoryClosesLast

=============================================================================
