-------------------------- MODULE BoardMirrorProofs --------------------------
(***************************************************************************)
(* Proofs about BoardMirror.                                               *)
(*                                                                         *)
(* That the mirror keeps the hierarchy needs only that the primary does,   *)
(* and so everything that was read of it (BaseInv), however calls overlap. *)
(* That drift has a cause, and that an attached mirror is whole, are about *)
(* calls that do not overlap on an item and its kin: then each call knows  *)
(* what stands on both sides at its item (WriteSound), and what was read   *)
(* for a backfill is still there (ReadSound).                              *)
(***************************************************************************)
EXTENDS BoardMirror, FiniteSetTheorems, TLAPS

\* No use case without its story.
Hierarchy(b) == \A c \in Cases : b[c] # Absent => b[StoryOf[c]] # Absent

BaseInv ==
    /\ TypeOK
    /\ Hierarchy(primary) /\ Hierarchy(mirror)
    /\ \A s \in Sessions : Enabling(s) => Hierarchy(call[s].read)

-----------------------------------------------------------------------------
\* What the kinds of call are made of.
LEMMA WriteShapes ==
    ASSUME NEW w \in Writes
    PROVE  /\ w.item \in Items /\ w \in Calls /\ w # None /\ w \notin Enablings
           /\ w.op \in {"create", "update", "purge"}
           /\ w.op # "purge" => w.content \in Contents /\ w.content # Absent
           /\ w.op = "purge" => w.item \in Cases /\ w.item \notin Stories
<1>1. w \in Calls /\ w # None
  BY NoneIsNoCall DEF Calls
<1>2. CASE w \in [op : {"create", "update"}, item : Items, content : Contents]
  BY <1>1, <1>2, AbsentIsNoContent DEF Enablings
<1>3. CASE w \in [op : {"purge"}, item : Cases, found : BOOLEAN, gone : BOOLEAN]
  BY <1>1, <1>3, StoriesAreNotCases DEF Items, Enablings
<1>. QED  BY <1>2, <1>3 DEF Writes

\* A purge that goes on to the mirror.
LEMMA PurgeShapes ==
    ASSUME NEW w \in Writes, w.op = "purge",
           NEW g, g = [w EXCEPT !.gone = TRUE]
    PROVE  /\ g \in Writes /\ g.op = "purge" /\ g.item = w.item
           /\ g.found = w.found /\ g.gone /\ w.found \in BOOLEAN
<1>1. w \in [op : {"purge"}, item : Cases, found : BOOLEAN, gone : BOOLEAN]
  BY DEF Writes
<1>2. g \in [op : {"purge"}, item : Cases, found : BOOLEAN, gone : BOOLEAN]
  BY <1>1
<1>. QED  BY <1>1, <1>2 DEF Writes

LEMMA EnablingShapes ==
    ASSUME NEW e \in Enablings
    PROVE  /\ e \in Calls /\ e # None /\ e \notin Writes
           /\ e.op \in Stages /\ e.read \in Boards
           /\ \A f, st : st \in Stages /\ f = [e EXCEPT !.op = st] =>
                f \in Enablings /\ f.read = e.read /\ f.op = st
<1>1. e \in Calls /\ e # None
  BY NoneIsNoCall DEF Calls
<1>2. e \notin Writes
  BY WriteShapes
<1>. QED  BY <1>1, <1>2 DEF Enablings

LEMMA NewWrites ==
    /\ \A i \in Items, v \in Contents :
         /\ [op |-> "create", item |-> i, content |-> v] \in Writes
         /\ [op |-> "update", item |-> i, content |-> v] \in Writes
    /\ \A c \in Cases, f \in BOOLEAN :
         [op |-> "purge", item |-> c, gone |-> FALSE, found |-> f] \in Writes
BY DEF Writes

LEMMA NoneIsNothing == None \notin Writes /\ None \notin Enablings
BY NoneIsNoCall DEF Calls

\* A board with one item written is a board, and the others are as they were.
LEMMA OneItem ==
    ASSUME NEW b \in Boards, NEW i \in Items, NEW v \in Contents \cup {Absent}
    PROVE  /\ [b EXCEPT ![i] = v] \in Boards
           /\ [b EXCEPT ![i] = v][i] = v
           /\ \A j \in Items \ {i} : [b EXCEPT ![i] = v][j] = b[j]
BY DEF Boards

LEMMA StoryIsItem ==
    ASSUME NEW c \in Cases
    PROVE  /\ c \in Items /\ StoryOf[c] \in Items /\ StoryOf[c] \in Stories
           /\ StoryOf[c] # c
BY CasesHaveStories, StoriesAreNotCases DEF Items

\* What a write leaves on the mirror: its item, and nothing else.
LEMMA CopiedItem ==
    ASSUME NEW w \in Writes, mirror \in Boards
    PROVE  /\ Copied(w) \in Boards
           /\ \A j \in Items \ {w.item} : Copied(w)[j] = mirror[j]
           /\ w.op = "create" => Copied(w)[w.item] =
                IF mirror[w.item] = Absent THEN w.content ELSE mirror[w.item]
           /\ w.op = "update" => Copied(w)[w.item] = w.content
           /\ w.op = "purge" => Copied(w)[w.item] = Absent
<1>0. w.item \in Items /\ (w.op # "purge" => w.content \in Contents)
  BY WriteShapes
<1>1. CASE w.op = "create"
  BY <1>0, <1>1, OneItem DEF Copied
<1>2. CASE w.op = "update"
  BY <1>0, <1>2, OneItem DEF Copied
<1>3. CASE w.op = "purge"
  BY <1>0, <1>3, OneItem DEF Copied
<1>. QED  BY <1>1, <1>2, <1>3, WriteShapes

-----------------------------------------------------------------------------
LEMMA InitBase == Init => BaseInv
<1> SUFFICES ASSUME Init PROVE BaseInv
  OBVIOUS
<1>1. mirror \in Boards /\ \A i \in Items : mirror[i] = Absent
  BY DEF Init, Boards
<1>2. \A s \in Sessions : ~Enabling(s)
  BY NoneIsNothing DEF Init, Enabling
<1>3. Hierarchy(mirror) /\ Hierarchy(primary)
  BY <1>1, StoryIsItem DEF Hierarchy, Init
<1>4. call \in [Sessions -> Calls \cup {None}]
  BY DEF Init
<1>5. TypeOK
  <2>1. primary \in Boards /\ apart \subseteq Items /\ attached \subseteq Sessions
    BY DEF Init, Held
  <2>2. writes \in 0..MaxWrites /\ faults \in 0..MaxFaults
    BY BoundsAreNumbers DEF Init
  <2>3. on \in BOOLEAN
    BY DEF Init
  <2>. QED  BY <1>1, <1>4, <2>1, <2>2, <2>3 DEF TypeOK
<1>. QED  BY <1>2, <1>3, <1>5 DEF BaseInv

\* A session's call is replaced by one with its type and, when it is an enabling,
\* with a hierarchy; the boards keep theirs.
LEMMA BaseStep ==
    ASSUME BaseInv, NEW s \in Sessions,
           NEW new \in Calls \cup {None}, call' = [call EXCEPT ![s] = new],
           new \in Enablings => Hierarchy(new.read),
           primary' \in Boards, mirror' \in Boards, apart' \subseteq Items,
           Hierarchy(primary'), Hierarchy(mirror'),
           on' \in BOOLEAN, attached' \subseteq Sessions,
           writes' \in 0..MaxWrites, faults' \in 0..MaxFaults
    PROVE  BaseInv'
<1>1. call' \in [Sessions -> Calls \cup {None}]
  BY DEF BaseInv, TypeOK
<1>2. \A t \in Sessions : Enabling(t)' => Hierarchy(call'[t].read)
  BY DEF BaseInv, TypeOK, Enabling
<1>. QED  BY <1>1, <1>2 DEF BaseInv, TypeOK, Hierarchy

LEMMA BeginCounts ==
    ASSUME TypeOK, NEW s \in Sessions, Begin(s) PROVE writes' \in 0..MaxWrites
BY BoundsAreNumbers DEF TypeOK, Begin

LEMMA FaultCounts ==
    ASSUME TypeOK, Fault PROVE faults' \in 0..MaxFaults
BY BoundsAreNumbers DEF TypeOK, Fault

LEMMA BaseForward ==
    ASSUME TypeOK, NEW s \in Sessions, NEW w \in Writes, Forward(s, w)
    PROVE  /\ apart \subseteq apart' /\ apart' \subseteq apart \cup {w.item}
           /\ apart' \subseteq Items
           /\ \/ s \in attached /\ apart' = apart /\ call' = [call EXCEPT ![s] = w]
              \/ /\ s \notin attached /\ apart' = apart \cup {w.item}
                 /\ call' = [call EXCEPT ![s] = None]
<1>1. w.item \in Items
  BY WriteShapes
<1>. QED  BY <1>1 DEF TypeOK, Forward, End

LEMMA BaseCreate ==
    ASSUME BaseInv, NEW s \in Sessions, NEW i \in Items, NEW v \in Contents,
           Create(s, i, v) \/ Update(s, i, v)
    PROVE  BaseInv'
<1>1. TypeOK /\ primary \in Boards
  BY DEF BaseInv, TypeOK
<1>2. primary' = [primary EXCEPT ![i] = v] /\ v # Absent /\ v \in Contents \cup {Absent}
  BY AbsentIsNoContent DEF Create, Update
<1>3. /\ primary' \in Boards /\ primary'[i] = v
      /\ \A j \in Items \ {i} : primary'[j] = primary[j]
  BY <1>1, <1>2 DEF Boards
<1>4. i \in Cases => primary[StoryOf[i]] # Absent
  BY AbsentIsNoContent DEF Create, Update, BaseInv, Hierarchy
<1>5. Hierarchy(primary')
  BY <1>2, <1>3, <1>4, StoryIsItem DEF BaseInv, Hierarchy
<1>6. PICK w \in Writes : Forward(s, w)
  BY NewWrites DEF Create, Update
<1>7. PICK new \in Calls \cup {None} :
        call' = [call EXCEPT ![s] = new] /\ new \notin Enablings
  <2>1. w \in (Calls \cup {None}) \ Enablings /\ None \notin Enablings
    BY WriteShapes, NoneIsNothing
  <2>. QED  BY <1>1, <1>6, <2>1, BaseForward
<1>8. apart' \subseteq Items
  BY <1>1, <1>6, BaseForward
<1>9. UNCHANGED <<mirror, on, attached, faults>> /\ writes' \in 0..MaxWrites
  BY <1>1, BeginCounts DEF Create, Update
<1>. QED
  BY <1>1, <1>3, <1>5, <1>7, <1>8, <1>9, BaseStep DEF BaseInv, TypeOK

LEMMA BaseLookUp ==
    ASSUME BaseInv, NEW s \in Sessions, NEW c \in Cases, LookUp(s, c)
    PROVE  BaseInv'
<1>1. TypeOK /\ c \in Items
  BY StoryIsItem DEF BaseInv
<1>2. PICK f \in BOOLEAN :
        call' = [call EXCEPT ![s] = [op |-> "purge", item |-> c, gone |-> FALSE,
                                     found |-> f]]
  BY DEF LookUp
<1>3. [op |-> "purge", item |-> c, gone |-> FALSE, found |-> f]
        \in (Calls \cup {None}) \ Enablings
  BY NewWrites, WriteShapes
<1>4. apart' \subseteq Items /\ writes' \in 0..MaxWrites /\ faults' \in 0..MaxFaults
  BY <1>1, BeginCounts, FaultCounts DEF LookUp, TypeOK
<1>5. UNCHANGED <<primary, mirror, on, attached>>
  BY DEF LookUp
<1>. QED  BY <1>1, <1>2, <1>3, <1>4, <1>5, BaseStep DEF BaseInv, TypeOK

LEMMA BasePurge ==
    ASSUME BaseInv, NEW s \in Sessions, Purge(s) PROVE BaseInv'
<1> DEFINE w == call[s]
           g == [w EXCEPT !.gone = TRUE]
<1>1. TypeOK /\ primary \in Boards /\ w \in Writes /\ w.op = "purge"
  BY DEF BaseInv, TypeOK, Purge
<1>2. w.item \in Cases /\ w.item \in Items /\ g \in Writes
  BY <1>1, WriteShapes, PurgeShapes
<1>3. primary' = [primary EXCEPT ![w.item] = Absent] /\ Absent \in Contents \cup {Absent}
  BY DEF Purge
<1>7. Forward(s, g)
  BY DEF Purge
<1>. HIDE DEF w, g
<1>4. /\ primary' \in Boards /\ primary'[w.item] = Absent
      /\ \A j \in Items \ {w.item} : primary'[j] = primary[j]
  BY <1>1, <1>2, <1>3 DEF Boards
<1>5. \A c \in Cases : StoryOf[c] # w.item
  BY <1>2, CasesHaveStories, StoriesAreNotCases
<1>6. Hierarchy(primary')
  BY <1>4, <1>5, StoryIsItem DEF BaseInv, Hierarchy
<1>8. PICK new \in Calls \cup {None} :
        call' = [call EXCEPT ![s] = new] /\ new \notin Enablings
  <2>1. g \in (Calls \cup {None}) \ Enablings /\ None \notin Enablings
    BY <1>2, WriteShapes, NoneIsNothing
  <2>. QED  BY <1>1, <1>2, <1>7, <2>1, BaseForward
<1>9. apart' \subseteq Items
  BY <1>1, <1>2, <1>7, BaseForward
<1>10. UNCHANGED <<mirror, on, attached, writes, faults>>
  BY DEF Purge
<1>. QED
  BY <1>1, <1>4, <1>6, <1>8, <1>9, <1>10, BaseStep DEF BaseInv, TypeOK

\* A case is created on the mirror under its story; a story is never removed.
LEMMA CopiedHierarchy ==
    ASSUME BaseInv, NEW w \in Writes, Resolved(w) PROVE Hierarchy(Copied(w))
<1>1. mirror \in Boards /\ Hierarchy(mirror) /\ w.item \in Items
  BY WriteShapes DEF BaseInv, TypeOK
<1> SUFFICES ASSUME NEW c \in Cases, Copied(w)[c] # Absent
             PROVE  Copied(w)[StoryOf[c]] # Absent
  BY DEF Hierarchy
<1>2. c \in Items /\ StoryOf[c] \in Items /\ StoryOf[c] # c
  BY StoryIsItem
<1>3. w.op = "purge" => w.item # StoryOf[c]
  BY WriteShapes, CasesHaveStories, StoriesAreNotCases
<1>4. CASE w.item = c
  <2>1. mirror[StoryOf[c]] # Absent
    BY <1>1, <1>2, <1>4, CopiedItem, WriteShapes DEF Resolved, Hierarchy
  <2>. QED  BY <1>1, <1>2, <1>4, <2>1, CopiedItem
<1>5. CASE w.item # c
  <2>1. mirror[c] # Absent
    BY <1>1, <1>2, <1>5, CopiedItem
  <2>2. mirror[StoryOf[c]] # Absent
    BY <1>1, <2>1 DEF Hierarchy
  <2>3. CASE w.item # StoryOf[c]
    BY <1>1, <1>2, <2>2, <2>3, CopiedItem
  <2>4. CASE w.item = StoryOf[c]
    <3>1. w.op # "purge" => w.content # Absent
      BY WriteShapes
    <3>. QED  BY <1>1, <1>3, <2>2, <2>4, <3>1, CopiedItem, WriteShapes
  <2>. QED  BY <2>3, <2>4
<1>. QED  BY <1>4, <1>5

\* A write that has been made on the primary: the mirror may follow, and whether
\* it does or not the call ends.
LEMMA BaseMirrored ==
    ASSUME BaseInv, NEW s \in Sessions,
           Copy(s) \/ Skip(s) \/ Swallow(s)
    PROVE  BaseInv'
<1> DEFINE w == call[s]
<1>1. TypeOK /\ w \in Writes /\ w.item \in Items
  <2>1. w \in Writes
    BY DEF Copy, Skip, Swallow, Forwarded
  <2>. QED  BY <2>1, WriteShapes DEF BaseInv
<1>2. mirror' = mirror \/ (Resolved(w) /\ mirror' = Copied(w))
  BY DEF Copy, Skip, Swallow
<1>3. /\ call' = [call EXCEPT ![s] = None]
      /\ apart' \subseteq apart \cup {w.item}
      /\ UNCHANGED <<primary, on, attached, writes>>
  BY DEF Copy, Skip, Swallow, End
<1>4. faults' \in 0..MaxFaults
  BY <1>1, FaultCounts DEF Copy, Skip, Swallow, TypeOK
<1>. HIDE DEF w
<1>5. mirror' \in Boards /\ Hierarchy(mirror')
  BY <1>1, <1>2, CopiedItem, CopiedHierarchy DEF BaseInv, TypeOK
<1>6. None \in Calls \cup {None} /\ None \notin Enablings
  BY NoneIsNothing
<1>. QED  BY <1>1, <1>3, <1>4, <1>5, <1>6, BaseStep DEF BaseInv, TypeOK

\* The mirror keeps its hierarchy when what it lacks comes from a board with one.
LEMMA FilledHierarchy ==
    ASSUME BaseInv, NEW read \in Boards, Hierarchy(read)
    PROVE  Filled(read) \in Boards /\ Hierarchy(Filled(read))
<1>1. mirror \in Boards /\ Hierarchy(mirror)
  BY DEF BaseInv, TypeOK
<1>2. Filled(read) \in Boards
  BY <1>1 DEF Filled, Boards
<1>3. \A i \in Items : Filled(read)[i] = IF mirror[i] = Absent THEN read[i] ELSE mirror[i]
  BY DEF Filled
<1>. QED  BY <1>1, <1>2, <1>3, StoryIsItem DEF Hierarchy

\* An enabling goes on to its next stage with what it read.
LEMMA Advanced ==
    ASSUME TypeOK, NEW s \in Sessions, Verify(s) \/ Persist(s)
    PROVE  \E f \in Enablings :
             /\ call' = [call EXCEPT ![s] = f] /\ f.read = call[s].read
             /\ f.op \in {"verified", "kept"} => call[s].op \in {"backfilled", "verified"}
             /\ f.op # "backfilled"
             /\ f.op = "kept" => call[s].op = "verified"
             /\ f.op = "verified" => Verify(s)
<1>1. PICK e \in Enablings : e = call[s]
  BY DEF Verify, Persist
<1>2. CASE Verify(s)
  <2>1. PICK f : f = [e EXCEPT !.op = "verified"]
    OBVIOUS
  <2>2. call' = [call EXCEPT ![s] = f] /\ e.op = "backfilled"
    BY <1>1, <1>2, <2>1 DEF Verify
  <2>3. f \in Enablings /\ f.read = e.read /\ f.op = "verified"
    BY <2>1, EnablingShapes DEF Stages
  <2>. QED  BY <1>1, <1>2, <2>2, <2>3
<1>3. CASE Persist(s)
  <2>1. PICK st \in {"kept", "unchecked"} :
          /\ st = IF e.op = "verified" THEN "kept" ELSE "unchecked"
          /\ call' = [call EXCEPT ![s].op = st]
    BY <1>1, <1>3 DEF Persist
  <2>2. PICK f : f = [e EXCEPT !.op = st]
    OBVIOUS
  <2>3. call' = [call EXCEPT ![s] = f]
    BY <1>1, <2>1, <2>2
  <2>4. f \in Enablings /\ f.read = e.read /\ f.op = st
    BY <2>2, EnablingShapes DEF Stages
  <2>. QED  BY <1>1, <2>1, <2>3, <2>4
<1>. QED  BY <1>2, <1>3

LEMMA BaseEnable ==
    ASSUME BaseInv, NEW s \in Sessions,
           \/ Read(s) \/ Backfill(s) \/ Verify(s) \/ Persist(s) \/ Attach(s) \/ GiveUp(s)
    PROVE  BaseInv'
<1>1. TypeOK /\ primary \in Boards
  BY DEF BaseInv, TypeOK
<1>2. CASE Read(s)
  <2> DEFINE e == [op |-> "read", read |-> primary]
  <2>1. e \in Calls \cup {None} /\ Hierarchy(e.read)
    BY <1>1 DEF Calls, Enablings, Stages, BaseInv
  <2>2. /\ call' = [call EXCEPT ![s] = e] /\ writes' \in 0..MaxWrites
        /\ UNCHANGED <<primary, mirror, on, attached, apart, faults>>
    BY <1>1, <1>2, BeginCounts DEF Read
  <2>. HIDE DEF e
  <2>. QED  BY <1>1, <2>1, <2>2, BaseStep DEF BaseInv, TypeOK
<1>3. CASE Backfill(s)
  <2> DEFINE e == call[s]
             f == [e EXCEPT !.op = "backfilled"]
  <2>1. /\ e \in Enablings /\ mirror' = Filled(e.read) /\ apart' \subseteq apart
        /\ call' = [call EXCEPT ![s] = f]
        /\ UNCHANGED <<primary, on, attached, writes, faults>>
    BY <1>1, <1>3 DEF Backfill, TypeOK
  <2>2. Hierarchy(e.read)
    BY <2>1 DEF BaseInv, Enabling
  <2>3. e.read \in Boards /\ f \in Calls \cup {None} /\ f.read = e.read
    <3>1. "backfilled" \in Stages
      BY DEF Stages
    <3>. QED  BY <2>1, <3>1, EnablingShapes
  <2>. HIDE DEF e, f
  <2>4. mirror' \in Boards /\ Hierarchy(mirror')
    BY <2>1, <2>2, <2>3, FilledHierarchy
  <2>. QED  BY <1>1, <2>1, <2>2, <2>3, <2>4, BaseStep DEF BaseInv, TypeOK
<1>4. CASE GiveUp(s) \/ Attach(s)
  <2>1. /\ call' = [call EXCEPT ![s] = None] /\ on' \in BOOLEAN
        /\ attached' \subseteq Sessions
        /\ UNCHANGED <<primary, mirror, apart, writes, faults>>
    BY <1>1, <1>4 DEF GiveUp, Attach, End, TypeOK
  <2>2. None \in Calls \cup {None} /\ None \notin Enablings
    BY NoneIsNothing
  <2>. QED  BY <1>1, <2>1, <2>2, BaseStep DEF BaseInv, TypeOK
<1>5. CASE Verify(s) \/ Persist(s)
  <2>1. PICK f \in Enablings : call' = [call EXCEPT ![s] = f] /\ f.read = call[s].read
    BY <1>1, <1>5, Advanced
  <2>2. f \in Calls \cup {None} /\ Hierarchy(f.read)
    BY <1>5, <2>1, EnablingShapes DEF BaseInv, Enabling, Verify, Persist
  <2>3. on' \in BOOLEAN /\ UNCHANGED <<primary, mirror, attached, apart, writes, faults>>
    BY <1>1, <1>5 DEF Verify, Persist, TypeOK
  <2>. QED  BY <1>1, <2>1, <2>2, <2>3, BaseStep DEF BaseInv, TypeOK
<1>. QED  BY <1>2, <1>3, <1>4, <1>5

LEMMA BaseEnd ==
    ASSUME BaseInv, NEW s \in Sessions, Refuse(s) \/ Disable(s) \/ Leave(s)
    PROVE  BaseInv'
<1>1. TypeOK
  BY DEF BaseInv
<1>2. PICK new \in Calls \cup {None} :
        call' = [call EXCEPT ![s] = new] /\ (new = None \/ new = call[s])
  <2>1. CASE Refuse(s) \/ Leave(s)
    BY <2>1 DEF Refuse, Leave, End
  <2>2. CASE Disable(s)
    <3>1. call' = [call EXCEPT ![s] = call[s]]
      BY <1>1, <2>2 DEF Disable, TypeOK
    <3>. QED  BY <1>1, <3>1 DEF TypeOK
  <2>. QED  BY <2>1, <2>2
<1>3. new \in Enablings => Hierarchy(new.read)
  BY <1>2, NoneIsNothing DEF BaseInv, Enabling
<1>4. apart' \subseteq Items
  BY <1>1, WriteShapes DEF Refuse, Disable, Leave, Forwarded, TypeOK
<1>5. /\ on' \in BOOLEAN /\ attached' \subseteq Sessions
      /\ UNCHANGED <<primary, mirror, writes, faults>>
  BY <1>1 DEF Refuse, Disable, Leave, TypeOK
<1>. QED  BY <1>1, <1>2, <1>3, <1>4, <1>5, BaseStep DEF BaseInv, TypeOK

LEMMA NextBase == BaseInv /\ [Next]_vars => BaseInv'
<1>1. ASSUME BaseInv, Next PROVE BaseInv'
  BY <1>1, BaseCreate, BaseLookUp, BasePurge, BaseMirrored, BaseEnable, BaseEnd
  DEF Next
<1>2. ASSUME BaseInv, UNCHANGED vars PROVE BaseInv'
  BY <1>2 DEF BaseInv, vars, TypeOK, Hierarchy, Enabling
<1>. QED  BY <1>1, <1>2

LEMMA BaseIsInductive == Spec => []BaseInv
BY InitBase, NextBase, PTL DEF Spec

\* Every variable has its type, whether calls overlap or not.
THEOREM TypeCorrect == Spec => []TypeOK
BY BaseIsInductive, PTL DEF BaseInv

\* No write, backfill or purge leaves a use case on the mirror without its story,
\* whatever was lost and however the calls overlap.
THEOREM HierarchyIsKept == Spec => []MirrorKeepsHierarchy
<1>1. BaseInv => MirrorKeepsHierarchy
  BY DEF BaseInv, Hierarchy, MirrorKeepsHierarchy
<1>. QED  BY <1>1, BaseIsInductive, PTL

-----------------------------------------------------------------------------
\* Calls about an item and its kin do not overlap.
NoOverlap == Overlap = FALSE

\* Of a write to its item, on a primary p with a mirror m and items ap apart: what
\* it will leave on the mirror is what stands on the primary, and where it leaves
\* the mirror as it is, that is the item of the primary already or is known apart.
WriteSound(w, p, m, ap, isAttached) ==
    /\ w.op = "create" => /\ w.content = p[w.item]
                          /\ m[w.item] \in {Absent, p[w.item]} \/ w.item \in ap
    /\ w.op = "update" => /\ w.content = p[w.item]
                          /\ m[w.item] = Absent => w.item \in ap
    /\ w.op = "purge" => /\ w.gone => isAttached /\ p[w.item] = Absent
                         /\ isAttached /\ ~w.found =>
                              m[w.item] = Absent \/ w.item \in ap

\* Of an enabling: what it read is still on the primary, and on the mirror once it
\* was filled.
ReadSound(e, p, m) ==
    /\ Held(e.read) \subseteq Held(p)
    /\ e.op \in {"backfilled", "verified", "kept"} => Held(e.read) \subseteq Held(m)

\* Of an enabling beside a write: nothing is purged, and what is created was either
\* not there or is what was read.
Beside(e, w) ==
    /\ w.op # "purge"
    /\ w.op = "create" => e.read[w.item] \in {Absent, w.content}

Apart(v, w) == w.item \notin Kin(v.item) /\ v.item \notin Kin(w.item)

CallInv ==
    /\ \A s, t \in Sessions :
         s # t /\ call[s] \in Writes /\ call[t] \in Writes => Apart(call[s], call[t])
    /\ \A s, t \in Sessions :
         Enabling(s) /\ call[t] \in Writes => Beside(call[s], call[t])
    /\ \A s \in Sessions :
         call[s] \in Writes => WriteSound(call[s], primary, mirror, apart, s \in attached)
    /\ \A s \in Sessions : Enabling(s) => ReadSound(call[s], primary, mirror)

SerialInv == BaseInv /\ CallInv /\ DriftHasACause

LEMMA KinIsMutual ==
    ASSUME NEW i \in Items, NEW j \in Items
    PROVE  i \in Kin(i) /\ (j \in Kin(i) <=> i \in Kin(j))
BY CasesHaveStories, StoriesAreNotCases DEF Kin, Items

LEMMA InitSerial == Init => SerialInv
<1> SUFFICES ASSUME Init PROVE SerialInv
  OBVIOUS
<1>1. \A s \in Sessions : ~Enabling(s) /\ call[s] \notin Writes
  BY NoneIsNothing DEF Init, Enabling
<1>2. DriftHasACause
  BY DEF Init, DriftHasACause, Held
<1>. QED  BY <1>1, <1>2, InitBase DEF SerialInv, CallInv

\* An item has no unexplained drift.
Explained(i) ==
    \/ mirror[i] = primary[i]
    \/ i \in apart
    \/ \E s \in Sessions : Forwarded(s) /\ call[s].item = i

\* A step of one session about one item, which no other session's write is about:
\* what the others know stays true, and what is new is known at that item.
LEMMA LocalStep ==
    ASSUME SerialInv, BaseInv', NEW s \in Sessions, NEW i \in Items,
           NEW new, call' = [call EXCEPT ![s] = new],
           \A j \in Items \ {i} : /\ primary'[j] = primary[j] /\ mirror'[j] = mirror[j]
                                  /\ j \in apart' <=> j \in apart,
           i \in apart => i \in apart',
           \A t \in Sessions \ {s} : t \in attached' <=> t \in attached,
           \A t \in Sessions \ {s} : call[t] \in Writes =>
               call[t].item \notin Kin(i) /\ i \notin Kin(call[t].item),
           call[s] \in Writes => call[s].item = i,
           ~Enabling(s), new \notin Enablings,
           new \in Writes => /\ new.item = i
                             /\ WriteSound(new, primary', mirror', apart', s \in attached')
                             /\ \A t \in Sessions \ {s} : Enabling(t) => Beside(call[t], new),
           primary'[i] = Absent /\ primary[i] # Absent => \A t \in Sessions : ~Enabling(t),
           mirror'[i] = Absent /\ mirror[i] # Absent => \A t \in Sessions : ~Enabling(t),
           Explained(i)'
    PROVE  SerialInv'
<1>0. BaseInv /\ CallInv /\ DriftHasACause /\ call \in [Sessions -> Calls \cup {None}]
  BY DEF SerialInv, BaseInv, TypeOK
<1>1. call'[s] = new /\ \A t \in Sessions \ {s} : call'[t] = call[t]
  BY <1>0
<1>2. ASSUME NEW t \in Sessions, NEW u \in Sessions, t # u,
             call'[t] \in Writes, call'[u] \in Writes
      PROVE  Apart(call'[t], call'[u])
  BY <1>0, <1>1, <1>2 DEF CallInv, Apart
<1>3. ASSUME NEW t \in Sessions, NEW u \in Sessions, Enabling(t)', call'[u] \in Writes
      PROVE  Beside(call'[t], call'[u])
  BY <1>0, <1>1, <1>3 DEF CallInv, Enabling
<1>4. ASSUME NEW t \in Sessions, call'[t] \in Writes
      PROVE  WriteSound(call'[t], primary', mirror', apart', t \in attached')
  <2>1. CASE t = s
    BY <1>1, <1>4, <2>1
  <2>2. CASE t # s
    <3> DEFINE w == call[t]
    <3>1. w \in Writes /\ call'[t] = w /\ WriteSound(w, primary, mirror, apart, t \in attached)
      BY <1>0, <1>1, <1>4, <2>2 DEF CallInv
    <3>2. w.item \in Items
      BY <3>1, WriteShapes
    <3>3. w.item # i
      BY <2>2, <3>1, KinIsMutual
    <3>4. /\ primary'[w.item] = primary[w.item] /\ mirror'[w.item] = mirror[w.item]
          /\ w.item \in apart' <=> w.item \in apart
          /\ t \in attached' <=> t \in attached
      BY <2>2, <3>2, <3>3
    <3>. QED  BY <3>1, <3>4 DEF WriteSound
  <2>. QED  BY <2>1, <2>2
<1>5. ASSUME NEW t \in Sessions, Enabling(t)'
      PROVE  ReadSound(call'[t], primary', mirror')
  <2>1. t # s /\ Enabling(t) /\ call'[t] = call[t]
    BY <1>1, <1>5 DEF Enabling
  <2>2. ReadSound(call[t], primary, mirror)
    BY <1>0, <2>1 DEF CallInv
  <2>3. Held(primary) \subseteq Held(primary') /\ Held(mirror) \subseteq Held(mirror')
    BY <2>1 DEF Held
  <2>. QED  BY <2>1, <2>2, <2>3 DEF ReadSound
<1>6. ASSUME NEW j \in Items PROVE Explained(j)'
  <2>1. CASE j = i
    BY <2>1
  <2>2. CASE j # i
    <3>1. CASE mirror[j] = primary[j] \/ j \in apart
      BY <2>2, <3>1 DEF Explained
    <3>2. CASE \E t \in Sessions : Forwarded(t) /\ call[t].item = j
      <4>1. PICK t \in Sessions : Forwarded(t) /\ call[t].item = j
        BY <3>2
      <4>2. t # s
        BY <2>2, <4>1 DEF Forwarded
      <4>3. Forwarded(t)' /\ call'[t].item = j
        BY <1>1, <4>1, <4>2 DEF Forwarded
      <4>. QED  BY <4>3 DEF Explained
    <3>. QED  BY <1>0, <3>1, <3>2 DEF DriftHasACause
  <2>. QED  BY <2>1, <2>2
<1>7. CallInv'
  BY <1>2, <1>3, <1>4, <1>5 DEF CallInv
<1>8. DriftHasACause'
  BY <1>6 DEF DriftHasACause, Explained
<1>. QED  BY <1>7, <1>8 DEF SerialInv

\* A step that writes nothing, and that no write on its way to the mirror ends.
LEMMA QuietStep ==
    ASSUME SerialInv, BaseInv', NEW s \in Sessions,
           NEW new, call' = [call EXCEPT ![s] = new],
           UNCHANGED <<primary, mirror, apart>>,
           \A t \in Sessions \ {s} : t \in attached' <=> t \in attached,
           ~Forwarded(s), new \notin Writes,
           new \in Enablings =>
               /\ ReadSound(new, primary, mirror)
               /\ \A t \in Sessions \ {s} : call[t] \in Writes => Beside(new, call[t])
    PROVE  SerialInv'
<1>0. BaseInv /\ CallInv /\ DriftHasACause /\ call \in [Sessions -> Calls \cup {None}]
  BY DEF SerialInv, BaseInv, TypeOK
<1>1. call'[s] = new /\ \A t \in Sessions \ {s} : call'[t] = call[t]
  BY <1>0
<1>2. \A t, u \in Sessions : t # u /\ call'[t] \in Writes /\ call'[u] \in Writes
        => Apart(call'[t], call'[u])
  BY <1>0, <1>1 DEF CallInv
<1>3. \A t, u \in Sessions : Enabling(t)' /\ call'[u] \in Writes
        => Beside(call'[t], call'[u])
  BY <1>0, <1>1 DEF CallInv, Enabling
<1>4. \A t \in Sessions : call'[t] \in Writes =>
        WriteSound(call'[t], primary', mirror', apart', t \in attached')
  BY <1>0, <1>1 DEF CallInv, WriteSound
<1>5. \A t \in Sessions : Enabling(t)' => ReadSound(call'[t], primary', mirror')
  BY <1>0, <1>1 DEF CallInv, Enabling, ReadSound
<1>6. \A t \in Sessions : Forwarded(t) => Forwarded(t)' /\ call'[t] = call[t]
  BY <1>1 DEF Forwarded
<1>7. DriftHasACause'
  BY <1>0, <1>6 DEF DriftHasACause
<1>. QED  BY <1>2, <1>3, <1>4, <1>5, <1>7 DEF SerialInv, CallInv

LEMMA ClearOfOthers ==
    ASSUME NoOverlap, NEW s \in Sessions, NEW i \in Items, Clear(s, i)
    PROVE  \A t \in Sessions \ {s} : call[t] \in Writes =>
               call[t].item \notin Kin(i) /\ i \notin Kin(call[t].item)
<1> SUFFICES ASSUME NEW t \in Sessions \ {s}, call[t] \in Writes
             PROVE  call[t].item \notin Kin(i) /\ i \notin Kin(call[t].item)
  OBVIOUS
<1>1. call[t].item \in Items
  BY WriteShapes
<1>2. call[t].item \notin Kin(i)
  BY DEF NoOverlap, Clear, Busy
<1>. QED  BY <1>1, <1>2, KinIsMutual

\* Where no write is on its way, the sides agree or the item is known apart.
LEMMA Known ==
    ASSUME NoOverlap, DriftHasACause, NEW s \in Sessions, NEW i \in Items,
           call[s] = None, Clear(s, i)
    PROVE  mirror[i] = primary[i] \/ i \in apart
<1>1. ASSUME NEW t \in Sessions, Forwarded(t), call[t].item = i PROVE FALSE
  <2>1. t # s /\ call[t] \in Writes
    BY <1>1, NoneIsNothing DEF Forwarded
  <2>. QED  BY <1>1, <2>1, ClearOfOthers, KinIsMutual
<1>. QED  BY <1>1 DEF DriftHasACause

LEMMA OthersApart ==
    ASSUME CallInv, NEW s \in Sessions, call[s] \in Writes
    PROVE  \A t \in Sessions \ {s} : call[t] \in Writes =>
               call[t].item \notin Kin(call[s].item) /\ call[s].item \notin Kin(call[t].item)
BY DEF CallInv, Apart

LEMMA SerialCreate ==
    ASSUME NoOverlap, SerialInv, NEW s \in Sessions, NEW i \in Items,
           NEW v \in Contents, Create(s, i, v) \/ Update(s, i, v)
    PROVE  SerialInv'
<1> DEFINE w == IF Create(s, i, v) THEN [op |-> "create", item |-> i, content |-> v]
                                   ELSE [op |-> "update", item |-> i, content |-> v]
<1>1. BaseInv /\ CallInv /\ DriftHasACause /\ TypeOK /\ BaseInv'
  BY BaseCreate DEF SerialInv, BaseInv
<1>2. /\ call[s] = None /\ Clear(s, i) /\ Forward(s, w)
      /\ UNCHANGED <<mirror, attached>>
      /\ primary' = [primary EXCEPT ![i] = v]
  BY DEF Create, Update, Begin
<1>3. /\ w \in Writes /\ w.item = i /\ w.content = v /\ w.op \in {"create", "update"}
      /\ w.op = "create" => primary[i] = Absent
      /\ w.op = "update" => primary[i] # Absent
  BY NewWrites DEF Create, Update
<1>. HIDE DEF w
<1>4. primary'[i] = v /\ \A j \in Items \ {i} : primary'[j] = primary[j]
  BY <1>1, <1>2 DEF TypeOK, Boards
<1>5. mirror[i] = primary[i] \/ i \in apart
  BY <1>1, <1>2, Known
<1>6. PICK new :
        /\ call' = [call EXCEPT ![s] = new]
        /\ \/ new = w /\ apart' = apart
           \/ new = None /\ apart' = apart \cup {i}
  BY <1>1, <1>2, <1>3, BaseForward
<1>7. WriteSound(w, primary', mirror', apart, s \in attached')
  BY <1>2, <1>3, <1>4, <1>5 DEF WriteSound
<1>8. \A t \in Sessions : Enabling(t) => Beside(call[t], w)
  <2> SUFFICES ASSUME NEW t \in Sessions, Enabling(t) PROVE Beside(call[t], w)
    OBVIOUS
  <2>1. Held(call[t].read) \subseteq Held(primary)
    BY <1>1 DEF CallInv, ReadSound
  <2>. QED  BY <1>3, <2>1 DEF Beside, Held
<1>9. new = w => Forwarded(s)' /\ call'[s].item = i
  BY <1>1, <1>3, <1>6 DEF Forwarded, TypeOK
<1>10. Explained(i)'
  BY <1>6, <1>9 DEF Explained
<1>11. v # Absent
  BY AbsentIsNoContent
<1>12. new \notin Enablings /\ ~Enabling(s) /\ call[s] \notin Writes
       /\ (new \in Writes => new = w /\ apart' = apart)
  BY <1>2, <1>3, <1>6, WriteShapes, NoneIsNothing DEF Enabling
<1>13. \A t \in Sessions \ {s} : call[t] \in Writes =>
               call[t].item \notin Kin(i) /\ i \notin Kin(call[t].item)
  BY <1>2, ClearOfOthers
<1>14. new \in Writes => /\ new.item = i
                         /\ WriteSound(new, primary', mirror', apart', s \in attached')
                         /\ \A t \in Sessions \ {s} : Enabling(t) => Beside(call[t], new)
  BY <1>3, <1>7, <1>8, <1>12
<1>15. \A j \in Items \ {i} : /\ primary'[j] = primary[j] /\ mirror'[j] = mirror[j]
                              /\ j \in apart' <=> j \in apart
  BY <1>2, <1>4, <1>6
<1>. QED
  BY <1>1, <1>2, <1>4, <1>6, <1>10, <1>11, <1>12, <1>13, <1>14, <1>15, LocalStep

LEMMA SerialLookUp ==
    ASSUME NoOverlap, SerialInv, NEW s \in Sessions, NEW c \in Cases, LookUp(s, c)
    PROVE  SerialInv'
<1>1. BaseInv /\ CallInv /\ DriftHasACause /\ TypeOK /\ BaseInv' /\ c \in Items
  BY BaseLookUp, StoryIsItem DEF SerialInv, BaseInv
<1>2. /\ call[s] = None /\ Clear(s, c) /\ \A t \in Sessions : ~Enabling(t)
      /\ UNCHANGED <<primary, mirror, attached>>
  BY DEF LookUp, Begin, ClearToPurge, NoOverlap
<1>3. mirror[c] = primary[c] \/ c \in apart
  BY <1>1, <1>2, Known
<1>4. PICK f \in BOOLEAN :
        /\ call' = [call EXCEPT ![s] = [op |-> "purge", item |-> c, gone |-> FALSE,
                                        found |-> f]]
        /\ apart \subseteq apart' /\ apart' \subseteq apart \cup {c}
        /\ s \in attached /\ ~f => mirror[c] = Absent \/ c \in apart'
  BY DEF LookUp
<1> DEFINE w == [op |-> "purge", item |-> c, gone |-> FALSE, found |-> f]
<1>5. /\ w \in Writes /\ w.item = c /\ w \notin Enablings
      /\ WriteSound(w, primary', mirror', apart', s \in attached')
  BY <1>2, <1>4, NewWrites, WriteShapes DEF WriteSound
<1>6. Explained(c)'
  BY <1>2, <1>3, <1>4 DEF Explained
<1>7. call' = [call EXCEPT ![s] = w]
  BY <1>4
<1>. HIDE DEF w
<1>8. call[s] \notin Writes
  BY <1>2, NoneIsNothing
<1>9. \A t \in Sessions \ {s} : call[t] \in Writes =>
               call[t].item \notin Kin(c) /\ c \notin Kin(call[t].item)
  BY <1>1, <1>2, ClearOfOthers
<1>. QED
  BY <1>1, <1>2, <1>4, <1>5, <1>6, <1>7, <1>8, <1>9, LocalStep

LEMMA SerialPurge ==
    ASSUME NoOverlap, SerialInv, NEW s \in Sessions, Purge(s) PROVE SerialInv'
<1>a. PICK w \in Writes, i \in Items :
         w = call[s] /\ i = w.item /\ w.op = "purge"
  BY WriteShapes DEF Purge
<1>b. PICK g : g = [w EXCEPT !.gone = TRUE]
  OBVIOUS
<1>0. w = call[s] /\ i = w.item /\ g = [w EXCEPT !.gone = TRUE]
  BY <1>a, <1>b
<1>1. BaseInv /\ CallInv /\ DriftHasACause /\ TypeOK /\ BaseInv'
  BY BasePurge DEF SerialInv, BaseInv
<1>2. /\ w \in Writes /\ w.op = "purge" /\ Forward(s, g)
      /\ primary' = [primary EXCEPT ![i] = Absent]
      /\ UNCHANGED <<mirror, attached>>
  BY <1>0 DEF Purge
<1>3. i \in Items /\ w \notin Enablings
  BY <1>2, WriteShapes
<1>4. g \in Writes /\ g.op = "purge" /\ g.item = i /\ g.found = w.found /\ g.gone
  BY <1>0, <1>2, PurgeShapes
<1>5. WriteSound(w, primary, mirror, apart, s \in attached)
  BY <1>0, <1>1, <1>2 DEF CallInv
<1>6. \A t \in Sessions : ~Enabling(t)
  BY <1>0, <1>1, <1>2 DEF CallInv, Beside
<1>7. \A t \in Sessions \ {s} : call[t] \in Writes =>
               call[t].item \notin Kin(i) /\ i \notin Kin(call[t].item)
  BY <1>0, <1>1, <1>2, OthersApart
<1>8. primary'[i] = Absent /\ \A j \in Items \ {i} : primary'[j] = primary[j]
  BY <1>1, <1>2, <1>3 DEF TypeOK, Boards
<1>9. PICK new :
        /\ call' = [call EXCEPT ![s] = new]
        /\ \/ new = g /\ apart' = apart /\ s \in attached
           \/ new = None /\ apart' = apart \cup {i}
  BY <1>1, <1>2, <1>4, BaseForward
<1>10. WriteSound(g, primary', mirror', apart, TRUE) \/ s \notin attached
  BY <1>0, <1>2, <1>4, <1>5, <1>8 DEF WriteSound
<1>11. new = g => Forwarded(s)' /\ call'[s].item = i
  <2>1. new = g => call'[s] = g
    BY <1>1, <1>9 DEF TypeOK
  <2>. QED  BY <1>4, <2>1 DEF Forwarded
<1>12. Explained(i)'
  BY <1>9, <1>11 DEF Explained
<1>13. new \notin Enablings /\ (new \in Writes => new = g /\ apart' = apart /\ s \in attached)
  BY <1>4, <1>9, WriteShapes, NoneIsNothing
<1>14. new \in Writes => /\ new.item = i
                         /\ WriteSound(new, primary', mirror', apart', s \in attached')
                         /\ \A t \in Sessions \ {s} : Enabling(t) => Beside(call[t], new)
  <2>1. s \in attached => (s \in attached') = TRUE
    BY <1>2
  <2>. QED  BY <1>4, <1>6, <1>10, <1>13, <2>1
<1>15. \A j \in Items \ {i} : /\ primary'[j] = primary[j] /\ mirror'[j] = mirror[j]
                              /\ j \in apart' <=> j \in apart
  BY <1>2, <1>8, <1>9
<1>16. /\ call[s] \in Writes => call[s].item = i
       /\ i \in apart => i \in apart'
       /\ \A t \in Sessions \ {s} : t \in attached' <=> t \in attached
       /\ ~Enabling(s)
  BY <1>0, <1>2, <1>6, <1>9
<1>17. call' = [call EXCEPT ![s] = new]
  BY <1>9
<1>. QED
  BY <1>1, <1>3, <1>6, <1>7, <1>12, <1>13, <1>14, <1>15, <1>16, <1>17, LocalStep

LEMMA SerialCopy ==
    ASSUME NoOverlap, SerialInv, NEW s \in Sessions,
           Copy(s) \/ Skip(s) \/ Swallow(s)
    PROVE  SerialInv'
<1>0. PICK w \in Writes, i \in Items : w = call[s] /\ i = w.item
  BY WriteShapes DEF Copy, Skip, Swallow, Forwarded
<1>1. BaseInv /\ CallInv /\ DriftHasACause /\ TypeOK /\ BaseInv'
  BY BaseMirrored DEF SerialInv, BaseInv
<1>2. /\ w.op = "purge" => w.gone
      /\ call' = [call EXCEPT ![s] = None] /\ UNCHANGED <<primary, attached>>
      /\ mirror' = mirror \/ (Resolved(w) /\ mirror' = Copied(w))
      /\ apart \subseteq apart' /\ apart' \subseteq apart \cup {i}
  BY <1>0 DEF Copy, Skip, Swallow, Forwarded, End
<1>3. WriteSound(w, primary, mirror, apart, s \in attached)
  BY <1>0, <1>1 DEF CallInv
<1>4. /\ w.op \in {"create", "update", "purge"} /\ w \notin Enablings
      /\ w.op # "purge" => w.content # Absent
  BY WriteShapes
<1>5. w.op = "purge" => \A t \in Sessions : ~Enabling(t)
  BY <1>0, <1>1 DEF CallInv, Beside
<1>6. \A t \in Sessions \ {s} : call[t] \in Writes =>
               call[t].item \notin Kin(i) /\ i \notin Kin(call[t].item)
  BY <1>0, <1>1, OthersApart
<1>7. \A j \in Items \ {i} : mirror'[j] = mirror[j]
  BY <1>0, <1>1, <1>2, CopiedItem DEF TypeOK
<1>8. mirror'[i] = Absent /\ mirror[i] # Absent => w.op = "purge"
  BY <1>0, <1>1, <1>2, <1>4, CopiedItem DEF TypeOK
<1>9. mirror'[i] = primary[i] \/ i \in apart'
  <2>1. CASE Swallow(s)
    BY <1>0, <2>1 DEF Swallow
  <2>2. CASE Copy(s)
    <3>1. mirror' = Copied(w) /\ mirror \in Boards
      BY <1>0, <1>1, <2>2 DEF Copy, TypeOK
    <3>. QED  BY <1>0, <1>2, <1>3, <1>4, <3>1, CopiedItem DEF WriteSound
  <2>3. CASE Skip(s)
    <3>1. /\ ~Resolved(w) /\ mirror' = mirror
          /\ Kin(i) \cap apart # {} => i \in apart'
      BY <1>0, <2>3 DEF Skip
    <3>2. CASE w.op = "create"
      <4>1. i \in Cases /\ mirror[StoryOf[i]] = Absent
        BY <1>0, <3>1, <3>2 DEF Resolved
      <4>2. primary[i] # Absent
        BY <1>0, <1>3, <1>4, <3>2 DEF WriteSound
      <4>3. primary[StoryOf[i]] # Absent
        BY <1>1, <4>1, <4>2 DEF BaseInv, Hierarchy
      <4>4. StoryOf[i] \in Items /\ StoryOf[i] # i /\ StoryOf[i] \in Kin(i)
        BY <4>1, StoryIsItem DEF Kin
      <4>5. \A t \in Sessions : ~(Forwarded(t) /\ call[t].item = StoryOf[i])
        BY <1>0, <1>6, <4>4 DEF Forwarded
      <4>6. StoryOf[i] \in apart
        BY <1>1, <4>1, <4>3, <4>4, <4>5 DEF DriftHasACause
      <4>. QED  BY <3>1, <4>4, <4>6
    <3>3. CASE w.op = "update"
      BY <1>0, <1>2, <1>3, <3>1, <3>3 DEF Resolved, WriteSound
    <3>4. CASE w.op = "purge"
      BY <1>0, <1>2, <1>3, <3>1, <3>4 DEF Resolved, WriteSound
    <3>. QED  BY <1>4, <3>2, <3>3, <3>4
  <2>. QED  BY <2>1, <2>2, <2>3
<1>10. Explained(i)'
  BY <1>2, <1>9 DEF Explained
<1>11. /\ call[s] \in Writes => call[s].item = i
       /\ i \in apart => i \in apart'
       /\ \A t \in Sessions \ {s} : t \in attached' <=> t \in attached
       /\ ~Enabling(s) /\ None \notin Writes /\ None \notin Enablings
       /\ primary'[i] = primary[i]
       /\ mirror'[i] = Absent /\ mirror[i] # Absent => \A t \in Sessions : ~Enabling(t)
  BY <1>0, <1>2, <1>4, <1>5, <1>8, NoneIsNothing DEF Enabling
<1>12. \A j \in Items \ {i} : /\ primary'[j] = primary[j] /\ mirror'[j] = mirror[j]
                              /\ j \in apart' <=> j \in apart
  BY <1>2, <1>7
<1>13. call' = [call EXCEPT ![s] = None]
  BY <1>2
<1>. QED  BY <1>1, <1>6, <1>10, <1>11, <1>12, <1>13, LocalStep

LEMMA SerialLeave ==
    ASSUME NoOverlap, SerialInv, NEW s \in Sessions, Leave(s) PROVE SerialInv'
<1>1. BaseInv /\ CallInv /\ DriftHasACause /\ TypeOK /\ BaseInv'
  BY BaseEnd DEF SerialInv, BaseInv
<1>2. /\ call' = [call EXCEPT ![s] = None] /\ UNCHANGED <<primary, mirror>>
      /\ \A t \in Sessions \ {s} : t \in attached' <=> t \in attached
      /\ apart' = IF Forwarded(s) THEN apart \cup {call[s].item} ELSE apart
      /\ None \notin Writes /\ None \notin Enablings
  BY NoneIsNothing DEF Leave, End
<1>3. CASE ~Forwarded(s)
  BY <1>1, <1>2, <1>3, QuietStep
<1>4. CASE Forwarded(s)
  <2>1. PICK i \in Items : i = call[s].item /\ call[s] \in Writes /\ call[s] \notin Enablings
    BY <1>4, WriteShapes DEF Forwarded
  <2>2. apart' = apart \cup {i}
    BY <1>2, <1>4, <2>1
  <2>3. Explained(i)'
    BY <2>2 DEF Explained
  <2>4. \A t \in Sessions \ {s} : call[t] \in Writes =>
               call[t].item \notin Kin(i) /\ i \notin Kin(call[t].item)
    BY <1>1, <2>1, OthersApart
  <2>5. ~Enabling(s) /\ primary'[i] = primary[i] /\ mirror'[i] = mirror[i]
    BY <1>2, <2>1 DEF Enabling
  <2>. QED  BY <1>1, <1>2, <2>1, <2>2, <2>3, <2>4, <2>5, LocalStep
<1>. QED  BY <1>3, <1>4

LEMMA SerialQuiet ==
    ASSUME NoOverlap, SerialInv, NEW s \in Sessions,
           \/ Read(s) \/ Verify(s) \/ Persist(s) \/ Attach(s) \/ GiveUp(s)
           \/ Refuse(s) \/ Disable(s)
    PROVE  SerialInv'
<1>1. BaseInv /\ CallInv /\ DriftHasACause /\ TypeOK /\ BaseInv'
  BY BaseEnable, BaseEnd DEF SerialInv, BaseInv
<1>2. CASE Read(s)
  <2>1. PICK e : /\ e = [op |-> "read", read |-> primary]
                 /\ call' = [call EXCEPT ![s] = e]
    BY <1>2 DEF Read
  <2>2. e \in Enablings /\ e \notin Writes
    BY <1>1, <2>1, EnablingShapes DEF Enablings, Stages, TypeOK
  <2>3. /\ UNCHANGED <<primary, mirror, apart, attached>> /\ ~Forwarded(s)
        /\ \A t \in Sessions : call[t] \in Writes => call[t].op # "purge"
    BY <1>2, NoneIsNothing DEF Read, Begin, Forwarded, NoOverlap
  <2>4. ReadSound(e, primary, mirror)
    BY <2>1 DEF ReadSound
  <2>5. \A t \in Sessions \ {s} : call[t] \in Writes => Beside(e, call[t])
    BY <1>1, <2>1, <2>3 DEF Beside, CallInv, WriteSound
  <2>. QED  BY <1>1, <2>1, <2>2, <2>3, <2>4, <2>5, QuietStep
<1>3. CASE GiveUp(s) \/ Refuse(s) \/ Disable(s) \/ Attach(s)
  <2>1. call' = [call EXCEPT ![s] = None]
    BY <1>1, <1>3 DEF GiveUp, Refuse, Disable, Attach, End, TypeOK
  <2>2. /\ UNCHANGED <<primary, mirror, apart>>
        /\ \A t \in Sessions \ {s} : t \in attached' <=> t \in attached
    BY <1>3 DEF GiveUp, Refuse, Disable, Attach
  <2>3. ~Forwarded(s)
    BY <1>3, WriteShapes, NoneIsNothing
    DEF GiveUp, Refuse, Disable, Attach, Forwarded
  <2>. QED  BY <1>1, <2>1, <2>2, <2>3, NoneIsNothing, QuietStep
<1>4. CASE Verify(s) \/ Persist(s)
  <2>1. PICK f \in Enablings :
          /\ call' = [call EXCEPT ![s] = f] /\ f.read = call[s].read
          /\ f.op \in {"verified", "kept"} => call[s].op \in {"backfilled", "verified"}
          /\ f.op # "backfilled"
    BY <1>1, <1>4, Advanced
  <2>2. Enabling(s) /\ UNCHANGED <<primary, mirror, apart, attached>>
    BY <1>4 DEF Verify, Persist, Enabling
  <2>3. f \notin Writes /\ ~Forwarded(s)
    BY <2>2, EnablingShapes DEF Enabling, Forwarded
  <2>4. ReadSound(call[s], primary, mirror)
    BY <1>1, <2>2 DEF CallInv
  <2>5. ReadSound(f, primary, mirror)
    BY <2>1, <2>4 DEF ReadSound
  <2>6. \A t \in Sessions : call[t] \in Writes => Beside(f, call[t])
    BY <1>1, <2>1, <2>2 DEF CallInv, Beside
  <2>. QED  BY <1>1, <2>1, <2>2, <2>3, <2>5, <2>6, QuietStep
<1>. QED  BY <1>2, <1>3, <1>4

\* The backfill takes over what was read and is still there, and forgets of no
\* item that it differs while it does.
LEMMA SerialBackfill ==
    ASSUME NoOverlap, SerialInv, NEW s \in Sessions, Backfill(s) PROVE SerialInv'
<1>a. PICK e \in Enablings : e = call[s]
  BY DEF Backfill
<1>b. PICK f : f = [e EXCEPT !.op = "backfilled"]
  OBVIOUS
<1>0. e = call[s] /\ f = [e EXCEPT !.op = "backfilled"]
  BY <1>a, <1>b
<1>1. BaseInv /\ CallInv /\ DriftHasACause /\ TypeOK /\ BaseInv'
  BY BaseEnable DEF SerialInv, BaseInv
<1>2. f \in Enablings /\ f \notin Writes /\ f.read = e.read
  BY <1>0, EnablingShapes DEF Stages
<1>3. /\ call'[s] = f /\ \A t \in Sessions \ {s} : call'[t] = call[t]
      /\ UNCHANGED <<primary, attached>>
      /\ apart' = {i \in apart : mirror'[i] # primary[i]}
  BY <1>0, <1>1 DEF Backfill, TypeOK
<1>4. \A i \in Items : mirror'[i] = IF mirror[i] = Absent THEN e.read[i] ELSE mirror[i]
  BY <1>0 DEF Backfill, Filled
<1>5. Held(e.read) \subseteq Held(primary) /\ Enabling(s)
  BY <1>0, <1>1 DEF CallInv, ReadSound, Enabling
<1>6. Held(mirror) \subseteq Held(mirror') /\ Held(e.read) \subseteq Held(mirror')
  BY <1>4 DEF Held
<1>7. \A t, u \in Sessions : t # u /\ call'[t] \in Writes /\ call'[u] \in Writes
        => Apart(call'[t], call'[u])
  BY <1>1, <1>2, <1>3 DEF CallInv
<1>8. ASSUME NEW t \in Sessions, NEW u \in Sessions, Enabling(t)', call'[u] \in Writes
      PROVE  Beside(call'[t], call'[u])
  <2>1. call'[u] = call[u]
    BY <1>2, <1>3, <1>8
  <2>2. CASE t = s
    <3>1. Beside(e, call[u])
      BY <1>0, <1>1, <1>5, <1>8, <2>1 DEF CallInv
    <3>. QED  BY <1>2, <1>3, <2>1, <2>2, <3>1 DEF Beside
  <2>3. CASE t # s
    BY <1>1, <1>3, <1>8, <2>1, <2>3 DEF CallInv, Enabling
  <2>. QED  BY <2>2, <2>3
<1>9. ASSUME NEW t \in Sessions, call'[t] \in Writes
      PROVE  WriteSound(call'[t], primary', mirror', apart', t \in attached')
  <2>1. PICK w \in Writes, i \in Items : w = call[t] /\ w = call'[t] /\ i = w.item
    BY <1>2, <1>3, <1>9, WriteShapes
  <2>2. WriteSound(w, primary, mirror, apart, t \in attached) /\ Beside(e, w)
    BY <1>0, <1>1, <1>5, <2>1 DEF CallInv
  <2>3. i \in apart => i \in apart' \/ mirror'[i] = primary[i]
    BY <1>3
  <2>4. CASE w.op = "create"
    <3>1. w.content = primary[i] /\ e.read[i] \in {Absent, primary[i]}
      BY <2>1, <2>2, <2>4 DEF WriteSound, Beside
    <3>2. mirror'[i] \in {Absent, primary[i]} \/ i \in apart'
      BY <1>4, <2>1, <2>2, <2>3, <2>4, <3>1 DEF WriteSound
    <3>. QED  BY <1>3, <2>1, <2>4, <3>1, <3>2 DEF WriteSound
  <2>5. CASE w.op = "update"
    <3>1. w.content = primary[i] /\ primary[i] # Absent
      BY <2>1, <2>2, <2>5, WriteShapes DEF WriteSound
    <3>2. mirror'[i] = Absent => mirror[i] = Absent
      BY <1>4
    <3>3. mirror'[i] = Absent => i \in apart'
      BY <2>1, <2>2, <2>3, <2>5, <3>1, <3>2 DEF WriteSound
    <3>. QED  BY <1>3, <2>1, <2>5, <3>1, <3>3 DEF WriteSound
  <2>. QED  BY <2>2, <2>4, <2>5, WriteShapes DEF Beside
<1>10. ASSUME NEW t \in Sessions, Enabling(t)'
       PROVE  ReadSound(call'[t], primary', mirror')
  <2>1. CASE t = s
    BY <1>2, <1>3, <1>5, <1>6, <2>1 DEF ReadSound
  <2>2. CASE t # s
    BY <1>1, <1>3, <1>6, <1>10, <2>2 DEF CallInv, Enabling, ReadSound
  <2>. QED  BY <2>1, <2>2
<1>11. ASSUME NEW i \in Items PROVE Explained(i)'
  <2>1. CASE mirror[i] = primary[i]
    <3>1. mirror[i] = Absent => e.read[i] = Absent
      BY <1>5, <2>1 DEF Held
    <3>. QED  BY <1>3, <1>4, <2>1, <3>1 DEF Explained
  <2>2. CASE i \in apart
    BY <1>3, <2>2 DEF Explained
  <2>3. ASSUME NEW t \in Sessions, Forwarded(t), call[t].item = i PROVE Explained(i)'
    <3>1. t # s
      BY <1>0, <2>3, EnablingShapes DEF Forwarded
    <3>. QED  BY <1>3, <2>3, <3>1 DEF Forwarded, Explained
  <2>. QED  BY <1>1, <2>1, <2>2, <2>3 DEF DriftHasACause
<1>12. CallInv'
  BY <1>7, <1>8, <1>9, <1>10 DEF CallInv
<1>. QED  BY <1>1, <1>11, <1>12 DEF SerialInv, DriftHasACause, Explained

LEMMA NextSerial == ASSUME NoOverlap PROVE SerialInv /\ [Next]_vars => SerialInv'
<1>1. ASSUME SerialInv, Next PROVE SerialInv'
  BY NoOverlap, <1>1, SerialCreate, SerialLookUp, SerialPurge, SerialCopy,
     SerialBackfill, SerialQuiet, SerialLeave
  DEF Next
<1>2. ASSUME SerialInv, UNCHANGED vars PROVE SerialInv'
  <2>1. BaseInv'
    BY <1>2, NextBase DEF SerialInv
  <2>. QED
    BY <1>2, <2>1
    DEF SerialInv, vars, CallInv, Enabling, DriftHasACause, Forwarded
<1>. QED  BY <1>1, <1>2

\* While calls about an item and its kin do not overlap, the mirror differs from the
\* primary only where a request failed, a session without the mirror wrote, or the
\* story is missing for one of these reasons.
THEOREM DriftIsExplained == ASSUME NoOverlap PROVE Spec => []DriftHasACause
<1>1. SerialInv /\ [Next]_vars => SerialInv'
  BY NoOverlap, NextSerial
<1>2. SerialInv => DriftHasACause
  BY DEF SerialInv
<1>. QED  BY <1>1, <1>2, InitSerial, PTL DEF Spec

-----------------------------------------------------------------------------
\* Equally many items, one set within the other.
LEMMA SameHeld ==
    ASSUME IsFiniteSet(Items), NEW b \in Boards, NEW d \in Boards,
           Held(b) \subseteq Held(d), Counts(b) = Counts(d)
    PROVE  Held(b) = Held(d)
<1>1. IsFiniteSet(Held(d) \cap Stories) /\ IsFiniteSet(Held(d) \cap Cases)
  BY FS_Subset DEF Held
<1>2. /\ Cardinality(Held(b) \cap Stories) = Cardinality(Held(d) \cap Stories)
      /\ Cardinality(Held(b) \cap Cases) = Cardinality(Held(d) \cap Cases)
  BY DEF Counts
<1>3. /\ Held(b) \cap Stories \subseteq Held(d) \cap Stories
      /\ Held(b) \cap Cases \subseteq Held(d) \cap Cases
  OBVIOUS
<1>4. Held(b) \cap Stories = Held(d) \cap Stories
  BY <1>1, <1>2, <1>3, FS_Subset
<1>5. Held(b) \cap Cases = Held(d) \cap Cases
  BY <1>1, <1>2, <1>3, FS_Subset
<1>. QED  BY <1>4, <1>5 DEF Held, Items

\* While a mirror is being enabled the primary loses nothing, and what the mirror
\* gains the primary has.
LEMMA GainsAreHeld ==
    ASSUME NoOverlap, SerialInv, Next, NEW t \in Sessions, Enabling(t)
    PROVE  /\ Held(primary) \subseteq Held(primary')
           /\ Held(mirror') \ Held(mirror) \subseteq Held(primary)
<1>1. BaseInv /\ CallInv /\ mirror \in Boards /\ primary \in Boards
  BY DEF SerialInv, BaseInv, TypeOK
<1>2. PICK s \in Sessions :
        \/ \E i \in Items, v \in Contents : Create(s, i, v) \/ Update(s, i, v)
        \/ \E c \in Cases : LookUp(s, c)
        \/ Purge(s) \/ Refuse(s)
        \/ Copy(s) \/ Skip(s) \/ Swallow(s)
        \/ Read(s) \/ Backfill(s) \/ Verify(s) \/ Persist(s) \/ Attach(s) \/ GiveUp(s)
        \/ Disable(s) \/ Leave(s)
  BY DEF Next
<1>3. ASSUME NEW i \in Items, NEW v \in Contents, Create(s, i, v) \/ Update(s, i, v)
      PROVE  Held(primary) \subseteq Held(primary') /\ mirror' = mirror
  <2>1. primary' = [primary EXCEPT ![i] = v] /\ mirror' = mirror
    BY <1>3 DEF Create, Update
  <2>. QED  BY <1>1, <1>3, <2>1, OneItem, AbsentIsNoContent DEF Held
<1>4. ~Purge(s)
  BY <1>1 DEF Purge, CallInv, Beside
<1>5. CASE Copy(s) \/ Swallow(s)
  <2>1. PICK w \in Writes : w = call[s]
    BY <1>5 DEF Copy, Swallow, Forwarded
  <2>2. primary' = primary /\ mirror' \in {mirror, Copied(w)}
    BY <1>5, <2>1 DEF Copy, Swallow
  <2>3. w.op # "purge" /\ WriteSound(w, primary, mirror, apart, s \in attached)
    BY <1>1, <2>1 DEF CallInv, Beside
  <2>4. w.item \in Items /\ primary[w.item] # Absent
    BY <2>3, WriteShapes DEF WriteSound
  <2>5. \A j \in Items \ {w.item} : mirror'[j] = mirror[j]
    BY <1>1, <2>2, CopiedItem
  <2>6. Held(mirror') \ Held(mirror) \subseteq {w.item}
    BY <2>5 DEF Held
  <2>. QED  BY <2>2, <2>4, <2>6 DEF Held
<1>6. CASE Backfill(s)
  <2>1. /\ Enabling(s) /\ primary' = primary
        /\ \A i \in Items : mirror'[i] = IF mirror[i] = Absent THEN call[s].read[i] ELSE mirror[i]
    BY <1>6 DEF Backfill, Filled, Enabling
  <2>2. Held(call[s].read) \subseteq Held(primary)
    BY <1>1, <2>1 DEF CallInv, ReadSound
  <2>. QED  BY <2>1, <2>2 DEF Held
<1>7. CASE \/ \E c \in Cases : LookUp(s, c)
           \/ Refuse(s) \/ Skip(s) \/ Read(s) \/ Verify(s) \/ Persist(s) \/ Attach(s)
           \/ GiveUp(s) \/ Disable(s) \/ Leave(s)
  <2>1. UNCHANGED <<primary, mirror>>
    BY <1>7 DEF LookUp, Refuse, Skip, Read, Verify, Persist, Attach, GiveUp, Disable, Leave
  <2>. QED  BY <2>1 DEF Held
<1>. QED  BY <1>2, <1>3, <1>4, <1>5, <1>6, <1>7

\* What was compared has nothing that the primary lacks.
WholeInv ==
    \A s \in Sessions :
        Enabling(s) /\ call[s].op \in {"verified", "kept"} =>
            Held(mirror) \subseteq Held(primary)

\* A step leaves an enabling's stage, or it is one of its own.
LEMMA StageStep ==
    ASSUME SerialInv, Next, NEW t \in Sessions, Enabling(t)',
           call'[t].op \in {"verified", "kept"}
    PROVE  \/ Verify(t)
           \/ Enabling(t) /\ call[t].op \in {"verified", "kept"}
<1>1. TypeOK
  BY DEF SerialInv, BaseInv
<1>2. PICK s \in Sessions :
        \/ \E i \in Items, v \in Contents : Create(s, i, v) \/ Update(s, i, v)
        \/ \E c \in Cases : LookUp(s, c)
        \/ Purge(s) \/ Refuse(s)
        \/ Copy(s) \/ Skip(s) \/ Swallow(s)
        \/ Read(s) \/ Backfill(s) \/ Verify(s) \/ Persist(s) \/ Attach(s) \/ GiveUp(s)
        \/ Disable(s) \/ Leave(s)
  BY DEF Next
<1>3. CASE call'[t] = call[t]
  BY <1>3 DEF Enabling
<1>4. CASE call'[t] # call[t]
  <2>1. t = s
    BY <1>1, <1>2, <1>4
    DEF Create, Update, LookUp, Purge, Refuse, Copy, Skip, Swallow, Read, Backfill,
        Verify, Persist, Attach, GiveUp, Disable, Leave, Forward, End, TypeOK
  <2>2. CASE Verify(s) \/ Persist(s)
    <3>1. PICK f \in Enablings :
            /\ call' = [call EXCEPT ![s] = f]
            /\ f.op = "kept" => call[s].op = "verified"
            /\ f.op = "verified" => Verify(s)
      BY <1>1, <2>2, Advanced
    <3>2. call'[s] = f /\ Enabling(s)
      BY <1>1, <2>2, <3>1 DEF TypeOK, Verify, Persist, Enabling
    <3>. QED  BY <2>1, <3>1, <3>2
  <2>3. CASE Backfill(s)
    BY <1>1, <2>1, <2>3 DEF Backfill, TypeOK
  <2>4. CASE Read(s)
    BY <1>1, <2>1, <2>4 DEF Read, TypeOK
  <2>5. CASE Refuse(s) \/ Copy(s) \/ Skip(s) \/ Swallow(s) \/ Attach(s) \/ GiveUp(s) \/ Leave(s)
    BY <1>1, <2>1, <2>5, NoneIsNothing
    DEF Refuse, Copy, Skip, Swallow, Attach, GiveUp, Leave, End, TypeOK, Enabling
  <2>6. CASE Disable(s)
    BY <1>4, <2>6 DEF Disable
  <2>7. CASE Purge(s)
    <3>1. PICK w \in Writes : w = call[s] /\ w.op = "purge"
      BY <2>7 DEF Purge
    <3>2. PICK g : g = [w EXCEPT !.gone = TRUE]
      OBVIOUS
    <3>3. g \in Writes
      BY <3>1, <3>2, PurgeShapes
    <3>4. call'[s] \in {None, g}
      BY <1>1, <2>7, <3>1, <3>2 DEF Purge, Forward, End, TypeOK
    <3>. QED  BY <2>1, <3>3, <3>4, WriteShapes, NoneIsNothing DEF Enabling
  <2>8. ASSUME NEW i \in Items, NEW v \in Contents, Create(s, i, v) \/ Update(s, i, v)
        PROVE  FALSE
    <3>1. PICK w \in Writes : call'[s] \in {None, w}
      BY <1>1, <2>8, NewWrites DEF Create, Update, Forward, End, TypeOK
    <3>. QED  BY <2>1, <3>1, WriteShapes, NoneIsNothing DEF Enabling
  <2>9. ASSUME NEW c \in Cases, LookUp(s, c) PROVE FALSE
    <3>1. PICK w \in Writes : call'[s] = w
      <4>1. PICK f \in BOOLEAN :
              call' = [call EXCEPT ![s] =
                  [op |-> "purge", item |-> c, gone |-> FALSE, found |-> f]]
        BY <2>9 DEF LookUp
      <4>. QED  BY <1>1, <4>1, NewWrites DEF TypeOK
    <3>. QED  BY <2>1, <3>1, WriteShapes DEF Enabling
  <2>. QED  BY <1>2, <2>2, <2>3, <2>4, <2>5, <2>6, <2>7, <2>8, <2>9
<1>. QED  BY <1>3, <1>4

LEMMA NextWhole ==
    ASSUME NoOverlap, IsFiniteSet(Items), SerialInv, WholeInv, Next PROVE WholeInv'
<1> SUFFICES ASSUME NEW t \in Sessions, Enabling(t)', call'[t].op \in {"verified", "kept"}
             PROVE  Held(mirror') \subseteq Held(primary')
  BY DEF WholeInv, Held, Enabling
<1>1. CASE Verify(t)
  <2>1. /\ Enabling(t) /\ call[t].op = "backfilled"
        /\ Counts(mirror) = Counts(call[t].read) /\ UNCHANGED <<primary, mirror>>
    BY <1>1 DEF Verify, Enabling
  <2>2. call[t].read \in Boards /\ mirror \in Boards
    BY <2>1, EnablingShapes DEF SerialInv, BaseInv, TypeOK, Enabling
  <2>3. Held(call[t].read) \subseteq Held(mirror) /\ Held(call[t].read) \subseteq Held(primary)
    BY <2>1 DEF SerialInv, CallInv, ReadSound
  <2>4. Held(call[t].read) = Held(mirror)
    BY <2>1, <2>2, <2>3, SameHeld
  <2>. QED  BY <2>1, <2>3, <2>4 DEF Held
<1>2. CASE Enabling(t) /\ call[t].op \in {"verified", "kept"}
  <2>1. Held(mirror) \subseteq Held(primary)
    BY <1>2 DEF WholeInv
  <2>2. /\ Held(primary) \subseteq Held(primary')
        /\ Held(mirror') \ Held(mirror) \subseteq Held(primary)
    BY <1>2, GainsAreHeld
  <2>. QED  BY <2>1, <2>2
<1>. QED  BY <1>1, <1>2, StageStep

\* While calls about an item and its kin do not overlap, a mirror that is attached
\* after a backfill has all that was read and nothing that the primary lacks, for
\* any finite board, whatever other sessions create while it is enabled.
THEOREM AttachedMirrorIsWhole ==
    ASSUME NoOverlap, IsFiniteSet(Items) PROVE Spec => AttachedIsWhole
<1>1. Init => WholeInv
  BY NoneIsNothing DEF Init, WholeInv, Enabling
<1>2. SerialInv /\ WholeInv /\ [Next]_vars => WholeInv'
  <2>1. ASSUME SerialInv, WholeInv, Next PROVE WholeInv'
    BY NoOverlap, IsFiniteSet(Items), <2>1, NextWhole
  <2>2. ASSUME WholeInv, UNCHANGED vars PROVE WholeInv'
    BY <2>2 DEF WholeInv, vars, Held, Enabling
  <2>. QED  BY <2>1, <2>2
<1>3. ASSUME SerialInv, WholeInv, Next, NEW s \in Sessions, s \in attached' \ attached,
             call[s].op = "kept"
      PROVE  Held(call[s].read) \subseteq Held(mirror) /\ Held(mirror) \subseteq Held(primary)
  <2>1. PICK t \in Sessions : Attach(t)
    BY <1>3 DEF Next, Create, Update, LookUp, Purge, Refuse, Copy, Skip, Swallow,
       Read, Backfill, Verify, Persist, GiveUp, Disable, Leave
  <2>2. t = s /\ Enabling(s)
    BY <1>3, <2>1 DEF Attach, Enabling
  <2>. QED  BY <1>3, <2>2 DEF SerialInv, CallInv, ReadSound, WholeInv
<1>4. SerialInv /\ WholeInv /\ [Next]_vars =>
        [\A s \in Sessions :
            (s \in attached' \ attached /\ call[s].op = "kept") =>
                /\ Held(call[s].read) \subseteq Held(mirror)
                /\ Held(mirror) \subseteq Held(primary)]_vars
  BY <1>3
<1>5. SerialInv /\ [Next]_vars => SerialInv'
  BY NoOverlap, NextSerial
<1>. QED  BY <1>1, <1>2, <1>4, <1>5, InitSerial, PTL DEF Spec, AttachedIsWhole

=============================================================================
