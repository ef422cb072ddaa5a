------------------------ MODULE CoordinationProofs -------------------------
(***************************************************************************)
(* Proofs about what sessions tell a project's board: Decisions, then      *)
(* SessionBeats.                                                           *)
(*                                                                         *)
(* The board of decisions: what stands there is never taken back (Growth), *)
(* so an answer that was true stays true, and a resolution somebody holds  *)
(* is marked as applied, so nobody takes it again (Marked).                *)
(* The file: while one session at a time changes it, an open edit is of    *)
(* the file as it is (EditIsCurrent).                                      *)
(*                                                                         *)
(* The heartbeats: what the phone has been told follows from one inductive *)
(* invariant.  Of a wait it is the property itself, with the types; of a   *)
(* stop it says which sessions have their one event (StopTold).            *)
(***************************************************************************)
EXTENDS Decisions, SessionBeats, FiniteSetTheorems, TLAPS

\* One session at a time changes the file.
OneEditor == Concurrent = FALSE

OnItsWay(s, d) == reply[s] # None /\ reply[s][d] # None
Holds(s, d) == known[s][d] # None \/ OnItsWay(s, d)

\* A resolution that somebody holds is marked, and one session holds it, once.
Marked ==
    \A d \in Ids :
        /\ \A s \in Sessions : Holds(s, d) => board[d] # None /\ board[d].applied
        /\ \A s \in Sessions : ~(known[s][d] # None /\ OnItsWay(s, d))
        /\ \A s, t \in Sessions : Holds(s, d) /\ Holds(t, d) => s = t

\* What is on the board has an id that was given out.
IdsAreGiven == \A d \in Ids : board[d] # None => d \in given

BoardInv == TypeOK /\ AnswersAgree /\ Marked /\ IdsAreGiven

-----------------------------------------------------------------------------
LEMMA InitType == Init => TypeOK
BY DEF Init, TypeOK, Files, Handed, Nothing

LEMMA FileTypes ==
    ASSUME TypeOK, EditFile \/ FinishEdit \/ Torn
    PROVE  TypeOK' /\ UNCHANGED boardVars
<1>1. file \in Files
  BY DEF TypeOK
<1>2. ASSUME NEW d \in Ids
      PROVE  Enqueued(file, d) \in Files /\ Moved(file, d) \in Files
  <2>1. file.pendientes \cup {d} \in SUBSET Ids
    BY <1>1 DEF Files
  <2>2. Enqueued(file, d) \in Files
    BY <1>1, <2>1 DEF Enqueued, Files
  <2>. QED  BY <1>1, <2>2 DEF Moved, Files
<1>3. ASSUME NEW s \in Sessions, NEW d \in Ids,
             EnqueueLocal(s, d) \/ ResolveLocal(s, d)
      PROVE  TypeOK' /\ UNCHANGED boardVars
  BY <1>2, <1>3 DEF EnqueueLocal, ResolveLocal, TypeOK, boardVars
<1>4. ASSUME NEW s \in Sessions, NEW d \in Ids,
             EnqueueRemote(s, d) \/ ResolveRemote(s, d)
      PROVE  TypeOK' /\ UNCHANGED boardVars
  <2>1. PICK e \in Edits : edit' = [edit EXCEPT ![s] = e]
    <3>1. /\ [to |-> Enqueued(file, d), id |-> d, new |-> TRUE] \in Edits
          /\ [to |-> Moved(file, d), id |-> d, new |-> FALSE] \in Edits
      BY <1>2 DEF Edits
    <3>. QED  BY <1>4, <3>1 DEF EnqueueRemote, ResolveRemote
  <2>. QED  BY <1>4, <2>1 DEF EnqueueRemote, ResolveRemote, TypeOK, boardVars
<1>5. ASSUME NEW s \in Sessions, WriteBack(s) \/ EditLost(s)
      PROVE  TypeOK' /\ UNCHANGED boardVars
  BY <1>5 DEF WriteBack, EditLost, TypeOK, Edits, boardVars
<1>6. CASE Torn
  <2>1. PICK kept \in SUBSET Queued :
          /\ file' = [pendientes |-> file.pendientes \cap kept,
                      resueltas |-> file.resueltas \cap kept]
          /\ owed' = owed \cap kept
    BY <1>6 DEF Torn
  <2>2. file' \in Files /\ owed' \subseteq Ids
    BY <1>1, <2>1 DEF Files, TypeOK
  <2>. QED  BY <1>6, <2>2 DEF Torn, TypeOK, boardVars
<1>. QED  BY <1>3, <1>4, <1>5, <1>6 DEF EditFile, FinishEdit

\* A row with one field set is a row.
LEMMA RowSet ==
    ASSUME NEW entry \in Rows
    PROVE  /\ \A o \in Options : [entry EXCEPT !.resolution = o] \in Rows
           /\ [entry EXCEPT !.applied = TRUE] \in Rows
BY DEF Rows

LEMMA BoardTypes ==
    ASSUME TypeOK, PublishDecision \/ Resolve \/ TakeResolved
    PROVE  TypeOK' /\ UNCHANGED <<file, edit, owed>>
<1>1. \A d \in Ids : Inserted(d) \in Rows
  BY DEF Inserted, Rows
<1>2. ASSUME NEW d \in Ids, Publish(d) \/ PublishUnqueued(d)
      PROVE  TypeOK' /\ UNCHANGED <<file, edit, owed>>
  BY <1>1, <1>2 DEF Publish, PublishUnqueued, TypeOK, fileVars
<1>3. ASSUME NEW p \in People, NEW d \in Ids, NEW o \in Options \cup {Other},
             ResolveUpdate(p, d, o)
      PROVE  TypeOK' /\ UNCHANGED <<file, edit, owed>>
  <2>1. CASE Resolvable(d, o)
    <3>1. board[d] \in Rows /\ o \in Options
      BY <2>1 DEF Resolvable, TypeOK
    <3>2. [board[d] EXCEPT !.resolution = o] \in Rows
      BY <3>1, RowSet
    <3>3. /\ board' = [board EXCEPT ![d].resolution = o]
          /\ told' = [told EXCEPT ![p][d] = o] /\ asking' = asking
      BY <1>3, <2>1 DEF ResolveUpdate
    <3>4. board' \in [Ids -> Rows \cup {None}]
      BY <3>2, <3>3 DEF TypeOK
    <3>5. told[p] \in Handed
      BY DEF TypeOK
    <3>6. told' \in [People -> Handed]
      BY <3>1, <3>3, <3>5 DEF TypeOK, Handed
    <3>. QED  BY <1>3, <3>3, <3>4, <3>6 DEF ResolveUpdate, TypeOK, fileVars
  <2>2. CASE ~Resolvable(d, o)
    BY <1>3, <2>2 DEF ResolveUpdate, TypeOK, fileVars
  <2>. QED  BY <2>1, <2>2
<1>4. ASSUME NEW p \in People, ResolveRead(p)
      PROVE  TypeOK' /\ UNCHANGED <<file, edit, owed>>
  <2>1. asking[p] \in Ids
    BY <1>4 DEF ResolveRead, TypeOK
  <2>2. told[p] \in Handed
    BY DEF TypeOK
  <2>3. told' \in [People -> Handed]
    <3>1. CASE Resolved(asking[p])
      <4>1. board[asking[p]] \in Rows
        BY <2>1, <3>1 DEF Resolved, TypeOK
      <4>2. board[asking[p]].resolution \in Options \cup {None}
        BY <4>1 DEF Rows
      <4>3. told' = [told EXCEPT ![p][asking[p]] = board[asking[p]].resolution]
        BY <1>4, <3>1 DEF ResolveRead
      <4>. QED  BY <2>1, <2>2, <4>2, <4>3 DEF TypeOK, Handed
    <3>2. CASE ~Resolved(asking[p])
      BY <1>4, <3>2 DEF ResolveRead, TypeOK
    <3>. QED  BY <3>1, <3>2
  <2>. QED  BY <1>4, <2>3 DEF ResolveRead, TypeOK, fileVars
<1>5. ASSUME NEW s \in Sessions, Take(s)
      PROVE  TypeOK' /\ UNCHANGED <<file, edit, owed>>
  <2>1. \A d \in Untaken : board[d] \in Rows
    BY DEF Untaken, Resolved, TypeOK
  <2>2. board' = [d \in Ids |-> IF d \in Untaken
                    THEN [board[d] EXCEPT !.applied = TRUE] ELSE board[d]]
    BY <1>5 DEF Take
  <2>3. board' \in [Ids -> Rows \cup {None}]
    BY <2>1, <2>2, RowSet DEF TypeOK
  <2>4. \A d \in Untaken : board[d].resolution \in Options \cup {None}
    BY <2>1 DEF Rows
  <2>5. [d \in Ids |-> IF d \in Untaken THEN board[d].resolution ELSE None] \in Handed
    BY <2>4 DEF Handed
  <2>. QED  BY <1>5, <2>3, <2>5 DEF Take, TypeOK, fileVars
<1>6. ASSUME NEW s \in Sessions, TakeAnswered(s)
      PROVE  TypeOK' /\ UNCHANGED <<file, edit, owed>>
  <2>1. reply[s] \in Handed /\ known[s] \in Handed
    BY <1>6 DEF TakeAnswered, TypeOK
  <2>2. [d \in Ids |-> IF reply[s][d] # None THEN reply[s][d] ELSE known[s][d]]
          \in Handed
    BY <2>1 DEF Handed
  <2>. QED  BY <1>6, <2>2 DEF TakeAnswered, TypeOK, fileVars
<1>7. ASSUME NEW s \in Sessions, TakeLost(s)
      PROVE  TypeOK' /\ UNCHANGED <<file, edit, owed>>
  BY <1>7 DEF TakeLost, TypeOK, fileVars
<1>. QED
  BY <1>2, <1>3, <1>4, <1>5, <1>6, <1>7 DEF PublishDecision, Resolve, TakeResolved

LEMMA NextType == TypeOK /\ [Next]_vars => TypeOK'
<1> SUFFICES ASSUME TypeOK, [Next]_vars PROVE TypeOK'
  OBVIOUS
<1>1. CASE Next
  BY <1>1, FileTypes, BoardTypes DEF Next
<1>2. CASE UNCHANGED vars
  BY <1>2 DEF vars, fileVars, boardVars, TypeOK
<1>. QED  BY <1>1, <1>2

\* Every variable has its type, however many sessions change the file at once.
THEOREM TypeCorrect == Spec => []TypeOK
BY InitType, NextType, PTL DEF Spec

-----------------------------------------------------------------------------
\* What stands on the board: a row is never removed, its resolution never
\* changes and its mark is never taken off.
Grown(d) ==
    board[d] # None =>
        /\ board'[d] # None
        /\ board[d].resolution # None => board'[d].resolution = board[d].resolution
        /\ board[d].applied => board'[d].applied

LEMMA Growth ==
    ASSUME TypeOK, IdsAreGiven, Next PROVE \A d \in Ids : Grown(d)
<1> SUFFICES ASSUME NEW d \in Ids, board[d] # None PROVE Grown(d)
  BY DEF Grown
<1>0. board[d] \in Rows
  BY DEF TypeOK
<1>1. CASE board' = board
  BY <1>1 DEF Grown
<1>2. ASSUME NEW c \in Ids, PublishUnqueued(c) PROVE Grown(d)
  BY <1>2 DEF PublishUnqueued, TypeOK, Grown, IdsAreGiven
<1>3. ASSUME NEW c \in Ids, Publish(c) PROVE Grown(d)
  BY <1>3 DEF Publish, TypeOK, Grown
<1>4. ASSUME NEW p \in People, NEW c \in Ids, NEW o \in Options \cup {Other},
             ResolveUpdate(p, c, o)
      PROVE  Grown(d)
  <2>1. CASE Resolvable(c, o)
    <3>1. board' = [board EXCEPT ![c].resolution = o] /\ o \in Options
      BY <1>4, <2>1 DEF ResolveUpdate, Resolvable
    <3>2. CASE c = d
      <4>1. board'[d] = [board[d] EXCEPT !.resolution = o]
        BY <3>1, <3>2 DEF TypeOK
      <4>2. board'[d] # None
        BY <1>0, <3>1, <4>1, RowSet, NoneIsApart
      <4>3. board'[d].applied = board[d].applied
        BY <1>0, <4>1 DEF Rows
      <4>4. board[d].resolution = None
        BY <2>1, <3>2 DEF Resolvable
      <4>. QED  BY <4>2, <4>3, <4>4 DEF Grown
    <3>3. CASE c # d
      BY <3>1, <3>3 DEF TypeOK, Grown
    <3>. QED  BY <3>2, <3>3
  <2>2. CASE ~Resolvable(c, o)
    BY <1>1, <1>4, <2>2 DEF ResolveUpdate
  <2>. QED  BY <2>1, <2>2
<1>5. ASSUME NEW s \in Sessions, Take(s) PROVE Grown(d)
  <2>1. board'[d] = IF d \in Untaken THEN [board[d] EXCEPT !.applied = TRUE]
                    ELSE board[d]
    BY <1>5 DEF Take
  <2>2. CASE d \in Untaken
    <3>1. board'[d] = [board[d] EXCEPT !.applied = TRUE]
      BY <2>1, <2>2
    <3>2. board'[d] # None
      BY <1>0, <3>1, RowSet, NoneIsApart
    <3>3. board'[d].resolution = board[d].resolution /\ board'[d].applied
      BY <1>0, <3>1 DEF Rows
    <3>. QED  BY <3>2, <3>3 DEF Grown
  <2>3. CASE d \notin Untaken
    BY <2>1, <2>3 DEF Grown
  <2>. QED  BY <2>2, <2>3
<1>. QED
  BY <1>1, <1>2, <1>3, <1>4, <1>5, FileTypes
  DEF Next, PublishDecision, Resolve, ResolveRead, TakeResolved, TakeAnswered,
      TakeLost, boardVars

-----------------------------------------------------------------------------
LEMMA InitBoard == Init => BoardInv
<1> SUFFICES ASSUME Init PROVE BoardInv
  OBVIOUS
<1>1. /\ \A d \in Ids : board[d] = None
      /\ \A p \in People, d \in Ids : told[p][d] = None
      /\ \A s \in Sessions, d \in Ids : known[s][d] = None /\ reply[s] = None
  BY DEF Init, Nothing
<1>2. AnswersAgree
  BY <1>1 DEF AnswersAgree
<1>3. Marked
  BY <1>1 DEF Marked, Holds, OnItsWay
<1>. QED  BY <1>1, <1>2, <1>3, InitType DEF BoardInv, IdsAreGiven

LEMMA NextIdsGiven == TypeOK /\ IdsAreGiven /\ Next => IdsAreGiven'
<1> SUFFICES ASSUME TypeOK, IdsAreGiven, Next, NEW d \in Ids, board'[d] # None
             PROVE  d \in given'
  BY DEF IdsAreGiven
<1>1. given \subseteq given'
  BY DEF Next, EditFile, EnqueueLocal, EnqueueRemote, ResolveLocal, ResolveRemote,
         FinishEdit, WriteBack, EditLost, Torn, PublishDecision, Publish,
         PublishUnqueued, Resolve, ResolveUpdate, ResolveRead, TakeResolved, Take,
         TakeAnswered, TakeLost, fileVars
<1>2. CASE board[d] # None
  BY <1>1, <1>2 DEF IdsAreGiven
<1>3. CASE board[d] = None
  <2>1. ~(board' = board)
    BY <1>3
  <2>2. ASSUME NEW c \in Ids, Publish(c) \/ PublishUnqueued(c) PROVE d \in given'
    BY <1>3, <2>2 DEF Publish, PublishUnqueued, TypeOK, fileVars
  <2>3. \A p \in People, c \in Ids, o \in Options \cup {Other} :
          ~ResolveUpdate(p, c, o)
    BY <1>3, <2>1 DEF ResolveUpdate, Resolvable, TypeOK
  <2>4. \A s \in Sessions : ~Take(s)
    BY <1>3 DEF Take, Untaken, Resolved
  <2>. QED
    BY <2>1, <2>2, <2>3, <2>4, FileTypes
    DEF Next, PublishDecision, Resolve, ResolveRead, TakeResolved, TakeAnswered,
        TakeLost, boardVars
<1>. QED  BY <1>2, <1>3

\* What one answer says of a decision.
Says(d, o) == board[d] # None /\ board[d].resolution = o

AgreeOn(d) ==
    /\ \A p \in People : told[p][d] # None => Says(d, told[p][d])
    /\ \A s \in Sessions : known[s][d] # None => Says(d, known[s][d])
    /\ \A s \in Sessions : OnItsWay(s, d) => Says(d, reply[s][d])

LEMMA Agreement == AnswersAgree <=> \A d \in Ids : AgreeOn(d)
BY DEF AnswersAgree, AgreeOn, Says, OnItsWay

\* An answer that was true stays true; a new one is read off the board.
LEMMA NextAgreeOn ==
    ASSUME TypeOK, Next, NEW d \in Ids, Grown(d), AgreeOn(d)
    PROVE  AgreeOn(d)'
<1>0. ASSUME NEW o, o # None, Says(d, o) PROVE Says(d, o)'
  BY <1>0 DEF Says, Grown
<1>1. CASE UNCHANGED <<told, known, reply>>
  <2>1. \A p \in People : told'[p][d] # None => Says(d, told[p][d])'
    BY <1>0, <1>1 DEF AgreeOn
  <2>2. \A s \in Sessions : known'[s][d] # None => Says(d, known[s][d])'
    BY <1>0, <1>1 DEF AgreeOn
  <2>3. \A s \in Sessions : OnItsWay(s, d)' => Says(d, reply[s][d])'
    BY <1>0, <1>1 DEF AgreeOn, OnItsWay
  <2>. QED  BY <2>1, <2>2, <2>3 DEF AgreeOn
<1>2. ASSUME UNCHANGED <<known, reply>>,
             \A p \in People : \/ told'[p][d] = told[p][d]
                               \/ told'[p][d] # None => Says(d, told[p][d])'
      PROVE  AgreeOn(d)'
  <2>1. \A p \in People : told'[p][d] # None => Says(d, told[p][d])'
    BY <1>0, <1>2 DEF AgreeOn
  <2>2. \A s \in Sessions : known'[s][d] # None => Says(d, known[s][d])'
    BY <1>0, <1>2 DEF AgreeOn
  <2>3. \A s \in Sessions : OnItsWay(s, d)' => Says(d, reply[s][d])'
    BY <1>0, <1>2 DEF AgreeOn, OnItsWay
  <2>. QED  BY <2>1, <2>2, <2>3 DEF AgreeOn
<1>3. ASSUME NEW p \in People, NEW c \in Ids, NEW o \in Options \cup {Other},
             ResolveUpdate(p, c, o)
      PROVE  AgreeOn(d)'
  <2>1. CASE Resolvable(c, o)
    <3>1. /\ board' = [board EXCEPT ![c].resolution = o]
          /\ told' = [told EXCEPT ![p][c] = o] /\ o \in Options
          /\ UNCHANGED <<known, reply>> /\ board[c] \in Rows
      BY <1>3, <2>1 DEF ResolveUpdate, Resolvable, TypeOK
    <3>2. CASE c = d
      <4>1. board'[d] = [board[d] EXCEPT !.resolution = o] /\ board[d] \in Rows
        BY <3>1, <3>2 DEF TypeOK
      <4>2. board'[d] # None /\ board'[d].resolution = o
        BY <4>1, RowSet, <3>1, NoneIsApart DEF Rows
      <4>3. told[p] \in Handed
        BY DEF TypeOK
      <4>4. told'[p][d] = o /\ \A q \in People \ {p} : told'[q] = told[q]
        BY <3>1, <3>2, <4>3 DEF TypeOK, Handed
      <4>5. Says(d, told[p][d])'
        BY <4>2, <4>4 DEF Says
      <4>. QED  BY <1>2, <3>1, <4>4, <4>5
    <3>3. CASE c # d
      <4>1. told[p] \in Handed
        BY DEF TypeOK
      <4>2. \A q \in People : told'[q][d] = told[q][d]
        BY <3>1, <3>3, <4>1 DEF TypeOK, Handed
      <4>. QED  BY <1>2, <3>1, <4>2
    <3>. QED  BY <3>2, <3>3
  <2>2. CASE ~Resolvable(c, o)
    BY <1>1, <1>3, <2>2 DEF ResolveUpdate
  <2>. QED  BY <2>1, <2>2
<1>4. ASSUME NEW p \in People, ResolveRead(p) PROVE AgreeOn(d)'
  <2> DEFINE c == asking[p]
  <2>1. c \in Ids /\ UNCHANGED <<board, known, reply>>
    BY <1>4 DEF ResolveRead, TypeOK
  <2>2. CASE Resolved(c)
    <3>1. told' = [told EXCEPT ![p][c] = board[c].resolution]
      BY <1>4, <2>2 DEF ResolveRead
    <3>2. told[p] \in Handed
      BY DEF TypeOK
    <3>3. \A q \in People : \/ told'[q][d] = told[q][d]
                            \/ c = d /\ told'[q][d] = board[c].resolution
      BY <2>1, <3>1, <3>2 DEF TypeOK, Handed
    <3>4. \A q \in People : \/ told'[q][d] = told[q][d]
                            \/ Says(d, told[q][d])'
      BY <2>1, <2>2, <3>3 DEF Says, Resolved
    <3>. QED  BY <1>2, <2>1, <3>4
  <2>3. CASE ~Resolved(c)
    BY <1>1, <1>4, <2>1, <2>3 DEF ResolveRead
  <2>. QED  BY <2>2, <2>3
<1>5. ASSUME UNCHANGED told,
             \A t \in Sessions : \/ known'[t][d] = known[t][d]
                                 \/ known'[t][d] # None => Says(d, known[t][d])',
             \A t \in Sessions : \/ reply'[t] = reply[t]
                                 \/ OnItsWay(t, d)' => Says(d, reply[t][d])'
      PROVE  AgreeOn(d)'
  <2>1. \A p \in People : told'[p][d] # None => Says(d, told[p][d])'
    BY <1>0, <1>5 DEF AgreeOn
  <2>2. \A t \in Sessions : known'[t][d] # None => Says(d, known[t][d])'
    BY <1>0, <1>5 DEF AgreeOn
  <2>3. \A t \in Sessions : OnItsWay(t, d)' => Says(d, reply[t][d])'
    BY <1>0, <1>5 DEF AgreeOn, OnItsWay
  <2>. QED  BY <2>1, <2>2, <2>3 DEF AgreeOn
<1>6. ASSUME NEW s \in Sessions, Take(s) PROVE AgreeOn(d)'
  <2>1. /\ reply'[s][d] = IF d \in Untaken THEN board[d].resolution ELSE None
        /\ \A t \in Sessions \ {s} : reply'[t] = reply[t]
        /\ UNCHANGED <<told, known>>
    BY <1>6 DEF Take, TypeOK
  <2>2. OnItsWay(s, d)' => Says(d, reply[s][d])'
    <3> SUFFICES ASSUME reply'[s][d] # None PROVE Says(d, reply[s][d])'
      BY DEF OnItsWay
    <3>1. Resolved(d) /\ reply'[s][d] = board[d].resolution
      BY <2>1 DEF Untaken
    <3>. QED  BY <3>1 DEF Says, Grown, Resolved
  <2>. QED  BY <1>5, <2>1, <2>2
<1>7. ASSUME NEW s \in Sessions, TakeAnswered(s) PROVE AgreeOn(d)'
  <2>1. /\ known'[s][d] = IF reply[s][d] # None THEN reply[s][d] ELSE known[s][d]
        /\ \A t \in Sessions \ {s} : known'[t] = known[t] /\ reply'[t] = reply[t]
        /\ reply'[s] = None /\ reply[s] # None
        /\ UNCHANGED <<told, board>>
    BY <1>7 DEF TakeAnswered, TypeOK
  <2>2. known'[s][d] = known[s][d] \/ Says(d, known[s][d])'
    BY <2>1 DEF AgreeOn, OnItsWay, Says
  <2>3. ~OnItsWay(s, d)'
    BY <2>1 DEF OnItsWay
  <2>. QED  BY <1>5, <2>1, <2>2, <2>3
<1>8. ASSUME NEW s \in Sessions, TakeLost(s) PROVE AgreeOn(d)'
  <2>1. /\ reply'[s] = None
        /\ \A t \in Sessions \ {s} : reply'[t] = reply[t]
        /\ UNCHANGED <<told, known>>
    BY <1>8 DEF TakeLost, TypeOK
  <2>2. ~OnItsWay(s, d)'
    BY <2>1 DEF OnItsWay
  <2>. QED  BY <1>5, <2>1, <2>2
<1>9. CASE EditFile \/ FinishEdit \/ Torn
  BY <1>1, <1>9, FileTypes DEF boardVars
<1>10. CASE PublishDecision
  BY <1>1, <1>10 DEF PublishDecision, Publish, PublishUnqueued
<1>. QED
  BY <1>3, <1>4, <1>6, <1>7, <1>8, <1>9, <1>10 DEF Next, Resolve, TakeResolved

MarkedOn(d) ==
    /\ \A s \in Sessions : Holds(s, d) => board[d] # None /\ board[d].applied
    /\ \A s \in Sessions : ~(known[s][d] # None /\ OnItsWay(s, d))
    /\ \A s, t \in Sessions : Holds(s, d) /\ Holds(t, d) => s = t

\* Take moves to a session what nobody held; its answer, or the loss of it, leaves
\* everything with the session that had it.
LEMMA NextMarkedOn ==
    ASSUME TypeOK, Next, NEW d \in Ids, Grown(d), MarkedOn(d)
    PROVE  MarkedOn(d)'
<1>1. ASSUME \A s \in Sessions : Holds(s, d)' => Holds(s, d),
             \A s \in Sessions : ~(known[s][d] # None /\ OnItsWay(s, d))'
      PROVE  MarkedOn(d)'
  BY <1>1 DEF MarkedOn, Grown
<1>2. CASE UNCHANGED <<known, reply>>
  BY <1>1, <1>2 DEF MarkedOn, Holds, OnItsWay
<1>3. ASSUME NEW s \in Sessions, Take(s) PROVE MarkedOn(d)'
  <2>1. /\ reply'[s][d] = IF d \in Untaken THEN board[d].resolution ELSE None
        /\ \A t \in Sessions \ {s} : reply'[t] = reply[t]
        /\ reply[s] = None /\ known' = known
        /\ board'[d] = IF d \in Untaken THEN [board[d] EXCEPT !.applied = TRUE]
                       ELSE board[d]
    BY <1>3 DEF Take, TypeOK
  <2>2. CASE d \notin Untaken
    <3>1. ~OnItsWay(s, d)'
      BY <2>1, <2>2 DEF OnItsWay
    <3>2. \A t \in Sessions \ {s} : OnItsWay(t, d)' <=> OnItsWay(t, d)
      BY <2>1 DEF OnItsWay
    <3>3. \A t \in Sessions : Holds(t, d)' => Holds(t, d)
      BY <2>1, <3>1, <3>2 DEF Holds
    <3>4. \A t \in Sessions : ~(known[t][d] # None /\ OnItsWay(t, d))'
      BY <2>1, <3>1, <3>2 DEF MarkedOn
    <3>. QED  BY <1>1, <3>3, <3>4
  <2>3. CASE d \in Untaken
    <3>1. board[d] \in Rows /\ ~board[d].applied
      BY <2>3 DEF Untaken, Resolved, TypeOK
    <3>2. \A t \in Sessions : ~Holds(t, d)
      BY <3>1 DEF MarkedOn
    <3>3. \A t \in Sessions : known'[t][d] = None
      BY <2>1, <3>2 DEF Holds
    <3>4. \A t \in Sessions \ {s} : ~OnItsWay(t, d)'
      BY <2>1, <3>2 DEF Holds, OnItsWay
    <3>5. \A t \in Sessions : Holds(t, d)' => t = s
      BY <3>3, <3>4 DEF Holds
    <3>6. board'[d] = [board[d] EXCEPT !.applied = TRUE]
      BY <2>1, <2>3
    <3>7. board'[d] # None
      BY <3>1, <3>6, RowSet, NoneIsApart
    <3>8. board'[d].applied
      BY <3>1, <3>6 DEF Rows
    <3>. QED  BY <3>3, <3>5, <3>7, <3>8 DEF MarkedOn
  <2>. QED  BY <2>2, <2>3
<1>4. ASSUME NEW s \in Sessions, TakeAnswered(s) PROVE MarkedOn(d)'
  <2>1. /\ known'[s][d] = IF reply[s][d] # None THEN reply[s][d] ELSE known[s][d]
        /\ \A t \in Sessions \ {s} : known'[t] = known[t] /\ reply'[t] = reply[t]
        /\ reply'[s] = None /\ reply[s] # None
    BY <1>4 DEF TakeAnswered, TypeOK
  <2>2. ~OnItsWay(s, d)' /\ (Holds(s, d)' => Holds(s, d))
    BY <2>1 DEF Holds, OnItsWay
  <2>3. \A t \in Sessions \ {s} : /\ known'[t][d] = known[t][d]
                                  /\ OnItsWay(t, d)' <=> OnItsWay(t, d)
    BY <2>1 DEF OnItsWay
  <2>4. \A t \in Sessions : Holds(t, d)' => Holds(t, d)
    BY <2>2, <2>3 DEF Holds
  <2>5. \A t \in Sessions : ~(known[t][d] # None /\ OnItsWay(t, d))'
    BY <2>2, <2>3 DEF MarkedOn
  <2>. QED  BY <1>1, <2>4, <2>5
<1>5. ASSUME NEW s \in Sessions, TakeLost(s) PROVE MarkedOn(d)'
  <2>1. /\ \A t \in Sessions \ {s} : reply'[t] = reply[t]
        /\ reply'[s] = None /\ known' = known
    BY <1>5 DEF TakeLost, TypeOK
  <2>2. \A t \in Sessions : OnItsWay(t, d)' => OnItsWay(t, d)
    BY <2>1 DEF OnItsWay
  <2>. QED  BY <1>1, <2>1, <2>2 DEF MarkedOn, Holds
<1>6. CASE EditFile \/ FinishEdit \/ Torn
  BY <1>2, <1>6, FileTypes DEF boardVars
<1>. QED
  BY <1>2, <1>3, <1>4, <1>5, <1>6
  DEF Next, TakeResolved, PublishDecision, Publish, PublishUnqueued, Resolve,
      ResolveUpdate, ResolveRead

LEMMA NextBoard == BoardInv /\ [Next]_vars => BoardInv'
<1>1. ASSUME BoardInv, Next PROVE BoardInv'
  <2>1. \A d \in Ids : Grown(d)
    BY <1>1, Growth DEF BoardInv
  <2>2. \A d \in Ids : AgreeOn(d) /\ MarkedOn(d)
    BY <1>1, Agreement DEF BoardInv, Marked, MarkedOn
  <2>3. \A d \in Ids : AgreeOn(d)' /\ MarkedOn(d)'
    BY <1>1, <2>1, <2>2, NextAgreeOn, NextMarkedOn DEF BoardInv
  <2>4. AnswersAgree'
    BY <2>3 DEF AnswersAgree, AgreeOn, Says, OnItsWay
  <2>5. Marked'
    BY <2>3 DEF Marked, MarkedOn
  <2>. QED  BY <1>1, <2>4, <2>5, NextType, NextIdsGiven DEF BoardInv
<1>2. ASSUME BoardInv, UNCHANGED vars PROVE BoardInv'
  BY <1>2, NextType
  DEF BoardInv, vars, fileVars, boardVars, AnswersAgree, Marked, Holds, OnItsWay,
      IdsAreGiven
<1>. QED  BY <1>1, <1>2

LEMMA BoardIsInductive == Spec => []BoardInv
BY InitBoard, NextBoard, PTL DEF Spec

\* All who were told how a decision was resolved were told the same, in every
\* order of publishing, resolving and taking.
THEOREM AllAnswersAgree == Spec => []AnswersAgree
BY BoardIsInductive, PTL DEF BoardInv

\* A resolution reaches one session at the most, and only once.
THEOREM OnlyHandedOnce == Spec => []HandedOnce
<1>1. ASSUME Marked PROVE HandedOnce
  <2> SUFFICES ASSUME NEW d \in Ids
               PROVE  Cardinality({s \in Sessions : known[s][d] # None})
                        + Cardinality({s \in Sessions : OnItsWay(s, d)}) <= 1
    BY DEF HandedOnce, OnItsWay
  <2> DEFINE have == {s \in Sessions : known[s][d] # None}
             await == {s \in Sessions : OnItsWay(s, d)}
  <2>1. /\ \A s, t \in have \cup await : s = t
        /\ have \cap await = {}
    BY <1>1 DEF Marked, Holds
  <2>. SUFFICES Cardinality(have) + Cardinality(await) <= 1
    OBVIOUS
  <2>. HIDE DEF have, await
  <2>2. CASE have \cup await = {}
    <3>1. have = {} /\ await = {}
      BY <2>2
    <3>. QED  BY <3>1, FS_EmptySet
  <2>3. CASE have \cup await # {}
    <3>1. PICK s : s \in have \cup await
      BY <2>3
    <3>2. CASE s \in have
      <4>1. have = {s} /\ await = {}
        BY <2>1, <3>2
      <4>2. Cardinality({s}) = 1 /\ Cardinality({}) = 0
        BY FS_EmptySet, FS_Singleton
      <4>. QED  BY <4>1, <4>2
    <3>3. CASE s \in await
      <4>1. have = {} /\ await = {s}
        BY <2>1, <3>3
      <4>2. Cardinality({s}) = 1 /\ Cardinality({}) = 0
        BY FS_EmptySet, FS_Singleton
      <4>. QED  BY <4>1, <4>2
    <3>. QED  BY <3>1, <3>2, <3>3
  <2>. QED  BY <2>2, <2>3
<1>. QED  BY <1>1, BoardIsInductive, PTL DEF BoardInv

-----------------------------------------------------------------------------
\* What an open edit will write is the file as it is, with its entry added or
\* moved; and there is one open edit at the most.
EditIsCurrent ==
    /\ \A s \in Sessions : edit[s] # None =>
         edit[s].to = IF edit[s].new THEN Enqueued(file, edit[s].id)
                                     ELSE Moved(file, edit[s].id)
    /\ \A s \in Sessions : edit[s] # None =>
         edit[s].id \in given /\ (edit[s].new => edit[s].id \notin Queued)
    /\ \A s, t \in Sessions : edit[s] # None /\ edit[t] # None => s = t

\* Ids in the file were given out, so a new entry is in neither section.
FileInv ==
    /\ EntriesAreKept /\ EditIsCurrent
    /\ Queued \subseteq given

LEMMA InitFile == Init => FileInv
BY DEF Init, FileInv, EntriesAreKept, EditIsCurrent, Queued

\* Adding an entry that is in neither section, or moving one, loses none.
LEMMA FileWith ==
    ASSUME TypeOK, EntriesAreKept, Queued \subseteq given, NEW d \in Ids,
           NEW f, f = Moved(file, d) \/ (d \notin Queued /\ f = Enqueued(file, d))
    PROVE  /\ f.pendientes \cap f.resueltas = {}
           /\ f.pendientes \cup f.resueltas = Queued \cup {d}
<1>1. file \in Files
  BY DEF TypeOK
<1>2. CASE f = Moved(file, d)
  BY <1>1, <1>2 DEF Moved, Queued, EntriesAreKept, Files
<1>3. CASE d \notin Queued /\ f = Enqueued(file, d)
  <2>1. f.pendientes = file.pendientes \cup {d} /\ f.resueltas = file.resueltas
    BY <1>1, <1>3 DEF Enqueued, Files
  <2>. QED  BY <1>3, <2>1 DEF Queued, EntriesAreKept
<1>. QED  BY <1>2, <1>3

LEMMA NextFile ==
    ASSUME OneEditor, TypeOK, FileInv, [Next]_vars PROVE FileInv'
<1>0. /\ EntriesAreKept /\ EditIsCurrent /\ Queued \subseteq given
      /\ MayEdit => \A s \in Sessions : edit[s] = None
  BY DEF FileInv, OneEditor, MayEdit, Editing
<1>1. ASSUME NEW s \in Sessions, NEW d \in Ids, EnqueueLocal(s, d) PROVE FileInv'
  <2>1. /\ d \notin Queued /\ file' = Enqueued(file, d)
        /\ given' = given \cup {d} /\ owed' = owed \cup {d}
        /\ edit' = edit /\ \A t \in Sessions : edit[t] = None
    BY <1>0, <1>1 DEF EnqueueLocal
  <2>2. file'.pendientes \cap file'.resueltas = {} /\ Queued' = Queued \cup {d}
    BY <1>0, <2>1, FileWith DEF Queued
  <2>. QED  BY <1>0, <2>1, <2>2 DEF FileInv, EntriesAreKept, EditIsCurrent
<1>2. ASSUME NEW s \in Sessions, NEW d \in Ids, ResolveLocal(s, d) PROVE FileInv'
  <2>1. /\ d \in Queued /\ file' = Moved(file, d)
        /\ given' = given /\ owed' = owed
        /\ edit' = edit /\ \A t \in Sessions : edit[t] = None
    BY <1>0, <1>2 DEF ResolveLocal, Queued
  <2>2. file'.pendientes \cap file'.resueltas = {} /\ Queued' = Queued \cup {d}
    BY <1>0, <2>1, FileWith DEF Queued
  <2>. QED  BY <1>0, <2>1, <2>2 DEF FileInv, EntriesAreKept, EditIsCurrent
<1>3. ASSUME NEW s \in Sessions, NEW d \in Ids,
             EnqueueRemote(s, d) \/ ResolveRemote(s, d)
      PROVE  FileInv'
  <2>1. /\ file' = file /\ owed' = owed /\ given \subseteq given' /\ d \in given'
        /\ \A t \in Sessions : edit[t] = None
    BY <1>0, <1>3 DEF EnqueueRemote, ResolveRemote, Queued
  <2>2. PICK new \in BOOLEAN :
          /\ edit' = [edit EXCEPT ![s] =
               [to |-> IF new THEN Enqueued(file, d) ELSE Moved(file, d),
                id |-> d, new |-> new]]
          /\ new => d \notin Queued
    BY <1>0, <1>3 DEF EnqueueRemote, ResolveRemote
  <2>3. /\ edit'[s] = [to |-> IF new THEN Enqueued(file, d) ELSE Moved(file, d),
                       id |-> d, new |-> new]
        /\ \A t \in Sessions \ {s} : edit'[t] = None
    BY <2>1, <2>2 DEF TypeOK
  <2>4. EditIsCurrent'
    <3>1. edit'[s].to = IF edit'[s].new THEN Enqueued(file', edit'[s].id)
                                        ELSE Moved(file', edit'[s].id)
      BY <2>1, <2>3
    <3>2. edit'[s].id \in given' /\ (edit'[s].new => edit'[s].id \notin Queued')
      BY <2>1, <2>2, <2>3 DEF Queued
    <3>. QED  BY <2>3, <3>1, <3>2 DEF EditIsCurrent, Enqueued, Moved
  <2>. QED  BY <1>0, <2>1, <2>4 DEF FileInv, EntriesAreKept, Queued
<1>4. ASSUME NEW s \in Sessions, WriteBack(s) PROVE FileInv'
  <2> DEFINE d == edit[s].id
  <2>1. /\ edit[s] \in Edits /\ d \in Ids /\ d \in given
        /\ file' = edit[s].to /\ given' = given
        /\ owed' \subseteq owed \cup {d}
        /\ \A t \in Sessions : edit'[t] = None
    BY <1>0, <1>4 DEF WriteBack, TypeOK, Edits, EditIsCurrent
  <2>2. file' = Moved(file, d) \/ (d \notin Queued /\ file' = Enqueued(file, d))
    BY <1>0, <1>4, <2>1 DEF EditIsCurrent, WriteBack
  <2>3. file'.pendientes \cap file'.resueltas = {} /\ Queued' = Queued \cup {d}
    <3> HIDE DEF d
    <3>. QED  BY <1>0, <2>1, <2>2, FileWith DEF Queued
  <2>. QED  BY <1>0, <2>1, <2>3 DEF FileInv, EntriesAreKept, EditIsCurrent
<1>5. ASSUME NEW s \in Sessions, EditLost(s) PROVE FileInv'
  <2>1. /\ UNCHANGED <<file, owed, given>>
        /\ \A t \in Sessions : edit'[t] = None
    BY <1>0, <1>5 DEF EditLost, TypeOK, EditIsCurrent
  <2>. QED  BY <1>0, <2>1 DEF FileInv, EntriesAreKept, EditIsCurrent, Queued
<1>6. CASE Torn
  <2>1. PICK kept \in SUBSET Queued :
          /\ file' = [pendientes |-> file.pendientes \cap kept,
                      resueltas |-> file.resueltas \cap kept]
          /\ owed' = owed \cap kept
    BY <1>6 DEF Torn
  <2>2. edit' = edit /\ given' = given /\ \A t \in Sessions : edit[t] = None
    BY <1>0, <1>6 DEF Torn
  <2>3. EntriesAreKept' /\ Queued' \subseteq Queued
    BY <1>0, <2>1 DEF EntriesAreKept, Queued
  <2>. QED  BY <1>0, <2>2, <2>3 DEF FileInv, EditIsCurrent
<1>7. ASSUME UNCHANGED <<file, edit, owed>>, given \subseteq given' PROVE FileInv'
  BY <1>0, <1>7 DEF FileInv, EntriesAreKept, EditIsCurrent, Queued, Enqueued, Moved
<1>8. CASE PublishDecision \/ Resolve \/ TakeResolved
  <2>1. given \subseteq given'
    BY <1>8 DEF PublishDecision, Publish, PublishUnqueued, Resolve, ResolveUpdate,
       ResolveRead, TakeResolved, Take, TakeAnswered, TakeLost, fileVars
  <2>. QED  BY <1>7, <1>8, <2>1, BoardTypes
<1>9. CASE UNCHANGED vars
  BY <1>7, <1>9 DEF vars, fileVars
<1>. QED
  BY <1>1, <1>2, <1>3, <1>4, <1>5, <1>6, <1>8, <1>9 DEF Next, EditFile, FinishEdit

\* While one session at a time changes the file, no entry a session was told of is
\* lost by another's change and none is in both sections.
THEOREM EntriesStay == ASSUME OneEditor PROVE Spec => []EntriesAreKept
<1>1. TypeOK /\ FileInv /\ [Next]_vars => FileInv'
  BY OneEditor, NextFile
<1>2. FileInv => EntriesAreKept
  BY DEF FileInv
<1>. QED  BY <1>1, <1>2, InitFile, TypeCorrect, PTL DEF Spec

-----------------------------------------------------------------------------
(***************************************************************************)
(* SessionBeats.                                                           *)
(***************************************************************************)

\* The one event a session can have of its stops is there once it had a stop.
StopTold(s) == StopEvent(s) \in events <=> s \in stopped

Stops(s) == Live(s) /\ Stale(s) /\ row[s].uc # NoUc

BeatsInv == /\ BeatsTypeOK /\ WaitsAreAnnounced
            /\ \A s \in SessionIds : StopTold(s)

LEMMA BeatsInitInv == BeatsInit => BeatsInv
BY BoundsAreNumbers
DEF BeatsInit, BeatsInv, BeatsTypeOK, WaitsAreAnnounced, StopTold, Exists

\* An upsert of another developer's session does nothing; any other leaves a
\* row of the beat's, still or again waiting, with the wait announced when it
\* is a new one.
LEMMA UpsertLeaves ==
    ASSUME BeatsTypeOK, NEW c \in Calls, Upsert(c)
    PROVE  /\ call' \in [Calls -> Beats \cup {Idle}]
           /\ UNCHANGED <<members, stopped>> /\ waits' \in 0..MaxWaits
           /\ \/ row' = row /\ events' = events
              \/ \E s \in SessionIds, b \in Beats, new \in Heartbeats :
                   /\ b = call[c] /\ s = b.session
                   /\ row[s] = NoRow \/ row[s].dev = b.dev
                   /\ row' = [row EXCEPT ![s] = new]
                   /\ new.waiting = b.waiting
                   /\ new.end = IF b.ended THEN "closed" ELSE "live"
                   /\ new.since = Since(row[s], b)
                   /\ events' = events \cup {e \in {WaitEvent(s, new)} :
                        new.waiting = "decision" /\
                            (row[s] = NoRow \/ row[s].waiting # new.waiting)}
<1> DEFINE b == call[c]
           s == b.session
           old == row[s]
           new == Upserted(old, b)
<1>1. b \in Beats /\ s \in SessionIds
  BY DEF Upsert, BeatsTypeOK, Beats
<1>2. old \in Heartbeats \cup {NoRow}
  BY <1>1 DEF BeatsTypeOK
<1>3. /\ new.since <= MaxWaits
      /\ row' = [row EXCEPT ![s] = new]
      /\ waits' = IF new.since > waits THEN new.since ELSE waits
      /\ events' = events \cup SessionEvents(s, old, new)
      /\ call' = [call EXCEPT ![c] = Idle] /\ UNCHANGED <<members, stopped>>
  BY DEF Upsert
<1>4. call' \in [Calls -> Beats \cup {Idle}]
  BY <1>3 DEF BeatsTypeOK
<1>5. CASE old # NoRow /\ old.dev # b.dev
  <2>1. new = old /\ old \in Heartbeats
    BY <1>2, <1>5 DEF Upserted
  <2>2. row' = row
    BY <1>1, <1>3, <2>1 DEF BeatsTypeOK
  <2>3. SessionEvents(s, old, new) = {}
    BY <1>5, <2>1 DEF SessionEvents
  <2>4. waits' \in 0..MaxWaits
    BY <1>3, <2>1, BoundsAreNumbers DEF BeatsTypeOK, Heartbeats
  <2>. QED  BY <1>3, <1>4, <2>2, <2>3, <2>4
<1>6. CASE ~(old # NoRow /\ old.dev # b.dev)
  <2>1. new = [dev |-> b.dev, uc |-> b.uc, waiting |-> b.waiting,
               since |-> Since(old, b), age |-> 0,
               end |-> IF b.ended THEN "closed" ELSE "live"]
    BY <1>6 DEF Upserted
  <2>2. /\ b.dev \in Devs /\ b.uc \in Ucs \cup {NoUc} /\ b.waiting \in Waiting
        /\ b.ended \in BOOLEAN
    BY <1>1 DEF Beats
  <2>3. Since(old, b) \in Nat
    BY <1>2, BoundsAreNumbers DEF Since, Heartbeats, BeatsTypeOK
  <2>4. Since(old, b) \in 0..MaxWaits
    BY <1>3, <2>1, <2>3, BoundsAreNumbers
  <2>5. new \in Heartbeats
    BY <2>1, <2>2, <2>4, BoundsAreNumbers DEF Heartbeats
  <2>6. waits' \in 0..MaxWaits
    BY <1>3, <2>1, <2>4, BoundsAreNumbers DEF BeatsTypeOK
  <2>7. SessionEvents(s, old, new) =
          {e \in {WaitEvent(s, new)} :
              new.waiting = "decision" /\ (old = NoRow \/ old.waiting # new.waiting)}
    BY <2>1 DEF SessionEvents
  <2>8. /\ new.waiting = b.waiting /\ new.since = Since(old, b)
        /\ new.end = IF b.ended THEN "closed" ELSE "live"
    BY SMTT(60), <2>1
  <2>. QED  BY <1>1, <1>3, <1>4, <1>6, <2>5, <2>6, <2>7, <2>8
<1>. QED  BY <1>5, <1>6

\* The sweep closes rows as they are, and announces those with a UC open.
LEMMA SweepLeaves ==
    ASSUME BeatsTypeOK, Sweep
    PROVE  /\ UNCHANGED <<call, members, waits>>
           /\ row' \in [SessionIds -> Heartbeats \cup {NoRow}]
           /\ events \subseteq events' /\ events' \subseteq Events
           /\ stopped' \subseteq SessionIds
           /\ \A s \in SessionIds :
                /\ s \in stopped' <=> s \in stopped \/ Stops(s)
                /\ StopEvent(s) \in events' <=> StopEvent(s) \in events \/ Stops(s)
           /\ \A s \in SessionIds :
                \/ row'[s] = row[s]
                \/ /\ Live(s) /\ Stale(s)
                   /\ row'[s].end = "timeout" /\ row'[s].uc = row[s].uc
                   /\ row'[s].waiting = "none" /\ row'[s].since = 0
<1> DEFINE due == {s \in SessionIds : Live(s) /\ Stale(s)}
           closed(s) == [row[s] EXCEPT !.end = "timeout", !.waiting = "none",
                                       !.since = 0]
           added == UNION {SessionEvents(s, row[s], closed(s)) : s \in due}
<1>1. /\ row' = [s \in SessionIds |-> IF s \in due THEN closed(s) ELSE row[s]]
      /\ events' = events \cup added
      /\ stopped' = stopped \cup {s \in due : row[s].uc # NoUc}
      /\ UNCHANGED <<call, members, waits>>
  BY DEF Sweep
<1>2. \A s \in due : row[s] \in Heartbeats /\ row[s] # NoRow
  BY DEF BeatsTypeOK, Live, Exists
<1>3. \A s \in due : /\ closed(s) \in Heartbeats
                     /\ closed(s).end = "timeout" /\ closed(s).uc = row[s].uc
                     /\ closed(s).waiting = "none" /\ closed(s).since = 0
  <2> SUFFICES ASSUME NEW s \in due
               PROVE  /\ closed(s) \in Heartbeats
                      /\ closed(s).end = "timeout" /\ closed(s).uc = row[s].uc
                      /\ closed(s).waiting = "none" /\ closed(s).since = 0
    OBVIOUS
  <2>1. row[s] \in Heartbeats
    BY <1>2
  <2>2. 0 \in 0..MaxWaits /\ "none" \in Waiting
    BY BoundsAreNumbers DEF Waiting
  <2>. QED  BY <2>1, <2>2 DEF Heartbeats
<1>4. row' \in [SessionIds -> Heartbeats \cup {NoRow}]
  BY <1>1, <1>3 DEF BeatsTypeOK
<1>5. \A s \in due :
        SessionEvents(s, row[s], closed(s)) =
            {e \in {StopEvent(s)} : row[s].uc # NoUc}
  BY <1>2, <1>3 DEF SessionEvents, Live
<1>6. added \subseteq Events
  <2> SUFFICES ASSUME NEW e \in added PROVE e \in Events
    OBVIOUS
  <2>1. PICK s \in due : e \in SessionEvents(s, row[s], closed(s))
    OBVIOUS
  <2>2. e = StopEvent(s)
    BY <1>5, <2>1
  <2>. QED  BY <2>2 DEF StopEvent, Events
<1>7. ASSUME NEW s \in SessionIds
      PROVE  StopEvent(s) \in added <=> s \in due /\ row[s].uc # NoUc
  <2>1. \A r \in due : StopEvent(s) = StopEvent(r) => s = r
    BY DEF StopEvent
  <2> HIDE DEF due, closed
  <2>. QED  BY <1>5, <2>1
<1>8. ASSUME NEW s \in SessionIds
      PROVE  \/ row'[s] = row[s]
             \/ /\ Live(s) /\ Stale(s)
                /\ row'[s].end = "timeout" /\ row'[s].uc = row[s].uc
                /\ row'[s].waiting = "none" /\ row'[s].since = 0
  <2>1. CASE s \notin due
    BY <1>1, <2>1
  <2>2. CASE s \in due
    <3>1. row'[s] = closed(s)
      BY <1>1, <2>2
    <3>. QED  BY <1>1, <1>3, <2>2, <3>1
  <2>. QED  BY <2>1, <2>2
<1>9. ASSUME NEW s \in SessionIds
      PROVE  /\ s \in stopped' <=> s \in stopped \/ Stops(s)
             /\ StopEvent(s) \in events' <=> StopEvent(s) \in events \/ Stops(s)
  BY <1>1, <1>7 DEF Stops
<1>. QED  BY <1>1, <1>4, <1>6, <1>8, <1>9 DEF BeatsTypeOK

\* Time makes rows older and changes nothing else of them.
LEMMA TickLeaves ==
    ASSUME BeatsTypeOK, Tick
    PROVE  /\ UNCHANGED <<call, members, events, waits, stopped>>
           /\ row' \in [SessionIds -> Heartbeats \cup {NoRow}]
           /\ \A s \in SessionIds :
                \/ row'[s] = row[s]
                \/ /\ Exists(s)
                   /\ row'[s].dev = row[s].dev /\ row'[s].uc = row[s].uc
                   /\ row'[s].waiting = row[s].waiting
                   /\ row'[s].since = row[s].since /\ row'[s].end = row[s].end
<1>1. /\ UNCHANGED <<call, members, events, waits, stopped>>
      /\ row' = [s \in SessionIds |->
                   IF Exists(s) /\ row[s].age <= Limit
                     THEN [row[s] EXCEPT !.age = @ + 1] ELSE row[s]]
  BY DEF Tick
<1>2. ASSUME NEW s \in SessionIds, Exists(s), row[s].age <= Limit
      PROVE  /\ row'[s] \in Heartbeats
             /\ row'[s].dev = row[s].dev /\ row'[s].uc = row[s].uc
             /\ row'[s].waiting = row[s].waiting
             /\ row'[s].since = row[s].since /\ row'[s].end = row[s].end
  <2>1. row[s] \in Heartbeats
    BY <1>2 DEF BeatsTypeOK, Exists
  <2>2. row'[s] = [row[s] EXCEPT !.age = @ + 1]
    BY <1>1, <1>2
  <2>3. row[s].age + 1 \in 0..(Limit + 1)
    BY <1>2, <2>1, BoundsAreNumbers DEF Heartbeats
  <2>. QED  BY <2>1, <2>2, <2>3 DEF Heartbeats
<1>3. ASSUME NEW s \in SessionIds, ~(Exists(s) /\ row[s].age <= Limit)
      PROVE  row'[s] = row[s]
  BY <1>1, <1>3
<1>4. row' \in [SessionIds -> Heartbeats \cup {NoRow}]
  BY <1>1, <1>2, <1>3 DEF BeatsTypeOK
<1>. QED  BY <1>1, <1>2, <1>3, <1>4

-----------------------------------------------------------------------------
\* A row that is as it was, or only older, and events that are still there, keep
\* what the properties say of it.
WaitTold(s) ==
    Exists(s) =>
        /\ row[s].waiting = "none" <=> row[s].since = 0
        /\ row[s].waiting = "decision" => WaitEvent(s, row[s]) \in events

LEMMA KeptRows ==
    ASSUME NEW s \in SessionIds, WaitTold(s), events \subseteq events',
           \/ row'[s] = row[s]
           \/ /\ Exists(s)
              /\ row'[s].uc = row[s].uc /\ row'[s].waiting = row[s].waiting
              /\ row'[s].since = row[s].since /\ row'[s].end = row[s].end
    PROVE  WaitTold(s)'
BY DEF WaitTold, Exists, WaitEvent

\* A new wait is announced, one that goes on was announced when it began.
LEMMA WrittenRow ==
    ASSUME BeatsTypeOK, NEW s \in SessionIds, NEW b \in Beats,
           NEW new \in Heartbeats, WaitTold(s),
           row' = [row EXCEPT ![s] = new],
           new.waiting = b.waiting, new.since = Since(row[s], b),
           new.end = IF b.ended THEN "closed" ELSE "live",
           events' = events \cup {e \in {WaitEvent(s, new)} :
               new.waiting = "decision" /\
                   (row[s] = NoRow \/ row[s].waiting # new.waiting)}
    PROVE  WaitTold(s)'
<1>1. row'[s] = new
  BY DEF BeatsTypeOK
<1>3. CASE b.waiting = "none"
  <2>1. new.since = 0
    BY <1>3 DEF Since
  <2>. QED  BY <1>1, <1>3, <2>1 DEF WaitTold
<1>4. CASE b.waiting # "none" /\ row[s] # NoRow /\ row[s].waiting = b.waiting
  <2>1. new.since = row[s].since
    BY <1>4 DEF Since
  <2>2. WaitEvent(s, new) = WaitEvent(s, row[s])
    BY <2>1 DEF WaitEvent
  <2>. QED  BY <1>1, <1>4, <2>1, <2>2 DEF WaitTold, Exists
<1>5. CASE b.waiting # "none" /\ (row[s] = NoRow \/ row[s].waiting # b.waiting)
  <2>1. new.since = waits + 1
    BY <1>5 DEF Since
  <2>2. new.since # 0
    BY <2>1 DEF BeatsTypeOK
  <2>3. b.waiting = "decision" => WaitEvent(s, new) \in events'
    BY <1>5
  <2>. QED  BY <1>1, <1>5, <2>2, <2>3 DEF WaitTold, WaitEvent
<1>. QED  BY <1>3, <1>4, <1>5

LEMMA Told == WaitsAreAnnounced <=> \A s \in SessionIds : WaitTold(s)
BY DEF WaitsAreAnnounced, WaitTold

\* No event of a wait is one of a stop.
LEMMA OtherEvents ==
    ASSUME NEW s \in SessionIds, NEW r, NEW new, NEW E,
           E \subseteq {WaitEvent(r, new)}, events' = events \cup E,
           UNCHANGED stopped, StopTold(s)
    PROVE  StopTold(s)'
<1>1. WaitEvent(r, new).kind # StopEvent(s).kind
  BY DEF WaitEvent, StopEvent
<1>2. StopEvent(s) \notin E
  BY <1>1
<1>. QED  BY <1>2 DEF StopTold, StopEvent

LEMMA BeatsNextInv == BeatsInv /\ [BeatsNext]_beatVars => BeatsInv'
<1> SUFFICES ASSUME BeatsInv, [BeatsNext]_beatVars PROVE BeatsInv'
  OBVIOUS
<1>t. BeatsTypeOK /\ \A s \in SessionIds : WaitTold(s) /\ StopTold(s)
  BY Told DEF BeatsInv
<1> SUFFICES BeatsTypeOK' /\ \A s \in SessionIds : WaitTold(s)' /\ StopTold(s)'
  BY DEF BeatsInv, WaitsAreAnnounced, WaitTold
<1>a. ASSUME BeatsTypeOK', row' = row, events' = events, stopped' = stopped
      PROVE  BeatsTypeOK' /\ \A s \in SessionIds : WaitTold(s)' /\ StopTold(s)'
  BY <1>a, <1>t, KeptRows DEF StopTold, StopEvent
<1>1. ASSUME NEW c \in Calls, NEW b \in Beats, ResolveCaller(c, b)
      PROVE  BeatsTypeOK' /\ \A s \in SessionIds : WaitTold(s)' /\ StopTold(s)'
  BY <1>a, <1>t, <1>1 DEF ResolveCaller, BeatsTypeOK
<1>2. ASSUME NEW c \in Calls, Upsert(c)
      PROVE  BeatsTypeOK' /\ \A s \in SessionIds : WaitTold(s)' /\ StopTold(s)'
  <2>1. /\ call' \in [Calls -> Beats \cup {Idle}]
        /\ UNCHANGED <<members, stopped>> /\ waits' \in 0..MaxWaits
    BY <1>t, <1>2, UpsertLeaves
  <2>2. CASE row' = row /\ events' = events
    <3>1. BeatsTypeOK'
      BY <1>t, <2>1, <2>2 DEF BeatsTypeOK
    <3>. QED  BY <1>a, <2>1, <2>2, <3>1
  <2>3. CASE ~(row' = row /\ events' = events)
    <3>1. PICK s \in SessionIds, b \in Beats, new \in Heartbeats :
            /\ row' = [row EXCEPT ![s] = new]
            /\ new.waiting = b.waiting
            /\ new.end = IF b.ended THEN "closed" ELSE "live"
            /\ new.since = Since(row[s], b)
            /\ events' = events \cup {e \in {WaitEvent(s, new)} :
                 new.waiting = "decision" /\
                     (row[s] = NoRow \/ row[s].waiting # new.waiting)}
      BY <1>t, <1>2, <2>3, UpsertLeaves
    <3>2. row' \in [SessionIds -> Heartbeats \cup {NoRow}]
      BY <1>t, <3>1 DEF BeatsTypeOK
    <3>3. WaitTold(s)'
      BY <1>t, <3>1, WrittenRow
    <3>4. \A r \in SessionIds \ {s} : WaitTold(r)'
      <4> SUFFICES ASSUME NEW r \in SessionIds \ {s} PROVE WaitTold(r)'
        OBVIOUS
      <4>1. row'[r] = row[r] /\ events \subseteq events'
        BY <1>t, <3>1 DEF BeatsTypeOK
      <4>. QED  BY <1>t, <4>1, KeptRows
    <3>5. events' \subseteq Events
      <4>1. \/ events' = events
            \/ /\ new.waiting = "decision"
               /\ row[s] = NoRow \/ row[s].waiting # b.waiting
               /\ events' = events \cup {WaitEvent(s, new)}
        BY <3>1
      <4>2. CASE events' = events
        BY <1>t, <4>2 DEF BeatsTypeOK
      <4>3. CASE /\ new.waiting = "decision"
                 /\ row[s] = NoRow \/ row[s].waiting # b.waiting
                 /\ events' = events \cup {WaitEvent(s, new)}
        <5>1. new.since = waits + 1
          BY <3>1, <4>3 DEF Since
        <5>2. new.since \in 1..MaxWaits
          BY <1>t, <5>1, BoundsAreNumbers DEF BeatsTypeOK, Heartbeats
        <5>. QED  BY <1>t, <4>3, <5>2 DEF BeatsTypeOK, WaitEvent, Events
      <4>. QED  BY <4>1, <4>2, <4>3
    <3>6. \A r \in SessionIds : StopTold(r)'
      BY <1>t, <2>1, <3>1, OtherEvents
    <3>. QED  BY <1>t, <2>1, <3>2, <3>3, <3>4, <3>5, <3>6 DEF BeatsTypeOK
  <2>. QED  BY <2>2, <2>3
<1>3. ASSUME NEW c \in Calls, Lose(c)
      PROVE  BeatsTypeOK' /\ \A s \in SessionIds : WaitTold(s)' /\ StopTold(s)'
  BY <1>a, <1>t, <1>3 DEF Lose, BeatsTypeOK
<1>4. CASE Sweep
  <2>1. BeatsTypeOK' /\ events \subseteq events'
    BY <1>t, <1>4, SweepLeaves DEF BeatsTypeOK
  <2>2. ASSUME NEW s \in SessionIds PROVE WaitTold(s)'
    <3>1. CASE row'[s] = row[s]
      BY <1>t, <2>1, <3>1, KeptRows
    <3>2. CASE row'[s] # row[s]
      BY <1>t, <1>4, <3>2, SweepLeaves DEF WaitTold
    <3>. QED  BY <3>1, <3>2
  <2>3. ASSUME NEW s \in SessionIds PROVE StopTold(s)'
    <3>1. StopEvent(s)' = StopEvent(s)
      BY DEF StopEvent
    <3>. QED  BY <1>t, <1>4, <3>1, SweepLeaves DEF StopTold
  <2>. QED  BY <2>1, <2>2, <2>3
<1>5. CASE Tick
  <2>1. BeatsTypeOK' /\ events' = events /\ stopped' = stopped
    BY <1>t, <1>5, TickLeaves DEF BeatsTypeOK
  <2>2. ASSUME NEW s \in SessionIds PROVE WaitTold(s)' /\ StopTold(s)'
    <3>1. WaitTold(s)'
      BY <1>t, <1>5, <2>1, TickLeaves, KeptRows
    <3>. QED  BY <1>t, <2>1, <3>1 DEF StopTold, StopEvent
  <2>. QED  BY <2>1, <2>2
<1>6. ASSUME NEW d \in Devs, Membership(d)
      PROVE  BeatsTypeOK' /\ \A s \in SessionIds : WaitTold(s)' /\ StopTold(s)'
  BY <1>a, <1>t, <1>6 DEF Membership, BeatsTypeOK
<1>7. CASE UNCHANGED beatVars
  BY <1>a, <1>t, <1>7 DEF beatVars, BeatsTypeOK
<1>. QED
  BY <1>1, <1>2, <1>3, <1>4, <1>5, <1>6, <1>7
  DEF BeatsNext, ReportBeat, WriteBeat, LoseBeat, ChangeMembership

\* The variables have their types, what a session's row says of its wait has been
\* told, and the sessions that have an event of a stop are those that had a stop.
THEOREM BeatsInductive == BeatsSpec => []BeatsInv
BY BeatsInitInv, BeatsNextInv, PTL DEF BeatsSpec

THEOREM BeatTypesCorrect == BeatsSpec => []BeatsTypeOK
BY BeatsInductive, PTL DEF BeatsInv

\* A session that is shown waiting for a decision was announced for that very
\* wait, in whatever order its beats came.
THEOREM WaitsWereAnnounced == BeatsSpec => []WaitsAreAnnounced
BY BeatsInductive, PTL DEF BeatsInv

-----------------------------------------------------------------------------
LEMMA RevivalStep ==
    ASSUME BeatsTypeOK, [BeatsNext]_beatVars, NEW s \in SessionIds,
           Exists(s), ~Live(s), row'[s].end = "live"
    PROVE  \E c \in Calls :
               /\ call[c] # Idle /\ call'[c] = Idle
               /\ call[c].session = s /\ call[c].dev = row[s].dev
               /\ ~call[c].ended
<1>1. row'[s].end # row[s].end
  BY DEF Live
<1>2. ASSUME NEW c \in Calls, Upsert(c)
      PROVE  /\ call[c] # Idle /\ call'[c] = Idle
             /\ call[c].session = s /\ call[c].dev = row[s].dev
             /\ ~call[c].ended
  <2>1. call[c] # Idle /\ call'[c] = Idle
    BY <1>2 DEF Upsert, BeatsTypeOK
  <2>2. PICK r \in SessionIds, b \in Beats, new \in Heartbeats :
          /\ b = call[c] /\ r = b.session
          /\ row[r] = NoRow \/ row[r].dev = b.dev
          /\ row' = [row EXCEPT ![r] = new]
          /\ new.end = IF b.ended THEN "closed" ELSE "live"
    <3>1. row' # row
      BY <1>1
    <3>. QED  BY <1>2, <3>1, UpsertLeaves
  <2>3. r = s
    BY <1>1, <2>2 DEF BeatsTypeOK
  <2>4. row'[s] = new
    BY <2>2, <2>3 DEF BeatsTypeOK
  <2>. QED  BY <2>1, <2>2, <2>3, <2>4 DEF Exists, Beats
<1>3. ~Sweep
  BY <1>1, SweepLeaves
<1>4. ~Tick
  BY <1>1, TickLeaves
<1>5. row' # row
  BY <1>1
<1>. QED
  BY <1>2, <1>3, <1>4, <1>5
  DEF BeatsNext, ReportBeat, WriteBeat, LoseBeat, ChangeMembership, ResolveCaller, Lose,
      Membership, beatVars

\* Only a beat of the developer it belongs to opens a session again.
THEOREM OnlyTheOwnerRevives == BeatsSpec => RevivedByItsOwner
<1>1. BeatsTypeOK /\ [BeatsNext]_beatVars =>
        [\A s \in SessionIds :
             Exists(s) /\ ~Live(s) /\ row'[s].end = "live" =>
                 \E c \in Calls :
                     /\ call[c] # Idle /\ call'[c] = Idle
                     /\ call[c].session = s /\ call[c].dev = row[s].dev
                     /\ ~call[c].ended]_beatVars
  BY RevivalStep
<1>. QED  BY <1>1, BeatTypesCorrect, PTL DEF BeatsSpec, RevivedByItsOwner

-----------------------------------------------------------------------------
\* A session comes to be shown as stopped by the sweep alone: a beat leaves its
\* row live or closed by itself.
LEMMA StopStep ==
    ASSUME BeatsInv, [BeatsNext]_beatVars, NEW s \in SessionIds,
           ShownStopped(s)', ~ShownStopped(s)
    PROVE  StopEvent(s) \in events' \ events <=> s \notin stopped
<1>t. BeatsTypeOK /\ StopTold(s)
  BY DEF BeatsInv
<1>1. row'[s] # row[s] /\ row'[s].end = "timeout" /\ row'[s].uc # NoUc
  BY DEF ShownStopped, Exists
<1>2. ASSUME NEW c \in Calls, Upsert(c) PROVE FALSE
  <2>1. row' # row
    BY <1>1
  <2>2. PICK r \in SessionIds, b \in Beats, new \in Heartbeats :
          /\ row' = [row EXCEPT ![r] = new]
          /\ new.end = IF b.ended THEN "closed" ELSE "live"
    BY <1>t, <1>2, <2>1, UpsertLeaves
  <2>3. row'[s] = new
    BY <1>t, <1>1, <2>2 DEF BeatsTypeOK
  <2>. QED  BY <1>1, <2>2, <2>3
<1>3. ASSUME Tick PROVE FALSE
  BY <1>t, <1>1, <1>3, TickLeaves DEF ShownStopped
<1>4. CASE Sweep
  <2>1. Stops(s)
    BY <1>t, <1>1, <1>4, SweepLeaves DEF Stops
  <2>2. StopEvent(s) \in events'
    BY <1>t, <1>4, <2>1, SweepLeaves
  <2>. QED  BY <1>t, <2>2 DEF StopTold
<1>5. row' # row
  BY <1>1
<1>. QED
  BY <1>2, <1>3, <1>4, <1>5
  DEF BeatsNext, ReportBeat, WriteBeat, LoseBeat, ChangeMembership, ResolveCaller, Lose,
      Membership, beatVars

\* The first stop of a session that has a UC open is announced in the very step
\* that shows it, and no later one is: the trigger keys the event by the session.
THEOREM OneStopIsAnnounced == BeatsSpec => FirstStopIsAnnounced
<1>1. BeatsInv /\ [BeatsNext]_beatVars =>
        [\A s \in SessionIds :
             ShownStopped(s)' /\ ~ShownStopped(s) =>
                 (StopEvent(s) \in events' \ events <=> s \notin stopped)]_beatVars
  BY StopStep
<1>. QED  BY <1>1, BeatsInductive, PTL DEF BeatsSpec, FirstStopIsAnnounced

=============================================================================
