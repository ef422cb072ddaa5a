----------------------------- MODULE Decisions ------------------------------
(***************************************************************************)
(* Decisions an unattended session puts off                                *)
(* (server/app_docs/queue.py and server/tools/autopilot_decisions.py).     *)
(*                                                                         *)
(* The session writes the decision into the queue file of its checkout,    *)
(* publishes it on the board under the same id and goes on with the        *)
(* default.  A person resolves it on the board, perhaps two at once; the   *)
(* next session to start takes what was resolved and applies it.           *)
(*                                                                         *)
(* On the board an action is one SQL statement, and an answer travels back *)
(* after it and may be lost.  The file is read, changed and written whole: *)
(* in one step when the server has the checkout, and in three when the     *)
(* client sends the file and writes what comes back (files_content).       *)
(***************************************************************************)
EXTENDS Naturals, FiniteSets

CONSTANTS
    Ids,        \* dq- ids that may be given out
    Options,    \* options of a decision; an answer may name something else
    Sessions,   \* assistant sessions of the project
    People,     \* who resolves: from the panel, the app or a session
    Concurrent, \* whether two sessions may be changing the file at once
    None        \* no resolution, no reply, no call

ASSUME ConcurrentIsBoolean == Concurrent \in BOOLEAN
CONSTANT Other  \* an option the decision does not have

ASSUME OtherIsApart == Other \notin Options \cup {None}

VARIABLES
    given,      \* ids handed out by _new_engine_id
    file,       \* decisions_queue.md: its two sections
    edit,       \* what each session will write over the file, when it is remote
    owed,       \* (history) entries a session was told are in the file
    board,      \* autopilot_decisions: [Ids -> a row or None]
    asking,     \* the resolve call of each person, between its two statements
    told,       \* what each person was answered is the resolution
    reply,      \* take_resolved_decisions: rows on their way to a session
    known       \* what each session that runs has been handed

fileVars == <<given, file, edit, owed>>
boardVars == <<board, asking, told, reply, known>>
vars == <<fileVars, boardVars>>

Files == [pendientes : SUBSET Ids, resueltas : SUBSET Ids]

\* An open content-mode call: what it writes and which id it is about.
Edits == [to : Files, id : Ids, new : BOOLEAN]

Rows == [resolution : Options \cup {None}, applied : BOOLEAN]

ASSUME NoneIsApart == None \notin Options \cup Rows

\* An answer of take: the resolution of each decision in it.
Handed == [Ids -> Options \cup {None}]
Nothing == [d \in Ids |-> None]

Queued == file.pendientes \cup file.resueltas
Resolved(d) == board[d] # None /\ board[d].resolution # None

-----------------------------------------------------------------------------
(***************************************************************************)
(* The queue file.                                                         *)
(***************************************************************************)

\* (mutant) The skeleton is written over a queue that exists.
EnqueuedAfresh(f, d) == [f EXCEPT !.pendientes = {d}]

\* enqueue_decision: the entry with its new id goes to the end of Pendientes.
Enqueued(f, d) == [f EXCEPT !.pendientes = @ \cup {d}]

\* resolve_entry: the entry moves to Resueltas.
Moved(f, d) == [pendientes |-> f.pendientes \ {d},
                resueltas |-> f.resueltas \cup {d}]

Editing == {s \in Sessions : edit[s] # None}

MayEdit == Concurrent \/ Editing = {}

\* The server has the checkout: nothing awaits between the read and the write.
EnqueueLocal(s, d) ==
    /\ MayEdit /\ edit[s] = None
    /\ d \in Ids \ given
    /\ given' = given \cup {d}
    /\ file' = Enqueued(file, d)
    /\ owed' = owed \cup {d}
    /\ UNCHANGED <<edit, boardVars>>

ResolveLocal(s, d) ==
    /\ MayEdit /\ edit[s] = None
    /\ d \in file.pendientes
    /\ file' = Moved(file, d)
    /\ UNCHANGED <<given, edit, owed, boardVars>>

\* The client sends its file: the server works on that copy.
EnqueueRemote(s, d) ==
    /\ MayEdit /\ edit[s] = None
    /\ d \in Ids \ given
    /\ given' = given \cup {d}
    /\ edit' = [edit EXCEPT ![s] = [to |-> Enqueued(file, d), id |-> d, new |-> TRUE]]
    /\ UNCHANGED <<file, owed, boardVars>>

ResolveRemote(s, d) ==
    /\ MayEdit /\ edit[s] = None
    /\ d \in file.pendientes
    /\ edit' = [edit EXCEPT ![s] = [to |-> Moved(file, d), id |-> d, new |-> FALSE]]
    /\ UNCHANGED <<given, file, owed, boardVars>>

\* ... and writes files_changed over its own.
WriteBack(s) ==
    /\ edit[s] # None
    /\ file' = edit[s].to
    /\ owed' = IF edit[s].new THEN owed \cup {edit[s].id} ELSE owed
    /\ edit' = [edit EXCEPT ![s] = None]
    /\ UNCHANGED <<given, boardVars>>

\* The answer does not arrive: the client writes nothing.
EditLost(s) ==
    /\ edit[s] # None
    /\ edit' = [edit EXCEPT ![s] = None]
    /\ UNCHANGED <<given, file, owed, boardVars>>

\* The process ends inside write_text: what is left is the beginning of the
\* file, in which Pendientes comes before Resueltas.
Torn ==
    /\ MayEdit
    /\ \E kept \in SUBSET Queued :
          /\ kept # Queued
          /\ kept \cap file.resueltas # {} => file.pendientes \subseteq kept
          /\ file' = [pendientes |-> file.pendientes \cap kept,
                      resueltas |-> file.resueltas \cap kept]
          /\ owed' = owed \cap kept
    /\ UNCHANGED <<given, edit, boardVars>>

-----------------------------------------------------------------------------
(***************************************************************************)
(* publish_decision: INSERT ... ON CONFLICT DO NOTHING.  The SELECT that    *)
(* follows a conflict only answers; a session that gets no answer calls    *)
(* again, with the same id if it passed one.                               *)
(***************************************************************************)

Inserted(d) == [resolution |-> None, applied |-> FALSE]

Publish(d) ==
    /\ d \in given
    /\ board' = IF board[d] = None
                  THEN [board EXCEPT ![d] = Inserted(d)] ELSE board
    /\ UNCHANGED <<fileVars, asking, told, reply, known>>

\* Without decision_id: a new one, that is in no file.
PublishUnqueued(d) ==
    /\ d \in Ids \ given
    /\ given' = given \cup {d}
    /\ board' = [board EXCEPT ![d] = Inserted(d)]
    /\ UNCHANGED <<file, edit, owed, asking, told, reply, known>>

-----------------------------------------------------------------------------
(***************************************************************************)
(* resolve_decision: an UPDATE of the row while it has no resolution, then *)
(* a SELECT when the UPDATE found none.                                    *)
(***************************************************************************)

\* (mutant) Whoever answers last decides.
ResolvableAgain(d, o) == board[d] # None /\ o \in Options

\* The WHERE of the UPDATE, but for the key.
Resolvable(d, o) == board[d] # None /\ board[d].resolution = None /\ o \in Options

ResolveUpdate(p, d, o) ==
    /\ asking[p] = None
    /\ \/ /\ Resolvable(d, o)
          /\ board' = [board EXCEPT ![d].resolution = o]
          /\ told' = [told EXCEPT ![p][d] = o]
          /\ UNCHANGED asking
       \/ /\ ~Resolvable(d, o)
          /\ asking' = [asking EXCEPT ![p] = d]
          /\ UNCHANGED <<board, told>>
    /\ UNCHANGED <<fileVars, reply, known>>

\* DECISION_NOT_FOUND, an option it does not have, or the resolution it had.
ResolveRead(p) ==
    /\ asking[p] # None
    /\ told' = IF Resolved(asking[p])
                 THEN [told EXCEPT ![p][asking[p]] = board[asking[p]].resolution]
                 ELSE told
    /\ asking' = [asking EXCEPT ![p] = None]
    /\ UNCHANGED <<fileVars, board, reply, known>>

-----------------------------------------------------------------------------
(***************************************************************************)
(* take_resolved_decisions, which a session calls when it starts.          *)
(***************************************************************************)

\* (mutant) Every start takes everything that is resolved.
UntakenOrNot == {d \in Ids : Resolved(d)}

Untaken == {d \in Ids : Resolved(d) /\ ~board[d].applied}

Take(s) ==
    /\ reply[s] = None
    /\ reply' = [reply EXCEPT ![s] =
                   [d \in Ids |-> IF d \in Untaken THEN board[d].resolution ELSE None]]
    /\ board' = [d \in Ids |-> IF d \in Untaken
                                 THEN [board[d] EXCEPT !.applied = TRUE] ELSE board[d]]
    /\ UNCHANGED <<fileVars, asking, told, known>>

\* The answer is put first in the context of the session.
TakeAnswered(s) ==
    /\ reply[s] # None
    /\ known' = [known EXCEPT ![s] =
                   [d \in Ids |-> IF reply[s][d] # None THEN reply[s][d] ELSE @[d]]]
    /\ reply' = [reply EXCEPT ![s] = None]
    /\ UNCHANGED <<fileVars, board, asking, told>>

\* The board is slow and the hook does not wait: the session starts without.
TakeLost(s) ==
    /\ reply[s] # None
    /\ reply' = [reply EXCEPT ![s] = None]
    /\ UNCHANGED <<fileVars, board, asking, told, known>>

-----------------------------------------------------------------------------
Init ==
    /\ given = {}
    /\ file = [pendientes |-> {}, resueltas |-> {}]
    /\ edit = [s \in Sessions |-> None]
    /\ owed = {}
    /\ board = [d \in Ids |-> None]
    /\ asking = [p \in People |-> None]
    /\ told = [p \in People |-> Nothing]
    /\ reply = [s \in Sessions |-> None]
    /\ known = [s \in Sessions |-> Nothing]

EditFile ==
    \E s \in Sessions, d \in Ids :
        \/ EnqueueLocal(s, d)
        \/ EnqueueRemote(s, d)
        \/ ResolveLocal(s, d)
        \/ ResolveRemote(s, d)

FinishEdit == \E s \in Sessions : WriteBack(s) \/ EditLost(s)

PublishDecision == \E d \in Ids : Publish(d) \/ PublishUnqueued(d)

Resolve ==
    \E p \in People :
        \/ \E d \in Ids, o \in Options \cup {Other} : ResolveUpdate(p, d, o)
        \/ ResolveRead(p)

TakeResolved == \E s \in Sessions : Take(s) \/ TakeAnswered(s) \/ TakeLost(s)

Next == EditFile \/ FinishEdit \/ Torn \/ PublishDecision \/ Resolve \/ TakeResolved

Spec == Init /\ [][Next]_vars

-----------------------------------------------------------------------------
(***************************************************************************)
(* Properties.                                                             *)
(***************************************************************************)

TypeOK ==
    /\ given \subseteq Ids
    /\ file \in Files
    /\ edit \in [Sessions -> Edits \cup {None}]
    /\ owed \subseteq Ids
    /\ board \in [Ids -> Rows \cup {None}]
    /\ asking \in [People -> Ids \cup {None}]
    /\ told \in [People -> Handed]
    /\ reply \in [Sessions -> Handed \cup {None}]
    /\ known \in [Sessions -> Handed]

\* Whoever was told how a decision was resolved was told the same: the people who
\* answered it, first or late, and the session that took it, whatever was
\* published again in between (resolve_decision: one already resolved does not
\* change; publish_decision: repeating the call duplicates nothing).
AnswersAgree ==
    \A d \in Ids :
        /\ \A p \in People : told[p][d] # None =>
             board[d] # None /\ board[d].resolution = told[p][d]
        /\ \A s \in Sessions : known[s][d] # None =>
             board[d] # None /\ board[d].resolution = known[s][d]
        /\ \A s \in Sessions : reply[s] # None /\ reply[s][d] # None =>
             board[d] # None /\ board[d].resolution = reply[s][d]

\* A resolution is handed to one session, and to it once: it is on its way to one
\* or in the context of one, never both (take_resolved_decisions: each decision
\* is delivered only once).
HandedOnce ==
    \A d \in Ids :
        Cardinality({s \in Sessions : known[s][d] # None})
          + Cardinality({s \in Sessions : reply[s] # None /\ reply[s][d] # None}) <= 1

\* An entry a session was told is in the queue is in one of its two sections, and
\* in only one, unless the end of the process took it out of the file.  Stands as
\* long as one session at a time changes the file.
EntriesAreKept ==
    /\ owed \subseteq Queued
    /\ file.pendientes \cap file.resueltas = {}

=============================================================================
