--------------------------- MODULE BackendSwitch ---------------------------
(***************************************************************************)
(* Where a project says which backend it is tracked on: three files that   *)
(* should say the same.  switch_backend changes the backend in all three,  *)
(* enable_mirror and disable_mirror the native mirror; each writes the     *)
(* registry, then the app_spec, then the settings, and restores what it    *)
(* has written when a write fails.                                         *)
(*                                                                         *)
(* From the snapshots to the answer no handler awaits, so one call at a    *)
(* time of a server is in that section.  A remote server has one process.  *)
(* Beside a project every session has a server of its own, over stdio, and *)
(* nothing locks the files they share: their sections interleave, down to  *)
(* the truncating and the filling of a file.  Any read, write or restore   *)
(* can fail and any process can end, in the middle of a file too.          *)
(*                                                                         *)
(* Over a remote transport the server has only the registry; the other two *)
(* are files of the client, which writes them itself.  The properties      *)
(* speak of a call whose section met no other, whatever earlier sections,  *)
(* overlapping or failed or broken off, had left in the files.             *)
(***************************************************************************)
EXTENDS Naturals

CONSTANTS
  Session,    \* MCP sessions
  Backend,    \* freeform, trello, plane, native
  Native,     \* the backend that mirrors are on
  NoBackend,  \* a file that names none
  MaxTrouble  \* bound: failures, ends of processes and overlaps of sections

ASSUME TroubleAssumption == MaxTrouble \in Nat
ASSUME BackendAssumption == Native \in Backend /\ NoBackend \notin Backend

Place == {"registry", "app_spec", "settings"}

\* A file, for what it says of one project.  A registry without an entry of
\* the project is absent, whether or not the file exists.
File == [is : {"absent", "broken", "whole"},
         backend : Backend \cup {NoBackend}, mirror : BOOLEAN]

Absent == [is |-> "absent", backend |-> NoBackend, mirror |-> FALSE]
Broken == [is |-> "broken", backend |-> NoBackend, mirror |-> FALSE]
Says(b, m) == [is |-> "whole", backend |-> b, mirror |-> m]

Call == [at : {"idle", "backfill", "snap_app_spec", "snap_settings", "undo"}
                \cup Place,
         step : {"read", "open", "fill"}, \* at a place, or undoing one
         new : File,                    \* open, fill: what is being written
         op : {"switch", "mirror"},
         backend : Backend,             \* the new one, or the session's own
         mirror : BOOLEAN,              \* enable or disable
         snap : [Place -> File],        \* the files, as read at the start
         undo : SUBSET Place,           \* written, and not yet restored
         failed : Place,                \* undo: the write that failed
         clean : BOOLEAN,               \* every restore worked
         met : BOOLEAN,                 \* another was in its section meanwhile
         ok : BOOLEAN]                  \* idle: what was answered

VARIABLES
  file,   \* the three files
  local,  \* whether the server and the project share a file system
  call,   \* the open call of each session
  trouble \* how many failures, ends and overlaps there were

vars == <<file, local, call, trouble>>

Idle(ok) ==
  [at |-> "idle", step |-> "read", new |-> Absent, op |-> "switch", backend |-> Native,
   mirror |-> FALSE, snap |-> [p \in Place |-> Absent], undo |-> {}, failed |-> "registry",
   clean |-> TRUE, met |-> FALSE, ok |-> ok]

TypeOK ==
  /\ file \in [Place -> File]
  /\ \A p \in {"registry", "app_spec"} :
       file[p].is = "whole" => file[p].backend \in Backend
  /\ local \in BOOLEAN
  /\ call \in [Session -> Call]
  /\ trouble \in Nat

\* A project that was set up on one backend, in as many of the files as it has.
Init ==
  /\ \E b \in Backend : file \in [Place -> {Absent, Says(b, FALSE)}]
  /\ local \in BOOLEAN
  /\ call = [s \in Session |-> Idle(TRUE)]
  /\ trouble = 0

-----------------------------------------------------------------------------
(* What each writer puts in its file                                       *)

\* (mutant) the entry gets the backend of the session, whatever it says
RegistryReseeds(c) ==
  LET old == file["registry"]
  IN IF c.op = "switch" THEN [old EXCEPT !.backend = c.backend]
     ELSE IF c.mirror THEN Says(c.backend, TRUE)
     ELSE IF old.is = "whole" THEN [old EXCEPT !.mirror = FALSE]
     ELSE old

\* Only the seeding of a missing entry takes the backend of the session.
RegistryWith(c) ==
  LET old == file["registry"]
  IN IF c.op = "switch" THEN [old EXCEPT !.backend = c.backend]
     ELSE IF old.is = "whole" THEN [old EXCEPT !.mirror = c.mirror]
     ELSE IF c.mirror THEN Says(c.backend, TRUE)
     ELSE old

\* The zone is rendered anew from what the call knows: a switch knows of no
\* mirror, and a mirror call takes the backend from the registry.  A document
\* that is missing or has no such zone is skipped.
AppSpecWith(c) ==
  LET old == file["app_spec"]
      backend == IF c.op = "switch" THEN c.backend
                 ELSE file["registry"].backend
  IN IF old.is = "whole" /\ backend # NoBackend
     THEN Says(backend, c.op = "mirror" /\ c.mirror)
     ELSE old

\* What cannot be parsed is started from nothing.
SettingsWith(c) ==
  LET old == IF file["settings"].is = "whole" THEN file["settings"]
             ELSE Says(NoBackend, FALSE)
  IN IF c.op = "switch" THEN [old EXCEPT !.backend = c.backend]
     ELSE [old EXCEPT !.mirror = c.mirror]

Written(c, p) ==
  CASE p = "registry" -> RegistryWith(c)
    [] p = "app_spec" -> AppSpecWith(c)
    [] p = "settings" -> SettingsWith(c)

\* The registry must parse, and name the project if its backend is switched.
Readable(c, p) ==
  CASE p = "registry" -> IF c.op = "switch" THEN file[p].is = "whole"
                         ELSE file[p].is # "broken"
    [] p = "app_spec" -> c.op = "mirror" => file["registry"].is # "broken"
    [] p = "settings" -> TRUE

\* A writer that has nothing to change writes nothing.
Unneeded(c, p) ==
  \/ p = "registry" /\ Written(c, p).is = "absent"
  \/ p = "app_spec" /\ Written(c, p) = file[p]

-----------------------------------------------------------------------------
(* Calls                                                                   *)

InSection(c) == c.at \notin {"idle", "backfill"}

Places == IF local THEN Place ELSE {"registry"}

\* Within the bound, something goes wrong.
GoesWrong == trouble < MaxTrouble /\ trouble' = trouble + 1

Put(s, c) == call' = [call EXCEPT ![s] = c]

Return(s, ok) == Put(s, Idle(ok))

\* A section begins, and those that are open have met it.
Meet == [s \in Session |-> IF InSection(call[s])
                          THEN [call[s] EXCEPT !.met = TRUE] ELSE call[s]]

Busy == \E s \in Session : InSection(call[s])

\* The snapshot of the registry.
Enter(s, c) ==
  /\ IF Busy THEN local /\ GoesWrong ELSE UNCHANGED trouble
  /\ file["registry"].is # "broken"
  /\ call' = [Meet EXCEPT ![s] =
                [c EXCEPT !.at = IF local THEN "snap_app_spec" ELSE "registry",
                          !.snap = [p \in Place |-> IF p = "registry"
                                                    THEN file[p] ELSE Absent],
                          !.met = Busy]]
  /\ UNCHANGED <<file, local>>

\* The snapshots of the other two.
Snapshot(s) ==
  LET c == call[s] IN
  /\ \/ /\ c.at = "snap_app_spec"
        /\ Put(s, [c EXCEPT !.at = "snap_settings",
                            !.snap["app_spec"] = file["app_spec"]])
     \/ /\ c.at = "snap_settings"
        /\ Put(s, [c EXCEPT !.at = "registry",
                            !.snap["settings"] = file["settings"]])
  /\ UNCHANGED <<file, local, trouble>>

\* A project with no entry is refused.
SwitchBackend(s, b) ==
  /\ call[s].at = "idle"
  /\ file["registry"].is = "whole"
  /\ Enter(s, [Idle(TRUE) EXCEPT !.backend = b])

\* The mirror is filled first; b is the primary backend of the session.
EnableMirror(s, b) ==
  /\ call[s].at = "idle"
  /\ b # Native
  /\ Put(s, [Idle(TRUE) EXCEPT !.at = "backfill", !.op = "mirror",
                               !.backend = b, !.mirror = TRUE])
  /\ UNCHANGED <<file, local, trouble>>

Persist(s) == call[s].at = "backfill" /\ Enter(s, call[s])

DisableMirror(s) ==
  /\ call[s].at = "idle"
  /\ Enter(s, [Idle(TRUE) EXCEPT !.op = "mirror"])

-----------------------------------------------------------------------------
(* The section                                                             *)

Before(p) == CASE p = "registry" -> {}
               [] p = "app_spec" -> {"registry"}
               [] p = "settings" -> {"registry", "app_spec"}

\* In reverse order.
NextToRestore(c) == IF "app_spec" \in c.undo THEN "app_spec" ELSE "registry"

\* The place that is being written or restored.
Here(c) == IF c.at = "undo" THEN NextToRestore(c) ELSE c.at

\* (mutant) the call ends at an app_spec that needs no writing
PassStopsWithoutSpec(s) ==
  LET c == call[s]
  IN IF c.at = "undo"
     THEN Put(s, [c EXCEPT !.undo = @ \ {Here(c)}, !.step = "read",
                           !.new = Absent])
     ELSE IF c.at = "settings" \/ ~local
             \/ (c.at = "app_spec" /\ c.step = "read")
     THEN Return(s, TRUE)
     ELSE Put(s, [c EXCEPT !.at = IF @ = "registry" THEN "app_spec"
                                  ELSE "settings",
                           !.step = "read", !.new = Absent])

\* (mutant) the places still to restore are forgotten
PassForgets(s) ==
  LET c == call[s]
  IN IF c.at = "undo"
     THEN Put(s, [c EXCEPT !.undo = {}, !.step = "read", !.new = Absent])
     ELSE IF c.at = "settings" \/ ~local THEN Return(s, TRUE)
     ELSE Put(s, [c EXCEPT !.at = IF @ = "registry" THEN "app_spec"
                                  ELSE "settings",
                           !.step = "read", !.new = Absent])

\* This place is done, and the next one is due.
Pass(s) ==
  LET c == call[s]
  IN IF c.at = "undo"
     THEN Put(s, [c EXCEPT !.undo = @ \ {Here(c)}, !.step = "read",
                           !.new = Absent])
     ELSE IF c.at = "settings" \/ ~local THEN Return(s, TRUE)
     ELSE Put(s, [c EXCEPT !.at = IF @ = "registry" THEN "app_spec"
                                  ELSE "settings",
                           !.step = "read", !.new = Absent])

\* A writer reads, and knows what to write.
Read(s) ==
  LET c == call[s]
      p == c.at
  IN /\ p \in Place /\ c.step = "read"
     /\ Readable(c, p)
     /\ IF Unneeded(c, p) THEN Pass(s)
        ELSE Put(s, [c EXCEPT !.step = "open", !.new = Written(c, p)])
     /\ UNCHANGED <<file, local, trouble>>

\* A restore goes by the snapshot.  The one of the registry reads it again: it
\* has nothing to do when the file is gone.
ReadAgain(s) ==
  LET c == call[s]
      p == NextToRestore(c)
  IN /\ c.at = "undo" /\ c.undo # {} /\ c.step = "read"
     /\ \/ file[p].is = "absent" /\ Pass(s)
        \/ /\ p = "registry" => file[p].is # "broken"
           /\ Put(s, [c EXCEPT !.step = "open", !.new = c.snap[p]])
     /\ UNCHANGED <<file, local, trouble>>

\* write_text empties a file before it fills it.  What was absent is deleted,
\* unless it is the entry of a registry that has others.
Truncate(s) ==
  LET c == call[s]
      p == Here(c)
  IN /\ InSection(c) /\ c.step = "open"
     /\ \/ /\ c.new.is = "absent"
           /\ file' = [file EXCEPT ![p] = Absent]
           /\ Pass(s)
        \/ /\ c.new.is # "absent" \/ p = "registry"
           /\ file' = [file EXCEPT ![p] = Broken]
           /\ Put(s, [c EXCEPT !.step = "fill"])
     /\ UNCHANGED <<local, trouble>>

Fill(s) ==
  LET c == call[s] IN
  /\ InSection(c) /\ c.step = "fill"
  /\ file' = [file EXCEPT ![Here(c)] = c.new]
  /\ Pass(s)
  /\ UNCHANGED <<local, trouble>>

\* The places that were written are restored, not the one that failed, which
\* stays as it is.  The app_spec is followed by the lock file of its signature:
\* when that one fails, the app_spec is written.
WriteFails(s) ==
  LET c == call[s]
      p == c.at
  IN /\ p \in Place /\ GoesWrong
     /\ \/ UNCHANGED file
        \/ /\ p = "app_spec" /\ c.step = "fill"
           /\ file' = [file EXCEPT ![p] = c.new]
     /\ Put(s, [c EXCEPT !.at = "undo", !.undo = Before(p), !.failed = p,
                         !.step = "read", !.new = Absent])
     /\ UNCHANGED local

\* A failure is logged and the others are restored all the same.
RestoreFails(s) ==
  LET c == call[s]
  IN /\ c.at = "undo" /\ c.undo # {} /\ GoesWrong
     /\ Put(s, [c EXCEPT !.undo = @ \ {NextToRestore(c)}, !.clean = FALSE,
                         !.step = "read", !.new = Absent])
     /\ UNCHANGED <<file, local>>

AnswerError(s) ==
  /\ call[s].at = "undo" /\ call[s].undo = {}
  /\ Return(s, FALSE)
  /\ UNCHANGED <<file, local, trouble>>

\* The source cannot be read, the counts differ, or the registry is broken.
GiveUp(s) ==
  /\ call[s].at = "backfill"
  /\ Return(s, FALSE)
  /\ UNCHANGED <<file, local, trouble>>

\* A process ends: the one of this session, or the one of them all.
Die(s) ==
  /\ InSection(call[s]) /\ GoesWrong
  /\ call' = [r \in Session |-> IF local /\ r # s THEN call[r] ELSE Idle(FALSE)]
  /\ UNCHANGED <<file, local>>

Next ==
  \E s \in Session :
    \/ \E b \in Backend : SwitchBackend(s, b) \/ EnableMirror(s, b)
    \/ DisableMirror(s)
    \/ Persist(s) \/ GiveUp(s)
    \/ Snapshot(s)
    \/ Read(s) \/ Truncate(s) \/ Fill(s) \/ WriteFails(s)
    \/ ReadAgain(s) \/ RestoreFails(s) \/ AnswerError(s)
    \/ Die(s)

Spec == Init /\ [][Next]_vars

-----------------------------------------------------------------------------
(* Properties                                                              *)

\* What a call that succeeds leaves behind, place by place.
Done(c, p, now) ==
  CASE p = "registry" ->
         IF c.op = "switch" THEN now[p].backend = c.backend
         ELSE now[p].mirror = c.mirror
    [] p = "app_spec" ->
         now[p].is = "whole" /\ now["registry"].is = "whole" =>
           /\ now[p].backend = now["registry"].backend
           /\ c.op = "mirror" => now[p].mirror = c.mirror
    [] p = "settings" ->
         IF c.op = "switch" THEN now[p].backend = c.backend
         ELSE now[p].mirror = c.mirror

\* A call that met no other and is answered with success has changed every
\* place the server has, whatever earlier calls that failed, crashed or undid
\* one another had left there: the next switch that works puts a project right
\* that was left in between (apply_switch_transactional,
\* apply_mirror_transactional).
SuccessIsWhole ==
  [][\A s \in Session :
       InSection(call[s]) /\ ~call[s].met
         /\ call'[s].at = "idle" /\ call'[s].ok =>
         \A p \in Places : Done(call[s], p, file')]_vars

\* After an error of a call that met no other, every place but the one whose
\* write failed is as it was when the call began, unless a restore failed as
\* well: a late failure is undone as an early one, and what other sessions had
\* switched before is not lost by it.
ErrorRestores ==
  [][\A s \in Session :
       call[s].at = "undo" /\ call[s].undo = {} /\ call[s].clean
         /\ ~call[s].met /\ call'[s].at = "idle" =>
         \A p \in Places \ {call[s].failed} : file'[p] = call[s].snap[p]]_vars

\* Attaching or detaching a mirror, with its failures and crashes, does not
\* change what a registry or settings file says of the primary, though the
\* session may believe in another one ("the on-disk primary always wins").
MirrorKeepsPrimary ==
  [][\A s \in Session, p \in {"registry", "settings"} :
       (/\ InSection(call[s]) /\ ~call[s].met
        /\ call[s].op = "mirror"
        /\ call[s].snap[p].is = "whole"
        /\ file'[p].is = "whole") =>
         file'[p].backend = call[s].snap[p].backend]_vars
=============================================================================
