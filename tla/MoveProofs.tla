----------------------------- MODULE MoveProofs -----------------------------
(***************************************************************************)
(* What BackendSwitch and BoardMove keep, for any sessions, backends,      *)
(* items and bounds and whatever fails: proofs for TLAPS.                  *)
(*                                                                         *)
(* BackendSwitch.  None of its properties can be seen from a step alone:   *)
(* the last write knows nothing of the first.  IInv says where the open    *)
(* call stands: going forward, the places passed are done and the others   *)
(* as they were; going back, the places restored are as they were.         *)
(*                                                                         *)
(* BoardMove.  MoveInv, at the end, says what a call has been through: its *)
(* items are on the target or in its errors, and whole unless something    *)
(* went wrong with them.                                                   *)
(***************************************************************************)
EXTENDS BackendSwitch, BoardMove, TLAPS

Fits(p, x) ==
  /\ x \in File
  /\ p \in {"registry", "app_spec"} /\ x.is = "whole" => x.backend \in Backend
  /\ x.is # "whole" => x \in {Absent, Broken}

WellFormed(f) ==
  /\ f \in [Place -> File]
  /\ \A p \in Place : Fits(p, f[p])

\* Of every call, whatever it has met: what it would write fits.
Writable(c) ==
  /\ c.at = "backfill" => c.step = "read"
  /\ InSection(c) =>
       /\ WellFormed(c.snap)
       /\ c.at = "undo" => c.undo \subseteq {"registry", "app_spec"}
       /\ c.step \in {"open", "fill"} =>
            /\ c.at \in Place \/ (c.at = "undo" /\ c.undo # {})
            /\ Fits(Here(c), c.new)

\* The places of a server, beside the project or not.
Own(l) == IF l THEN Place ELSE {"registry"}

\* Of a call that has met no other.
Snapping(c, f) ==
  /\ f["registry"] = c.snap["registry"]
  /\ c.at = "snap_settings" => f["app_spec"] = c.snap["app_spec"]

Forward(c, f, l) ==
  /\ c.at \in Own(l)
  /\ \A p \in Before(c.at) :
       Done(c, p, f) /\ (f[p].is = "absent" => c.snap[p].is = "absent")
  /\ \A p \in Own(l) \ (Before(c.at) \cup {c.at}) : f[p] = c.snap[p]
  /\ c.step \in {"read", "open"} => f[c.at] = c.snap[c.at]
  /\ c.step \in {"open", "fill"} =>
       /\ c.new.is # "absent"
       /\ Done(c, c.at, [f EXCEPT ![c.at] = c.new])
       /\ c.op = "mirror" /\ c.at \in {"registry", "settings"}
            /\ c.snap[c.at].is = "whole" => c.new.backend = c.snap[c.at].backend

Backward(c, f, l) ==
  /\ c.clean => \A p \in Own(l) \ {c.failed} : p \notin c.undo => f[p] = c.snap[p]
  /\ \A p \in c.undo : f[p].is = "absent" => c.snap[p].is = "absent"
  /\ c.step \in {"open", "fill"} => c.new = c.snap[NextToRestore(c)]

KeepsPrimary(c, f) ==
  c.op = "mirror" =>
    \A p \in {"registry", "settings"} :
      c.snap[p].is = "whole" /\ f[p].is = "whole" =>
        f[p].backend = c.snap[p].backend

Sound(c, f, l) ==
  InSection(c) =>
    /\ c.at \in {"snap_app_spec", "snap_settings"} => l /\ Snapping(c, f)
    /\ c.at \in Place => Forward(c, f, l)
    /\ c.at = "undo" => Backward(c, f, l)
    /\ KeepsPrimary(c, f)

Meetings ==
  \A r, s \in Session :
    r # s /\ InSection(call[r]) /\ InSection(call[s]) => call[r].met

IInv ==
  /\ TypeOK
  /\ WellFormed(file)
  /\ Meetings
  /\ \A s \in Session : Writable(call[s]) /\ (call[s].met \/ Sound(call[s], file, local))

-----------------------------------------------------------------------------
(* Files and calls                                                         *)

\* The records of the module have the types it gives them.
LEMMA FileFacts ==
  /\ Absent \in File /\ Broken \in File
  /\ \A b \in Backend \cup {NoBackend}, m \in BOOLEAN : Says(b, m) \in File
  /\ Absent.is = "absent" /\ Broken.is = "broken"
  /\ Absent.backend = NoBackend /\ Absent.mirror = FALSE
  /\ \A b, m : /\ Says(b, m).is = "whole"
               /\ Says(b, m).backend = b
               /\ Says(b, m).mirror = m
BY DEF Absent, Broken, Says, File

LEMMA AbsentFits == \A p \in Place : Fits(p, Absent) /\ Fits(p, Broken)
BY FileFacts DEF Fits

\* A call that is not open is a call.
LEMMA IdleFacts ==
  /\ \A ok \in BOOLEAN : Idle(ok) \in Call
  /\ \A ok : Idle(ok).at = "idle" /\ Idle(ok).ok = ok /\ ~InSection(Idle(ok))
<1>1. [p \in Place |-> Absent] \in [Place -> File] /\ Absent \in File
  BY FileFacts
<1>2. Native \in Backend
  BY BackendAssumption
<1> HIDE DEF File, Absent
<1>3. \A ok \in BOOLEAN : Idle(ok) \in Call
  BY <1>1, <1>2 DEF Idle, Call, Place
<1>4. \A ok : Idle(ok).at = "idle" /\ Idle(ok).ok = ok /\ ~InSection(Idle(ok))
  BY DEF Idle, InSection
<1> QED
  BY <1>3, <1>4

\* Whatever the files say, a writer that can read writes a file that fits.
LEMMA WrittenFits ==
  ASSUME WellFormed(file), NEW c \in Call, NEW p \in Place, Readable(c, p)
  PROVE  Fits(p, Written(c, p))
<1>0. /\ file \in [Place -> File]
      /\ c.backend \in Backend /\ c.mirror \in BOOLEAN
      /\ c.op \in {"switch", "mirror"}
      /\ Fits("registry", file["registry"])
      /\ Fits("app_spec", file["app_spec"])
      /\ file["settings"] \in File
  BY DEF WellFormed, Fits, Call, Place
<1>1. CASE p = "registry"
  <2>1. Written(c, p) = RegistryWith(c)
    BY <1>1 DEF Written
  <2>2. CASE c.op = "switch"
    <3>1. RegistryWith(c) = [file["registry"] EXCEPT !.backend = c.backend]
      BY <2>2 DEF RegistryWith
    <3>2. /\ RegistryWith(c) \in File /\ RegistryWith(c).backend = c.backend
          /\ RegistryWith(c).is = file["registry"].is
      BY <1>0, <3>1 DEF Fits, File
    <3>3. file["registry"].is = "whole"
      BY <1>1, <2>2 DEF Readable
    <3> QED
      BY <1>0, <1>1, <2>1, <3>2, <3>3 DEF Fits
  <2>3. CASE c.op = "mirror"
    <3> DEFINE old == file["registry"]
               new == [old EXCEPT !.mirror = c.mirror]
               seed == Says(c.backend, TRUE)
    <3>1. new \in File /\ new.backend = old.backend /\ new.is = old.is
      BY <1>0 DEF Fits, File
    <3>2. seed \in File /\ seed.backend = c.backend /\ seed.is = "whole"
      BY <1>0, FileFacts
    <3>3. RegistryWith(c) = IF old.is = "whole" THEN new
                            ELSE IF c.mirror THEN seed ELSE old
      BY <2>3 DEF RegistryWith
    <3>4. Fits("registry", old)
      BY <1>0
    <3> HIDE DEF new, old, seed
    <3>5. CASE old.is = "whole"
      BY <1>1, <2>1, <3>1, <3>3, <3>4, <3>5 DEF Fits
    <3>6. CASE old.is # "whole"
      BY <1>0, <1>1, <2>1, <3>2, <3>3, <3>4, <3>6 DEF Fits
    <3> QED
      BY <3>5, <3>6
  <2> QED
    BY <1>0, <2>2, <2>3
<1>2. CASE p = "app_spec"
  <2>1. Written(c, p) = AppSpecWith(c)
    BY <1>2 DEF Written
  <2>2. file["registry"].backend \in Backend \cup {NoBackend}
    BY <1>0 DEF Fits, File
  <2>3. \/ AppSpecWith(c) = file["app_spec"]
        \/ \E b \in Backend, m \in BOOLEAN : AppSpecWith(c) = Says(b, m)
    BY <1>0, <2>2 DEF AppSpecWith
  <2>4. \A b \in Backend, m \in BOOLEAN : Fits("app_spec", Says(b, m))
    BY FileFacts DEF Fits
  <2> QED
    BY <1>0, <1>2, <2>1, <2>3, <2>4
<1>3. CASE p = "settings"
  <2>1. Written(c, p) = SettingsWith(c)
    BY <1>3 DEF Written
  <2>2. SettingsWith(c) \in File /\ SettingsWith(c).is = "whole"
    BY <1>0 DEF SettingsWith, File, Says
  <2> QED
    BY <1>3, <2>1, <2>2 DEF Fits
<1> QED
  BY <1>1, <1>2, <1>3 DEF Place

\* One place changes to something that fits.
LEMMA PlaceFits ==
  ASSUME WellFormed(file), NEW p \in Place, NEW new, Fits(p, new),
         file' = [file EXCEPT ![p] = new]
  PROVE  WellFormed(file')
<1>1. new \in File /\ file \in [Place -> File]
  BY DEF Fits, WellFormed
<1>2. file' \in [Place -> File] /\ file'[p] = new
      /\ \A q \in Place \ {p} : file'[q] = file[q]
  BY <1>1
<1> QED
  BY <1>2 DEF WellFormed

\* What is done at a place depends on that place and on the registry.
LEMMA DoneAgrees ==
  ASSUME NEW c, NEW q, NEW f, NEW g, f[q] = g[q], f["registry"] = g["registry"],
         Done(c, q, f)
  PROVE  Done(c, q, g)
BY DEF Done

\* ... and on what the call was asked.
LEMMA DoneAsks ==
  ASSUME NEW c, NEW d, NEW q, NEW f, c.op = d.op, c.backend = d.backend,
         c.mirror = d.mirror, Done(c, q, f)
  PROVE  Done(d, q, f)
BY DEF Done

\* What a writer writes does its place, when what is before it is done.
LEMMA WrittenIsDone ==
  ASSUME WellFormed(file), NEW c \in Call, NEW p \in Place, Readable(c, p),
         \A q \in Before(p) : Done(c, q, file)
  PROVE  Done(c, p, [file EXCEPT ![p] = Written(c, p)])
<1> DEFINE g == [file EXCEPT ![p] = Written(c, p)]
<1>0. /\ file \in [Place -> File]
      /\ c.backend \in Backend /\ c.mirror \in BOOLEAN
      /\ c.op \in {"switch", "mirror"}
      /\ c.backend # NoBackend
      /\ Fits("registry", file["registry"])
      /\ Fits("app_spec", file["app_spec"])
      /\ file["registry"] \in File /\ file["app_spec"] \in File
      /\ file["settings"] \in File
      /\ "registry" \in Place /\ "app_spec" \in Place /\ "settings" \in Place
  BY BackendAssumption DEF WellFormed, Fits, Call, Place
<1>a. g[p] = Written(c, p) /\ \A q \in Place \ {p} : g[q] = file[q]
  BY <1>0
<1> HIDE DEF g
<1>1. CASE p = "registry"
  <2>2. g["registry"] = RegistryWith(c)
    BY <1>1, <1>a DEF Written
  <2>3. CASE c.op = "switch"
    <3>1. RegistryWith(c).backend = c.backend
      BY <1>0, <2>3 DEF RegistryWith, File
    <3> QED
      BY <1>1, <2>2, <2>3, <3>1 DEF Done, g
  <2>4. CASE c.op = "mirror"
    <3> DEFINE old == file["registry"]
               new == [old EXCEPT !.mirror = c.mirror]
    <3>a. RegistryWith(c) = IF old.is = "whole" THEN new
                            ELSE IF c.mirror THEN Says(c.backend, TRUE)
                            ELSE old
      BY <2>4 DEF RegistryWith
    <3>b. new.mirror = c.mirror
      BY <1>0 DEF File
    <3>c. old.is # "whole" => old.mirror = FALSE
      BY <1>0 DEF Fits, Absent, Broken
    <3>d. Says(c.backend, TRUE).mirror = TRUE
      BY FileFacts
    <3> HIDE DEF old, new
    <3>1. RegistryWith(c).mirror = c.mirror
      <4>1. CASE old.is = "whole"
        BY <3>a, <3>b, <4>1
      <4>2. CASE old.is # "whole" /\ c.mirror = TRUE
        BY <3>a, <3>d, <4>2, Zenon
      <4>3. CASE old.is # "whole" /\ c.mirror = FALSE
        BY <3>a, <3>c, <4>3, Zenon
      <4> QED
        BY <1>0, <4>1, <4>2, <4>3
    <3> QED
      BY <1>1, <2>2, <2>4, <3>1 DEF Done, g
  <2> QED
    BY <1>0, <2>3, <2>4
<1>2. CASE p = "app_spec"
  <2>1. Done(c, "registry", file)
    BY <1>2 DEF Before
  <2>2. g["registry"] = file["registry"] /\ g["app_spec"] = AppSpecWith(c)
    BY <1>0, <1>2, <1>a DEF Written
  <2>5. CASE c.op = "switch"
    <3>1. file["registry"].backend = c.backend
      BY <2>1, <2>5 DEF Done
    <3>2. AppSpecWith(c).is = "whole" => AppSpecWith(c).backend = c.backend
      BY <1>0, <2>5, FileFacts DEF AppSpecWith
    <3> QED
      BY <1>2, <2>2, <2>5, <3>1, <3>2 DEF Done, g
  <2>6. CASE c.op = "mirror"
    <3>1. file["registry"].is = "whole" => file["registry"].backend # NoBackend
      BY <1>0, BackendAssumption DEF Fits
    <3>2. AppSpecWith(c).is = "whole" /\ file["registry"].is = "whole" =>
            /\ AppSpecWith(c).backend = file["registry"].backend
            /\ AppSpecWith(c).mirror = c.mirror
      BY <1>0, <2>6, <3>1, FileFacts DEF AppSpecWith
    <3> QED
      BY <1>2, <2>2, <2>6, <3>2 DEF Done, g
  <2> QED
    BY <1>0, <2>5, <2>6
<1>3. CASE p = "settings"
  <2>2. g["settings"] = SettingsWith(c)
    BY <1>3, <1>a DEF Written
  <2>4. /\ c.op = "switch" => SettingsWith(c).backend = c.backend
        /\ c.op = "mirror" => SettingsWith(c).mirror = c.mirror
    BY <1>0 DEF SettingsWith, File, Says
  <2> QED
    BY <1>0, <1>3, <2>2, <2>4 DEF Done, g
<1> QED
  BY <1>1, <1>2, <1>3 DEF Place

\* A mirror call does not write the backend of a file that has one.
LEMMA WriteKeepsPrimary ==
  ASSUME WellFormed(file), NEW c \in Call, c.op = "mirror",
         NEW p \in {"registry", "settings"}, file[p].is = "whole"
  PROVE  Written(c, p).backend = file[p].backend
<1>0. file["registry"] \in File /\ file["settings"] \in File
  BY DEF WellFormed, Place
<1>1. CASE p = "registry"
  BY <1>0, <1>1 DEF Written, RegistryWith, File
<1>2. CASE p = "settings"
  BY <1>0, <1>2 DEF Written, SettingsWith, File
<1> QED
  BY <1>1, <1>2

\* What a writer does write is a file.
LEMMA NeededIsThere ==
  ASSUME WellFormed(file), NEW c \in Call, NEW p \in Place, ~Unneeded(c, p)
  PROVE  Written(c, p).is # "absent"
<1>1. CASE p = "registry"
  BY <1>1 DEF Unneeded
<1>2. CASE p = "app_spec"
  <2>1. AppSpecWith(c) # file["app_spec"]
    BY <1>2 DEF Unneeded, Written
  <2> QED
    BY <1>2, <2>1, FileFacts DEF Written, AppSpecWith
<1>3. CASE p = "settings"
  <2>1. file["settings"] \in File
    BY DEF WellFormed, Place
  <2> QED
    BY <1>3, <2>1 DEF Written, SettingsWith, File, Says
<1> QED
  BY <1>1, <1>2, <1>3 DEF Place

-----------------------------------------------------------------------------
(* Steps                                                                   *)

\* What a step shows of a call that has met no other: a success has done every
\* place, the primary is kept, and an error leaves what it says.
Good(s) ==
  InSection(call[s]) /\ ~call[s].met =>
    /\ call'[s].at = "idle" /\ call'[s].ok =>
         \A p \in Own(local) : Done(call[s], p, file')
    /\ KeepsPrimary(call[s], file')
    /\ call[s].at = "undo" /\ call[s].undo = {} /\ call[s].clean
         /\ call'[s].at = "idle" =>
         \A p \in Own(local) \ {call[s].failed} : file'[p] = call[s].snap[p]

\* Outside the section a call knows nothing of the files.
LEMMA OutsideIsSound ==
  ASSUME NEW c, ~InSection(c)
  PROVE  /\ (c.at = "backfill" => c.step = "read") => Writable(c)
         /\ \A f, l : Sound(c, f, l)
BY DEF Sound, Writable

LEMMA CallFacts ==
  ASSUME IInv, NEW s \in Session
  PROVE  /\ call[s] \in Call /\ call \in [Session -> Call]
         /\ file \in [Place -> File] /\ WellFormed(file)
         /\ local \in BOOLEAN /\ trouble \in Nat
         /\ Writable(call[s]) /\ (call[s].met \/ Sound(call[s], file, local))
BY DEF IInv, TypeOK

\* A step of the call in its section: the others there have met it.
LEMMA SectionStep ==
  ASSUME IInv, NEW s \in Session, NEW d \in Call,
         InSection(call[s]), call' = [call EXCEPT ![s] = d],
         InSection(d) => d.met = call[s].met,
         Writable(d), d.met \/ Sound(d, file', local),
         WellFormed(file'), local' = local, trouble' \in Nat,
         Good(s)
  PROVE  IInv' /\ \A r \in Session : Good(r)
<1>0. call \in [Session -> Call]
  BY DEF IInv, TypeOK
<1>1. \A r \in Session \ {s} : call'[r] = call[r] /\ (InSection(call[r]) => call[r].met)
  BY <1>0 DEF IInv, Meetings
<1>2. call'[s] = d /\ call' \in [Session -> Call]
  BY <1>0
<1>3. \A r \in Session \ {s} :
        Writable(call'[r]) /\ (call'[r].met \/ Sound(call'[r], file', local))
  BY <1>1, OutsideIsSound DEF IInv
<1>4. \A r \in Session : Writable(call'[r]) /\ (call'[r].met \/ Sound(call'[r], file', local'))
  BY <1>2, <1>3
<1>5. Meetings'
  BY <1>1, <1>2 DEF IInv, Meetings
<1>6. TypeOK'
  BY <1>2 DEF TypeOK, WellFormed, Fits, Place, IInv
<1>7. IInv'
  BY <1>4, <1>5, <1>6 DEF IInv
<1>8. \A r \in Session : Good(r)
  BY <1>1 DEF Good
<1> QED
  BY <1>7, <1>8

\* A step outside it leaves the files alone.
LEMMA OutsideStep ==
  ASSUME IInv, NEW s \in Session, NEW d \in Call, ~InSection(d),
         call' = [call EXCEPT ![s] = d], UNCHANGED <<file, local>>, trouble' \in Nat,
         d.at = "backfill" => d.step = "read",
         ~d.ok \/ ~InSection(call[s])
  PROVE  IInv' /\ \A r \in Session : Good(r)
<1>0. call \in [Session -> Call]
  BY DEF IInv, TypeOK
<1>1. \A r \in Session \ {s} : call'[r] = call[r]
  BY <1>0
<1>2. call'[s] = d /\ call' \in [Session -> Call]
  BY <1>0
<1>3. \A r \in Session \ {s} :
        Writable(call'[r]) /\ (call'[r].met \/ Sound(call'[r], file', local'))
  BY <1>1 DEF IInv
<1>4. \A r \in Session : Writable(call'[r]) /\ (call'[r].met \/ Sound(call'[r], file', local'))
  BY <1>2, <1>3, OutsideIsSound
<1>5. Meetings'
  BY <1>1, <1>2 DEF Meetings, IInv
<1>6. TypeOK' /\ WellFormed(file')
  BY <1>2 DEF TypeOK, IInv
<1>7. IInv'
  BY <1>4, <1>5, <1>6 DEF IInv
<1>8. ASSUME NEW r \in Session, InSection(call[r]), ~call[r].met PROVE Good(r)
  <2>1. Sound(call[r], file, local)
    BY <1>8 DEF IInv
  <2>2. KeepsPrimary(call[r], file')
    BY <1>8, <2>1 DEF Sound
  <2>3. call[r].at = "undo" => Backward(call[r], file, local)
    BY <1>8, <2>1 DEF Sound
  <2>4. call'[r].at = "idle" => r = s
    BY <1>1, <1>8 DEF InSection
  <2> QED
    BY <1>2, <1>8, <2>2, <2>3, <2>4 DEF Good, Backward
<1>9. \A r \in Session : Good(r)
  BY <1>8 DEF Good
<1> QED
  BY <1>7, <1>9

\* Who is met when a section begins.
LEMMA MeetFacts ==
  ASSUME IInv
  PROVE  /\ Meet \in [Session -> Call]
         /\ \A r \in Session : /\ InSection(call[r]) => Meet[r].met
                               /\ InSection(Meet[r]) <=> InSection(call[r])
                               /\ ~InSection(call[r]) => Meet[r] = call[r]
                               /\ Writable(Meet[r]) /\ Meet[r].at = call[r].at
<1>1. ASSUME NEW r \in Session, NEW c \in Call, c = call[r]
      PROVE  LET d == [c EXCEPT !.met = TRUE] IN
             /\ d \in Call /\ d.met /\ d.at = c.at
             /\ InSection(d) <=> InSection(c)
             /\ Writable(c) => Writable(d)
  <2> DEFINE d == [c EXCEPT !.met = TRUE]
  <2>1. /\ d \in Call /\ d.met /\ d.at = c.at /\ d.snap = c.snap
        /\ d.undo = c.undo /\ d.step = c.step /\ d.new = c.new
    BY DEF Call
  <2> HIDE DEF d
  <2>2. InSection(d) <=> InSection(c)
    BY <2>1 DEF InSection
  <2>3. Here(d) = Here(c)
    BY <2>1 DEF Here, NextToRestore
  <2>4. Writable(c) => Writable(d)
    BY <2>1, <2>2, <2>3 DEF Writable
  <2> QED
    BY <2>1, <2>2, <2>4 DEF d
<1>2. \A r \in Session : call[r] \in Call /\ Writable(call[r])
  BY CallFacts
<1> QED
  BY <1>1, <1>2 DEF Meet

\* Entering: nothing is written, and everything is as it was.
LEMMA EnterKeeps ==
  ASSUME IInv, NEW s \in Session, NEW c \in Call, Enter(s, c),
         ~InSection(call[s]), c.step = "read", trouble' \in Nat
  PROVE  IInv' /\ \A r \in Session : Good(r)
<1> DEFINE at == IF local THEN "snap_app_spec" ELSE "registry"
           snap == [p \in Place |-> IF p = "registry" THEN file[p] ELSE Absent]
           d == [c EXCEPT !.at = at, !.snap = snap, !.met = Busy]
<1>1. file \in [Place -> File] /\ WellFormed(file) /\ call \in [Session -> Call]
      /\ local \in BOOLEAN
  BY DEF IInv, TypeOK
<1>2. call' = [Meet EXCEPT ![s] = d] /\ UNCHANGED <<file, local>>
  BY Zenon DEF Enter
<1>3. WellFormed(snap) /\ snap["registry"] = file["registry"]
      /\ snap["settings"] = Absent
  BY <1>1, AbsentFits, FileFacts DEF WellFormed, Place
<1>4. Busy \in BOOLEAN
  BY DEF Busy
<1>5. /\ d \in Call /\ d.at = at /\ d.snap = snap /\ d.met = Busy
      /\ d.step = "read" /\ d.op = c.op
  <2>1. snap \in [Place -> File] /\ at \in {"snap_app_spec", "registry"}
    BY <1>3 DEF WellFormed
  <2> HIDE DEF snap, at
  <2> QED
    BY <1>4, <2>1 DEF Call, Place
<1>6. at \in {"snap_app_spec", "registry"} /\ (at = "snap_app_spec" <=> local)
  OBVIOUS
<1> HIDE DEF d, snap, at
<1>7. InSection(d) /\ Writable(d)
  BY <1>3, <1>5, <1>6 DEF Writable, InSection
<1>8. KeepsPrimary(d, file)
  BY <1>3, <1>5, FileFacts DEF KeepsPrimary
<1>9. Sound(d, file, local)
  <2>1. CASE local
    BY <1>3, <1>5, <1>6, <1>8, <2>1 DEF Sound, Snapping, Place
  <2>2. CASE ~local
    <3>1. Before("registry") = {} /\ Own(local) = {"registry"}
      BY <2>2 DEF Before, Own
    <3>2. Forward(d, file, local)
      BY <1>3, <1>5, <1>6, <2>2, <3>1 DEF Forward
    <3> QED
      BY <1>5, <1>6, <1>8, <2>2, <3>2 DEF Sound
  <2> QED
    BY <2>1, <2>2
<1>10. \A r \in Session : call'[r] = IF r = s THEN d ELSE Meet[r]
  BY <1>2, MeetFacts
<1>11. call' \in [Session -> Call]
  BY <1>2, <1>5, MeetFacts
<1>12. ASSUME NEW r \in Session
       PROVE  Writable(call'[r]) /\ (call'[r].met \/ Sound(call'[r], file', local'))
  BY <1>2, <1>7, <1>9, <1>10, MeetFacts, OutsideIsSound
<1>13. Meetings'
  <2>1. \A r \in Session \ {s} : InSection(call'[r]) => call'[r].met /\ d.met
    BY <1>5, <1>10, MeetFacts DEF Busy
  <2> QED
    BY <1>10, <2>1 DEF Meetings
<1>14. TypeOK'
  BY <1>2, <1>11 DEF TypeOK, IInv
<1>15. IInv'
  BY <1>1, <1>2, <1>12, <1>13, <1>14 DEF IInv
<1>16. ASSUME NEW r \in Session, InSection(call[r]), ~call[r].met PROVE Good(r)
  <2>1. KeepsPrimary(call[r], file')
    BY <1>2, <1>16 DEF IInv, Sound
  <2>2. call'[r].at # "idle"
    BY <1>10, <1>16, MeetFacts DEF InSection
  <2> QED
    BY <2>1, <2>2 DEF Good
<1> QED
  BY <1>15, <1>16 DEF Good

\* The other snapshots.
LEMMA SnapshotKeeps ==
  ASSUME IInv, NEW s \in Session, Snapshot(s)
  PROVE  IInv' /\ \A r \in Session : Good(r)
<1> DEFINE c == call[s]
<1>1. /\ c \in Call /\ call \in [Session -> Call]
      /\ file \in [Place -> File] /\ WellFormed(file)
      /\ local \in BOOLEAN /\ trouble \in Nat
      /\ Writable(c) /\ (c.met \/ Sound(c, file, local))
  BY CallFacts
<1>2. PICK p \in {"app_spec", "settings"} :
        /\ c.at = IF p = "app_spec" THEN "snap_app_spec" ELSE "snap_settings"
        /\ call' = [call EXCEPT ![s] =
             [c EXCEPT !.at = IF p = "app_spec" THEN "snap_settings" ELSE "registry",
                       !.snap[p] = file[p]]]
        /\ UNCHANGED <<file, local, trouble>>
  BY Zenon DEF Snapshot, Put
<1>3. InSection(c) /\ WellFormed(c.snap)
  BY <1>1, <1>2 DEF InSection, Writable
<1> DEFINE snap == [c.snap EXCEPT ![p] = file[p]]
           at == IF p = "app_spec" THEN "snap_settings" ELSE "registry"
           d == [c EXCEPT !.at = at, !.snap = snap]
<1>4. /\ snap \in [Place -> File] /\ WellFormed(snap)
      /\ snap[p] = file[p] /\ \A q \in Place \ {p} : snap[q] = c.snap[q]
  BY <1>1, <1>2, <1>3 DEF WellFormed, Place
<1>a. call' = [call EXCEPT ![s] = d]
  <2>1. c.snap \in [Place -> File]
    BY <1>3 DEF WellFormed
  <2> QED
    BY <1>1, <1>2, <2>1 DEF Call
<1>5. /\ d \in Call /\ d.at = at /\ d.snap = snap /\ d.met = c.met
      /\ d.step = c.step /\ d.op = c.op
  <2> HIDE DEF snap
  <2> QED
    BY <1>1, <1>4 DEF Call, Place
<1>6. c.step = "read"
  BY <1>1, <1>2, <1>3 DEF Writable, Call, Place
<1>7. at = IF p = "app_spec" THEN "snap_settings" ELSE "registry"
  OBVIOUS
<1>b. Own(TRUE) = Place /\ Before("registry") = {} /\ "registry" \in Place
  BY DEF Own, Before, Place
<1> HIDE DEF c, d, snap, at
<1>8. InSection(d) /\ Writable(d)
  BY <1>4, <1>5, <1>6, <1>7 DEF InSection, Writable
<1>9. ASSUME ~c.met PROVE Sound(d, file, local)
  <2>1. local /\ Snapping(c, file) /\ KeepsPrimary(c, file)
    BY <1>1, <1>2, <1>3, <1>9 DEF Sound
  <2>2. KeepsPrimary(d, file)
    BY <1>4, <1>5, <2>1 DEF KeepsPrimary, Place
  <2>3. CASE p = "app_spec"
    <3>1. Snapping(d, file)
      BY <1>4, <1>5, <2>1, <2>3 DEF Snapping, Place
    <3> QED
      BY <1>5, <1>7, <2>1, <2>2, <2>3, <3>1 DEF Sound, Place
  <2>4. CASE p = "settings"
    <3>1. \A q \in Place : file[q] = snap[q]
      BY <1>2, <1>4, <2>1, <2>4 DEF Snapping, Place
    <3>2. Forward(d, file, local)
      BY <1>5, <1>6, <1>7, <1>b, <2>1, <2>4, <3>1 DEF Forward
    <3> QED
      BY <1>5, <1>7, <2>2, <2>4, <3>2 DEF Sound
  <2> QED
    BY <2>3, <2>4
<1>10. Good(s)
  <2>1. call'[s] = d /\ d.at # "idle"
    BY <1>1, <1>5, <1>7, <1>a
  <2> QED
    BY <1>1, <1>2, <2>1 DEF Good, Sound, c
<1> QED
  BY <1>1, <1>2, <1>3, <1>5, <1>8, <1>9, <1>10, <1>a, SectionStep DEF c

\* Where a call is after a place.
PassedTo(c, d) ==
  /\ c.at = "undo" => /\ d.at = "undo" /\ d.undo = c.undo \ {NextToRestore(c)}
                      /\ d.failed = c.failed /\ d.clean = c.clean
  /\ c.at # "undo" /\ (c.at = "settings" \/ ~local) => d = Idle(TRUE)
  /\ c.at # "undo" /\ ~(c.at = "settings" \/ ~local) =>
       d.at = IF c.at = "registry" THEN "app_spec" ELSE "settings"
  /\ d.at # "idle" => /\ d.step = "read" /\ d.snap = c.snap /\ d.met = c.met
                      /\ d.op = c.op /\ d.backend = c.backend /\ d.mirror = c.mirror

LEMMA PassIs ==
  ASSUME IInv, NEW s \in Session, Pass(s)
  PROVE  \E d \in Call : /\ call' = [call EXCEPT ![s] = d] /\ call'[s] = d
                         /\ PassedTo(call[s], d)
<1> DEFINE c == call[s]
           back == [c EXCEPT !.undo = @ \ {Here(c)}, !.step = "read", !.new = Absent]
           next == IF c.at = "registry" THEN "app_spec" ELSE "settings"
           on == [c EXCEPT !.at = next, !.step = "read", !.new = Absent]
<1>1. c \in Call /\ call \in [Session -> Call]
  BY CallFacts
<1>2. CASE c.at = "undo"
  <2>1. call' = [call EXCEPT ![s] = back]
    BY <1>2, Zenon DEF Pass, Put
  <2>2. Here(c) = NextToRestore(c)
    BY <1>2 DEF Here
  <2>3. /\ back \in Call /\ back.at = "undo" /\ back.undo = c.undo \ {Here(c)}
        /\ back.failed = c.failed /\ back.clean = c.clean
        /\ back.step = "read" /\ back.snap = c.snap /\ back.met = c.met
        /\ back.op = c.op /\ back.backend = c.backend /\ back.mirror = c.mirror
    <3> HIDE DEF Absent
    <3> QED
      BY <1>1, <1>2, FileFacts DEF Call
  <2> HIDE DEF c, back
  <2> QED
    BY <1>1, <1>2, <2>1, <2>2, <2>3 DEF PassedTo, c
<1>3. CASE c.at # "undo" /\ (c.at = "settings" \/ ~local)
  <2>1. call' = [call EXCEPT ![s] = Idle(TRUE)]
    BY <1>3, Zenon DEF Pass, Put, Return
  <2> HIDE DEF c
  <2> QED
    BY <1>1, <1>3, <2>1, IdleFacts DEF PassedTo, c
<1>4. CASE c.at # "undo" /\ ~(c.at = "settings" \/ ~local)
  <2>1. call' = [call EXCEPT ![s] = on]
    BY <1>4, Zenon DEF Pass, Put
  <2>2. next \in Place
    BY DEF Place
  <2>3. /\ on \in Call /\ on.at = next
        /\ on.step = "read" /\ on.snap = c.snap /\ on.met = c.met
        /\ on.op = c.op /\ on.backend = c.backend /\ on.mirror = c.mirror
    <3> HIDE DEF Absent, next
    <3> QED
      BY <1>1, <2>2, FileFacts DEF Call
  <2> HIDE DEF c, on
  <2> QED
    BY <1>1, <1>4, <2>1, <2>3 DEF PassedTo, c
<1> QED
  BY <1>2, <1>3, <1>4

\* A place is written, and what comes before it is done.
LEMMA PassForward ==
  ASSUME IInv, NEW s \in Session, Pass(s), call[s].at \in Place,
         WellFormed(file'), UNCHANGED <<local, trouble>>,
         ~call[s].met =>
           /\ call[s].at \in Own(local)
           /\ \A q \in Before(call[s].at) \cup {call[s].at} :
                /\ Done(call[s], q, file')
                /\ file'[q].is = "absent" => call[s].snap[q].is = "absent"
           /\ \A q \in Own(local) \ (Before(call[s].at) \cup {call[s].at}) :
                file'[q] = call[s].snap[q]
           /\ KeepsPrimary(call[s], file')
  PROVE  IInv' /\ \A r \in Session : Good(r)
<1> DEFINE c == call[s]
<1>1. /\ c \in Call /\ call \in [Session -> Call] /\ trouble \in Nat
      /\ local \in BOOLEAN /\ Writable(c) /\ InSection(c)
  BY CallFacts DEF InSection, Place
<1>2. PICK d \in Call : /\ call' = [call EXCEPT ![s] = d] /\ call'[s] = d
                        /\ PassedTo(c, d)
  BY PassIs
<1>3. c.at # "undo" /\ c.at \in Place
  BY DEF Place
<1> HIDE DEF c
<1>4. CASE c.at = "settings" \/ ~local
  <2>1. d.at = "idle" /\ ~InSection(d)
    BY <1>2, <1>3, <1>4, IdleFacts DEF PassedTo
  <2>2. ~c.met => Own(local) \subseteq Before(c.at) \cup {c.at}
    BY <1>1, <1>3, <1>4 DEF Own, Before, Place, c
  <2>3. Good(s)
    BY <1>2, <1>3, <2>2 DEF Good, c
  <2> QED
    BY <1>1, <1>2, <2>1, <2>3, OutsideIsSound, SectionStep DEF c
<1>5. CASE ~(c.at = "settings" \/ ~local)
  <2>1. d.at = (IF c.at = "registry" THEN "app_spec" ELSE "settings")
        /\ d.at # "idle" /\ d.at \in Place /\ d.at # "undo"
    BY <1>2, <1>3, <1>5 DEF PassedTo, Place
  <2>2. /\ d.step = "read" /\ d.snap = c.snap /\ d.met = c.met
        /\ d.op = c.op /\ d.backend = c.backend /\ d.mirror = c.mirror
    BY <1>2, <2>1 DEF PassedTo
  <2>3. Before(d.at) = Before(c.at) \cup {c.at} /\ d.at \notin Before(d.at)
    BY <1>3, <1>5, <2>1 DEF Before, Place
  <2>4. Writable(d)
    BY <1>1, <2>1, <2>2 DEF Writable
  <2>5. ASSUME ~c.met PROVE Sound(d, file', local)
    <3>1. Own(local) = Place
      BY <1>5 DEF Own
    <3>2. \A q \in Before(d.at) : Done(d, q, file')
      BY <2>2, <2>3, <2>5, DoneAsks DEF c
    <3>3. Forward(d, file', local)
      BY <2>1, <2>2, <2>3, <2>5, <3>1, <3>2 DEF Forward, c
    <3>4. KeepsPrimary(d, file')
      BY <2>2, <2>5 DEF KeepsPrimary, c
    <3> QED
      BY <2>1, <3>3, <3>4 DEF Sound, Place
  <2>6. Good(s)
    BY <1>2, <1>3, <2>1 DEF Good, c
  <2> QED
    BY <1>1, <1>2, <2>2, <2>4, <2>5, <2>6, SectionStep DEF c
<1> QED
  BY <1>4, <1>5

\* A place is restored, and those restored before it are as they were.
LEMMA PassBack ==
  ASSUME IInv, NEW s \in Session, Pass(s), call[s].at = "undo",
         WellFormed(file'), UNCHANGED <<local, trouble>>,
         ~call[s].met =>
           /\ call[s].clean =>
                \A q \in Own(local) \ {call[s].failed} :
                  q \notin call[s].undo \ {NextToRestore(call[s])} =>
                    file'[q] = call[s].snap[q]
           /\ \A q \in call[s].undo \ {NextToRestore(call[s])} :
                file'[q].is = "absent" => call[s].snap[q].is = "absent"
           /\ KeepsPrimary(call[s], file')
  PROVE  IInv' /\ \A r \in Session : Good(r)
<1> DEFINE c == call[s]
<1>1. /\ c \in Call /\ call \in [Session -> Call] /\ trouble \in Nat
      /\ local \in BOOLEAN /\ Writable(c) /\ InSection(c)
  BY CallFacts DEF InSection, Place
<1>2. PICK d \in Call : /\ call' = [call EXCEPT ![s] = d] /\ call'[s] = d
                        /\ PassedTo(c, d)
  BY PassIs
<1> HIDE DEF c
<1>3. /\ d.at = "undo" /\ d.undo = c.undo \ {NextToRestore(c)}
      /\ d.failed = c.failed /\ d.clean = c.clean
      /\ d.step = "read" /\ d.snap = c.snap /\ d.met = c.met /\ d.op = c.op
  BY <1>2 DEF PassedTo, c
<1>4. Writable(d) /\ InSection(d)
  BY <1>1, <1>3 DEF Writable, InSection, c
<1>5. ASSUME ~c.met PROVE Sound(d, file', local)
  <2>1. Backward(d, file', local)
    BY <1>3, <1>5 DEF Backward, c
  <2>2. KeepsPrimary(d, file')
    BY <1>3, <1>5 DEF KeepsPrimary, c
  <2> QED
    BY <1>3, <2>1, <2>2 DEF Sound, Place
<1>6. Good(s)
  BY <1>2, <1>3 DEF Good, c
<1> QED
  BY <1>1, <1>2, <1>3, <1>4, <1>5, <1>6, SectionStep DEF c

\* What needs no writing is there already.
LEMMA UnneededIsThere ==
  ASSUME WellFormed(file), NEW c \in Call, NEW p \in Place, Readable(c, p),
         Unneeded(c, p)
  PROVE  [file EXCEPT ![p] = Written(c, p)] = file
<1>1. file \in [Place -> File] /\ file["registry"] \in File
      /\ c.op \in {"switch", "mirror"} /\ c.mirror \in BOOLEAN
  BY DEF WellFormed, Place, Call
<1>2. Written(c, p) = file[p]
  <2>1. CASE p = "registry"
    <3> DEFINE old == file["registry"]
    <3>1. RegistryWith(c).is = "absent"
      BY <2>1 DEF Unneeded, Written
    <3>2. CASE c.op = "switch"
      <4>1. old.is = "whole"
        BY <2>1, <3>2 DEF Readable
      <4>2. RegistryWith(c).is = old.is
        BY <1>1, <3>2 DEF RegistryWith, File
      <4> QED
        BY <3>1, <4>1, <4>2
    <3>3. CASE c.op = "mirror"
      <4>1. [old EXCEPT !.mirror = c.mirror].is = old.is
        BY <1>1 DEF File
      <4>2. old.is # "whole" /\ ~c.mirror
        BY <1>1, <3>1, <3>3, <4>1, FileFacts DEF RegistryWith
      <4> QED
        BY <2>1, <3>3, <4>2 DEF Written, RegistryWith
    <3> QED
      BY <1>1, <3>2, <3>3
  <2>2. CASE p = "app_spec"
    BY <2>2 DEF Unneeded
  <2>3. CASE p = "settings"
    BY <2>3 DEF Unneeded
  <2> QED
    BY <2>1, <2>2, <2>3 DEF Place
<1> QED
  BY <1>1, <1>2

\* One place changes, to something that says the same primary or nothing.
LEMMA PrimaryKept ==
  ASSUME WellFormed(file), NEW c, NEW p \in Place, NEW x,
         file' = [file EXCEPT ![p] = x], KeepsPrimary(c, file),
         \/ p = "app_spec" \/ x.is # "whole"
         \/ c.op = "mirror" /\ c.snap[p].is = "whole" => x.backend = c.snap[p].backend
  PROVE  KeepsPrimary(c, file')
<1>1. file'[p] = x /\ \A q \in Place \ {p} : file'[q] = file[q]
  BY DEF WellFormed
<1> QED
  BY <1>1 DEF KeepsPrimary, Place

\* A call that is writing and has met no other.
LEMMA ForwardFacts ==
  ASSUME IInv, NEW s \in Session, call[s].at \in Place, ~call[s].met
  PROVE  Forward(call[s], file, local) /\ KeepsPrimary(call[s], file)
BY DEF IInv, Sound, InSection, Place

LEMMA BackwardFacts ==
  ASSUME IInv, NEW s \in Session, call[s].at = "undo", ~call[s].met
  PROVE  Backward(call[s], file, local) /\ KeepsPrimary(call[s], file)
BY DEF IInv, Sound, InSection, Place

LEMMA ReadKeeps ==
  ASSUME IInv, NEW s \in Session, Read(s)
  PROVE  IInv' /\ \A r \in Session : Good(r)
<1> DEFINE c == call[s]
           w == Written(c, c.at)
           d == [c EXCEPT !.step = "open", !.new = w]
<1>1. /\ c \in Call /\ call \in [Session -> Call] /\ trouble \in Nat
      /\ file \in [Place -> File] /\ WellFormed(file)
      /\ local \in BOOLEAN /\ Writable(c)
  BY CallFacts
<1>2. /\ c.at \in Place /\ c.step = "read" /\ Readable(c, c.at)
      /\ UNCHANGED <<file, local, trouble>>
      /\ Unneeded(c, c.at) => Pass(s)
      /\ ~Unneeded(c, c.at) => call' = [call EXCEPT ![s] = d]
  BY Zenon DEF Read, Put
<1>3. InSection(c) /\ c.at # "undo" /\ c.at # "idle"
  BY <1>2 DEF InSection, Place
<1>4. ~c.met => Forward(c, file, local) /\ KeepsPrimary(c, file)
  BY <1>2, ForwardFacts
<1> HIDE DEF c, w, d
<1>5. CASE Unneeded(c, c.at)
  <2>1. [file EXCEPT ![c.at] = Written(c, c.at)] = file
    BY <1>1, <1>2, <1>5, UnneededIsThere
  <2>2. ASSUME ~c.met PROVE Done(c, c.at, file)
    <3>1. \A q \in Before(c.at) : Done(c, q, file)
      BY <1>4, <2>2 DEF Forward
    <3> QED
      BY <1>1, <1>2, <2>1, <3>1, WrittenIsDone
  <2>3. ~c.met =>
           /\ c.at \in Own(local)
           /\ \A q \in Before(c.at) \cup {c.at} :
                /\ Done(c, q, file')
                /\ file'[q].is = "absent" => c.snap[q].is = "absent"
           /\ \A q \in Own(local) \ (Before(c.at) \cup {c.at}) : file'[q] = c.snap[q]
           /\ KeepsPrimary(c, file')
    BY <1>2, <1>4, <2>2 DEF Forward
  <2> QED
    BY <1>1, <1>2, <1>5, <2>3, PassForward DEF c
<1>6. CASE ~Unneeded(c, c.at)
  <2>1. Fits(c.at, w) /\ w.is # "absent"
    BY <1>1, <1>2, <1>6, WrittenFits, NeededIsThere DEF w
  <2>2. /\ d \in Call /\ d.at = c.at /\ d.step = "open" /\ d.new = w
        /\ d.snap = c.snap /\ d.met = c.met /\ d.op = c.op /\ d.undo = c.undo
        /\ d.backend = c.backend /\ d.mirror = c.mirror
    <3>1. w \in File
      BY <2>1 DEF Fits
    <3> QED
      BY <1>1, <3>1 DEF Call, d
  <2>3. Writable(d) /\ InSection(d)
    BY <1>1, <1>2, <1>3, <2>1, <2>2 DEF Writable, InSection, Here
  <2>4. ASSUME ~c.met PROVE Sound(d, file', local)
    <3>1. Forward(c, file, local) /\ KeepsPrimary(c, file)
      BY <1>4, <2>4
    <3>2. Done(c, c.at, [file EXCEPT ![c.at] = w])
      BY <1>1, <1>2, <3>1, WrittenIsDone DEF Forward, w
    <3>3. c.op = "mirror" /\ c.at \in {"registry", "settings"}
            /\ c.snap[c.at].is = "whole" => w.backend = c.snap[c.at].backend
      BY <1>1, <1>2, <3>1, WriteKeepsPrimary DEF Forward, w
    <3>4. \A q, f : Done(c, q, f) => Done(d, q, f)
      BY <2>2, DoneAsks
    <3>5. Forward(d, file, local)
      BY <1>2, <2>1, <2>2, <3>1, <3>2, <3>3, <3>4 DEF Forward
    <3>6. KeepsPrimary(d, file)
      BY <2>2, <3>1 DEF KeepsPrimary
    <3> QED
      BY <1>2, <1>3, <2>2, <3>5, <3>6 DEF Sound, Place
  <2>5. Good(s)
    <3>1. call'[s] = d
      BY <1>1, <1>2, <1>6
    <3> QED
      BY <1>2, <1>3, <1>4, <2>2, <3>1 DEF Good, c
  <2> QED
    BY <1>1, <1>2, <1>3, <1>6, <2>2, <2>3, <2>4, <2>5, SectionStep DEF c
<1> QED
  BY <1>5, <1>6

\* A step of a call that is restoring: it knows what to put back, or a restore
\* failed.
LEMMA ReadAgainKeeps ==
  ASSUME IInv, NEW s \in Session, ReadAgain(s)
  PROVE  IInv' /\ \A r \in Session : Good(r)
<1> DEFINE c == call[s]
           p == NextToRestore(c)
           d == [c EXCEPT !.step = "open", !.new = c.snap[p]]
<1>1. /\ c \in Call /\ call \in [Session -> Call] /\ trouble \in Nat
      /\ file \in [Place -> File] /\ WellFormed(file)
      /\ local \in BOOLEAN /\ Writable(c)
  BY CallFacts
<1>2. /\ c.at = "undo" /\ c.undo # {} /\ c.step = "read"
      /\ UNCHANGED <<file, local, trouble>>
      /\ \/ file[p].is = "absent" /\ Pass(s)
         \/ call' = [call EXCEPT ![s] = d]
  BY Zenon DEF ReadAgain, Put
<1>3. InSection(c) /\ p \in Place /\ p \in c.undo /\ WellFormed(c.snap)
  BY <1>1, <1>2 DEF InSection, Place, Writable, NextToRestore
<1>4. ~c.met => Backward(c, file, local) /\ KeepsPrimary(c, file)
  BY <1>2, BackwardFacts
<1>5. Here(c) = p
  BY <1>2 DEF Here
<1>a. p = NextToRestore(c)
  OBVIOUS
<1> HIDE DEF c, d, p
<1>6. CASE file[p].is = "absent" /\ Pass(s)
  <2>1. ~c.met => file[p] = c.snap[p]
    <3>1. file[p] = Absent
      BY <1>1, <1>3, <1>6, FileFacts DEF WellFormed, Fits
    <3>2. ~c.met => c.snap[p].is = "absent"
      BY <1>3, <1>4, <1>6 DEF Backward
    <3>3. c.snap[p].is = "absent" => c.snap[p] = Absent
      BY <1>3, FileFacts DEF WellFormed, Fits
    <3> QED
      BY <3>1, <3>2, <3>3
  <2>2. ~c.met =>
           /\ c.clean =>
                \A q \in Own(local) \ {c.failed} :
                  q \notin c.undo \ {NextToRestore(c)} => file'[q] = c.snap[q]
           /\ \A q \in c.undo \ {NextToRestore(c)} :
                file'[q].is = "absent" => c.snap[q].is = "absent"
           /\ KeepsPrimary(c, file')
    BY <1>2, <1>4, <1>a, <2>1 DEF Backward
  <2> QED
    BY <1>1, <1>2, <1>6, <2>2, PassBack DEF c
<1>7. CASE call' = [call EXCEPT ![s] = d]
  <2>1. /\ d \in Call /\ d.at = "undo" /\ d.step = "open" /\ d.new = c.snap[p]
        /\ d.snap = c.snap /\ d.met = c.met /\ d.op = c.op /\ d.undo = c.undo
        /\ d.failed = c.failed /\ d.clean = c.clean
    <3>1. c.snap[p] \in File
      BY <1>3 DEF WellFormed, Fits
    <3> QED
      BY <1>1, <1>2, <3>1 DEF Call, d
  <2>2. NextToRestore(d) = p /\ Here(d) = p
    BY <1>a, <2>1 DEF Here, NextToRestore
  <2>3. Fits(p, c.snap[p])
    BY <1>3 DEF WellFormed
  <2>4. Writable(d) /\ InSection(d)
    BY <1>1, <1>2, <1>3, <2>1, <2>2, <2>3 DEF Writable, InSection
  <2>5. ASSUME ~c.met PROVE Sound(d, file', local)
    <3>1. Backward(d, file, local)
      BY <1>4, <2>1, <2>2, <2>5 DEF Backward
    <3>2. KeepsPrimary(d, file)
      BY <1>4, <2>1, <2>5 DEF KeepsPrimary
    <3> QED
      BY <1>2, <2>1, <3>1, <3>2 DEF Sound, Place
  <2>6. Good(s)
    <3>1. call'[s] = d
      BY <1>1, <1>7
    <3> QED
      BY <1>2, <1>4, <2>1, <3>1 DEF Good, c
  <2> QED
    BY <1>1, <1>2, <1>3, <1>7, <2>1, <2>4, <2>5, <2>6, SectionStep DEF c
<1> QED
  BY <1>2, <1>6, <1>7

\* A file is emptied, or deleted.
LEMMA TruncateKeeps ==
  ASSUME IInv, NEW s \in Session, Truncate(s)
  PROVE  IInv' /\ \A r \in Session : Good(r)
<1> DEFINE c == call[s]
           p == Here(c)
           d == [c EXCEPT !.step = "fill"]
<1>1. /\ c \in Call /\ call \in [Session -> Call] /\ trouble \in Nat
      /\ file \in [Place -> File] /\ WellFormed(file)
      /\ local \in BOOLEAN /\ Writable(c)
  BY CallFacts
<1>2. /\ InSection(c) /\ c.step = "open" /\ UNCHANGED <<local, trouble>>
      /\ \/ c.new.is = "absent" /\ file' = [file EXCEPT ![p] = Absent] /\ Pass(s)
         \/ /\ file' = [file EXCEPT ![p] = Broken]
            /\ call' = [call EXCEPT ![s] = d]
  BY Zenon DEF Truncate, Put
<1>3. /\ c.at \in Place \/ (c.at = "undo" /\ c.undo # {})
      /\ Fits(p, c.new) /\ WellFormed(c.snap)
      /\ c.at = "undo" => c.undo \subseteq {"registry", "app_spec"}
  BY <1>1, <1>2 DEF Writable
<1>4. /\ c.at \in Place => p = c.at /\ c.at # "undo"
      /\ c.at = "undo" => p = NextToRestore(c) /\ p \in c.undo
      /\ p \in Place /\ c.at # "idle"
  BY <1>3 DEF Here, NextToRestore, Place
<1>5. /\ c.at \in Place /\ ~c.met => Forward(c, file, local)
      /\ c.at = "undo" /\ ~c.met => Backward(c, file, local)
      /\ ~c.met => KeepsPrimary(c, file)
  BY <1>3, ForwardFacts, BackwardFacts
<1> HIDE DEF c, d, p
<1>6. CASE c.new.is = "absent" /\ file' = [file EXCEPT ![p] = Absent] /\ Pass(s)
  <2>1. WellFormed(file')
    BY <1>1, <1>4, <1>6, AbsentFits, PlaceFits
  <2>2. file'[p] = Absent /\ \A q \in Place \ {p} : file'[q] = file[q]
    BY <1>1, <1>4, <1>6
  <2>3. ~c.met => KeepsPrimary(c, file')
    BY <1>1, <1>4, <1>5, <1>6, FileFacts, PrimaryKept
  <2>4. CASE c.at \in Place
    <3>1. c.met
      BY <1>2, <1>5, <1>6, <2>4 DEF Forward
    <3> QED
      BY <1>2, <1>6, <2>1, <2>4, <3>1, PassForward DEF c
  <2>5. CASE c.at = "undo"
    <3>1. ~c.met => c.snap[p] = Absent
      <4>1. c.new = Absent
        BY <1>3, <1>6, FileFacts DEF Fits
      <4> QED
        BY <1>2, <1>4, <1>5, <2>5, <4>1 DEF Backward
    <3>2. \A q \in Own(local) \cup c.undo : q \in Place
      BY <1>3, <2>5 DEF Own, Place
    <3>3. ~c.met =>
             /\ c.clean =>
                  \A q \in Own(local) \ {c.failed} :
                    q \notin c.undo \ {NextToRestore(c)} => file'[q] = c.snap[q]
             /\ \A q \in c.undo \ {NextToRestore(c)} :
                  file'[q].is = "absent" => c.snap[q].is = "absent"
      BY <1>4, <1>5, <2>2, <2>5, <3>1, <3>2 DEF Backward
    <3> QED
      BY <1>2, <1>6, <2>1, <2>3, <2>5, <3>3, PassBack DEF c
  <2> QED
    BY <1>3, <2>4, <2>5
<1>7. CASE /\ file' = [file EXCEPT ![p] = Broken]
           /\ call' = [call EXCEPT ![s] = d]
  <2>1. WellFormed(file')
    BY <1>1, <1>4, <1>7, AbsentFits, PlaceFits
  <2>2. file'[p] = Broken /\ \A q \in Place \ {p} : file'[q] = file[q]
    BY <1>1, <1>4, <1>7
  <2>3. ~c.met => KeepsPrimary(c, file')
    BY <1>1, <1>4, <1>5, <1>7, FileFacts, PrimaryKept
  <2>4. /\ d \in Call /\ d.at = c.at /\ d.step = "fill" /\ d.new = c.new
        /\ d.snap = c.snap /\ d.met = c.met /\ d.op = c.op /\ d.undo = c.undo
        /\ d.backend = c.backend /\ d.mirror = c.mirror
        /\ d.failed = c.failed /\ d.clean = c.clean
    BY <1>1 DEF Call, d
  <2>5. Here(d) = p /\ NextToRestore(d) = NextToRestore(c)
    BY <2>4 DEF Here, NextToRestore, p
  <2>6. Writable(d) /\ InSection(d)
    BY <1>2, <1>3, <2>4, <2>5 DEF Writable, InSection
  <2>7. \A q, f : Done(c, q, f) => Done(d, q, f)
    BY <2>4, DoneAsks
  <2>8. ASSUME ~c.met, c.at \in Place PROVE Forward(d, file', local)
    <3>1. Forward(c, file, local) /\ p = c.at
      BY <1>4, <1>5, <2>8
    <3>2. \A q \in Before(c.at) :
            q \in Place \ {p} /\ file'[q] = file[q]
              /\ file'["registry"] = file["registry"]
      BY <2>2, <2>8, <3>1 DEF Before, Place
    <3>3. \A q \in Before(c.at) : Done(c, q, file')
      BY <3>1, <3>2, DoneAgrees DEF Forward
    <3>4. [file' EXCEPT ![c.at] = c.new] = [file EXCEPT ![c.at] = c.new]
      BY <1>1, <1>7, <3>1
    <3>5. Done(c, c.at, [file' EXCEPT ![c.at] = c.new])
      BY <1>2, <3>1, <3>4 DEF Forward
    <3>6. \A q \in Own(local) : q \in Place
      BY DEF Own, Place
    <3>7. \A q \in Own(local) \ (Before(c.at) \cup {c.at}) : file'[q] = c.snap[q]
      BY <2>2, <3>1, <3>6 DEF Forward
    <3> QED
      BY <1>2, <2>4, <2>7, <3>1, <3>2, <3>3, <3>5, <3>7 DEF Forward
  <2>9. ASSUME ~c.met, c.at = "undo" PROVE Backward(d, file', local)
    <3>1. Backward(c, file, local) /\ p \in c.undo
      BY <1>4, <1>5, <2>9
    <3>2. \A q \in Own(local) \cup c.undo : q \in Place
      BY <1>3, <2>9 DEF Own, Place
    <3> QED
      BY <1>2, <2>2, <2>4, <2>5, <3>1, <3>2, FileFacts DEF Backward
  <2>10. ASSUME ~c.met PROVE Sound(d, file', local)
    <3>1. KeepsPrimary(d, file')
      BY <2>3, <2>4, <2>10 DEF KeepsPrimary
    <3> QED
      BY <1>3, <2>4, <2>8, <2>9, <2>10, <3>1 DEF Sound, Place
  <2>11. Good(s)
    <3>1. call'[s] = d
      BY <1>1, <1>7
    <3> QED
      BY <1>4, <2>3, <2>4, <3>1 DEF Good, c
  <2> QED
    BY <1>1, <1>2, <1>7, <2>1, <2>4, <2>6, <2>10, <2>11, SectionStep DEF c
<1> QED
  BY <1>2, <1>6, <1>7

LEMMA FillKeeps ==
  ASSUME IInv, NEW s \in Session, Fill(s)
  PROVE  IInv' /\ \A r \in Session : Good(r)
<1> DEFINE c == call[s]
           p == Here(c)
<1>1. /\ c \in Call /\ file \in [Place -> File] /\ WellFormed(file)
      /\ local \in BOOLEAN /\ Writable(c)
  BY CallFacts
<1>2. /\ InSection(c) /\ c.step = "fill" /\ UNCHANGED <<local, trouble>>
      /\ file' = [file EXCEPT ![p] = c.new] /\ Pass(s)
  BY Zenon DEF Fill
<1>3. /\ c.at \in Place \/ (c.at = "undo" /\ c.undo # {})
      /\ Fits(p, c.new) /\ WellFormed(c.snap)
      /\ c.at = "undo" => c.undo \subseteq {"registry", "app_spec"}
  BY <1>1, <1>2 DEF Writable
<1>4. /\ c.at \in Place => p = c.at
      /\ c.at = "undo" => p = NextToRestore(c) /\ p \in c.undo
      /\ p \in Place
  BY <1>3 DEF Here, NextToRestore, Place
<1>5. /\ c.at \in Place /\ ~c.met => Forward(c, file, local)
      /\ c.at = "undo" /\ ~c.met => Backward(c, file, local)
      /\ ~c.met => KeepsPrimary(c, file)
  BY <1>3, ForwardFacts, BackwardFacts
<1> HIDE DEF c, p
<1>6. WellFormed(file')
  BY <1>1, <1>2, <1>3, <1>4, PlaceFits
<1>7. file'[p] = c.new /\ \A q \in Place \ {p} : file'[q] = file[q]
  BY <1>1, <1>2, <1>4
<1>8. CASE c.at \in Place
  <2>1. ASSUME ~c.met
        PROVE  /\ c.at \in Own(local)
               /\ \A q \in Before(c.at) \cup {c.at} :
                    /\ Done(c, q, file')
                    /\ file'[q].is = "absent" => c.snap[q].is = "absent"
               /\ \A q \in Own(local) \ (Before(c.at) \cup {c.at}) :
                    file'[q] = c.snap[q]
               /\ KeepsPrimary(c, file')
    <3>1. Forward(c, file, local) /\ KeepsPrimary(c, file) /\ p = c.at
      BY <1>4, <1>5, <1>8, <2>1
    <3>2. \A q \in Before(c.at) :
            q \in Place \ {p} /\ file'[q] = file[q]
              /\ file'["registry"] = file["registry"]
      BY <1>7, <1>8, <3>1 DEF Before, Place
    <3>3. \A q \in Before(c.at) : Done(c, q, file')
      BY <3>1, <3>2, DoneAgrees DEF Forward
    <3>4. Done(c, c.at, file')
      BY <1>2, <3>1 DEF Forward
    <3>5. \A q \in Own(local) : q \in Place
      BY DEF Own, Place
    <3>6. c.new.is # "absent"
      BY <1>2, <3>1 DEF Forward
    <3>7. \/ p = "app_spec"
          \/ c.op = "mirror" /\ c.snap[p].is = "whole" => c.new.backend = c.snap[p].backend
      BY <1>2, <1>4, <3>1 DEF Forward, Place
    <3>8. KeepsPrimary(c, file')
      BY <1>1, <1>2, <1>4, <3>1, <3>7, PrimaryKept
    <3> QED
      BY <1>7, <3>1, <3>2, <3>3, <3>4, <3>5, <3>6, <3>8 DEF Forward
  <2> QED
    BY <1>2, <1>6, <1>8, <2>1, PassForward DEF c
<1>9. CASE c.at = "undo"
  <2>1. ASSUME ~c.met
        PROVE  /\ c.clean =>
                    \A q \in Own(local) \ {c.failed} :
                      q \notin c.undo \ {NextToRestore(c)} => file'[q] = c.snap[q]
               /\ \A q \in c.undo \ {NextToRestore(c)} :
                    file'[q].is = "absent" => c.snap[q].is = "absent"
               /\ KeepsPrimary(c, file')
    <3>1. Backward(c, file, local) /\ KeepsPrimary(c, file)
          /\ p = NextToRestore(c) /\ p \in c.undo
      BY <1>4, <1>5, <1>9, <2>1
    <3>2. \A q \in Own(local) \cup c.undo : q \in Place
      BY <1>3, <1>9 DEF Own, Place
    <3>3. c.new = c.snap[p]
      BY <1>2, <3>1 DEF Backward
    <3>4. KeepsPrimary(c, file')
      BY <1>1, <1>2, <1>4, <3>1, <3>3, PrimaryKept
    <3> QED
      BY <1>7, <3>1, <3>2, <3>3, <3>4 DEF Backward
  <2> QED
    BY <1>2, <1>6, <1>9, <2>1, PassBack DEF c
<1> QED
  BY <1>3, <1>8, <1>9

LEMMA WriteFailsKeeps ==
  ASSUME IInv, NEW s \in Session, WriteFails(s)
  PROVE  IInv' /\ \A r \in Session : Good(r)
<1> DEFINE c == call[s]
           d == [c EXCEPT !.at = "undo", !.undo = Before(c.at), !.failed = c.at,
                          !.step = "read", !.new = Absent]
<1>1. /\ c \in Call /\ call \in [Session -> Call] /\ trouble \in Nat
      /\ file \in [Place -> File] /\ WellFormed(file)
      /\ local \in BOOLEAN /\ Writable(c)
  BY CallFacts
<1>2. /\ c.at \in Place /\ trouble' = trouble + 1 /\ UNCHANGED local
      /\ \/ UNCHANGED file
         \/ /\ c.at = "app_spec" /\ c.step = "fill"
            /\ file' = [file EXCEPT ![c.at] = c.new]
      /\ call' = [call EXCEPT ![s] = d]
  BY Zenon DEF WriteFails, Put, GoesWrong
<1>3. InSection(c) /\ Before(c.at) \subseteq {"registry", "app_spec"}
      /\ WellFormed(c.snap)
      /\ c.at \notin Before(c.at) /\ Before(c.at) \subseteq Place /\ c.at # "undo"
      /\ c.at # "idle"
  BY <1>1, <1>2 DEF InSection, Place, Before, Writable
<1>4. ~c.met => Forward(c, file, local) /\ KeepsPrimary(c, file)
  BY <1>2, ForwardFacts
<1>5. /\ d \in Call /\ d.at = "undo" /\ d.undo = Before(c.at) /\ d.failed = c.at
      /\ d.step = "read" /\ d.snap = c.snap /\ d.met = c.met /\ d.op = c.op
      /\ d.clean = c.clean
  <2> HIDE DEF Absent
  <2> QED
    BY <1>1, <1>2, <1>3, FileFacts DEF Call
<1> HIDE DEF c, d
<1>6. WellFormed(file') /\ \A q \in Place \ {c.at} : file'[q] = file[q]
  <2>1. c.step = "fill" => Fits(c.at, c.new)
    BY <1>1, <1>3 DEF Writable, Here
  <2> QED
    BY <1>1, <1>2, <2>1, PlaceFits
<1>7. ~c.met => KeepsPrimary(c, file')
  BY <1>1, <1>2, <1>4, PrimaryKept
<1>8. Writable(d) /\ InSection(d)
  BY <1>3, <1>5 DEF Writable, InSection
<1>9. ASSUME ~c.met PROVE Sound(d, file', local)
  <2>1. \A q \in Own(local) : q \in Place
    BY DEF Own, Place
  <2>2. Backward(d, file', local)
    BY <1>3, <1>4, <1>5, <1>6, <1>9, <2>1 DEF Backward, Forward
  <2>3. KeepsPrimary(d, file')
    BY <1>5, <1>7, <1>9 DEF KeepsPrimary
  <2> QED
    BY <1>5, <2>2, <2>3 DEF Sound, Place
<1>10. Good(s)
  <2>1. call'[s] = d
    BY <1>1, <1>2
  <2> QED
    BY <1>3, <1>5, <1>7, <2>1 DEF Good, c
<1>11. trouble' \in Nat
  BY <1>1, <1>2
<1> QED
  BY <1>1, <1>2, <1>3, <1>5, <1>6, <1>8, <1>9, <1>10, <1>11, SectionStep DEF c

LEMMA RestoreFailsKeeps ==
  ASSUME IInv, NEW s \in Session, RestoreFails(s)
  PROVE  IInv' /\ \A r \in Session : Good(r)
<1> DEFINE c == call[s]
           d == [c EXCEPT !.undo = @ \ {NextToRestore(c)}, !.clean = FALSE,
                          !.step = "read", !.new = Absent]
<1>1. /\ c \in Call /\ call \in [Session -> Call] /\ trouble \in Nat
      /\ file \in [Place -> File] /\ WellFormed(file)
      /\ local \in BOOLEAN /\ Writable(c)
  BY CallFacts
<1>2. /\ c.at = "undo" /\ trouble' = trouble + 1 /\ UNCHANGED <<file, local>>
      /\ call' = [call EXCEPT ![s] = d]
  BY Zenon DEF RestoreFails, Put, GoesWrong
<1>3. InSection(c) /\ WellFormed(c.snap) /\ c.undo \subseteq {"registry", "app_spec"}
  BY <1>1, <1>2 DEF InSection, Place, Writable
<1>4. ~c.met => Backward(c, file, local) /\ KeepsPrimary(c, file)
  BY <1>2, BackwardFacts
<1>5. /\ d \in Call /\ d.at = "undo" /\ d.undo \subseteq c.undo /\ ~d.clean
      /\ d.step = "read" /\ d.snap = c.snap /\ d.met = c.met /\ d.op = c.op
  <2> HIDE DEF Absent
  <2> QED
    BY <1>1, <1>2, <1>3, FileFacts DEF Call
<1> HIDE DEF c, d
<1>6. Writable(d) /\ InSection(d)
  BY <1>3, <1>5 DEF Writable, InSection
<1>7. ASSUME ~c.met PROVE Sound(d, file', local)
  <2>1. Backward(d, file, local)
    BY <1>4, <1>5, <1>7 DEF Backward
  <2>2. KeepsPrimary(d, file)
    BY <1>4, <1>5, <1>7 DEF KeepsPrimary
  <2> QED
    BY <1>2, <1>5, <2>1, <2>2 DEF Sound, Place
<1>8. Good(s)
  <2>1. call'[s] = d
    BY <1>1, <1>2
  <2> QED
    BY <1>2, <1>4, <1>5, <2>1 DEF Good, c
<1>9. trouble' \in Nat
  BY <1>1, <1>2
<1> QED
  BY <1>1, <1>2, <1>3, <1>5, <1>6, <1>7, <1>8, <1>9, SectionStep DEF c

\* The calls of the other processes go on as they were.
LEMMA DieKeeps ==
  ASSUME IInv, NEW s \in Session, Die(s)
  PROVE  IInv' /\ \A r \in Session : Good(r)
<1>1. /\ \A r \in Session : call'[r] = call[r] \/ call'[r] = Idle(FALSE)
      /\ call' \in [Session -> Call]
  BY IdleFacts, CallFacts DEF Die
<1>2. UNCHANGED <<file, local>> /\ trouble' \in Nat
  BY CallFacts DEF Die, GoesWrong
<1>3. ~InSection(Idle(FALSE)) /\ Idle(FALSE).ok = FALSE /\ Idle(FALSE).at = "idle"
  BY IdleFacts
<1>a. Writable(Idle(FALSE)) /\ \A f, l : Sound(Idle(FALSE), f, l)
  BY <1>3, OutsideIsSound
<1>4. \A r \in Session : Writable(call'[r]) /\ (call'[r].met \/ Sound(call'[r], file', local'))
  BY <1>1, <1>2, <1>a DEF IInv
<1>5. Meetings'
  BY <1>1, <1>3 DEF IInv, Meetings
<1>6. TypeOK' /\ WellFormed(file')
  BY <1>1, <1>2 DEF TypeOK, IInv
<1>7. IInv'
  BY <1>4, <1>5, <1>6 DEF IInv
<1>8. ASSUME NEW r \in Session, InSection(call[r]), ~call[r].met PROVE Good(r)
  <2>1. Sound(call[r], file, local) /\ KeepsPrimary(call[r], file')
        /\ (call[r].at = "undo" => Backward(call[r], file, local))
    BY <1>2, <1>8 DEF IInv, Sound
  <2>2. ~(call'[r].at = "idle" /\ call'[r].ok)
    BY <1>1, <1>3, <1>8 DEF InSection
  <2> QED
    BY <1>2, <2>1, <2>2 DEF Good, Backward
<1> QED
  BY <1>7, <1>8 DEF Good

LEMMA CallKeeps ==
  ASSUME IInv, NEW s \in Session,
         \/ \E b \in Backend : SwitchBackend(s, b) \/ EnableMirror(s, b)
         \/ DisableMirror(s) \/ Persist(s) \/ GiveUp(s) \/ AnswerError(s)
  PROVE  IInv' /\ \A r \in Session : Good(r)
<1>1. call[s] \in Call /\ call \in [Session -> Call] /\ trouble \in Nat
      /\ Writable(call[s])
  BY CallFacts DEF Call
<1>2. ASSUME NEW c \in Call, c.step = "read", Enter(s, c), ~InSection(call[s])
      PROVE  IInv' /\ \A r \in Session : Good(r)
  <2>1. trouble' \in Nat
    BY <1>1, <1>2 DEF Enter, GoesWrong
  <2> QED
    BY <1>2, <2>1, EnterKeeps
<1>3. CASE \E b \in Backend : SwitchBackend(s, b)
  <2>1. PICK b \in Backend : SwitchBackend(s, b)
    BY <1>3
  <2>2. PICK c \in Call : c = [Idle(TRUE) EXCEPT !.backend = b]
    BY IdleFacts DEF Call
  <2>3. c.step = "read" /\ Enter(s, c) /\ ~InSection(call[s])
    BY <2>1, <2>2 DEF SwitchBackend, Idle, InSection
  <2> QED
    BY <1>2, <2>3
<1>4. CASE \E b \in Backend : EnableMirror(s, b)
  <2>1. PICK b \in Backend : EnableMirror(s, b)
    BY <1>4
  <2>2. PICK c \in Call :
          c = [Idle(TRUE) EXCEPT !.at = "backfill", !.op = "mirror",
                                 !.backend = b, !.mirror = TRUE]
    BY IdleFacts DEF Call
  <2>3. c.step = "read" /\ ~InSection(c)
    BY <2>2 DEF Idle, InSection
  <2>4. call' = [call EXCEPT ![s] = c] /\ UNCHANGED <<file, local, trouble>>
    BY <2>1, <2>2, Zenon DEF EnableMirror, Put
  <2>5. ~InSection(call[s])
    <3>1. call[s].at = "idle"
      BY <2>1, Zenon DEF EnableMirror
    <3> QED
      BY <3>1 DEF InSection
  <2> QED
    BY <1>1, <2>3, <2>4, <2>5, OutsideStep
<1>5. CASE DisableMirror(s)
  <2>1. PICK c \in Call : c = [Idle(TRUE) EXCEPT !.op = "mirror"]
    BY IdleFacts DEF Call
  <2>2. c.step = "read" /\ Enter(s, c) /\ ~InSection(call[s])
    BY <1>5, <2>1 DEF DisableMirror, Idle, InSection
  <2> QED
    BY <1>2, <2>2
<1>6. CASE Persist(s)
  <2>1. Enter(s, call[s]) /\ ~InSection(call[s]) /\ call[s].step = "read"
    BY <1>1, <1>6 DEF Persist, InSection, Writable
  <2> QED
    BY <1>1, <1>2, <2>1
<1>7. CASE GiveUp(s)
  <2>1. call' = [call EXCEPT ![s] = Idle(FALSE)] /\ UNCHANGED <<file, local, trouble>>
    BY <1>7 DEF GiveUp, Return, Put
  <2> QED
    BY <1>1, <2>1, IdleFacts, OutsideStep
<1>8. CASE AnswerError(s)
  <2>1. call' = [call EXCEPT ![s] = Idle(FALSE)] /\ UNCHANGED <<file, local, trouble>>
    BY <1>8 DEF AnswerError, Return, Put
  <2> QED
    BY <1>1, <2>1, IdleFacts, OutsideStep
<1> QED
  BY <1>3, <1>4, <1>5, <1>6, <1>7, <1>8

LEMMA InitHolds == Init => IInv
<1> SUFFICES ASSUME Init PROVE IInv
  OBVIOUS
<1>1. PICK b \in Backend : file \in [Place -> {Absent, Says(b, FALSE)}]
  BY DEF Init
<1>2. Absent \in File /\ Says(b, FALSE) \in File
      /\ Fits("registry", Says(b, FALSE)) /\ Fits("app_spec", Says(b, FALSE))
      /\ Fits("settings", Says(b, FALSE))
  BY FileFacts DEF Fits
<1>3. WellFormed(file)
  <2> HIDE DEF File, Absent, Says
  <2> QED
    BY <1>1, <1>2, AbsentFits DEF WellFormed, Place
<1>4. \A s \in Session : call[s] = Idle(TRUE)
  <2>1. call = [s \in Session |-> Idle(TRUE)]
    BY Zenon DEF Init
  <2> QED
    BY <2>1, Zenon
<1>a. Writable(Idle(TRUE)) /\ (\A f, l : Sound(Idle(TRUE), f, l))
      /\ ~InSection(Idle(TRUE))
  BY IdleFacts, OutsideIsSound
<1>5. \A s \in Session :
        Writable(call[s]) /\ Sound(call[s], file, local) /\ ~InSection(call[s])
  BY <1>4, <1>a, Zenon
<1>6. TypeOK
  BY <1>3, IdleFacts DEF TypeOK, Init, WellFormed, Fits, Place
<1> QED
  BY <1>3, <1>5, <1>6 DEF IInv, Meetings

\* One case per action.
LEMMA StepKeeps ==
  ASSUME IInv, Next
  PROVE  IInv' /\ \A r \in Session : Good(r)
<1>1. PICK s \in Session :
        \/ \E b \in Backend : SwitchBackend(s, b) \/ EnableMirror(s, b)
        \/ DisableMirror(s)
        \/ Persist(s) \/ GiveUp(s)
        \/ Snapshot(s)
        \/ Read(s) \/ Truncate(s) \/ Fill(s) \/ WriteFails(s)
        \/ ReadAgain(s) \/ RestoreFails(s) \/ AnswerError(s)
        \/ Die(s)
  BY Zenon DEF Next
<1>2. CASE \/ \E b \in Backend : SwitchBackend(s, b) \/ EnableMirror(s, b)
           \/ DisableMirror(s) \/ Persist(s) \/ GiveUp(s) \/ AnswerError(s)
  BY <1>2, CallKeeps
<1>3. CASE Snapshot(s)
  BY <1>3, SnapshotKeeps
<1>4. CASE Read(s)
  BY <1>4, ReadKeeps
<1>5. CASE Truncate(s)
  BY <1>5, TruncateKeeps
<1>6. CASE Fill(s)
  BY <1>6, FillKeeps
<1>7. CASE WriteFails(s)
  BY <1>7, WriteFailsKeeps
<1>8. CASE ReadAgain(s)
  BY <1>8, ReadAgainKeeps
<1>9. CASE RestoreFails(s)
  BY <1>9, RestoreFailsKeeps
<1>10. CASE Die(s)
  BY <1>10, DieKeeps
<1> QED
  BY <1>1, <1>2, <1>3, <1>4, <1>5, <1>6, <1>7, <1>8, <1>9, <1>10

\* A step that changes nothing.
LEMMA StutterKeeps == ASSUME IInv, UNCHANGED vars PROVE IInv'
<1>1. file' = file /\ local' = local /\ call' = call /\ trouble' = trouble
  BY DEF vars
<1> QED
  BY <1>1 DEF IInv, TypeOK, Meetings

\* Whatever the sections of other processes did in between, a call that met none
\* knows what the files say.
THEOREM Invariant == Spec => []IInv
<1>1. IInv /\ [Next]_vars => IInv'
  BY StepKeeps, StutterKeeps
<1> QED
  BY <1>1, InitHolds, PTL DEF Spec

\* Files and calls keep their types, and no registry or document is left that
\* can be read and names no backend.
THEOREM TypeCorrect == Spec => []TypeOK
<1>1. IInv => TypeOK
  BY DEF IInv
<1> QED
  BY <1>1, Invariant, PTL

\* switch_backend, enable_mirror and disable_mirror, when they answer with
\* success and met no other section, have changed every place the server has:
\* what was passed is still done when the last place is written, and no earlier
\* failure, crash or overlap of others takes that away.
THEOREM SuccessMovesAll == Spec => SuccessIsWhole
<1>1. ASSUME IInv, [Next]_vars
      PROVE  [\A s \in Session :
                InSection(call[s]) /\ ~call[s].met
                  /\ call'[s].at = "idle" /\ call'[s].ok =>
                  \A p \in Places : Done(call[s], p, file')]_vars
  <2> SUFFICES ASSUME ~ UNCHANGED vars, NEW s \in Session,
                      InSection(call[s]), ~call[s].met,
                      call'[s].at = "idle", call'[s].ok
               PROVE  \A p \in Places : Done(call[s], p, file')
    BY Zenon
  <2>1. Good(s)
    BY <1>1, StepKeeps
  <2> QED
    BY <2>1 DEF Good, Own, Places
<1> QED
  BY <1>1, Invariant, PTL DEF Spec, SuccessIsWhole

\* After an error of apply_switch_transactional or apply_mirror_transactional
\* that met no other section, every place but the one that failed is as the call
\* found it, unless a restore failed too.
THEOREM ErrorsRestore == Spec => ErrorRestores
<1>1. ASSUME IInv, [Next]_vars
      PROVE  [\A s \in Session :
                call[s].at = "undo" /\ call[s].undo = {} /\ call[s].clean
                  /\ ~call[s].met /\ call'[s].at = "idle" =>
                  \A p \in Places \ {call[s].failed} :
                    file'[p] = call[s].snap[p]]_vars
  <2> SUFFICES ASSUME ~ UNCHANGED vars, NEW s \in Session,
                      call[s].at = "undo", call[s].undo = {}, call[s].clean,
                      ~call[s].met, call'[s].at = "idle"
               PROVE  \A p \in Places \ {call[s].failed} :
                        file'[p] = call[s].snap[p]
    BY Zenon
  <2>1. Good(s)
    BY <1>1, StepKeeps
  <2>2. InSection(call[s])
    BY DEF InSection
  <2> QED
    BY <2>1, <2>2 DEF Good, Own, Places
<1> QED
  BY <1>1, Invariant, PTL DEF Spec, ErrorRestores

\* enable_mirror and disable_mirror leave the primary of the registry and of the
\* settings as they found it, through failures, restores and truncated files.
THEOREM MirrorsKeepThePrimary == Spec => MirrorKeepsPrimary
<1>1. ASSUME IInv, [Next]_vars
      PROVE  [\A s \in Session, p \in {"registry", "settings"} :
                (/\ InSection(call[s]) /\ ~call[s].met
                 /\ call[s].op = "mirror"
                 /\ call[s].snap[p].is = "whole"
                 /\ file'[p].is = "whole") =>
                  file'[p].backend = call[s].snap[p].backend]_vars
  <2> SUFFICES ASSUME ~ UNCHANGED vars, NEW s \in Session,
                      InSection(call[s]), ~call[s].met
               PROVE  KeepsPrimary(call[s], file')
    BY DEF KeepsPrimary
  <2>1. Good(s)
    BY <1>1, StepKeeps
  <2> QED
    BY <2>1 DEF Good
<1> QED
  BY <1>1, Invariant, PTL DEF Spec, MirrorKeepsPrimary

-----------------------------------------------------------------------------
(***************************************************************************)
(* BoardMove: calls of switch_project_backend, made again until one moves  *)
(* the project, and batch sessions beside them.                            *)
(***************************************************************************)

Card == [named : Nat, blank : Nat, linked : BOOLEAN,
         listed : {"lacking", "unmarked", "whole"}]

MoveTypeOK ==
    /\ board \in [Items -> Card]
    /\ DOMAIN store = Sessions
    /\ running \in Calls \cup {None}
    /\ named \subseteq Items /\ failed \subseteq Items

\* An item no request went wrong with has one card at the most.
OneCard == \A i \in Items \ failed : board[i].blank = 0 /\ board[i].named \in {0, 1}

\* On Trello a use case that hangs under its story was created after it.
Hung ==
    target = "trello" =>
        \A c \in Cases : board[c].named > 0 /\ board[c].linked =>
            board[StoryOf[c]].named > 0 \/ StoryOf[c] \in failed

\* What a call has been through is on the target or in its errors.
Passed ==
    target # "native" /\ running # None =>
        /\ running.errors \subseteq failed /\ ~running.batch
        /\ \A i \in Items \ running.todo :
             /\ \/ board[i].named > 0 \/ i \in running.errors
                \/ target = "trello" /\ i \in Stories \cap failed
             /\ i \in running.ids \/ i \in failed

\* What landed without trouble is whole, but for the criteria that come next.
Whole ==
    target # "native" =>
        \A i \in Items \ failed : board[i].named > 0 =>
            /\ i \in Cases => board[i].linked \/ StoryOf[i] \in failed
            /\ i \in Criteria =>
                 board[i].listed = "whole" \/ (running # None /\ running.item = i)

\* The configuration is turned over after a call has been through all.
Moved ==
    config = "target" =>
        /\ target # "native" /\ running = None
        /\ named \subseteq failed
        /\ \A i \in Items : \/ board[i].named > 0 \/ i \in named
                            \/ target = "trello" /\ i \in Stories \cap failed

MoveInv == MoveTypeOK /\ OneCard /\ Hung /\ Passed /\ Whole /\ Moved

LEMMA MoveInitInv == MoveInit => MoveInv
<1>. SUFFICES ASSUME MoveInit PROVE MoveInv
  OBVIOUS
<1>1. board = [i \in Items |-> NoCard] /\ store = [s \in Sessions |-> None]
  BY DEF MoveInit, IngestInit
<1>2. NoCard \in Card /\ NoCard.named = 0 /\ NoCard.blank = 0
  BY DEF NoCard, Card
<1>3. \A c \in Cases : c \in Items /\ StoryOf[c] \in Items
  BY ZenonT(60), CasesHaveStories DEF Items
<1>. HIDE DEF NoCard
<1>. QED  BY <1>1, <1>2, <1>3 DEF MoveInit, MoveInv, MoveTypeOK, OneCard, Hung, Passed,
                                  Whole, Moved

\* A call of another record is a call.
LEMMA CallFields ==
  ASSUME running \in Calls, NEW i \in Items
  PROVE  /\ [running EXCEPT !.todo = @ \ {i}, !.ids = @ \cup {i}] \in Calls
         /\ [running EXCEPT !.todo = @ \ {i}, !.errors = @ \cup {i}] \in Calls
         /\ \A item \in Cases \cup {None} :
              /\ [running EXCEPT !.todo = @ \ {i}, !.ids = @ \cup {i}, !.item = item]
                   \in Calls
              /\ [running EXCEPT !.item = item] \in Calls
              /\ [running EXCEPT !.item = item, !.errors = @ \cup {i}] \in Calls
         /\ [running EXCEPT !.batch = FALSE] \in Calls
BY DEF Calls

\* The story of a use case that is written is behind the call.
LEMMA StoryIsPassed ==
  ASSUME MoveInv, target # "native", NEW i \in Cases, Writing(i)
  PROVE  /\ StoryOf[i] \in Stories /\ StoryOf[i] \in Items \ running.todo
         /\ board[StoryOf[i]].named > 0 \/ StoryOf[i] \in failed
         /\ StoryOf[i] \in running.ids \/ StoryOf[i] \in failed
<1>1. StoryOf[i] \in Stories /\ StoryOf[i] \in Items
  BY CasesHaveStories DEF Items
<1>2. running # None /\ running.todo \cap Stories = {}
  BY DEF Writing
<1>3. running.errors \subseteq failed
  BY <1>2 DEF MoveInv, Passed
<1>. QED  BY <1>1, <1>2, <1>3 DEF MoveInv, Passed

LEMMA BeginKeeps ==
  ASSUME MoveInv, NEW reuse \in BOOLEAN, NEW batch \in BOOLEAN, Begin(reuse, batch)
  PROVE  MoveInv'
<1>1. NoCard \in Card /\ NoCard.named = 0 /\ NoCard.blank = 0
  BY DEF NoCard, Card
<1>. HIDE DEF NoCard
<1>2. /\ running' \in Calls /\ running' # None
      /\ running'.todo = IF batch THEN {} ELSE Items
      /\ running'.errors = {} /\ running'.batch = batch
  BY NoneIsNothingElse DEF Begin, Calls
<1>3. \/ board' = board /\ failed' = failed
      \/ board' = [i \in Items |-> NoCard] /\ failed' = {}
  BY DEF Begin
<1>4. /\ running = None /\ config' = "source" /\ UNCHANGED <<target, store, named>>
      /\ target # "native" => ~batch
  BY DEF Begin
<1>5. MoveTypeOK'
  BY <1>1, <1>2, <1>3, <1>4 DEF MoveInv, MoveTypeOK
<1>6. OneCard'
  BY <1>1, <1>3 DEF MoveInv, OneCard
<1>7. Hung' /\ Whole'
  <2>1. CASE board' = board /\ failed' = failed
    BY <1>4, <2>1 DEF MoveInv, Hung, Whole
  <2>2. CASE board' = [i \in Items |-> NoCard]
    <3>1. \A i \in Items : board'[i].named = 0
      BY <1>1, <2>2
    <3>. QED  BY <3>1 DEF Hung, Whole, Items
  <2>. QED  BY <1>3, <2>1, <2>2
<1>8. Passed'
  BY <1>2, <1>4 DEF Passed
<1>9. Moved'
  BY <1>4 DEF Moved
<1>. QED  BY <1>5, <1>6, <1>7, <1>8, <1>9 DEF MoveInv

LEMMA SkipKeeps == ASSUME MoveInv, NEW i \in Items, Skip(i) PROVE MoveInv'
<1>1. /\ running \in Calls /\ running # None /\ running.item = None
      /\ UNCHANGED <<board, failed, store, target, config, named>>
  BY DEF Skip, Writing, MoveInv, MoveTypeOK
<1>2. /\ running' \in Calls /\ running' # None
      /\ running'.todo = running.todo \ {i} /\ running'.ids = running.ids \cup {i}
      /\ running'.errors = running.errors /\ running'.batch = running.batch
      /\ running'.item = None
  BY ZenonT(60), <1>1, CallFields, NoneIsNothingElse DEF Skip, Calls
<1>3. \/ board[i].named > 0
      \/ target = "trello" /\ i \in Stories \cap failed
  <2>1. ASSUME target = "trello",
               NEW c \in Cases, StoryOf[c] = i, board[c].named > 0, board[c].linked
        PROVE  board[i].named > 0 \/ i \in Stories \cap failed
    BY <2>1, CasesHaveStories DEF MoveInv, Hung
  <2>. QED  BY <2>1 DEF Skip, Found
<1>4. MoveTypeOK' /\ OneCard' /\ Hung'
  BY <1>1, <1>2 DEF MoveInv, MoveTypeOK, OneCard, Hung
<1>5. Passed'
  BY <1>1, <1>2, <1>3 DEF MoveInv, Passed
<1>6. Whole'
  BY <1>1 , <1>2, NoneIsNothingElse DEF MoveInv, Whole
<1>7. Moved'
  BY <1>1 DEF MoveInv, Moved
<1>. QED  BY <1>4, <1>5, <1>6, <1>7 DEF MoveInv

\* A request about item i changes nothing else: the item's card becomes `card`,
\* the items with trouble `bad`, and the call `next`.
ItemStep(i, card, bad, next) ==
    /\ running # None /\ running.item \in {None, i}
    /\ UNCHANGED <<store, target, config, named>>
    /\ board' = [board EXCEPT ![i] = card]
    /\ bad \in {failed, failed \cup {i}} /\ failed' = bad
    /\ running' = next /\ next.batch = running.batch
    /\ next.todo \in {running.todo, running.todo \ {i}}
    /\ next.ids \in {running.ids, running.ids \cup {i}}
    /\ \/ next.errors = running.errors
       \/ next.errors = running.errors \cup {i} /\ i \in bad

\* How it leaves the item.
ItemLeft(i, card, bad, next) ==
    /\ i \in bad \/ (card.blank = 0 /\ card.named \in {0, 1})
    /\ board[i].named > 0 => card.named > 0
    /\ target # "native" /\ i \in running.todo \ next.todo =>
         /\ card.named > 0 \/ i \in next.errors
         /\ i \in next.ids \/ i \in bad
    /\ target = "trello" /\ i \in Cases /\ card.named > 0 /\ card.linked =>
         board[StoryOf[i]].named > 0 \/ StoryOf[i] \in failed
    /\ target # "native" /\ i \in Items \ bad /\ card.named > 0 =>
         /\ i \in Cases => card.linked \/ StoryOf[i] \in failed
         /\ i \in Criteria => card.listed = "whole" \/ next.item = i

\* A request about item i, whatever became of it, keeps what holds of the others.
LEMMA ItemKeeps ==
  ASSUME MoveInv, NEW i \in Items, NEW card \in Card, NEW bad, NEW next \in Calls,
         ItemStep(i, card, bad, next), ItemLeft(i, card, bad, next)
  PROVE  MoveInv'
<1>. USE DEF ItemStep, ItemLeft
<1>1. /\ running \in Calls /\ next # None
      /\ board \in [Items -> Card] /\ failed \subseteq Items
      /\ \A j \in Items : j # i => board'[j] = board[j]
      /\ board'[i] = card /\ failed \subseteq bad
      /\ \A j \in Items : j # i /\ j \notin failed => j \notin bad
      /\ \A j \in Items : board[j].named > 0 => board'[j].named > 0
  BY NoneIsNothingElse DEF MoveInv, MoveTypeOK
<1>2. MoveTypeOK'
  BY <1>1 DEF MoveInv, MoveTypeOK
<1>3. OneCard'
  BY <1>1 DEF MoveInv, OneCard
<1>4. \A c \in Cases : c \in Items /\ StoryOf[c] \in Items /\ StoryOf[c] \notin Cases
  BY CasesHaveStories, StoriesAreNotCases DEF Items
<1>5. Hung'
  <2>. SUFFICES ASSUME target = "trello", NEW c \in Cases,
                       board'[c].named > 0, board'[c].linked
                PROVE  board'[StoryOf[c]].named > 0 \/ StoryOf[c] \in bad
    BY DEF Hung
  <2>1. board[StoryOf[c]].named > 0 \/ StoryOf[c] \in failed
    <3>1. CASE c = i
      BY <1>1, <3>1
    <3>2. CASE c # i
      BY <1>1, <1>4, <3>2 DEF MoveInv, Hung
    <3>. QED  BY <3>1, <3>2
  <2>. QED  BY <1>1, <1>4, <2>1
<1>6. Passed'
  <2>. SUFFICES ASSUME target # "native"
                PROVE  /\ next.errors \subseteq bad /\ ~next.batch
                       /\ \A j \in Items \ next.todo :
                            /\ \/ board'[j].named > 0 \/ j \in next.errors
                               \/ target = "trello" /\ j \in Stories \cap bad
                            /\ j \in next.ids \/ j \in bad
    BY DEF Passed
  <2>1. /\ running.errors \subseteq failed /\ ~running.batch
        /\ \A j \in Items \ running.todo :
             /\ \/ board[j].named > 0 \/ j \in running.errors
                \/ target = "trello" /\ j \in Stories \cap failed
             /\ j \in running.ids \/ j \in failed
    BY DEF MoveInv, Passed
  <2>2. running.errors \subseteq next.errors /\ next.errors \subseteq bad
        /\ running.ids \subseteq next.ids
    BY <1>1, <2>1
  <2>3. ASSUME NEW j \in Items \ next.todo
        PROVE  /\ \/ board'[j].named > 0 \/ j \in next.errors
                  \/ target = "trello" /\ j \in Stories \cap bad
               /\ j \in next.ids \/ j \in bad
    <3>1. CASE j \in running.todo
      <4>1. j = i
        BY <2>3, <3>1
      <4>. QED  BY <1>1, <2>3, <3>1, <4>1
    <3>2. CASE j \notin running.todo
      BY <1>1, <2>1, <2>2, <3>2
    <3>. QED  BY <3>1, <3>2
  <2>. QED  BY <2>1, <2>2, <2>3
<1>7. Whole'
  <2>. SUFFICES ASSUME target # "native", NEW j \in Items \ bad, board'[j].named > 0
                PROVE  /\ j \in Cases => board'[j].linked \/ StoryOf[j] \in bad
                       /\ j \in Criteria =>
                            board'[j].listed = "whole" \/ (next # None /\ next.item = j)
    BY DEF Whole
  <2>1. CASE j = i
    BY <1>1, <2>1
  <2>2. CASE j # i
    <3>1. board'[j] = board[j] /\ j \notin failed /\ running.item # j
      BY <1>1, <2>2, NoneIsNothingElse
    <3>2. /\ j \in Cases => board[j].linked \/ StoryOf[j] \in failed
          /\ j \in Criteria => board[j].listed = "whole"
      BY <3>1 DEF MoveInv, Whole
    <3>. QED  BY <1>1, <3>1, <3>2
  <2>. QED  BY <2>1, <2>2
<1>8. Moved'
  BY DEF MoveInv, Moved
<1>. QED  BY <1>2, <1>3, <1>5, <1>6, <1>7, <1>8 DEF MoveInv

\* What is created has its id, and hangs where its story is.
LEMMA CreateKeeps == ASSUME MoveInv, NEW i \in Items, Create(i) PROVE MoveInv'
<1>1. /\ running \in Calls /\ running # None /\ running.item = None
      /\ i \in running.todo /\ UNCHANGED <<store, target, config, named>>
      /\ board \in [Items -> Card] /\ board[i] \in Card /\ board[i].named = 0
  <2>1. board[i] \in Card /\ ~(board[i].named > 0)
    BY DEF Create, Found, MoveInv, MoveTypeOK
  <2>2. board[i].named = 0
    BY <2>1 DEF Card
  <2>. QED  BY <2>1, <2>2 DEF Create, Writing, MoveInv, MoveTypeOK
<1>2. PICK item \in Cases \cup {None} : item = IF i \in Criteria THEN i ELSE None
  BY CasesHaveStories
<1>3. PICK next : next = [running EXCEPT !.todo = @ \ {i}, !.ids = @ \cup {i},
                                         !.item = item]
  OBVIOUS
<1>4. running' = next
  BY <1>2, <1>3 DEF Create
<1>5. /\ next \in Calls
      /\ next.todo = running.todo \ {i} /\ next.ids = running.ids \cup {i}
      /\ next.errors = running.errors /\ next.batch = running.batch
      /\ i \in Criteria => next.item = i
  BY <1>1, <1>2, <1>3 DEF Calls
<1>6. PICK linked \in BOOLEAN : linked = Hangs(i)
  BY DEF Hangs
<1>7. target # "native" /\ i \in Cases =>
        /\ board[StoryOf[i]].named > 0 \/ StoryOf[i] \in failed
        /\ linked \/ StoryOf[i] \in failed
  BY <1>6, StoryIsPassed DEF Create, Hangs
<1>8. i \in Criteria => i \in Cases
  BY CasesHaveStories
<1>9. ASSUME NEW card \in Card, board' = [board EXCEPT ![i] = card],
             card.named > 0, card.linked = linked, failed' \in {failed, failed \cup {i}},
             failed' = failed \cup {i} \/ (card.named = 1 /\ card.blank = board[i].blank)
      PROVE  MoveInv'
  <2>1. PICK bad : failed' = bad
    OBVIOUS
  <2>2. i \in bad \/ (card.blank = 0 /\ card.named \in {0, 1})
    <3>1. i \notin failed => board[i].blank = 0
      BY DEF MoveInv, OneCard
    <3>2. card.named = 1 => card.named \in {0, 1}
      OBVIOUS
    <3>3. CASE failed' = failed \cup {i}
      BY <2>1, <3>3
    <3>4. CASE card.named = 1 /\ card.blank = board[i].blank
      <4>1. failed \subseteq bad
        BY <1>9, <2>1
      <4>. QED  BY <3>1, <3>2, <3>4, <4>1
    <3>. QED  BY <1>9, <3>3, <3>4
  <2>3. ItemStep(i, card, bad, next)
    BY <1>1, <1>4, <1>5, <1>9, <2>1 DEF ItemStep
  <2>4. ItemLeft(i, card, bad, next)
    BY <1>1, <1>5, <1>7, <1>8, <1>9, <2>2 DEF ItemLeft
  <2>. QED  BY <1>5, <2>3, <2>4, ItemKeeps
<1>10. PICK old \in Card : old = board[i]
  BY <1>1
<1>11. old.named = 0 /\ old.blank \in Nat
  BY <1>1, <1>10 DEF Card
<1>12. CASE /\ board' = [board EXCEPT ![i].named = @ + 1, ![i].linked = linked]
            /\ UNCHANGED failed
  <2>1. PICK card : card = [old EXCEPT !.named = 1, !.linked = linked]
    OBVIOUS
  <2>2. card \in Card /\ card.named = 1 /\ card.blank = old.blank /\ card.linked = linked
    BY <2>1 DEF Card
  <2>3. board' = [board EXCEPT ![i].named = 1, ![i].linked = linked]
    BY <1>1, <1>10, <1>11, <1>12
  <2>4. board' = [board EXCEPT ![i] = card]
    BY <1>1, <1>10, <2>1, <2>3
  <2>5. /\ card.named > 0 /\ failed' \in {failed, failed \cup {i}}
        /\ card.named = 1 /\ card.blank = board[i].blank
    BY <1>10, <1>12, <2>2
  <2>. QED  BY <1>9, <2>2, <2>4, <2>5
<1>13. CASE Resent(i)
  <2>1. PICK more \in {1, 2} : more = IF target = "plane" THEN 2 ELSE 1
    OBVIOUS
  <2>2. PICK lost \in {0, 1} : lost = IF target = "trello" THEN 1 ELSE 0
    OBVIOUS
  <2>3. PICK blanks \in Nat : blanks = old.blank + lost
    BY <1>11
  <2>4. PICK card : card = [old EXCEPT !.named = more, !.blank = blanks, !.linked = linked]
    OBVIOUS
  <2>5. card \in Card /\ card.named = more /\ card.linked = linked
    <3>1. more \in Nat
      BY <2>1
    <3>. QED  BY <2>4, <3>1 DEF Card
  <2>6. board' = [board EXCEPT ![i].named = @ + more, ![i].blank = @ + lost,
                               ![i].linked = linked]
    BY <1>6, <1>13, <2>1, <2>2 DEF Resent
  <2>7. board' = [board EXCEPT ![i].named = more, ![i].blank = blanks,
                               ![i].linked = linked]
    <3>1. 0 + more = more
      BY <2>1
    <3>. QED  BY <1>1, <1>10, <1>11, <2>3, <2>6, <3>1
  <2>8. board' = [board EXCEPT ![i] = card]
    BY <1>1, <1>10, <2>4, <2>7
  <2>9. card.named > 0 /\ failed' = failed \cup {i}
    BY <1>13, <2>5 DEF Resent, Trouble
  <2>. QED  BY <1>9, <2>5, <2>8, <2>9
<1>. QED  BY <1>6, <1>12, <1>13 DEF Create

LEMMA ErrKeeps ==
  ASSUME MoveInv, NEW i \in Items, Refused(i) \/ HalfDone(i) PROVE MoveInv'
<1>1. /\ running \in Calls /\ running # None /\ running.item = None
      /\ i \in running.todo /\ UNCHANGED <<store, target, config, named>>
      /\ board \in [Items -> Card] /\ board[i] \in Card
      /\ failed' = failed \cup {i} /\ Writing(i)
  BY DEF Refused, HalfDone, Err, Trouble, Writing, MoveInv, MoveTypeOK
<1>2. PICK next : next = [running EXCEPT !.todo = @ \ {i}, !.errors = @ \cup {i}]
  OBVIOUS
<1>3. running' = next
  BY <1>2 DEF Refused, HalfDone, Err
<1>4. /\ next \in Calls
      /\ next.todo = running.todo \ {i} /\ next.ids = running.ids
      /\ next.errors = running.errors \cup {i} /\ next.batch = running.batch
  BY <1>1, <1>2 DEF Calls
<1>5. target # "native" /\ i \in Cases =>
        board[StoryOf[i]].named > 0 \/ StoryOf[i] \in failed
  BY <1>1, StoryIsPassed
<1>6. PICK bad : bad = failed \cup {i}
  OBVIOUS
<1>7. ASSUME NEW card \in Card, board' = [board EXCEPT ![i] = card],
             board[i].named > 0 => card.named > 0
      PROVE  MoveInv'
  <2>1. ItemStep(i, card, bad, next)
    BY <1>1, <1>3, <1>4, <1>6, <1>7 DEF ItemStep
  <2>2. ItemLeft(i, card, bad, next)
    <3>1. i \in bad /\ i \in next.errors /\ (board[i].named > 0 => card.named > 0)
      BY <1>4, <1>6, <1>7
    <3>2. target = "trello" /\ i \in Cases =>
            board[StoryOf[i]].named > 0 \/ StoryOf[i] \in failed
      BY <1>5
    <3>. QED  BY <3>1, <3>2 DEF ItemLeft
  <2>. QED  BY <1>4, <2>1, <2>2, ItemKeeps
<1>8. CASE Refused(i)
  <2>1. board' = [board EXCEPT ![i] = board[i]]
    BY <1>1, <1>8 DEF Refused
  <2>. QED  BY <1>1, <1>7, <2>1
<1>9. ASSUME NEW linked \in BOOLEAN,
             board' = [board EXCEPT ![i].named = 1, ![i].linked = linked]
      PROVE  MoveInv'
  <2>1. PICK old \in Card : old = board[i]
    BY <1>1
  <2>2. PICK card : card = [old EXCEPT !.named = 1, !.linked = linked]
    OBVIOUS
  <2>3. card \in Card /\ card.named = 1
    BY <2>2 DEF Card
  <2>4. board' = [board EXCEPT ![i] = card]
    BY <1>1, <1>9, <2>1, <2>2
  <2>5. card.named > 0
    BY <2>3
  <2>. QED  BY <1>7, <2>3, <2>4, <2>5
<1>10. CASE board' = [board EXCEPT ![i].blank = @ + 1]
  <2>1. PICK old \in Card : old = board[i]
    BY <1>1
  <2>2. PICK blanks \in Nat : blanks = old.blank + 1
    BY DEF Card
  <2>3. PICK card : card = [old EXCEPT !.blank = blanks]
    OBVIOUS
  <2>4. card \in Card /\ card.named = old.named
    BY <2>3 DEF Card
  <2>5. board' = [board EXCEPT ![i] = card]
    BY <1>1, <1>10, <2>1, <2>2, <2>3
  <2>. QED  BY <1>7, <2>1, <2>4, <2>5
<1>11. Hangs(i) \in BOOLEAN
  BY DEF Hangs
<1>. QED  BY <1>8, <1>9, <1>10, <1>11 DEF HalfDone

LEMMA ListKeeps ==
  ASSUME MoveInv, NEW i \in Items, List(i) \/ ListFails(i) PROVE MoveInv'
<1>1. /\ running \in Calls /\ running # None /\ running.item = i /\ i \in Cases
      /\ UNCHANGED <<store, target, config, named>>
      /\ board \in [Items -> Card] /\ board[i] \in Card
  BY DEF List, ListFails, MoveInv, MoveTypeOK
<1>2. target # "native" =>
        /\ target = "trello" /\ board[i].named > 0 /\ board[i].linked =>
             board[StoryOf[i]].named > 0 \/ StoryOf[i] \in failed
        /\ i \notin failed /\ board[i].named > 0 =>
             board[i].linked \/ StoryOf[i] \in failed
  BY <1>1 DEF MoveInv, Hung, Whole
<1>3. i \notin failed => board[i].blank = 0 /\ board[i].named \in {0, 1}
  BY DEF MoveInv, OneCard
<1>4. ASSUME NEW card \in Card, board' = [board EXCEPT ![i] = card],
             card.named = board[i].named, card.blank = board[i].blank,
             card.linked = board[i].linked, NEW bad \in {failed, failed \cup {i}},
             failed' = bad, i \in bad \/ card.listed = "whole",
             NEW next \in Calls, running' = next, next.todo = running.todo,
             next.ids = running.ids, next.batch = running.batch,
             \/ next.errors = running.errors
             \/ next.errors = running.errors \cup {i} /\ i \in bad
      PROVE  MoveInv'
  <2>1. ItemStep(i, card, bad, next)
    BY <1>1, <1>4 DEF ItemStep
  <2>2. ItemLeft(i, card, bad, next)
    <3>1. i \in bad \/ (card.blank = 0 /\ card.named \in {0, 1})
      BY <1>3, <1>4
    <3>2. (board[i].named > 0 => card.named > 0) /\ i \notin running.todo \ next.todo
      BY <1>4
    <3>3. target = "trello" /\ i \in Cases /\ card.named > 0 /\ card.linked =>
            board[StoryOf[i]].named > 0 \/ StoryOf[i] \in failed
      BY <1>2, <1>4
    <3>4. target # "native" /\ i \in Items \ bad /\ card.named > 0 =>
            /\ i \in Cases => card.linked \/ StoryOf[i] \in failed
            /\ i \in Criteria => card.listed = "whole"
      BY <1>2, <1>4
    <3>. QED  BY <3>1, <3>2, <3>3, <3>4 DEF ItemLeft
  <2>. QED  BY <1>4, <2>1, <2>2, ItemKeeps
<1>5. CASE List(i)
  <2>1. PICK next : next = [running EXCEPT !.item = None]
    OBVIOUS
  <2>2. running' = next
    BY <1>5, <2>1 DEF List
  <2>3. /\ next \in Calls /\ next.todo = running.todo
        /\ next.ids = running.ids /\ next.errors = running.errors
        /\ next.batch = running.batch
    BY <1>1, <2>1 DEF Calls
  <2>4. ASSUME NEW listed \in {"unmarked", "whole"}, NEW bad \in {failed, failed \cup {i}},
               board' = [board EXCEPT ![i].listed = listed], failed' = bad,
               listed = "whole" \/ i \in bad
        PROVE  MoveInv'
    <3>1. PICK card : card = [board[i] EXCEPT !.listed = listed]
      OBVIOUS
    <3>2. board' = [board EXCEPT ![i] = card]
      BY <1>1, <2>4, <3>1
    <3>3. /\ card \in Card /\ card.named = board[i].named
          /\ card.blank = board[i].blank /\ card.linked = board[i].linked
          /\ card.listed = listed
      BY <1>1, <3>1 DEF Card
    <3>. QED  BY <1>4, <2>2, <2>3, <2>4, <3>2, <3>3
  <2>5. CASE board' = [board EXCEPT ![i].listed = "whole"] /\ failed' = failed
    BY <2>4, <2>5
  <2>6. CASE board' = [board EXCEPT ![i].listed = "unmarked"] /\ failed' = failed \cup {i}
    BY <2>4, <2>6
  <2>. QED  BY <1>5, <2>5, <2>6 DEF List, Trouble
<1>6. CASE ListFails(i)
  <2>1. PICK next : next = [running EXCEPT !.item = None, !.errors = @ \cup {i}]
    OBVIOUS
  <2>2. running' = next
    BY <1>6, <2>1 DEF ListFails
  <2>3. /\ next \in Calls /\ next.todo = running.todo
        /\ next.ids = running.ids /\ next.errors = running.errors \cup {i}
        /\ next.batch = running.batch
    BY <1>1, <2>1 DEF Calls
  <2>4. board' = [board EXCEPT ![i] = board[i]]
    BY <1>1, <1>6 DEF ListFails
  <2>5. PICK bad \in {failed, failed \cup {i}} : bad = failed \cup {i} /\ failed' = bad
    BY <1>6 DEF ListFails, Trouble
  <2>. QED  BY <1>1, <1>4, <2>2, <2>3, <2>4, <2>5
<1>. QED  BY <1>5, <1>6

\* A call that ends without moving the project leaves what it did.
LEMMA StopKeeps ==
  ASSUME MoveInv, running # None, running' = None,
         UNCHANGED <<board, target, config, named>>, DOMAIN store' = Sessions,
         NEW bad \in SUBSET Items, failed' = bad, failed \subseteq bad,
         target # "native" /\ running.item # None => running.item \in bad
  PROVE  MoveInv'
<1>1. MoveTypeOK' /\ OneCard' /\ Hung'
  BY DEF MoveInv, MoveTypeOK, OneCard, Hung
<1>2. Passed'
  BY DEF Passed
<1>3. Whole'
  BY NoneIsNothingElse DEF MoveInv, Whole
<1>4. Moved'
  BY DEF MoveInv, Moved
<1>. QED  BY <1>1, <1>2, <1>3, <1>4 DEF MoveInv

LEMMA EndKeeps == ASSUME MoveInv, RollBack \/ MoveDies PROVE MoveInv'
<1>1. running # None /\ running' = None /\ UNCHANGED <<board, target, config, named>>
  BY DEF RollBack, MoveDies, AllWritten, ingest
<1>2. running \in Calls /\ failed \subseteq Items /\ DOMAIN store = Sessions
  BY <1>1 DEF MoveInv, MoveTypeOK
<1>3. CASE RollBack
  <2>1. target # "native" => running.item = None
    BY <1>1, <1>3 DEF RollBack, AllWritten, MoveInv, Passed
  <2>2. UNCHANGED <<failed, store>>
    BY <1>3 DEF RollBack, ingest
  <2>. QED  BY <1>1, <1>2, <2>1, <2>2, StopKeeps
<1>4. CASE MoveDies
  <2>1. PICK bad : bad = failed \cup ({running.item} \ {None})
    OBVIOUS
  <2>2. running.item \in Items \cup {None}
    BY <1>2 DEF Calls, Items
  <2>3. failed' = bad /\ DOMAIN store' = Sessions
    BY <1>4, <2>1 DEF MoveDies
  <2>4. bad \in SUBSET Items /\ failed \subseteq bad
    BY <1>2, <2>1, <2>2
  <2>5. running.item # None => running.item \in bad
    BY <2>1
  <2>. QED  BY <1>1, <2>3, <2>4, <2>5, StopKeeps
<1>. QED  BY <1>3, <1>4

LEMMA SwitchKeeps == ASSUME MoveInv, Switch PROVE MoveInv'
<1>1. /\ target # "native" /\ running # None /\ running.todo = {} /\ running.item = None
      /\ running' = None /\ config' = "target" /\ named' = running.errors
      /\ UNCHANGED <<board, store, target, failed>>
  BY DEF Switch, AllWritten, ingest
<1>2. /\ running.errors \subseteq failed
      /\ \A i \in Items : \/ board[i].named > 0 \/ i \in running.errors
                          \/ target = "trello" /\ i \in Stories \cap failed
  BY <1>1 DEF MoveInv, Passed
<1>3. MoveTypeOK' /\ OneCard' /\ Hung'
  BY <1>1, <1>2 DEF MoveInv, MoveTypeOK, OneCard, Hung
<1>4. Passed'
  BY <1>1 DEF Passed
<1>5. Whole'
  BY <1>1, NoneIsNothingElse DEF MoveInv, Whole
<1>6. Moved'
  BY <1>1, <1>2 DEF Moved
<1>. QED  BY <1>3, <1>4, <1>5, <1>6 DEF MoveInv

\* What lands makes no second card.
LEMMA LandedCards ==
  ASSUME MoveInv, NEW read
  PROVE  /\ Landed(read) \in [Items -> Card]
         /\ \A i \in Items \ failed :
              Landed(read)[i].blank = 0 /\ Landed(read)[i].named \in {0, 1}
<1>. DEFINE new(i) == [named |-> 1, blank |-> board[i].blank,
                       linked |-> i \in Cases /\ StoryOf[i] \in read,
                       listed |-> IF i \in Criteria THEN "whole" ELSE "lacking"]
<1>1. ASSUME NEW i \in Items
      PROVE  /\ board[i] \in Card /\ new(i) \in Card
             /\ new(i).named = 1 /\ new(i).blank = board[i].blank
  <2>1. board[i] \in Card /\ board[i].blank \in Nat
    BY DEF MoveInv, MoveTypeOK, Card
  <2>. QED  BY <2>1 DEF Card
<1>2. Landed(read) = [i \in Items |-> IF i \notin read \/ board[i].named > 0 THEN board[i]
                                      ELSE new(i)]
  BY DEF Landed
<1>. HIDE DEF new
<1>3. ASSUME NEW i \in Items
      PROVE  Landed(read)[i] = board[i] \/ Landed(read)[i] = new(i)
  BY <1>2
<1>4. Landed(read) \in [Items -> Card]
  BY <1>1, <1>2
<1>5. ASSUME NEW i \in Items \ failed
      PROVE  Landed(read)[i].blank = 0 /\ Landed(read)[i].named \in {0, 1}
  <2>1. board[i].blank = 0 /\ board[i].named \in {0, 1}
    BY DEF MoveInv, OneCard
  <2>. QED  BY <1>1, <1>3, <2>1
<1>. QED  BY <1>4, <1>5

\* A step of the sessions, on a native target only, which no call moves to.
LEMMA NativeKeeps ==
  ASSUME MoveInv, target = "native", UNCHANGED <<target, config, named, failed>>,
         running' \in Calls \cup {None}, DOMAIN store' = Sessions,
         board' = board \/ \E read : board' = Landed(read)
  PROVE  MoveInv'
<1>1. board' \in [Items -> Card] /\ OneCard'
  <2>1. CASE board' = board
    BY <2>1 DEF MoveInv, MoveTypeOK, OneCard
  <2>2. CASE \E read : board' = Landed(read)
    BY <2>2, LandedCards DEF OneCard
  <2>. QED  BY <2>1, <2>2
<1>2. MoveTypeOK'
  BY <1>1 DEF MoveInv, MoveTypeOK
<1>3. Hung' /\ Passed' /\ Whole'
  BY DEF Hung, Passed, Whole
<1>4. Moved'
  BY DEF MoveInv, Moved
<1>. QED  BY <1>1, <1>2, <1>3, <1>4 DEF MoveInv

LEMMA IngestKeeps ==
  ASSUME MoveInv, \/ \E s \in Sessions : Ingest(s)
                  \/ target = "native" /\ IngestNext /\ UNCHANGED move
  PROVE  MoveInv'
<1>1. DOMAIN store = Sessions /\ running \in Calls \cup {None}
  BY DEF MoveInv, MoveTypeOK
<1>2. ASSUME NEW s \in Sessions, Ingest(s) PROVE MoveInv'
  <2>1. running # None /\ running.batch
    BY <1>2 DEF Ingest
  <2>2. target = "native"
    BY <2>1 DEF MoveInv, Passed
  <2>3. PICK next : next = [running EXCEPT !.batch = FALSE]
    OBVIOUS
  <2>4. next \in Calls
    BY <1>1, <2>1, <2>3 DEF Calls
  <2>5. /\ running' = next /\ DOMAIN store' = DOMAIN store
        /\ UNCHANGED <<target, config, named, failed>>
        /\ board' = Landed(ItemsOf(Joined(store[s].chunks)))
    BY <1>2, <2>3 DEF Ingest
  <2>. QED  BY <1>1, <2>2, <2>4, <2>5, NativeKeeps
<1>3. ASSUME target = "native", IngestNext, UNCHANGED move PROVE MoveInv'
  <2>1. UNCHANGED <<target, config, running, named, failed>>
    BY <1>3 DEF move
  <2>2. DOMAIN store' = Sessions
    BY <1>1, <1>3 DEF IngestNext, Start, Stage, Commit, Expire, Restart
  <2>3. board' = board \/ \E read : board' = Landed(read)
    BY <1>3 DEF IngestNext, Start, Stage, Commit, Expire, Restart
  <2>. QED  BY <1>1, <1>3, <2>1, <2>2, <2>3, NativeKeeps
<1>. QED  BY <1>2, <1>3

LEMMA MoveKeepsInv == ASSUME MoveInv, [MoveNext]_moveVars PROVE MoveInv'
<1>1. CASE UNCHANGED moveVars
  BY <1>1 DEF moveVars, move, ingest, MoveInv, MoveTypeOK, OneCard, Hung, Passed, Whole,
              Moved
<1>2. CASE MoveStep
  BY <1>2, BeginKeeps, SkipKeeps, CreateKeeps, ErrKeeps, ListKeeps, IngestKeeps,
     SwitchKeeps, EndKeeps DEF MoveStep
<1>3. CASE target = "native" /\ IngestNext /\ UNCHANGED move
  BY <1>3, IngestKeeps
<1>. QED  BY <1>1, <1>2, <1>3 DEF MoveNext

\* MoveInv holds in every reachable state of the tool.
THEOREM MoveInvariant == MoveSpec => []MoveInv
<1>. QED  BY MoveInitInv, MoveKeepsInv, PTL DEF MoveSpec

\* However often a call is made again, it adds no second card of an item no
\* request went wrong with: write_target looks an item up before it creates it.
THEOREM OneCardEach == MoveSpec => []RepeatsAddNoCards
<1>1. MoveInv => RepeatsAddNoCards
  BY DEF MoveInv, OneCard, RepeatsAddNoCards
<1>. QED  BY <1>1, MoveInvariant, PTL

\* switch_project_backend turns the configuration over after a call has been
\* through every item, so what is not on the target is in the errors of that call.
THEOREM NoneIsPassedOver == MoveSpec => []MissingIsNamed
<1>1. MoveInv => MissingIsNamed
  <2>. SUFFICES ASSUME MoveInv, config = "target", NEW i \in Items, board[i].named = 0
                PROVE  i \in named \/ (target = "trello" /\ i \in Stories \cap failed)
    BY DEF MissingIsNamed
  <2>1. ~(board[i].named > 0)
    OBVIOUS
  <2>. QED  BY <2>1 DEF MoveInv, Moved
<1>. QED  BY <1>1, MoveInvariant, PTL

\* A use case that landed without trouble hangs under its story and has its
\* criteria, though write_target goes on with them in requests of their own.
THEOREM WholeWithoutTrouble == MoveSpec => []UntroubledIsWhole
<1>1. MoveInv => UntroubledIsWhole
  <2>. SUFFICES ASSUME MoveInv, config = "target", NEW i \in Items \ failed
                PROVE  /\ i \in Cases => board[i].linked \/ StoryOf[i] \in failed
                       /\ i \in Criteria => board[i].listed = "whole"
    BY DEF UntroubledIsWhole
  <2>1. target # "native" /\ running = None /\ board[i].named > 0
    BY DEF MoveInv, Moved
  <2>. QED  BY <2>1 DEF MoveInv, Whole
<1>. QED  BY <1>1, MoveInvariant, PTL

\* What lands of a batch session is the file it declared, each item of it and no
\* other: both commits compare the joined chunks with the declared hash.
THEOREM DeclaredLands == MoveSpec => DeclaredIsWhatLands
<1>. DEFINE Lands ==
       \A s \in Sessions :
         (store[s] # None /\ store'[s] = None /\ board' # board) =>
            \A i \in Items :
                IF i \in ItemsOf(store[s].blob) THEN board'[i].named > 0
                ELSE board'[i] = board[i]
<1>1. ASSUME MoveInv, [MoveNext]_moveVars PROVE Lands
  <2>. SUFFICES ASSUME NEW s \in Sessions, store[s] # None, store'[s] = None,
                       board' # board, NEW i \in Items
                PROVE  IF i \in ItemsOf(store[s].blob) THEN board'[i].named > 0
                       ELSE board'[i] = board[i]
    OBVIOUS
  <2>1. PICK t \in Sessions :
          /\ store[t] # None /\ Intact(t)
          /\ board' = Landed(ItemsOf(Joined(store[t].chunks)))
          /\ store' = [store EXCEPT ![t] = None]
    <3>1. store' # store
      OBVIOUS
    <3>2. ASSUME NEW t \in Sessions, Ingest(t) \/ \E c \in 0..Cardinality(Items) : Commit(t, c)
          PROVE  /\ store[t] # None /\ Intact(t)
                 /\ board' = Landed(ItemsOf(Joined(store[t].chunks)))
                 /\ store' = [store EXCEPT ![t] = None]
      BY <3>2 DEF Ingest, Commit
    <3>3. CASE \E t \in Sessions : Ingest(t)
      BY <3>2, <3>3
    <3>4. CASE IngestNext
      BY <3>2, <3>4 DEF IngestNext, Start, Stage, Expire, Restart
    <3>5. CASE MoveStep /\ ~\E t \in Sessions : Ingest(t)
      BY <3>1, <3>5 DEF MoveStep, Begin, Skip, Create, Refused, HalfDone, List, ListFails,
                        Switch, RollBack, MoveDies, Writing, ingest
    <3>. QED  BY <1>1, <3>1, <3>3, <3>4, <3>5 DEF MoveNext, moveVars, ingest
  <2>2. t = s
    BY <2>1 DEF MoveInv, MoveTypeOK
  <2>3. Joined(store[s].chunks) = store[s].blob
    BY <2>1, <2>2 DEF Intact
  <2>4. PICK read : read = ItemsOf(store[s].blob)
    OBVIOUS
  <2>5. board' = Landed(read)
    BY <2>1, <2>2, <2>3, <2>4
  <2>6. board'[i] = IF i \notin read \/ board[i].named > 0 THEN board[i]
                    ELSE [named |-> 1, blank |-> board[i].blank,
                          linked |-> i \in Cases /\ StoryOf[i] \in read,
                          listed |-> IF i \in Criteria THEN "whole" ELSE "lacking"]
    BY <2>5 DEF Landed
  <2>. QED  BY <2>4, <2>6
<1>2. MoveInv /\ [MoveNext]_moveVars => [Lands]_moveVars
  BY <1>1
<1>. QED  BY <1>2, MoveInvariant, PTL DEF MoveSpec, DeclaredIsWhatLands

=============================================================================
