---------------------------- MODULE BoardMirror ----------------------------
(***************************************************************************)
(* A native mirror beside a Trello, Plane or freeform board: the writes of *)
(* DualBackendWrapper (backends/dual_backend.py), enable_mirror with its   *)
(* backfill and disable_mirror (tools/migration.py).                       *)
(*                                                                         *)
(* A write goes to the primary, whose result is the caller's; then to the  *)
(* mirror, where any failure is logged and swallowed.  A session writes to *)
(* the mirror once it has enabled it itself: nothing attaches a later one  *)
(* (auth_gateway.py:156 reads the session, never the persisted block).     *)
(* A request to the mirror may fail, or be done and its answer lost.       *)
(***************************************************************************)
EXTENDS Naturals, FiniteSets

CONSTANTS
    Stories,   \* user stories
    Cases,     \* use cases
    StoryOf,   \* the story of each use case
    Contents,  \* what a write may leave in an item
    Absent,    \* no such item
    Sessions,  \* agent sessions
    None,      \* no call
    Overlap,   \* whether calls about the same items overlap
    MaxWrites, \* bound: writes and enablings
    MaxFaults  \* bound: requests to the mirror that fail

Items == Stories \cup Cases

ASSUME StoriesAreNotCases == Stories \cap Cases = {}
ASSUME CasesHaveStories == StoryOf \in [Cases -> Stories]
ASSUME AbsentIsNoContent == Absent \notin Contents
ASSUME OverlapIsBoolean == Overlap \in BOOLEAN
ASSUME BoundsAreNumbers == MaxWrites \in Nat /\ MaxFaults \in Nat

VARIABLES
    primary,  \* the items of the primary
    mirror,   \* those of the mirror, by their logical id
    on,       \* whether the project's configuration has the mirror
    attached, \* the sessions that write to it
    call,     \* the call of each session
    apart,    \* the items whose copy may differ, for a reason
    writes,   \* writes and enablings so far
    faults    \* faults so far

vars == <<primary, mirror, on, attached, call, apart, writes, faults>>

Boards == [Items -> Contents \cup {Absent}]
Held(b) == {i \in Items : b[i] # Absent}

\* A write between the primary and the mirror; a purge, whose item is looked up
\* on the mirror before the primary deletes it; enable_mirror after it read.
Writes == [op : {"create", "update"}, item : Items, content : Contents]
          \cup [op : {"purge"}, item : Cases, found : BOOLEAN, gone : BOOLEAN]
Stages == {"read", "backfilled", "verified", "kept", "unchecked"}
Enablings == [op : Stages, read : Boards]
Calls == Writes \cup Enablings

ASSUME NoneIsNoCall == None \notin Calls

Busy(s, i) == \E t \in Sessions \ {s} : call[t] \in Writes /\ call[t].item = i
Enabling(t) == call[t] \in Enablings
Kin(i) == IF i \in Cases THEN {i, StoryOf[i]} ELSE {i} \cup {c \in Cases : StoryOf[c] = i}

Clear(s, i) == Overlap \/ \A k \in Kin(i) : ~Busy(s, k)
ClearToPurge(s, i) == Overlap \/ (Clear(s, i) /\ \A t \in Sessions : ~Enabling(t))

Init ==
    /\ primary \in Boards
    /\ \A c \in Cases : primary[c] # Absent => primary[StoryOf[c]] # Absent
    /\ mirror = [i \in Items |-> Absent]
    /\ on = FALSE /\ attached = {}
    /\ call = [s \in Sessions |-> None]
    /\ apart = Held(primary)
    /\ writes = 0 /\ faults = 0

Begin(s) == call[s] = None /\ writes < MaxWrites /\ writes' = writes + 1
End(s) == call' = [call EXCEPT ![s] = None]
Fault == faults < MaxFaults /\ faults' = faults + 1

\* After the primary: a session without the mirror has done, the others go on.
Forward(s, write) ==
    IF s \in attached
    THEN call' = [call EXCEPT ![s] = write] /\ UNCHANGED apart
    ELSE End(s) /\ apart' = apart \cup {write.item}

\* create_item; every other write to an item but the purge: update_item, the
\* criteria, archive_item.
Create(s, i, v) ==
    /\ Begin(s) /\ Clear(s, i)
    /\ primary[i] = Absent
    /\ i \in Cases => primary[StoryOf[i]] # Absent
    /\ primary' = [primary EXCEPT ![i] = v]
    /\ Forward(s, [op |-> "create", item |-> i, content |-> v])
    /\ UNCHANGED <<mirror, on, attached, faults>>

Update(s, i, v) ==
    /\ Begin(s) /\ Clear(s, i)
    /\ primary[i] \notin {Absent, v}
    /\ primary' = [primary EXCEPT ![i] = v]
    /\ Forward(s, [op |-> "update", item |-> i, content |-> v])
    /\ UNCHANGED <<mirror, on, attached, faults>>

LookUpLate(s, c) == \* (mutant) the item is looked up once the primary has deleted it
    /\ Begin(s) /\ ClearToPurge(s, c)
    /\ primary[c] # Absent
    /\ call' = [call EXCEPT ![s] = [op |-> "purge", item |-> c, gone |-> FALSE,
                    found |-> FALSE]]
    /\ UNCHANGED <<primary, mirror, on, attached, apart, faults>>

\* purge_use_case looks the item up first: a failure there counts as absent.
LookUp(s, c) ==
    /\ Begin(s) /\ ClearToPurge(s, c)
    /\ primary[c] # Absent
    /\ \/ /\ call' = [call EXCEPT ![s] = [op |-> "purge", item |-> c, gone |-> FALSE,
                          found |-> s \in attached /\ mirror[c] # Absent]]
          /\ UNCHANGED <<apart, faults>>
       \/ /\ s \in attached /\ Fault
          /\ call' = [call EXCEPT ![s] = [op |-> "purge", item |-> c, gone |-> FALSE,
                          found |-> FALSE]]
          /\ apart' = apart \cup {c}
    /\ UNCHANGED <<primary, mirror, on, attached>>

Purge(s) ==
    /\ call[s] \in Writes /\ call[s].op = "purge" /\ ~call[s].gone
    /\ primary[call[s].item] # Absent
    /\ primary' = [primary EXCEPT ![call[s].item] = Absent]
    /\ Forward(s, [call[s] EXCEPT !.gone = TRUE])
    /\ UNCHANGED <<mirror, on, attached, writes, faults>>

\* The primary refuses; nothing has been written.
Refuse(s) ==
    /\ call[s] \in Writes /\ call[s].op = "purge" /\ ~call[s].gone
    /\ End(s)
    /\ UNCHANGED <<primary, mirror, on, attached, apart, writes, faults>>

\* What is to be mirrored now.
Forwarded(s) == call[s] \in Writes /\ (call[s].op = "purge" => call[s].gone)

ResolvedItem(w) == \* (mutant) the story of a creation is not looked up
    w.op = "purge" => w.found

\* _resolve_mirror_id finds the item, and for a creation its story.
Resolved(w) ==
    CASE w.op = "create" -> w.item \in Cases => mirror[StoryOf[w.item]] # Absent
      [] w.op = "update" -> mirror[w.item] # Absent
      [] w.op = "purge"  -> w.found

\* What the write makes of the mirror; native refuses an id that is taken.
Copied(w) ==
    CASE w.op = "create" ->
            IF mirror[w.item] = Absent THEN [mirror EXCEPT ![w.item] = w.content]
            ELSE mirror
      [] w.op = "update" -> [mirror EXCEPT ![w.item] = w.content]
      [] w.op = "purge"  -> [mirror EXCEPT ![w.item] = Absent]

Copy(s) ==
    /\ Forwarded(s) /\ Resolved(call[s])
    /\ mirror' = Copied(call[s])
    /\ End(s)
    /\ UNCHANGED <<primary, on, attached, apart, writes, faults>>

\* mirror_item_missing: the write is skipped.  For want of the story that is a
\* new difference, with the cause of the missing story.
Skip(s) ==
    /\ Forwarded(s) /\ ~Resolved(call[s])
    /\ LET i == call[s].item
       IN  apart' = IF Kin(i) \cap apart # {} THEN apart \cup {i} ELSE apart
    /\ End(s)
    /\ UNCHANGED <<primary, mirror, on, attached, writes, faults>>

\* _guarded_mirror swallows a failure, of a request that was done or not.
Swallow(s) ==
    /\ Forwarded(s) /\ Fault
    /\ \/ UNCHANGED mirror
       \/ Resolved(call[s]) /\ mirror' = Copied(call[s])
    /\ apart' = apart \cup {call[s].item}
    /\ End(s)
    /\ UNCHANGED <<primary, on, attached, writes>>

\* enable_mirror reads the whole primary.
Read(s) ==
    /\ Begin(s)
    /\ Overlap \/ \A t \in Sessions : call[t] \in Writes => call[t].op # "purge"
    /\ call' = [call EXCEPT ![s] = [op |-> "read", read |-> primary]]
    /\ UNCHANGED <<primary, mirror, on, attached, apart, faults>>

Filled(read) == [i \in Items |-> IF mirror[i] = Absent THEN read[i] ELSE mirror[i]]

\* ingest_atomic creates what the mirror lacks and leaves the rest as it is.
Backfill(s) ==
    /\ call[s] \in Enablings /\ call[s].op = "read"
    /\ mirror' = Filled(call[s].read)
    /\ apart' = {i \in apart : mirror'[i] # primary[i]}
    /\ call' = [call EXCEPT ![s].op = "backfilled"]
    /\ UNCHANGED <<primary, on, attached, writes, faults>>

StoryCounts(b) == Cardinality(Held(b) \cap Stories) \* (mutant) use cases are not counted

Counts(b) == <<Cardinality(Held(b) \cap Stories), Cardinality(Held(b) \cap Cases)>>

\* The mirror, read back, has as many items as were read.
Verify(s) ==
    /\ call[s] \in Enablings /\ call[s].op = "backfilled"
    /\ Counts(mirror) = Counts(call[s].read)
    /\ call' = [call EXCEPT ![s].op = "verified"]
    /\ UNCHANGED <<primary, mirror, on, attached, apart, writes, faults>>

\* The connection to the mirror is closed, then the configuration written; with
\* skip_backfill nobody has copied or looked.
Persist(s) ==
    /\ call[s] \in Enablings /\ call[s].op \in {"read", "verified"}
    /\ on' = TRUE
    /\ call' = [call EXCEPT
          ![s].op = IF call[s].op = "verified" THEN "kept" ELSE "unchecked"]
    /\ UNCHANGED <<primary, mirror, attached, apart, writes, faults>>

\* The session is stored, and its later writes go to the mirror.
Attach(s) ==
    /\ call[s] \in Enablings /\ call[s].op \in {"kept", "unchecked"}
    /\ attached' = attached \cup {s}
    /\ End(s)
    /\ UNCHANGED <<primary, mirror, on, apart, writes, faults>>

\* The confirmed numbers are not those read, the ingestion fails, the numbers
\* of items or of criteria do not match, the configuration cannot be written or
\* the session not stored; or the process ends.
GiveUp(s) ==
    /\ call[s] \in Enablings
    /\ End(s)
    /\ UNCHANGED <<primary, mirror, on, attached, apart, writes, faults>>

\* disable_mirror, of the calling session only.
Disable(s) ==
    /\ call[s] = None /\ s \in attached
    /\ on' = FALSE
    /\ attached' = attached \ {s}
    /\ UNCHANGED <<primary, mirror, call, apart, writes, faults>>

\* The session is over, or the server dies; another one takes its name.
Leave(s) ==
    /\ s \in attached
    /\ attached' = attached \ {s}
    /\ apart' = IF Forwarded(s) THEN apart \cup {call[s].item} ELSE apart
    /\ End(s)
    /\ UNCHANGED <<primary, mirror, on, writes, faults>>

Next ==
    \E s \in Sessions :
        \/ \E i \in Items, v \in Contents : Create(s, i, v) \/ Update(s, i, v)
        \/ \E c \in Cases : LookUp(s, c)
        \/ Purge(s) \/ Refuse(s)
        \/ Copy(s) \/ Skip(s) \/ Swallow(s)
        \/ Read(s) \/ Backfill(s) \/ Verify(s) \/ Persist(s) \/ Attach(s) \/ GiveUp(s)
        \/ Disable(s) \/ Leave(s)

Spec == Init /\ [][Next]_vars

-----------------------------------------------------------------------------
TypeOK ==
    /\ primary \in Boards /\ mirror \in Boards
    /\ on \in BOOLEAN
    /\ attached \subseteq Sessions
    /\ call \in [Sessions -> Calls \cup {None}]
    /\ apart \subseteq Items
    /\ writes \in 0..MaxWrites /\ faults \in 0..MaxFaults

\* The copy of an item that no call is about is the item itself, unless a
\* request to the mirror failed, a session without the mirror wrote it, or its
\* story is missing for one of these reasons.
DriftHasACause ==
    \A i \in Items :
        \/ mirror[i] = primary[i]
        \/ i \in apart
        \/ \E s \in Sessions : Forwarded(s) /\ call[s].item = i

\* A use case is never on the mirror without its story, whichever of the writes
\* were lost: creating under a missing parent "would corrupt the mirror
\* hierarchy" (dual_backend.py:205).
MirrorKeepsHierarchy ==
    \A c \in Cases : mirror[c] # Absent => mirror[StoryOf[c]] # Absent

\* A session that enable_mirror attaches after a backfill gets a mirror with every
\* item that was read, and with no item that the primary does not have: although
\* other sessions create items, on either side, between the reading, the copy,
\* the comparison of the numbers and the attaching.  What was written to the
\* primary alone since the reading may be missing.
AttachedIsWhole ==
    [][\A s \in Sessions :
        (s \in attached' \ attached /\ call[s].op = "kept") =>
            /\ Held(call[s].read) \subseteq Held(mirror)
            /\ Held(mirror) \subseteq Held(primary)]_vars

=============================================================================
