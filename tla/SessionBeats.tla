---------------------------- MODULE SessionBeats ----------------------------
(***************************************************************************)
(* The heartbeat of assistant sessions on one project's board              *)
(* (server/tools/session_heartbeat.py, migrations 0031, 0033 and 0034).    *)
(*                                                                         *)
(* A session reports what it does and whether it waits for a person.  The  *)
(* hooks send each beat by itself and do not wait for the one before, so a *)
(* beat may arrive late, twice, after the closing one or after the sweep   *)
(* closed the session: here any beat may arrive at any time.  Handling one *)
(* is two steps, since the caller is resolved (resolve_caller_scope) some  *)
(* awaits before the upsert runs.  A trigger turns what changes into       *)
(* events for the phone, each stored once under its key.                   *)
(***************************************************************************)
EXTENDS Naturals

CONSTANTS
    SessionIds, \* session ids of the assistant
    Devs,       \* developers; the tokens are theirs
    Ucs,        \* use cases a session may be working on
    Calls,      \* calls of report_session_heartbeat that may be open at once
    Limit,      \* ticks of silence after which a session is stale (15 minutes)
    MaxWaits,   \* bound: waits that may begin
    NoUc,       \* a beat outside any UC
    NoRow,      \* a session id the table does not have
    Idle        \* a call slot without a call

ASSUME BoundsAreNumbers == Limit \in Nat /\ MaxWaits \in Nat

ASSUME AbsentValuesAreApart ==
    /\ NoUc \notin Ucs
    /\ \A s \in SessionIds, d \in Devs, u \in Ucs \cup {NoUc} : s # d /\ s # u

VARIABLES
    row,        \* session_heartbeats: [SessionIds -> a row or NoRow]
    call,       \* the beat each open call will write, its caller resolved
    members,    \* developers whose token is valid and who are in the project
    events,     \* notification_events of sessions, one per event_key
    waits,      \* waits begun so far: now() of the next one
    stopped     \* sessions the sweep has closed with a UC open (history)

beatVars == <<row, call, members, events, waits, stopped>>

Waiting == {"none", "decision", "permission"}

\* The arguments of report_session_heartbeat, with the caller's developer id.
Beats == [session : SessionIds, dev : Devs, uc : Ucs \cup {NoUc},
          waiting : Waiting, ended : BOOLEAN]

\* `since` is waiting_since, 0 for NULL; `age` is now() - last_beat_at, which
\* matters up to just past Limit; `end` is ended_reason, "live" for NULL.
Heartbeats == [dev : Devs, uc : Ucs \cup {NoUc}, waiting : Waiting,
               since : 0..MaxWaits, age : 0..(Limit + 1),
               end : {"live", "closed", "timeout"}]

Events == [kind : {"session_waiting"}, session : SessionIds, since : 1..MaxWaits]
          \cup [kind : {"session_stopped"}, session : SessionIds]

Exists(s) == row[s] # NoRow
Live(s) == Exists(s) /\ row[s].end = "live"
Stale(s) == Exists(s) /\ row[s].age > Limit
ShownStopped(s) == Exists(s) /\ row[s].end = "timeout" /\ row[s].uc # NoUc

-----------------------------------------------------------------------------
(***************************************************************************)
(* The trigger of 0033 on the new row and the old one.                     *)
(***************************************************************************)

WaitEvent(s, new) ==
    [kind |-> "session_waiting", session |-> s, since |-> new.since]

StopEvent(s) == [kind |-> "session_stopped", session |-> s]

\* Inserting a row, or updating `old` into `new`: the events it adds.
SessionEvents(s, old, new) ==
    {e \in {WaitEvent(s, new)} :
        new.waiting = "decision" /\ (old = NoRow \/ old.waiting # new.waiting)}
    \cup {e \in {StopEvent(s)} :
        old # NoRow /\ new.end = "timeout" /\ old.end = "live" /\ new.uc # NoUc}

-----------------------------------------------------------------------------
(***************************************************************************)
(* report_session_heartbeat.                                               *)
(***************************************************************************)

\* The caller is resolved: an unknown token, or a project the caller is not in,
\* ends the call with nothing written.
ResolveCaller(c, b) ==
    /\ call[c] = Idle
    /\ b.dev \in members
    /\ call' = [call EXCEPT ![c] = b]
    /\ UNCHANGED <<row, members, events, waits, stopped>>

\* (mutant) Every beat that waits begins a wait.
SinceEveryBeat(old, b) == IF b.waiting = "none" THEN 0 ELSE waits + 1

\* waiting_since: kept while the session waits for the same thing, else now().
Since(old, b) ==
    IF b.waiting = "none" THEN 0
    ELSE IF old # NoRow /\ old.waiting = b.waiting THEN old.since
    ELSE waits + 1

\* (mutant) No look at whose row it is.
UpsertedByAnyone(old, b) ==
    [dev |-> IF old = NoRow THEN b.dev ELSE old.dev, uc |-> b.uc,
     waiting |-> b.waiting, since |-> Since(old, b), age |-> 0,
     end |-> IF b.ended THEN "closed" ELSE "live"]

\* (mutant) A late beat does not open the session again, and changes the rest.
UpsertedStaysEnded(old, b) ==
    IF old # NoRow /\ old.dev # b.dev THEN old
    ELSE [dev |-> b.dev, uc |-> b.uc, waiting |-> b.waiting,
          since |-> Since(old, b), age |-> 0,
          end |-> IF b.ended THEN "closed"
                  ELSE IF old = NoRow THEN "live" ELSE old.end]

\* The upsert, and what it leaves when the row is another developer's: nothing.
Upserted(old, b) ==
    IF old # NoRow /\ old.dev # b.dev THEN old
    ELSE [dev |-> b.dev, uc |-> b.uc, waiting |-> b.waiting,
          since |-> Since(old, b), age |-> 0,
          end |-> IF b.ended THEN "closed" ELSE "live"]

Upsert(c) ==
    LET b == call[c]
        s == b.session
        new == Upserted(row[s], b)
    IN  /\ call[c] # Idle
        /\ new.since <= MaxWaits
        /\ row' = [row EXCEPT ![s] = new]
        /\ waits' = IF new.since > waits THEN new.since ELSE waits
        /\ events' = events \cup SessionEvents(s, row[s], new)
        /\ call' = [call EXCEPT ![c] = Idle]
        /\ UNCHANGED <<members, stopped>>

\* The request is cancelled, or the process stops, before the upsert.
Lose(c) ==
    /\ call[c] # Idle
    /\ call' = [call EXCEPT ![c] = Idle]
    /\ UNCHANGED <<row, members, events, waits, stopped>>

-----------------------------------------------------------------------------
(***************************************************************************)
(* What goes on around it.                                                 *)
(***************************************************************************)

\* (mutant) A session that waits for a person is left open.
SweepSparesWaiting ==
    LET due == {s \in SessionIds : Live(s) /\ Stale(s) /\ row[s].waiting = "none"}
        closed(s) == [row[s] EXCEPT !.end = "timeout"]
    IN  /\ due # {}
        /\ row' = [s \in SessionIds |-> IF s \in due THEN closed(s) ELSE row[s]]
        /\ events' = events \cup
             UNION {SessionEvents(s, row[s], closed(s)) : s \in due}
        /\ stopped' = stopped \cup {s \in due : row[s].uc # NoUc}
        /\ UNCHANGED <<call, members, waits>>

\* close_stale_sessions, which pg_cron runs every five minutes.
Sweep ==
    LET due == {s \in SessionIds : Live(s) /\ Stale(s)}
        closed(s) == [row[s] EXCEPT !.end = "timeout", !.waiting = "none",
                                    !.since = 0]
    IN  /\ due # {}
        /\ row' = [s \in SessionIds |-> IF s \in due THEN closed(s) ELSE row[s]]
        /\ events' = events \cup
             UNION {SessionEvents(s, row[s], closed(s)) : s \in due}
        /\ stopped' = stopped \cup {s \in due : row[s].uc # NoUc}
        /\ UNCHANGED <<call, members, waits>>

\* Time passes for every session that has not been heard meanwhile.
Tick ==
    /\ row' = [s \in SessionIds |->
                 IF Exists(s) /\ row[s].age <= Limit
                   THEN [row[s] EXCEPT !.age = @ + 1] ELSE row[s]]
    /\ UNCHANGED <<call, members, events, waits, stopped>>

\* A token is revoked or a membership ends, or is granted again.
Membership(d) ==
    /\ members' = IF d \in members THEN members \ {d} ELSE members \cup {d}
    /\ UNCHANGED <<row, call, events, waits, stopped>>

BeatsInit ==
    /\ row = [s \in SessionIds |-> NoRow]
    /\ call = [c \in Calls |-> Idle]
    /\ members = Devs
    /\ events = {}
    /\ waits = 0
    /\ stopped = {}

ReportBeat == \E c \in Calls, b \in Beats : ResolveCaller(c, b)
WriteBeat == \E c \in Calls : Upsert(c)
LoseBeat == \E c \in Calls : Lose(c)
ChangeMembership == \E d \in Devs : Membership(d)

BeatsNext ==
    ReportBeat \/ WriteBeat \/ LoseBeat \/ Sweep \/ Tick \/ ChangeMembership

BeatsSpec == BeatsInit /\ [][BeatsNext]_beatVars

\* Time passes and pg_cron runs its job; nobody has to send a beat.
FairSpec == BeatsSpec /\ WF_beatVars(Tick) /\ WF_beatVars(Sweep)

-----------------------------------------------------------------------------
(***************************************************************************)
(* Properties.                                                             *)
(***************************************************************************)

BeatsTypeOK ==
    /\ row \in [SessionIds -> Heartbeats \cup {NoRow}]
    /\ call \in [Calls -> Beats \cup {Idle}]
    /\ members \subseteq Devs
    /\ events \subseteq Events
    /\ waits \in 0..MaxWaits
    /\ stopped \subseteq SessionIds

\* A session that is shown waiting for a decision has the time at which it began
\* to wait, and the phone has been told of that very wait, however many beats
\* repeated it and in whatever order they came (0033: session_waiting; 0031: the
\* CHECK on waiting and waiting_since).
WaitsAreAnnounced ==
    \A s \in SessionIds : Exists(s) =>
        /\ row[s].waiting = "none" <=> row[s].since = 0
        /\ row[s].waiting = "decision" => WaitEvent(s, row[s]) \in events

\* The first time a session comes to be shown as closed for silence with a UC
\* open, the phone is told there and then, in whatever order late beats and
\* sweeps came before; any later time it is not, for the event is keyed by the
\* session alone (0033, trigger of session_heartbeats).
FirstStopIsAnnounced ==
    [][\A s \in SessionIds :
         ShownStopped(s)' /\ ~ShownStopped(s) =>
             (StopEvent(s) \in events' \ events <=> s \notin stopped)]_beatVars

\* A session that ended comes back, whoever knows its id, only by a beat of the
\* developer it belongs to, and one that does not say that it ends.
RevivedByItsOwner ==
    [][\A s \in SessionIds :
         Exists(s) /\ ~Live(s) /\ row'[s].end = "live" =>
             \E c \in Calls :
                 /\ call[c] # Idle /\ call'[c] = Idle
                 /\ call[c].session = s /\ call[c].dev = row[s].dev
                 /\ ~call[c].ended]_beatVars

\* No session stays live for ever (0031, AC-02): one of which beats stop coming
\* ends for good, even if a late beat opened it again after it was closed.
QuietSessionsEnd ==
    \A s \in SessionIds :
        \/ []<><<\E c \in Calls : Upsert(c) /\ call[c].session = s>>_beatVars
        \/ <>[](~Live(s))

=============================================================================
