# specbox-engine in TLA+

specbox-engine is an MCP server (Python) that keeps a board of *user stories*
(US), *use cases* (UC) and *acceptance criteria* (AC), and lets several
developers, each with one or more assistant sessions, work on it at once. Its
reference board is the **Native backend**: a Postgres schema, tool handlers that
run one SQL statement after another on it, and triggers that react to what they
write. This directory specifies that coordination core, checks it with TLC on
small instances and proves its main properties with TLAPS for instances of any
size.

Contents: [Inventory](#1-inventory) · [Modules](#2-modules) ·
[Runs](#3-runs-what-each-checks-and-shows) · [Proofs](#4-proofs) ·
[Findings](#5-where-the-code-and-its-words-part) ·
[Limits](#6-what-is-not-shown) · [Plan](#7-plan)

## 1. Inventory

Paths are relative to the repository root, `src/` here. *State* is what
outlives a call.

| Component | State it keeps | Operations | Talks to |
|---|---|---|---|
| **UC reservations** `server/coordination/reservations.py`, `server/tools/coordination.py`, `server/coordination/audit.py` | `uc_reservations` (one row per reserved UC), `audit_log` | `reserve_uc`, `release_uc`, `start_uc_atomic`, `record_destructive` | called by the lifecycle tools; `start_uc_atomic` also writes `use_cases` |
| **UC and story lifecycle tools** `server/tools/spec_driven.py` | none; reads and writes the board | `import_spec`, `start_uc`, `move_uc`, `complete_uc`, `move_us`, `mark_ac`, `mark_ac_batch`, `find_next_uc` | reservations, backend, active-UC marker file |
| **Native backend** `server/backends/native_backend.py`, `server/spec_backend.py` | `user_stories`, `use_cases`, `acceptance_criteria`, comments, attachments | `update_item`, the four AC writes, `archive_item`, `purge_use_case`, creation, `ingest_atomic` | Postgres; one of several backends behind one interface |
| **Schema and triggers** `server/db/migrations/*.sql` | `uc_acceptances`, `notification_events`, `started_at` / `completed_at` | lifecycle stamps, voiding of an acceptance, `uc_ready` | run inside every writer's transaction; the panel inserts acceptances |
| **AC tools** `server/tools/spec_mutations.py` | none | `add_ac`, `delete_ac` with renumbering, `update_ac`, `update_ac_batch`, `set_ac_internal`, `add_uc` | backend |
| **Board removal** `server/tools/board_operations.py` | none | `delete_uc` (archive or purge) | backend |
| **Session heartbeats** `server/tools/session_heartbeat.py`, migrations 0031, 0033, 0034 | `session_heartbeats`, its events | beat, end, `close_stale_sessions` every five minutes, the trigger that tells the phone | client hooks that wait for nothing; the panel |
| **Unattended decisions** `server/tools/autopilot_decisions.py` | `autopilot_decisions` | publish, resolve, take | panel, unattended runs |
| **Decisions queue file** `server/app_docs/queue.py` | a Markdown file | enqueue, resolve, on the server's checkout or on a copy the client sent | the same runs without a database |
| **Backend switch** `server/migration/transactional_switch.py`, `server/tools/migration.py`, `server/app_docs/sync.py` | the project registry, a zone of `app_spec.md`, the local settings (three files) | `switch_backend`, `enable_mirror`, `disable_mirror`, rollback | the client's files; over a remote transport the client writes two of the three |
| **Migration of a project** `server/migration/orchestrator.py`, `writer.py`, `rollback.py`, ... | the target board | `switch_project_backend`: provision, write, seed an identity, turn the configuration over, or roll back | two backends, the switch above |
| **Batch sessions** `server/migration/batch_session.py` | in-memory sessions of ten minutes | start, chunk, commit | the native backend |
| **Dual backend** `server/backends/dual_backend.py` | none | every write, on a primary and then, best effort, on a mirror | two backends |
| **FreeForm backend** `server/backends/freeform_backend.py`, `server/tools/_content_passing.py`, the fragment hook of the client | `items.json`, `archive.json`, `purged.jsonl` | the board's operations, on files or on a fragment the client sends and merges | client hooks |
| **Stripe account switching** `packages/specbox-stripe-mcp` | endpoints, catalog and subscriptions of two Stripe accounts; the secrets of the project; `PENDING_SWITCH_SECRETS.md` | `switch_stripe_account` with `setup_webhook_endpoints`, `setup_products_and_prices`; rollback | Stripe, Supabase, the operator |
| **Trello and Plane backends** | remote boards | the board's operations as HTTP requests that are sent again | Trello, Plane |
| **Identity** `server/coordination/identity.py` | token table, in-memory cache with a TTL | `assert_authenticated`, revocation | every mutating tool |
| **Access log** `server/coordination/access_log.py` | a spool file, a table | append, replay | Postgres |
| **Abuse guard** `server/coordination/abuse_guard.py` | sliding windows in memory | charge | transport |
| Transport authentication, branch registry, autopilot rules, discovery and PRD parsing, design tools, onboarding and telemetry, audit scanners, Supabase package, CLI and editor extension | files, remote services or nothing | | see `PROJECT.json` for each and why it is out |

**How it runs.** The server is one asyncio process per deployment, and there may
be several against one database. Over stdio, the default, each assistant session
starts a process of its own; only these see the project's files (`transport.py`),
and nothing locks them. A handler gives up control at every `await`, so
the statements of two handlers interleave anywhere. Outside an explicit
transaction each statement commits by itself (asyncpg autocommits). Inside one,
isolation is READ COMMITTED: a statement sees what others have committed when it
starts, row locks make a second writer of the same row wait, and nothing makes a
writer wait for a reader. A handler may die between any two statements: the
process stops, the connection is lost, the client cancels. Nothing on the board
is undone then, except an open transaction.

**What is hard.** These behaviours come back in every component, and they are
what the models are built around:

* *read, then write without a lock*: release, purge, `delete_ac`, the story's
  list, the trigger that reads the other table, the queue file;
* *several statements that should be one*: a state change and the release that
  follows it, a renumbering, a cascade over the UCs of a story, the audit row
  after the deletion, `items.json` and `archive.json`;
* *two rules for one fact*: how a story's state is derived and when it is told
  complete; what counts as work done for a purge;
* *one fact in several places*: which backend a project is on, in three files; an
  item on a board and on its mirror; a secret in a file and at two providers;
* *requests that are lost, repeated or late*: a beat after the closing one, a
  publication whose answer was lost, a creation the HTTP client sends again, a
  migration called a second time on the same board;
* *a file that is emptied and then filled* (`write_text`), by a process that may end
  in between or beside another one;
* *a person in the loop*: the panel accepts a UC while sessions edit it, two
  people answer one decision, an operator copies the secrets by hand.

What makes each modelled component correct:

* **Reservations.** A UC is a lock: a session that was told it may work keeps
  the UC until it lets go; the reservation and the state change together; nobody
  waits forever; every reservation made or deleted has its row in the audit trail,
  but where a handler died before it wrote one.
* **Lifecycle and triggers.** An accepted UC is done, and so is every visible
  criterion; a UC that becomes ready to accept is announced, and nothing else is.
* **Story.** Whatever overlapping, stale and failed calls left, the next call
  that has the story to itself puts it where its UCs imply; such a call takes it
  to review or done after its UCs and not before.
* **Criteria.** Renumbering after a deletion closes the gap and loses nothing
  but what a failed statement lost; a batch records every verdict it can.
* **Sessions.** The phone is told of each wait that is shown, and of the first
  time a session falls silent; only its developer brings an ended session back; a
  silent one ends.
* **Decisions.** Everybody is told the same answer, it is handed to one session
  once, and the queue file keeps its entries.
* **Backend switch.** Of a call that no other ran into: success means all three
  places, whatever failures and overlaps had left there; an error restores what was
  written; a mirror never changes which backend is the primary.
* **Migration.** Calling again makes no twins; what is missing is named; what went
  well is whole; a batch lands as declared or not at all.
* **Mirror.** It differs from the primary only for a reason, keeps the
  hierarchy; a session is attached to one that has all that was read and nothing
  the primary lacks.
* **FreeForm.** Calls side by side, about different use cases, have the effect of
  calls one by one on one list; what leaves the list can be read elsewhere, unless the server died in a file
  it stood in.
* **Stripe.** No second endpoint of a kind; an abort leaves the source as it was and
  running what ran in the destination; the source is switched off only when the
  destination is set up and its secrets have been handed over; key and endpoint
  secrets are of one account, unless a person copies some and not the others.

## 2. Modules

```
WorkLock       <== refined by ==  UcReservations   UcReservationsProofs   MCUcReservations
                                  UcLifecycle      UcLifecycleProofs      MCUcLifecycle
                                  StoryFollow      BoardProofs            MCStoryFollow
                                  CriteriaList     CriteriaListProofs     MCCriteriaList
                                  SessionBeats     CoordinationProofs     MCSessionBeats
                                  Decisions        CoordinationProofs     MCDecisions
                                  BackendSwitch    MoveProofs             MCBackendSwitch
                                  BoardMirror      BoardMirrorProofs      MCBoardMirror
BatchIngest    <-- extended by -- BoardMove        MoveProofs             MCBoardMove
FreeformBoard  <== refined by ==  FreeformStore    BoardProofs            MCFreeformStore
                                  StripeSwitch     StripeSwitchProofs     MCStripeSwitch
```

Each board module looks at one table group at the grain at which others can
interfere with it, and leaves to its neighbours what they own.  They meet at
`use_cases.state`: `UcReservations` writes it with the reservation,
`UcLifecycle` with the triggers, `StoryFollow` with the parent; and at
`acceptance_criteria`: `UcLifecycle` has its flags and receipts,
`CriteriaList` its numbers and texts.  No module assumes something of the
shared table that another one violates: in each of them any state change the
tools allow can be made at any moment, but for the hypotheses of its run
([section 3](#3-runs-what-each-checks-and-shows)). `BackendSwitch`, `BoardMove` and
`BoardMirror` share the switch in the same way: the first has its files and
treats the data as done, the other two have the data and treat the files as one
step.

### `UcReservations` — who may work on a UC

One action is one SQL statement (or a transaction none of whose later statements
others can interleave with); `pc[s]` is the next statement of session `s`.

| Actions | Code |
|---|---|
| `CallReserve`, `ReserveInsert`, `ReserveLookup`, `ReserveAudit` | `reserve_uc`: `INSERT ... ON CONFLICT DO NOTHING`, then the lookup when nothing was inserted, then the audit row |
| `CallStart`, `StartInsert`, `StartLookup`, `StartUpdate` | `start_uc_atomic`: one transaction. The inserted row is uncommitted (`wrote[s]` and `pc[s] = "start_update"`), and an insert of the same key waits for it |
| `CallRelease`, `ReleaseLookup`, `ReleaseDelete`, `ReleaseAudit` | `release_uc`: read the owner, delete by key, record |
| `CallComplete`, `CallMoveDone`, `CloseUpdate`, `CloseAuth`, `MoveAudit` | `complete_uc` and `move_uc(done)`: the UC is done first, then the release is tried |
| `MoveUc`, `CallDelete`, `Archive`, `Purge*` | `move_uc` to another state; `delete_uc`, with `purge_use_case` as its four statements under the row lock of the UC |
| `Abort` | the handler stops between two statements |

`started[s]` is what the session was told ("you may work on it") and has not
given back: the client's side of the lock. `WorkLock` is the promise in a dozen
lines — `Take` when nobody works on the UC, `Leave` — and `ActsAsLock` says that
the reservation layer implements it, `working[u]` being the sessions that have
`u` in `started`.

### `UcLifecycle` — acceptance, events and times

A write is two actions, because its triggers decide on what was committed when
the statement ran: it *runs* and leaves its row and its triggers' decisions in
`txn[s]`, and it *commits*. `item`, `crit`, `accepted` and `events` are the
committed `use_cases`, `acceptance_criteria`, `uc_acceptances` and
`notification_events`. The triggers are operators of the row that is written
and the committed board: `LifecycleColumns` (0012), `CriterionVoids` and the
state's counterpart (0029), `ReadyToAccept`, `StateAnnounces` and the
criterion's counterpart (0033). `Concurrent = FALSE` says that writes to one UC
do not overlap, the hypothesis of the passing run and of the theorems.

### `StoryFollow` — the story follows its UCs

`call[s]` is what the open call of `s` has read (`story`, `seen`) and has still
to do (`left`). `ListStory` and `ListUcs` are the two reads of
`list_story_items`, `UpdateUc` / `StartUc` the write of the UC, `Sync` is
`_sync_parent_us_state` with `derive_us_state`, `MoveStory` and `Cascade` are
`move_us`, `Archive`, `Purge` and `AddUc` change the UCs and not the story.
`Fail` ends a call at any statement. Calls overlap as they like: `met` is set in a
call when another one begins or runs while it is open, and the properties are of a
call that met none, on a story that any overlap may have left anywhere. The
comment that a story is complete (`_handle_uc_completion`) is left out.

### `CriteriaList` — the numbered list

A number is a row's key (AC-07 is 7), a text the criterion itself. `List` is the
one read of each tool, `Create`, `Write`, `Delete`, `ShiftDelete`,
`ShiftCreate` and `Mark` its statements, with `StatementFails` and `Die` at any
of them. `ListedBefore` is the order of `ORDER BY id`, which compares text: the
order of numbers up to 99, and no longer at 100. `wanted` is a history variable:
the criteria people wrote and did not delete.

### `BackendSwitch` — which backend a project is on

`file[p]` is what the registry, the app_spec and the settings say of one
project: absent, broken (truncated), or whole with a backend and a mirror or
none. `local` says whether the server sees the project's own files. `call[s]`
is the open call with the snapshots it has taken. The two loops of
`apply_switch_transactional` and `apply_mirror_transactional` go place by place and,
at a place, step by step: `Read` (the writer reads the file and knows what to put
there), `Truncate` and `Fill`, which are the two halves of `write_text`, or
`WriteFails`; back, `ReadAgain`, `Truncate` and `Fill`, or `RestoreFails`; then
`AnswerError`. `Written` says what each writer puts where, with what it takes from
the other places: the app_spec takes the primary from the registry in a mirror call
and forgets the mirror in a switch.

From the snapshots to the answer nothing awaits, so two sections overlap only when
they run in different processes: never on a remote server, which has one, and freely
beside a project (`local`), where every session has its own over stdio. `Enter`
allows just that, and sets `met` in the sections that run into each other. The long
`backfill` of `enable_mirror` is outside, and its session's idea of the primary may
be stale when it enters. What a failed write leaves is the file as it was, truncated
or, for the app_spec, written, when it is the signature's lock file that fails.
`Die` ends a process with its calls, between two writes or inside one. `trouble`
counts failures, ends and overlaps for the bound.

### `SessionBeats` — heartbeats and what the phone is told

`row[s]` is the line of a session in `session_heartbeats`, with the time since
its last beat (`age`) in place of the time itself. A beat is two steps, since the
caller is resolved some awaits before the upsert: `ResolveCaller` and `Upsert`; any beat
may be sent at any time, which is how late, repeated and reordered ones come
in. `Upserted` is the `ON CONFLICT` clause, `SessionEvents` the trigger of 0033,
`Sweep` is `close_stale_sessions` and `Tick` the time that passes. `events` is
keyed as `event_key` is: a wait by its beginning, a stop by the session alone
(0033:199), so the phone is told once of a session that stops, is revived and
stops again. `stopped`, a history variable, tells a first stop from a later one.

### `Decisions` — what an unattended session puts off

Two stores of one decision. The queue file has two sections and is read, changed
and written whole: in one step on the server's checkout (`EnqueueLocal`,
`ResolveLocal`), in two when the client sends the file (`EnqueueRemote`,
`ResolveRemote`, then `WriteBack` or `EditLost`); `Torn` is a write cut short. On
the board `Publish` is the insert that may be repeated, `ResolveUpdate` and
`ResolveRead` the two statements of `resolve_decision`, `Take`, `TakeAnswered` and
`TakeLost` the statement that marks and returns, and what becomes of its reply.
`told`, `known` and `owed` are what people and sessions have been told.

### `BatchIngest` and `BoardMove` — moving a project to another backend

`BatchIngest` is the batch session of a native target: a declared version of
`items.json` as a sequence of pieces, chunks by index, the checks of
`commit_migration_session` (all arrived, the hash, both numbers), expiry and
restart, and `Landed`, what the one transaction of `ingest_atomic` leaves.
`BoardMove` extends it with `run_switch`: `Begin` up to the target board, `write_target`
item by item (`Skip`, `Create`, `Refused`, `HalfDone`, then `List` and `ListFails` for
the criteria), `Ingest` for a batch as the write step, `Switch` or `RollBack`,
`MoveDies`. `board[i]` counts the cards of an item: those found by their logical id and
those that lost it, because on Trello the card comes first and its fields
after. `Resent` is the HTTP client that sends a creation again. `Found` is the
search by logical id, which on Trello may take a UC for its story.

### `BoardMirror` — a mirror beside the primary

A write is the primary's step (`Create`, `Update`, `LookUp` and `Purge`) and then one on
the mirror: `Copy`, `Skip` when the item cannot be resolved there, `Swallow` when the
request fails, done or not. `enable_mirror` is five steps with an await before
each: `Read` the primary, `Backfill` the mirror, `Verify` that it reads back as many
items, `Persist` the configuration, `Attach` the session; other sessions write
between any two. `GiveUp` ends it at any of them, and with `skip_backfill` it goes
from the reading to the configuration.
`Disable` and `Leave` end the attachment of a session. `apart` is a history
variable: the items whose copy may differ, and there is a reason.

### `FreeformBoard` and `FreeformStore` — a board in a file

`FreeformBoard` is the promise: one list, one step per call. `FreeformStore` has
the steps the calls take. With a remote server the hook sends a
fragment and the highest number (`Send`), the answer is merged when it comes
(`Receive`, `Merged`) or never (`Forget`); beside a local server the files are
written one by one (`Write`, `WriteCase`, `List`, `Shelve`, `Unlist`, `Erase`, `Unshelve`, `Log`), with `Die` between
two of them, and `TearItems` and `TearArchive` inside one, which leaves a file that
cannot be read (`torn`). Every call then fails on a torn `items.json`; a torn
`archive.json` counts as empty (`Archived`) and `archive_item` writes over it. One
local server is assumed. The hook is not part of the server, and is modelled from its tests
and its runbook.

### `StripeSwitch` — moving a project to another Stripe account

One action per request or decision of `switch_stripe_account` and of the two
setup tools it calls: the inventory, an endpoint per kind (`ReuseHook`,
`CreateHook`), product and price, the secrets (`PushSecrets`, or `LeaveSecrets` in a file),
the scope actions on the source, and the rollback of the journal, entry by entry.
`keys` are the `Idempotency-Key`s Stripe remembers: the same request is answered as
before, another one under the key is refused; `ForgetKeys` is the end of the day.
The person with the file is an actor of their own: `CopySecret` enters one secret, at
any time, during a call or long after it, and `DeleteFile` follows when all are in.
`origin` and `odd` are history: whose endpoint an id was, and what has
happened to the secrets since a call wrote them.
An answer that is lost until the retries run out is the request done and the call
on its way to `"rollback"`.

## 3. Runs: what each checks and shows

Passing runs, all exhaustive. The types (`TypeOK`) are theorems in the modules
with proofs, for any instance.

| Run | Instance | Checks |
|---|---|---|
| `reservations_one_session` | 2 developers with a session each, 1 UC, 6 calls; `FairSpec`; 149 k states | `StartedIsHeld`, `TrailIsComplete`, `ActsAsLock`, `PurgeLosesOnlyTheLate`, `EveryCallReturns` |
| `lifecycle_serial` | 2 sessions, 1 UC, 2 criteria, 4 timed transactions; 135 k states | `AcceptanceHolds`, `NotifiedUnlessTrimmed`, `EventsAreTrue` |
| `story_overlap` | 2 sessions, 2 UCs, all tools, calls overlap; 3.96 M states | `StoryFollows`, `StoryClosesLast` |
| `criteria_serial` | 3 criteria and a free number, all tools, batches of 2, 2 failures; 1.25 M states | `LossesAreFailures`, `DeleteClosesTheGap`, `CleanBatchIsRecorded` |
| `session_beats_late` | 1 session, 2 developers, 1 UC, 3 waits; `FairSpec`; 148 k states | `WaitsAreAnnounced`, `FirstStopIsAnnounced`, `RevivedByItsOwner`, `QuietSessionsEnd` |
| `decisions_serial` | 2 sessions, 2 people, 2 decisions with 2 options; 85 k states | `AnswersAgree`, `HandedOnce`, `EntriesAreKept` |
| `switch_all_places` | 2 sessions, 2 backends, remote or local with a process each, any number of calls, 2 troubles; 4.32 M states | `SuccessIsWhole`, `ErrorRestores`, `MirrorKeepsPrimary` |
| `board_move_retries` | 2 stories, 2 UCs, 3 kinds of target, 2 calls, 2 faults, a batch session of 2 chunks out of 3 | `RepeatsAddNoCards`, `MissingIsNamed`, `UntroubledIsWhole`, `DeclaredIsWhatLands` |
| `board_mirror_apart` | 1 story, 2 UCs, 2 contents, 2 sessions, 6 writes, 2 faults; 736 k states | `DriftHasACause`, `MirrorKeepsHierarchy`, `AttachedIsWhole` |
| `freeform_apart` | 4 calls, 4 ids, 2 texts, local and remote, 2 faults; 68 k states | `OneBoard`, `RemovedIsKept` |
| `stripe_switch_serial` | 2 accounts, 2 kinds of endpoint, 2 amounts, 2 calls; 5.29 M states | `NoTwins`, `AbortKeepsWhatRuns`, `SecretsBelongTogether`, `CatalogIsPriced`, `SourceLast` |

One run ends in a counterexample; it checks a sentence of the repository
([section 5](#5-where-the-code-and-its-words-part)): `reservations_release_race`
(`OwnerOnlyRelease`), with two sessions of one developer beside another developer.

**The hypothesis of a run** is a constant of its module. `Concurrent = FALSE`
(lifecycle, criteria, queue file) and `Overlap = FALSE` (mirror, FreeForm) say that
calls on one thing do not overlap, and `DevOf` of `reservations_one_session` that a
developer runs one session; without it TLC refutes the properties that rest on it
([section 4](#4-proofs) lists them). What such a run says of overlapping calls is
nothing. The story and the switch have no such constant: their calls overlap,
but each property is of a call that met no other, on what overlapping ones had left,
and fails of a call that did. Heartbeats, the board of decisions and the migration
have neither, and the two Stripe switches of a run come one after the other.

**Bounds.** One UC is enough for reservations and lifecycle: no statement of
either touches two. Two sessions are the actors of every race that needs two.
`MaxCalls = 6` lets each session go three times through
take, give back and take again, with a purge in between. Two criteria tell
"this one" from "another one still open"; four timed transactions allow a UC to
be completed, reopened and completed again with an edit in between. Two UCs let
`derive_us_state` see every pair of states. In its run the open
call may be any tool's, and one that begins beside it is a `start_uc`, `delete_uc` or
`add_uc` (`Overlapping`); the theorems are of all. Four numbers with three texts let `delete_ac` renumber two rows,
lose one to a failure, and lose another to the failure that follows.
Rows of heartbeats do not meet, so one session is enough; a second developer is who
must not touch it, and three waits are one that is repeated, one that is
ended and one after it. Two decisions are the fewest of which a torn file loses one.
`MaxTrouble = 2` of `BackendSwitch` is a failure and the failed restore after it, or
an overlap that leaves something behind and a failure of the call that finds it;
calls are not bounded, and two backends are the old and the new one. A story
with two UCs beside one with none let a migration hang a UC under a story that
failed; two calls are the first and its retry, two faults one in each or both
in one. Six writes let a mirror be enabled, written, left, written without, and enabled
again. Four FreeForm calls are two that overlap around two that have ended, four
ids two UCs with a criterion each. Two switches between two Stripe accounts are there and back, or one
and its retry. What the bounds leave out is what the proofs are for.
`CHECK_DEADLOCK FALSE` stands in the configurations whose bounds stop the
system; `EveryCallReturns` says what deadlock freedom should say there.

**Symmetry** is used where sessions, criteria, UCs or ids are interchangeable and
no liveness is checked.

**Fairness.** `FairSpec` of `UcReservations` has weak fairness of
each session's *statements*: asyncio goes on scheduling a handler whose query
has answered, and Postgres answers a query that is not waiting for a lock. No
fairness is given to clients: nobody has to make a call, to finish what was
started or to release. Dying is possible and never required. `EveryCallReturns`
says that no handler waits forever for a lock, whatever the order in which
`start_uc` (key, then row) and the purge (row, then key) take theirs. `FairSpec` of
`SessionBeats` has weak fairness of `Tick` and `Sweep`: time passes, and `pg_cron`
runs its job (0031:144). No beat has to come. `QuietSessionsEnd` says that a session
whose beats stop is closed for good.

## 4. Proofs

Eight modules, checked by `tlapm`; three of them are about two modules each, whose
names therefore differ (`BeatsSpec`, `MoveSpec` and `StoreSpec` beside `Spec`). There are no
assumptions besides the `ASSUME`s on the constants, which the passing runs
evaluate. Every invariant is proved the same way: `Init => IInv`,
`IInv /\ [Next]_vars => IInv'` with a lemma per action, `IInv =>` the property;
action properties follow from `IInv` and the action. Types are proved without the
hypothesis the other theorems have (`TypeCorrect`), but for `FreeformStore`, where the types of
a board are part of its invariant (`BoardOK`).

**`UcReservationsProofs`** — hypothesis: each developer has one session
(`DevOf` is injective); any number of developers and UCs.
`StartedIsHeld` is not inductive: that nobody else can remove the row
depends on where every other handler is. `IInv` adds that a session about to delete a
reservation is its owner's (`ReleaserOwns`), that a session about to commit on a
reservation it found still has it (`RestarterOwns`), that an uncommitted insert is
alone on its key (`InserterAlone`), and what a purge knows after each of its
statements (`PurgeLocked`, `PurgeChecked`, `GoneIsFree`). `StartedStaysHeld`,
`Exclusion`, `StartIsAtomic` and the refinement `RefinesLock : Spec => WorkLock`
follow. `PurgeTakesTheLateAlone` adds `PurgeSaw`: the purge has read that nobody has the UC,
so who has it when it commits took it since, which the history `taken` counts.
`TheTrailIsComplete` is an argument by counting, without hypothesis. A row of the
trail is written a statement after what it tells of, so `BooksBalance` adds to the
rows written those that a handler is about to write and those that died with one;
each statement then pays for what it does to the table (`StatementPays`). For
reservations the books are exact. For deletions they are an inequality: rows may be
too many ([section 5](#5-where-the-code-and-its-words-part)), and the theorem says
that none is missing.
`NoDeadlock` has no hypothesis: two sessions of a developer are allowed. The row of a UC is
locked across statements only by a purge (`LockedByPurge`), whose next statement never
waits, and a key is pending only for a purge or for a `start_uc` that waits at most for
the row. So whoever waits is at most two handlers behind one that need not
(`NobodyIsStuck`). `Ready` is what makes a statement enabled, which TLC confirmed on a run
with three sessions: it is written out because the prover cannot reason about `ENABLED`.

**`UcLifecycleProofs`** — hypothesis: writes to one UC do not overlap; any
sessions, UCs and criteria. The strengthening is `DecidedStillTrue`: what the
triggers of an open transaction decided is still what they would decide, since
nothing about its UC has changed (`OneWriter`), and its time stamp is in the
past. From it: `AcceptanceIsTrue`, `ReadyWasNotified`, `LeadTime`,
`EventsAreAlwaysTrue`.

**`BoardProofs`**, `StoryFollow` — no hypothesis: any sessions and UCs, all tools,
any overlap. What a call has listed is still what the tables say, but for what the
call itself has changed (`StillTrue`), unless it has met another one; and of two open
calls each has met the other (`OneCall`), so a step of one costs no call that has met
none. A call that meets no other starts from anything: nothing is asked of the story and
the UCs that it finds. From it: `TheStoryFollows`, `TheStoryClosesLast`.

**`CriteriaListProofs`** — hypotheses: calls on the UC do not overlap, and the
list ends below 100; any texts, numbers, batches and failures. The interesting
question is how many criteria a renumbering with failures can lose. `Good` says where a
renumbering stands: numbers below the deleted one are as listed, those already
passed hold what stood one higher, the rest is as listed, and the row in hand is
in neither place. A failure costs a criterion now (the create fails) *or later*:
the delete fails, the row stays, and the create of the next one collides with
it. `Owed` is that debt, 0 or 1, and `Losses` says

    |criteria lost, the one in hand not counted| + Owed <= failures

which is inductive where `LossesAreFailures` alone is not. The order of the list
enters as one lemma, that below 100 text order is number order; that lemma is
false at 100. `RenumberingLosesOnlyFailures`, `DeletingClosesTheGap` and
`CleanBatchesAreRecorded` follow.

**`MoveProofs`**, `BackendSwitch` — no hypothesis: any sessions, backends, overlaps,
failures and crashes; the theorems are of a call that met no other section. The last
write knows nothing of the first, so the invariant says where the open call stands,
down to the step at a place. Going forward (`Forward`), the places before the next one
are done, those after it are as in the snapshot, and what is to be written here is what
the call asks for; going back (`Backward`), as long as no restore has failed, every place
but the failed one is as in the snapshot unless it is still to be restored; all along
(`KeepsPrimary`) a mirror call has not changed the primary in a file that can be
read. That the snapshots are still the truth is `Meetings`: two open sections have
both met. Of a call that has met another only the types are known (`Writable`), and
the next one starts from whatever it leaves. `SuccessMovesAll`, `ErrorsRestore` and
`MirrorsKeepThePrimary` follow from the last step together with the invariant.

**`MoveProofs`**, `BoardMove` — no hypothesis: any items, files, calls and
failures. None of the three invariants is inductive: they speak of the end of
a call or of the board alone, and a call is as good as what it has been through.
`MoveInv` adds that (`Passed`): an item that is no longer to do is on the target, or
in the errors of this call, or is the story on Trello that was taken for another;
and its id is known to the use cases that come after it, unless it failed. The exception
comes from the search, so `Hung` says what that search may rely on: a use case on Trello
that hangs under its story came after the story, or after a failure with it. `Whole` has the
criteria that are still to be listed as those of `running.item`. Each request is
about one item, so one lemma (`ItemKeeps`) says what a request may do to the invariant
and each action is shown to be of that form. `DeclaredLands` is the action property:
of all steps only the two commits take a session away and change the board, and
both have compared the joined chunks with the declared file; what `Joined` computes
is not needed. `Moved` carries all of it over the end of the call.

**`CoordinationProofs`**, `SessionBeats` — no hypothesis: any sessions, developers, open calls and
limits, beats in any order. The two announcements and the types are inductive
together (`BeatsInv`): an upsert that keeps a wait keeps the time it was announced
with, one that begins a wait announces it, and the sweep takes the wait away
while it announces the stop. `StopTold` says that the one event a session can have of
its stops is there exactly when it has stopped before: hence `OneStopIsAnnounced`, that
the first stop is announced in the step that shows it and no later one is. `OnlyTheOwnerRevives` follows from the types and the
`ON CONFLICT ... WHERE` of the upsert.

**`CoordinationProofs`**, `Decisions` — the board without hypothesis, the file under `OneEditor`. The
board only grows (`Grown`): a row is never removed, a resolution never changed, a
mark never taken off, so what somebody was told stays true (`AllAnswersAgree`). A
resolution that is held or on its way is marked, and by one session
(`Marked`), which makes `OnlyHandedOnce` inductive. For the file, the open
edit is of the file as it stands (`EditIsCurrent`), and everything in it has an id that was
given out; hence `EntriesStay`.

**`BoardMirrorProofs`** — `HierarchyIsKept` without hypothesis: the primary has its
hierarchy, so has everything that was read of it for a backfill, and that is enough
for the mirror (`BaseInv`). `DriftIsExplained` and `AttachedMirrorIsWhole` are under
`NoOverlap`: each call on its way knows what stands on both sides at its item
(`WriteSound`), what an enabling read is still there, and once copied on the mirror, at
every later stage (`ReadSound`), and no call touches the kin of another's item
(`Apart`, `Beside`). The comparison is of *numbers*, and of the mirror with what was
read, not with the primary as it is by then. It settles more than it compares: what was
read is on the mirror, and a finite set has no proper subset of its size (`SameHeld`), so
at that moment the mirror has what was read and nothing else. From there to the
attaching others go on creating items; what the mirror gains the primary has, and it
loses nothing while no purge runs (`GainsAreHeld`, `WholeInv`). What the primary
gained meanwhile the mirror may lack, and the theorem does not deny it.

**`StripeSwitchProofs`** — no hypothesis: any accounts, amounts and bounds,
whatever is lost and however often the switch is repeated. What is assumed of the
constants (`KindsAreFew`) is that one call's endpoints fit in the bound of
ids. The properties join the two ends of a call, so the invariant follows it stage by
stage, in two layers. The first, `IInv`, is what the call does:

* `Undoable`: up to the scope actions, what was there before is there, and the journal
  and `made` name only what this call created. This is why a rollback, which
  deletes whatever the journal says, takes nothing that was running.
* `Prepared`: a kind that is done has a fresh, stamped endpoint on the destination, and the
  secret that was got for it is that endpoint's or the empty string; past the endpoints
  all kinds are done.
* `Priced`: the new price is there before the older ones go (`TierIsPriced`).

`NoTwins` is inductive with it: an endpoint is created only when the search for its
kind finds neither a stamped nor an older one (`OneEndpointOfAKind`). Keys whose
answers Stripe replays make nothing new; a replayed price is why `call.replayed` is
in `Priced`.

The second, `FoundInv`, is what becomes of what the call found, and of the secrets:

* `SourceKept`, `PricesKept`: up to the scope actions only the destination changes, and
  a price there goes only for the one asked for (`RollbackKeepsWhatRuns`).
* `Enabled`: an endpoint of the destination is disabled only if it was when the call
  began. `Stored`: past the secrets they are the payload of this call, in the project
  or in the file, unless a person has changed them. With `Prepared` both give what
  `SourceIsLast` says of each scope action.
* `Origins`, `FileIsWhole`, `SecretsTogether`: an id stands for one endpoint for ever, a
  file is of one account and of endpoints that no rollback deletes (`Lasting`), and
  the secrets came from a call or, one by one, from such a file (`SecretsStayTogether`).
  The two exceptions are recorded where they arise: the answer to the write of the
  secrets was lost, and a person has copied a part.

**`BoardProofs`**, `FreeformStore` — that the store implements `FreeformBoard`
(`EachCallIsOneStep`) needs that no two calls about one use case are under way together,
which is what `Overlap = FALSE` says; any items, texts, calls and failures. The
refinement mapping is the identity on `board`: the abstract specification says how
the one list may change, and the proof finds, for each step of the store that
changes it, the call that it is. The argument:

* `StoreInv` says of each fragment under way that the use case it is about is still in
  the board as it was sent (`Current`), that a number reserved for a new use case is
  free, and that two calls meet neither in a use case nor in a number (`Beside`).
* Hence an answer worked out on the fragment changes the board as if it had been
  worked out on the board (`ReceivedDone`): the merge leaves what the tool left
  (`MergedItems`), a new criterion is numbered by its use case alone
  (`SameCriterion`), and a use case that may be purged in the list sent may be
  purged in the board.
* Each such change is a step of the board, and leaves the use cases it is not about
  alike and numbers nothing but what was reserved (`Effect`), which is what the other calls
  need (`OthersKept`).

That a number is above all others rests on a finite set of numbers having a greatest
one (`GreatestNumber`), from the well-foundedness of strict inclusion.

`NoNumberTwice` (numbers stay distinct) and `NothingComesBack` (an item keeps its kind,
its number and its use case, and an id taken out of `items.json` never comes back, not
even by an answer to a call that was sent the board from before) have no hypothesis on
overlap. `NumberInv` allows a fragment to be out of date (`SentSome`): it has only ids
that were drawn, and an item that it shares with the board is of one kind in both
(`Akin`). A reserved number is still free, and no two calls hold the same one. The merge
then adds only new ids and otherwise changes states and texts (`MergedIsOfBoth`,
`MergedOK`): an old fragment can spoil an item's state, never its number. Of fragments
`NumberInv` asks less than `StoreInv`; beside a local server nothing is under way and
the lemmas about `StoreInv` are used as they are.

`NothingVanishes` (`RemovedIsKept`) asks nothing of overlap, but one server has the
directory. It names what it excepts: what stood in a file when the server died in a
write of it, and what an unfinished purge was deleting (`cut`). `LocalInv` adds what
the order of the writes gives: wherever it was last written an item is in one of the
files (`Whereabouts`: when `items.json` is still to be written the copy in `archive.json` is
there, and a purge holds what it deletes until it is logged), and all that a file held
that cannot be read any more is among the exceptions (`TornOK`), so that overwriting a
torn archive takes nothing else.

**Only model-checked**: `EveryCallReturns` and `QuietSessionsEnd`, which are liveness
under fairness and out of the prover's reach. `NoDeadlock` is the safety half of the
first: there is always a handler that can go on. The hypotheses that the other theorems
keep are needed. TLC finds counterexamples: with two sessions of one developer to
`StartedIsHeld` and `PurgeLosesOnlyTheLate`; with `Concurrent = TRUE` to
`AcceptanceHolds`, `NotifiedUnlessTrimmed`, `EventsAreTrue`, `EntriesAreKept` and, with
two sessions, `LossesAreFailures`, `DeleteClosesTheGap` and `CleanBatchIsRecorded`; with
`Overlap = TRUE` to `DriftHasACause`, `AttachedIsWhole` and `OneBoard`; and of calls that
met another to `StoryFollows`, `StoryClosesLast` and the three properties of the switch.

## 5. Where the code and its words part

The counterexample of a run, quoted with its lines in `PROJECT.json`:

* **`release_uc` can delete somebody else's reservation.** It checks the owner
  and then deletes by key, without the developer. With two sessions of one
  developer, the second to release deletes what another developer reserved in
  between. (`reservations_release_race`)

Seen while modelling, and not the subject of a run. Where a constant is named, TLC
shows it when the configuration of the module's run is changed that way.

*Reservations and lifecycle*

* A purged UC can be reserved: `reserve_uc` does not look at `use_cases`, and the
  table has no foreign key to it. `start_uc` on a UC the developer already has reads
  the reservation and updates the state without locking it, so a release by the
  developer's other session in between leaves the UC in progress with no
  reservation.
* A plain `reserve_uc` between the purge's read of the reservation and its delete is
  deleted with the UC, or left behind without it. `native_backend.py:1769` says that a
  concurrent `reserve_uc` "either lands before (and the purge is refused) or after
  (and finds nothing)", and `board_operations.py:347` that a purge is of a UC with no
  reservation; the row lock of the purge is on the UC, which `reserve_uc` does not
  touch. `PurgeLosesOnlyTheLate` says that only reservations of that window are lost.
* One release leaves two audit rows: `move_uc(done)` records what `release_uc`
  has recorded (`spec_driven.py:1838`), and `release_uc` records also when it deleted
  nothing. `audit.py:11` says "a DELETE that affected 0 rows is not destruction", and
  `audit.py:133` warns of phantom events. Nor is every deletion on the trail: a
  handler that dies before the row leaves none. `TrailIsComplete` says what is true.
* With `Concurrent = TRUE` in `UcLifecycle`: a UC is completed while its last
  criterion is being marked, neither trigger sees the other's write, and nobody is
  told that it is ready (`NotifiedUnlessTrimmed`); the trigger that voids an
  acceptance does not see one that is being inserted (`AcceptanceHolds`). Deleting the
  last open criterion of a UC can make it ready with no event.
* A story stays behind its UCs when two of them are moved at once, since the call that
  listed first writes last; the next call that meets no other puts it right. A UC that
  a developer starts while `move_us` is at work is sent back to the backlog with
  those that were pending when it listed them.
* With `Concurrent = TRUE` in `UcLifecycle`, a criterion that is marked between the
  purge's reading and its delete is deleted with the rest, though the check and the
  deletes should see "the same state" (`native_backend.py:1768`): it locks the UC's
  row, and not the criteria. A purge also deletes evidence: a receipt stored with a criterion that did not pass
  refuses no purge, though the tool promises "no evidence".

*Criteria*

* AC-100 is renumbered before AC-99, and one of the two is lost with no
  failure and a successful answer (`First = 98`, `Last = 100` and
  `Planned <- TheLastOfAHundred` in `CriteriaList`).
* `delete_ac` renumbers by deletion and creation, so every criterion after the
  deleted one loses its done flag, its receipts and its internal mark; two at once
  work on each other's stale lists (`Concurrent = TRUE`). `import_spec` after `delete_ac` creates
  the freed numbers again, with texts that already stand one number lower.

*Sessions and decisions*

* The key of `session_stopped` is the session (0033:199): a session that is revived and
  stops a second time is not announced again, though 0033:5 has one row per change.
  `FirstStopIsAnnounced` says so.
* The reply of `take_resolved_decisions` that is lost has been handed to nobody and is
  not handed again; an entry resolved in the file is not resolved on the board.
* With `Concurrent = TRUE` in `Decisions` an entry of the queue file is lost
  (`EntriesAreKept`): read, change and write are not one step (queue.py:258).

*Switching and moving*

* Over stdio two sessions are two processes, and nothing locks the three files: one
  answers with success over files that the other has undone, or restores an old
  snapshot over the other's switch. `Path.write_text` empties a file before it
  fills it, so the end of a process can leave any of the three truncated; after that
  no call gets past a registry that cannot be parsed.
* A failed switch leaves the app_spec on the new backend: the document is
  written, the lock file of its signature is not, and the rollback skips the
  place that failed.
* A switch renders the app_spec zone without the mirror and keeps the mirror in
  the registry and the settings, so the three places disagree after a success
  (`Done` says of a switch what it does say). A switch to native leaves a mirror
  of native on native, which `enable_mirror` forbids.
* `orchestrator.py:7` promises that either everything lands or nothing does. The
  configuration is turned over when items have failed, their errors in the
  answer; `_native_pool_from_session` (`tools/migration.py:531`) returns the
  bound method `NativeBackend._pool` in place of a pool, so a native target never gets
  past seeding its developer, and the rollback that should delete the fresh tenant
  raises in the same way.
* The search for a story on Trello can find one of its UCs (`board_helpers.py:114`),
  so a story that failed is passed over by the retry, neither created nor named.
  HTTP clients send a creation again after a timeout; a card whose field was not set is
  not found again: both leave twins of items that had trouble. Criteria of a card that is
  found are not looked at, so what is incomplete stays so.
* A rollback does not tell the id of the board it leaves behind, so a retry without
  one makes another. The commit of a batch inside a migration checks neither of the
  two numbers `commit_migration_session` checks.

*Mirror*

* Only `enable_mirror` attaches the mirror to a session, and nobody reads the
  persisted block later: the writes of every other session are missing on the
  mirror, though the answer says that writes now replicate. `disable_mirror`
  detaches the calling session only. What a session that is not attached creates between
  the reading and the attaching is missing on the mirror from the start
  (`AttachedIsWhole` says what is there), though `migration.py:1866` has it start with the
  same counts. A second backfill refreshes no item that is
  there, and a UC purged while nobody was attached makes `BACKFILL_MISMATCH`
  permanent.
* With `Overlap = TRUE` two sessions that write one item leave the mirror with the
  value of the other one and no failure (`DriftHasACause`).

*FreeForm*

* With `Overlap = TRUE` two `add_ac` on one UC give one number twice.
* The end of the process inside `write_text` leaves a file that cannot be read. With
  `items.json` every later call raises until somebody repairs it. With `archive.json`
  the next `archive_item` takes it for an empty one and writes over it
  (`freeform_backend.py:878`): all that was archived is lost, where the interface says
  "move entry from items.json to archive.json" (`spec_backend.py:534`). Inside a purge
  the copy that `purged.jsonl` should have "so it can be rebuilt by hand" is lost;
  between `archive.json` and `items.json` the item is left in both. Two local servers
  on one directory write over each other's lists. Archiving a UC leaves
  its criteria in the list, and its number is given out again.

*Stripe*

* "The tool is reversible: every mutating step pushes a compensating action onto an
  internal journal" (`switch_account.py:16`). Not these: the prices that were archived
  for a new one, the events, description and metadata of an endpoint that is reused
  (`setup_webhook_endpoints.py:399`), and the values of secrets that existed, for which
  the journal has only a warning. After an abort they stay as they are
  (`AbortKeepsWhatRuns`). An endpoint created before the second kind fails is in no
  journal either.
* The runbook of a failed rollback is never written: `partial_rollback_failure` is
  not set anywhere (`switch_account.py:303`).
  `doc/skills/stripe_switch_account_runbook.md` says that the webhooks stay when the
  secrets cannot be pushed; the code deletes them.
* `supabase_pat` is "required when scope_action != 'keep_old_active'"
  (`switch_account.py:129`) and nothing requires it: without it the secrets go to the
  file and the source is switched off while the project still runs on its secrets.
  `SourceLast` therefore says "handed over", not "in use".
* A push of the secrets whose answer is lost is rolled back as if it had not been made:
  the secrets name endpoints that are deleted. A failed fetch of a secret writes the
  empty string (`setup_webhook_endpoints.py:497`). An endpoint that was disabled is
  reused and stays so.
* A later switch with `supabase_pat` leaves an older `PENDING_SWITCH_SECRETS.md` where
  it is, and who copies from it afterwards puts the project back on that account's
  endpoints, or on a mixture until the last value is in.
* An amount that goes back within the day is answered with
  the archived price. The inner calls do not pass `allow_live_mode`, so a live
  switch always aborts.

## 6. What is not shown

* What a truncated registry does to other projects: it is one file for all of
  them, and no switch or mirror call works until somebody repairs it. The model has
  one project, whose calls stop there.
* Two local servers on one FreeForm directory, each with its own idea of the files.
* In StoryFollow's run, calls of `move_uc` and `move_us` that begin beside an open one:
  there the theorems stand alone.
* Comments, attachments and the audit rows of the AC tools; a failure of the
  audit row is a failed statement in `CriteriaList`.
* `update_ac_batch`, `set_ac_internal`, `add_uc` on a native board and the creation of
  items: their id allocation is read-then-insert, and the primary key makes the
  second insert fail.
* The active-UC marker, a file next to the server; branch registration, an insert
  under a key.
* The exit report of a native project, previews, collision handling and the
  repair tools of a migration: reads, or a person's choice.
* On a mirror: criteria, comments, attachments and modules, which go the way of the items.
* Authentication itself: a handler that checks a token may be refused at that
  point, at any time. The cache that lets a revoked token pass until its entry
  expires, and the spool of the access log, are hazards with no property.
* Two Stripe switches at once: the process has one API key and one call uses it at a
  time, and two processes share nothing but Stripe.
* The contents of texts, and everything formatting.
* The components marked `not_modelled` in `PROJECT.json`, which are parsers,
  clients of a remote service, or reports written by one call.

**Not modelled, and why not more.** A large part of the repository's lines are
text: prompts, schemas, documents, HTTP translation, scanners that are pure
functions of a checkout, an editor extension. They have no steps that could
interleave and no state a second call depends on. The models cover the parts that do.

## 7. Plan

1. **`AccessLog`**: the spool and its replay under one lock, a crash half way: at least once,
   never lost. With it the identity cache: how long after a revocation a call may
   pass.
2. **`WorkQueue`**: `find_next_uc` composed with `UcReservations`, an instance of
   it: what a developer is offered, and that `start_uc` settles it.
3. **FreeForm** stories and epics, which have numbers and fragments of their own.
