---------------------------- MODULE StripeSwitch ----------------------------
(***************************************************************************)
(* switch_stripe_account: moving a project from one Stripe account to      *)
(* another (packages/specbox-stripe-mcp: switch_account.py, with           *)
(* setup_webhook_endpoints.py and setup_products_and_prices.py, which it   *)
(* calls).                                                                 *)
(*                                                                         *)
(* A call sets up the endpoints and the catalog of the destination, writes *)
(* the secrets the project runs with, and only then touches the source.    *)
(* What it creates goes to a journal, which is undone in reverse when a    *)
(* step fails.  Every request may fail, or be done and its answer lost     *)
(* until the retries run out; the process may die anywhere.  One call runs *)
(* at a time (stripe_client.py), any number one after the other.           *)
(*                                                                         *)
(* Stripe remembers for a day the Idempotency-Key of a create: the same    *)
(* request is answered as before, another one under the key is refused.    *)
(***************************************************************************)
EXTENDS Naturals, Sequences, FiniteSets

CONSTANTS
    Accounts,    \* Stripe accounts, each behind an alias
    Kinds,       \* endpoints of the project's account_mode: platform, connect
    Platform,    \* the one that is set up first
    Amounts,     \* amounts the tier of the catalog may cost
    MaxHooks,    \* bound: endpoints ever created
    MaxProducts, \* bound: products of the tier ever created in an account
    MaxCalls,    \* bound: calls of the tool
    None         \* no endpoint, no catalog, no file

HookIds == 1..MaxHooks

Hook == [acct : Accounts, kind : Kinds, stamped : BOOLEAN, fresh : BOOLEAN,
         on : BOOLEAN]
Tier == [n : Nat, active : BOOLEAN, prices : SUBSET Amounts]
Secrets == [acct : Accounts, hook : [Kinds -> 0..MaxHooks]]

ASSUME PlatformIsAKind == Platform \in Kinds
ASSUME NoneIsApart ==
    None \notin Amounts \cup Hook \cup Secrets \cup [acct : Accounts, kind : Kinds]
ASSUME BoundsAreNumbers ==
    MaxHooks \in Nat /\ MaxProducts \in Nat /\ MaxCalls \in Nat
ASSUME KindsAreFew == IsFiniteSet(Kinds) /\ Cardinality(Kinds) \in 1..MaxHooks

VARIABLES
    hooks,      \* webhook endpoints of all accounts, by id, or None: `stamped` is
                \* specbox_account_mode, which those of v0.1 do not have, `fresh`
                \* that an endpoint has the events asked for, `on` that it is enabled
    lastId,     \* the last id given
    catalog,    \* the project's tier in each account: its last product, n, whether
                \* it is active, and the amounts of its prices
    subs,       \* accounts whose subscriptions have not been cancelled
    keys,       \* Idempotency-Keys Stripe remembers
    secrets,    \* secrets of the project's Edge Functions: that of an endpoint is
                \* its id, 0 the empty string
    pending,    \* PENDING_SWITCH_SECRETS.md, or None
    call,       \* the call that runs, or the last one
    calls,      \* calls so far
    origin,     \* (history) what an id stands for, deleted or not
    odd         \* (history) what happened to the secrets since a call wrote them
                \* and went on: "lost" is a write whose answer was, "part" a copy
                \* by hand of some of them, "byhand" one of them all

stripe == <<hooks, lastId, catalog, subs, keys>>
files == <<secrets, pending>>
history == <<origin, odd>>
vars == <<stripe, files, call, calls, history>>

Scopes == {"keep_old_active", "archive_products_only",
           "deactivate_webhooks_only", "full_archive"}

Working == {"inventory", "webhooks", "catalog", "price", "secrets"}
Scoping == {"products", "endpoints", "subscriptions"}
Running == call.at \in Working \cup Scoping \cup {"rollback"}

Keys == [of : {"hook"}, acct : Accounts, kind : Kinds]
        \cup [of : {"product"}, acct : Accounts]
        \cup [of : {"price"}, acct : Accounts, n : Nat, amount : Amounts]

Entries == [op : {"webhook.delete", "product.archive"}, id : Nat]

\* A call that runs, and one that is over.
Open ==
    [at : Working \cup Scoping \cup {"rollback"}, from : Accounts, to : Accounts,
     auto : BOOLEAN, scope : Scopes, want : Amounts \cup {None},
     got : UNION {[some -> 0..MaxHooks] : some \in SUBSET Kinds}, made : SUBSET HookIds,
     newProduct : BOOLEAN, replayed : BOOLEAN,
     journal : Seq(Entries),
     before : [hooks : [HookIds -> Hook \cup {None}], catalog : [Accounts -> Tier],
               subs : SUBSET Accounts]]
Over == [at : {"ok"}, to : Accounts, want : Amounts \cup {None}, replayed : BOOLEAN]
        \cup [at : {"refused", "raised", "aborted", "dead"}]

TypeOK ==
    /\ hooks \in [HookIds -> Hook \cup {None}]
    /\ lastId \in 0..MaxHooks
    /\ catalog \in [Accounts -> Tier]
    /\ subs \subseteq Accounts
    /\ keys \subseteq Keys
    /\ secrets \in Secrets
    /\ pending \in Secrets \cup {None}
    /\ call \in Open \cup Over \cup {[at |-> "none"]}
    /\ calls \in Nat
    /\ origin \in [HookIds -> [acct : Accounts, kind : Kinds] \cup {None}]
    /\ odd \subseteq {"lost", "part", "byhand"}

HooksOf(a) == {i \in HookIds : hooks[i] # None /\ hooks[i].acct = a}

To(stage) == [call EXCEPT !.at = stage]

\* The call is over: what is still told of it.
End(stage) == IF stage # "ok" THEN [at |-> stage]
              ELSE [at |-> stage, to |-> call.to, want |-> call.want,
                    replayed |-> call.replayed]

-----------------------------------------------------------------------------
(***************************************************************************)
(* Starting, and the pre-flight inventory.  The other arguments are chosen *)
(* at the step that looks at them first.                                   *)
(***************************************************************************)

Start(from, to) ==
    /\ ~Running /\ calls < MaxCalls
    /\ from # to
    /\ calls' = calls + 1
    /\ call' = [at |-> "inventory", from |-> from, to |-> to,
                auto |-> FALSE, scope |-> "keep_old_active", want |-> None,
                got |-> [k \in {} |-> 0], made |-> {}, newProduct |-> FALSE,
                replayed |-> FALSE, journal |-> <<>>,
                before |-> [hooks |-> hooks, catalog |-> catalog, subs |-> subs]]
    /\ UNCHANGED <<stripe, files, history>>

\* A listing of the destination that fails ends the call.  What the listing of
\* the source leaves out is, further down, what could not be switched off.
Inventory ==
    /\ call.at = "inventory"
    /\ call' \in {End("refused"), To("webhooks")}
    /\ UNCHANGED <<stripe, files, calls, history>>

\* A request that fails before it has any effect, at any step but the last.
Fail ==
    /\ call.at \in Working \ {"inventory"}
    /\ call' = To("rollback")
    /\ UNCHANGED <<stripe, files, calls, history>>

-----------------------------------------------------------------------------
(***************************************************************************)
(* setup_webhook_endpoints on the destination, kind by kind.               *)
(***************************************************************************)

Exact(k) == {i \in HooksOf(call.to) : hooks[i].kind = k /\ hooks[i].stamped}
Legacy(k) == {i \in HooksOf(call.to) : hooks[i].kind = k /\ ~hooks[i].stamped}
Match(k) == IF Exact(k) # {} THEN Exact(k) ELSE Legacy(k)

\* Platform first.
NextKind == IF Platform \notin DOMAIN call.got THEN Platform
            ELSE CHOOSE k \in Kinds \ DOMAIN call.got : TRUE

Reconciling == call.at = "webhooks" /\ DOMAIN call.got # Kinds

\* Endpoint i is the one of the kind, with the secret that came for it.
Got(i, secret) ==
    [call EXCEPT !.got = [k \in DOMAIN call.got \cup {NextKind} |->
                            IF k = NextKind THEN secret ELSE call.got[k]],
                 !.made = IF hooks[i] = None THEN @ \cup {i} ELSE @]

\* Endpoints that were there are used, whether they are enabled or not, and
\* their events and account_mode set.  Their secret is another request, and when
\* it fails the secret is the empty string.
ReuseHook ==
    /\ Reconciling
    /\ \E i \in Match(NextKind) :
         /\ hooks' = [hooks EXCEPT ![i].stamped = TRUE, ![i].fresh = TRUE]
         /\ \/ \E secret \in {0, i} : call' = Got(i, secret)
            \/ hooks[i] # hooks'[i] /\ call' = To("rollback")
    /\ UNCHANGED <<lastId, catalog, subs, keys, files, calls, history>>

\* The url, the events and the api_version are in the key as well: here they are
\* the same in every call.
HookKey(k) == [of |-> "hook", acct |-> call.to, kind |-> k]

NewHook(k) == [acct |-> call.to, kind |-> k, stamped |-> TRUE, fresh |-> TRUE,
               on |-> TRUE]

\* (mutant) No Idempotency-Key: the retry after a lost answer makes another one.
CreatedWithoutKey(k, i) ==
    [j \in HookIds |-> IF j \in {i, i + 1} THEN NewHook(k) ELSE hooks[j]]

\* Whatever is retried, one endpoint comes of one key.
Created(k, i) == [hooks EXCEPT ![i] = NewHook(k)]

\* The metadata holds the time, so a key of an earlier call is refused.
CreateHook ==
    /\ Reconciling
    /\ Match(NextKind) = {}
    /\ HookKey(NextKind) \notin keys
    /\ lastId < MaxHooks
    /\ lastId' = lastId + 1
    /\ hooks' = Created(NextKind, lastId')
    /\ keys' = keys \cup {HookKey(NextKind)}
    /\ call' \in {Got(lastId', lastId'), To("rollback")}
    /\ origin' = [origin EXCEPT ![lastId'] =
                    [acct |-> call.to, kind |-> NextKind]]
    /\ UNCHANGED <<catalog, subs, files, calls, odd>>

\* (mutant) What was reused is undone as well.
JournalOfAllHooks(ids) == HooksOf(call.to)

JournalOfHooks(ids) == ids

HookEntry(i) == [op |-> "webhook.delete", id |-> i]

\* The catalog next, unless it is left as it is.
Equipped(want, log) ==
    [To(IF want = None THEN "secrets" ELSE "catalog")
        EXCEPT !.want = want, !.made = {}, !.journal = log]

\* Only when all kinds are there does what was created go to the journal.
WebhooksDone ==
    /\ call.at = "webhooks" /\ DOMAIN call.got = Kinds
    /\ \E want \in Amounts \cup {None},
         order \in [1..Cardinality(JournalOfHooks(call.made)) ->
                       JournalOfHooks(call.made)] :
         /\ \A m, n \in DOMAIN order : m < n => order[m] < order[n]
         /\ call' = Equipped(want, [m \in DOMAIN order |-> HookEntry(order[m])])
    /\ UNCHANGED <<stripe, files, calls, history>>

-----------------------------------------------------------------------------
(***************************************************************************)
(* setup_products_and_prices on the destination, for the tier.             *)
(***************************************************************************)

ProductKey == [of |-> "product", acct |-> call.to]

ReuseProduct ==
    /\ call.at = "catalog" /\ catalog[call.to].active
    /\ call' = To("price")
    /\ UNCHANGED <<stripe, files, calls, history>>

\* An archived product is not listed.
CreateProduct ==
    /\ call.at = "catalog" /\ ~catalog[call.to].active
    /\ ProductKey \notin keys
    /\ catalog[call.to].n < MaxProducts
    /\ catalog' = [catalog EXCEPT ![call.to] =
                     [n |-> @.n + 1, active |-> TRUE, prices |-> {}]]
    /\ keys' = keys \cup {ProductKey}
    /\ call' \in {[To("price") EXCEPT !.newProduct = TRUE], To("rollback")}
    /\ UNCHANGED <<hooks, lastId, subs, files, calls, history>>

PriceKey(n) == [of |-> "price", acct |-> call.to, n |-> n, amount |-> call.want]

\* (mutant) The price that matches is archived with the others.
OlderAndMatch(prices) == prices

\* Prices to archive.
Older(prices) == prices \ {call.want}

ProductEntry(n) == [op |-> "product.archive", id |-> n]

CatalogDone(replayed) ==
    [To("secrets") EXCEPT
        !.replayed = replayed,
        !.journal = IF call.newProduct
                      THEN Append(@, ProductEntry(catalog[call.to].n)) ELSE @]

\* A price is never changed: one with the amount is used or created, and the
\* others are archived, as far as Stripe does it.  The create says the same each
\* time, so Stripe may answer with a price that was archived meanwhile.
SetPrice ==
    LET tier == catalog[call.to]
        key == PriceKey(tier.n)
        replayed == call.want \notin tier.prices /\ key \in keys
    IN  /\ call.at = "price"
        /\ call.want \in tier.prices \/
             \A k \in keys : k.of = "price" /\ k.acct = call.to /\ k.amount = call.want
                               => k = key
        /\ \/ \E gone \in SUBSET Older(tier.prices) :
                /\ catalog' = [catalog EXCEPT ![call.to].prices =
                     (IF replayed THEN @ ELSE @ \cup {call.want}) \ gone]
                /\ call' = CatalogDone(replayed)
           \/ /\ call.want \notin tier.prices /\ ~replayed
              /\ catalog' = [catalog EXCEPT ![call.to].prices = @ \cup {call.want}]
              /\ call' = To("rollback")
        /\ keys' = IF call.want \in tier.prices THEN keys ELSE keys \cup {key}
        /\ UNCHANGED <<hooks, lastId, subs, files, calls, history>>

-----------------------------------------------------------------------------
(***************************************************************************)
(* The secrets of the project, then the source account.                    *)
(***************************************************************************)

\* (mutant) The key of the source goes with the endpoints of the destination.
PayloadOfSource == [acct |-> call.from, hook |-> call.got]

Payload == [acct |-> call.to, hook |-> call.got]

\* Going on to the source with a scope_action.
ToScope(auto, scope) ==
    LET on == [call EXCEPT !.auto = auto, !.scope = scope]
    IN  CASE scope = "keep_old_active" -> End("ok")
          [] scope = "deactivate_webhooks_only" -> [on EXCEPT !.at = "endpoints"]
          [] OTHER -> [on EXCEPT !.at = "products"]

\* (mutant) A write of the secrets that fails does not stop the switch.
PushSecretsOrNot ==
    /\ call.at = "secrets"
    /\ secrets' \in {secrets, Payload}
    /\ odd' = {}
    /\ \E scope \in Scopes : call' = ToScope(TRUE, scope)
    /\ UNCHANGED <<stripe, pending, calls, origin>>

\* One POST for all of them, which leaves an older file where it is.  Its journal
\* entry is never undone: nothing that comes after it raises.  When its answer is
\* lost the endpoints are undone, the secrets are not.
PushSecrets ==
    /\ call.at = "secrets"
    /\ secrets' = Payload
    /\ \/ odd' = {} /\ \E scope \in Scopes : call' = ToScope(TRUE, scope)
       \/ odd' = {"lost"} /\ call' = To("rollback")
    /\ UNCHANGED <<stripe, pending, calls, origin>>

\* Without access to Supabase, whatever the scope_action, the secrets are left in a
\* file.  An OSError is not the exception that is undone; the write may have
\* emptied an older file by then.
LeaveSecrets ==
    /\ call.at = "secrets"
    /\ \/ /\ pending' = Payload
          /\ \E scope \in Scopes : call' = ToScope(FALSE, scope)
       \/ pending' \in {pending, None} /\ call' = End("raised")
    /\ UNCHANGED <<stripe, secrets, calls, history>>

AfterProducts ==
    IF call.scope = "full_archive" THEN To("endpoints") ELSE End("ok")

\* What fails from here on is only logged.
ScopeProducts ==
    /\ call.at = "products"
    /\ catalog' \in {catalog, [catalog EXCEPT ![call.from].active = FALSE]}
    /\ call' = AfterProducts
    /\ UNCHANGED <<hooks, lastId, subs, keys, files, calls, history>>

ScopeEndpoints ==
    /\ call.at = "endpoints"
    /\ \E done \in SUBSET HooksOf(call.from) :
         hooks' = [i \in HookIds |-> IF i \in done THEN [hooks[i] EXCEPT !.on = FALSE]
                                     ELSE hooks[i]]
    /\ call' = IF call.scope = "full_archive" THEN To("subscriptions") ELSE End("ok")
    /\ UNCHANGED <<lastId, catalog, subs, keys, files, calls, history>>

ScopeSubscriptions ==
    /\ call.at = "subscriptions"
    /\ subs' \in {subs, subs \ {call.from}}
    /\ call' = End("ok")
    /\ UNCHANGED <<hooks, lastId, catalog, keys, files, calls, history>>

-----------------------------------------------------------------------------
(***************************************************************************)
(* _rollback: the journal in reverse, whatever fails.                      *)
(***************************************************************************)

Undone(entry) ==
    CASE entry.op = "webhook.delete" ->
           hooks' = [hooks EXCEPT ![entry.id] = None] /\ UNCHANGED catalog
      [] entry.op = "product.archive" ->
           catalog' = [catalog EXCEPT ![call.to].active = FALSE] /\ UNCHANGED hooks

\* The last entry is undone, or it is not and the rollback goes on: no runbook
\* is written, as partial_rollback_failure is never set.
RollbackEntry ==
    /\ call.at = "rollback" /\ call.journal # <<>>
    /\ Undone(call.journal[Len(call.journal)]) \/ UNCHANGED <<hooks, catalog>>
    /\ call' = [call EXCEPT !.journal = SubSeq(@, 1, Len(@) - 1)]
    /\ UNCHANGED <<lastId, subs, keys, files, calls, history>>

RollbackDone ==
    /\ call.at = "rollback" /\ call.journal = <<>>
    /\ call' = End("aborted")
    /\ UNCHANGED <<stripe, files, calls, history>>

-----------------------------------------------------------------------------
\* The process ends in the middle of a call: nothing is undone.  The file it was
\* writing may be left empty.
Die ==
    /\ Running
    /\ call' = End("dead")
    /\ pending' \in {pending} \cup (IF call.at = "secrets" THEN {None} ELSE {})
    /\ UNCHANGED <<stripe, secrets, calls, history>>

\* A person enters the secrets one by one from the file, the key of its account or
\* that of an endpoint, at any time: nothing tells which call left it.
CopySecret ==
    /\ pending # None
    /\ \/ secrets' = [secrets EXCEPT !.acct = pending.acct]
       \/ \E k \in Kinds : secrets' = [secrets EXCEPT !.hook[k] = pending.hook[k]]
    /\ secrets' # secrets
    /\ odd' = IF secrets' = pending THEN {"byhand"} ELSE odd \cup {"part"}
    /\ UNCHANGED <<stripe, pending, call, calls, origin>>

\* Once done, the file is deleted.
DeleteFile ==
    /\ pending # None /\ secrets = pending
    /\ pending' = None
    /\ UNCHANGED <<stripe, secrets, call, calls, history>>

\* A day passes.
ForgetKeys ==
    /\ ~Running /\ keys # {}
    /\ keys' = {}
    /\ UNCHANGED <<hooks, lastId, catalog, subs, files, call, calls, history>>

\* The project runs on one account, its endpoints of this version, of v0.1 (with
\* or without the events asked for), its tier with one price.
Init ==
    \E a \in Accounts, p \in Amounts, stamped, fresh \in BOOLEAN,
      id \in [Kinds -> 1..Cardinality(Kinds)] :
        /\ \A k, l \in Kinds : k # l => id[k] # id[l]
        /\ id[Platform] = 1
        /\ hooks = [i \in HookIds |->
                      IF \E k \in Kinds : id[k] = i
                        THEN [acct |-> a, kind |-> CHOOSE k \in Kinds : id[k] = i,
                              stamped |-> stamped, fresh |-> fresh, on |-> TRUE]
                        ELSE None]
        /\ lastId = Cardinality(Kinds)
        /\ catalog = [b \in Accounts |->
                        IF b = a THEN [n |-> 1, active |-> TRUE, prices |-> {p}]
                        ELSE [n |-> 0, active |-> FALSE, prices |-> {}]]
        /\ subs = Accounts
        /\ keys = {}
        /\ secrets = [acct |-> a, hook |-> id]
        /\ pending = None
        /\ call = [at |-> "none"]
        /\ calls = 0
        /\ origin = [i \in HookIds |-> IF hooks[i] = None THEN None
                                      ELSE [acct |-> a, kind |-> hooks[i].kind]]
        /\ odd = {}

StartSwitch ==
    \E from, to \in Accounts : Start(from, to)

Webhooks == ReuseHook \/ CreateHook \/ WebhooksDone
Catalog == ReuseProduct \/ CreateProduct \/ SetPrice
WriteSecrets == PushSecrets \/ LeaveSecrets
Scope == ScopeProducts \/ ScopeEndpoints \/ ScopeSubscriptions
Rollback == RollbackEntry \/ RollbackDone
ByHand == CopySecret \/ DeleteFile

Next == \/ StartSwitch \/ Inventory \/ Webhooks \/ Catalog \/ WriteSecrets
        \/ Scope \/ Fail \/ Rollback \/ Die \/ ByHand \/ ForgetKeys

Spec == Init /\ [][Next]_vars

-----------------------------------------------------------------------------
(***************************************************************************)
(* Properties.                                                             *)
(***************************************************************************)

\* However often a switch is repeated, after losses, aborts and crashes, an
\* account has one endpoint of a kind: what a call left is found by the next
\* (setup_webhook_endpoints: idempotency).
NoTwins ==
    \A i, j \in HookIds :
        /\ hooks[i] # None /\ hooks[j] # None
        /\ hooks[i].acct = hooks[j].acct /\ hooks[i].kind = hooks[j].kind
        => i = j

\* A switch that is undone leaves the source as it was, and in the destination
\* each endpoint and product of before is there, as active as it was.  The journal
\* is not a compensation of every mutating step, as switch_account says it is: the
\* prices that SetPrice archived for the one asked for stay archived, the events
\* and account_mode of a reused endpoint stay changed, and what the write of the
\* secrets replaced is lost.
AbortKeepsWhatRuns ==
    call.at = "rollback" =>
        /\ subs = call.before.subs
        /\ \A i \in HookIds : call.before.hooks[i] # None =>
             /\ hooks[i] # None /\ hooks[i].on = call.before.hooks[i].on
             /\ hooks[i].acct = call.to \/ hooks[i] = call.before.hooks[i]
        /\ \A a \in Accounts \ {call.to} : catalog[a] = call.before.catalog[a]
        /\ LET was == call.before.catalog[call.to]
                is == catalog[call.to]
           IN  was.active =>
                 /\ is.active /\ is.n = was.n
                 /\ \A p \in was.prices \ is.prices :
                      /\ call.want \notin {None, p}
                      /\ call.want \in is.prices \/ call.replayed

\* Endpoint i is there for kind k with the events of today, and its secret is the
\* one the call goes on with, or the empty string after a failed request.  It is
\* enabled, unless it was disabled when the call began: reuse does not enable it.
Serves(i, k) ==
    /\ i \in Exact(k) /\ hooks[i].fresh
    /\ call.got[k] \in {0, i}
    /\ ~hooks[i].on => call.before.hooks[i] # None /\ ~call.before.hooks[i].on

\* The secrets went where this call sends them, and only a person changed that:
\* with access to Supabase they are those of the project, but for what was copied
\* from an older file since; without, they wait in the file until they are.
HandedOver == IF call.auto THEN secrets = Payload \/ odd # {}
              ELSE Payload \in {pending, secrets}

\* The source is switched off last: what it had goes only when the destination has
\* an endpoint of each kind and its secrets were handed over (switch_account:
\* scope_action on the source once the destination is ready).  Handed over is not
\* in use: the call scopes the source without supabase_pat as well, which its
\* docstring requires, and the project may then still run on the source's.
SourceLast ==
    [][LET a == call.from
           loses == \/ \E i \in HooksOf(a) :
                         hooks[i].on /\ (hooks'[i] = None \/ ~hooks'[i].on)
                    \/ catalog[a].active /\ ~catalog'[a].active
                    \/ a \in subs \ subs'
       IN  Running /\ loses =>
             /\ call.at \in Scoping
             /\ \A k \in Kinds : \E i \in HookIds : Serves(i, k)
             /\ HandedOver]_vars

\* The project never runs with the key of one account and the endpoints of
\* another, or an endpoint of another kind: every event would be refused.  Only
\* copying the secrets one by one mixes them.  Nor with the secret of an endpoint
\* that was deleted, unless the answer to the write of the secrets was lost, and
\* the endpoints that they are of undone.
SecretsBelongTogether ==
    \A k \in Kinds : LET i == secrets.hook[k]
                     IN  i # 0 =>
                           /\ origin[i].kind = k
                           /\ origin[i].acct = secrets.acct \/ "part" \in odd
                           /\ hooks[i] # None \/ "lost" \in odd

\* A switch that says it is done leaves the tier with its product and with a
\* price of the amount asked for, unless Stripe answered with the price that an
\* earlier call of that day had created (setup_products_and_prices: a new price
\* first, then the archive of the previous ones).
CatalogIsPriced ==
    call.at \in Scoping \cup {"ok"} /\ call.want # None =>
        /\ catalog[call.to].active
        /\ call.want \in catalog[call.to].prices \/ call.replayed

=============================================================================
