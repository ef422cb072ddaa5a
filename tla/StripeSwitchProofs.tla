------------------------- MODULE StripeSwitchProofs -------------------------
(***************************************************************************)
(* Proofs about StripeSwitch, for all accounts, kinds of endpoint, amounts *)
(* and bounds: whatever fails, is lost or dies, and however often the      *)
(* switch is made again.                                                   *)
(***************************************************************************)
EXTENDS StripeSwitch, FiniteSetTheorems, SequenceTheorems, TLAPS

\* Ids are given in order.
LaterAreUnused == \A i \in HookIds : i > lastId => hooks[i] = None

Apart == Running => call.from # call.to

\* An endpoint this call has made.
New(i) ==
    /\ i \in HookIds /\ i <= lastId
    /\ call.before.hooks[i] = None
    /\ hooks[i] # None => hooks[i].acct = call.to

\* Up to the source, what was there before the call is there, and the journal has
\* nothing of it.
Undoable ==
    call.at \in Working \cup {"rollback"} =>
        /\ \A i \in HookIds : call.before.hooks[i] # None =>
             i <= lastId /\ hooks[i] # None /\ hooks[i].on = call.before.hooks[i].on
        /\ \A a \in Accounts : call.before.catalog[a].active =>
             catalog[a].active /\ catalog[a].n = call.before.catalog[a].n
        /\ subs = call.before.subs
        /\ \A i \in call.made : New(i)
        /\ \A m \in 1..Len(call.journal) :
             LET entry == call.journal[m]
             IN  IF entry.op = "webhook.delete" THEN New(entry.id)
                 ELSE ~call.before.catalog[call.to].active
        /\ call.newProduct => ~call.before.catalog[call.to].active

\* The kinds that are done have their endpoint, and its secret or none.
Prepared ==
    call.at \in Working \cup Scoping =>
        /\ \A k \in DOMAIN call.got :
             \E i \in Exact(k) : hooks[i].fresh /\ call.got[k] \in {0, i}
        /\ call.at \notin {"inventory", "webhooks"} => DOMAIN call.got = Kinds

\* The price is there before the older ones go.
Priced ==
    /\ call.at = "price" => call.want # None /\ catalog[call.to].active
    /\ call.at = "catalog" => call.want # None
    /\ call.at \in {"secrets", "ok"} \cup Scoping /\ call.want # None =>
         /\ catalog[call.to].active
         /\ call.want \in catalog[call.to].prices \/ call.replayed

IInv ==
    /\ TypeOK
    /\ LaterAreUnused
    /\ NoTwins
    /\ Apart
    /\ Undoable
    /\ Prepared
    /\ Priced

-----------------------------------------------------------------------------
(***************************************************************************)
(* Types.                                                                  *)
(***************************************************************************)

Past == {"refused", "ok", "raised", "aborted", "dead"}

LEMMA RunningIsOpen == ASSUME TypeOK, Running PROVE call \in Open
  BY DEF TypeOK, Running, Open, Over, Working, Scoping

\* Going on to a stage changes nothing but the stage.
LEMMA ToStage ==
  ASSUME call \in Open, NEW stage \in Working \cup Scoping \cup {"rollback"}
  PROVE  /\ To(stage) \in Open
         /\ To(stage).at = stage /\ To(stage).from = call.from
         /\ To(stage).to = call.to /\ To(stage).auto = call.auto
         /\ To(stage).scope = call.scope /\ To(stage).want = call.want
         /\ To(stage).got = call.got /\ To(stage).made = call.made
         /\ To(stage).newProduct = call.newProduct
         /\ To(stage).replayed = call.replayed
         /\ To(stage).journal = call.journal /\ To(stage).before = call.before
  BY DEF To, Open

LEMMA EndStage ==
  ASSUME call \in Open, NEW stage \in Past
  PROVE  /\ End(stage) \in Over
         /\ End(stage).at = stage
         /\ stage = "ok" => /\ End(stage).to = call.to
                            /\ End(stage).want = call.want
                            /\ End(stage).replayed = call.replayed
  BY DEF End, Over, Open, Past

LEMMA KindIsNext == ASSUME call \in Open, Reconciling
                    PROVE  NextKind \in Kinds \ DOMAIN call.got
<1>1. DOMAIN call.got \subseteq Kinds
  BY DEF Open
<1>2. \E k \in Kinds : k \notin DOMAIN call.got
  BY <1>1 DEF Reconciling
<1>. QED  BY <1>2, PlatformIsAKind DEF NextKind

\* One more kind has its endpoint.
LEMMA GotKind ==
  ASSUME call \in Open, Reconciling, NEW i \in HookIds, NEW secret \in 0..MaxHooks
  PROVE  /\ Got(i, secret) \in Open
         /\ Got(i, secret).at = call.at /\ Got(i, secret).from = call.from
         /\ Got(i, secret).to = call.to /\ Got(i, secret).want = call.want
         /\ Got(i, secret).newProduct = call.newProduct
         /\ Got(i, secret).journal = call.journal
         /\ Got(i, secret).before = call.before
         /\ Got(i, secret).made = IF hooks[i] = None THEN call.made \cup {i}
                                                   ELSE call.made
         /\ DOMAIN Got(i, secret).got = DOMAIN call.got \cup {NextKind}
         /\ Got(i, secret).got[NextKind] = secret
         /\ \A k \in DOMAIN call.got : Got(i, secret).got[k] = call.got[k]
<1>. DEFINE got == [k \in DOMAIN call.got \cup {NextKind} |->
                      IF k = NextKind THEN secret ELSE call.got[k]]
            made == IF hooks[i] = None THEN call.made \cup {i} ELSE call.made
<1>1. NextKind \in Kinds \ DOMAIN call.got
  BY KindIsNext
<1>2. PICK S \in SUBSET Kinds : call.got \in [S -> 0..MaxHooks]
  BY DEF Open
<1>3. got \in [S \cup {NextKind} -> 0..MaxHooks] /\ S \cup {NextKind} \subseteq Kinds
  BY <1>1, <1>2
<1>4. got \in UNION {[some -> 0..MaxHooks] : some \in SUBSET Kinds}
  BY <1>3
<1>5. made \in SUBSET HookIds
  BY DEF Open
<1>6. Got(i, secret) = [call EXCEPT !.got = got, !.made = made]
  BY DEF Got, Open
<1>7. /\ DOMAIN got = DOMAIN call.got \cup {NextKind} /\ got[NextKind] = secret
      /\ \A k \in DOMAIN call.got : got[k] = call.got[k]
  BY <1>1
<1>. HIDE DEF got, made
<1>8. /\ Got(i, secret) \in Open
      /\ Got(i, secret).got = got /\ Got(i, secret).made = made
      /\ Got(i, secret).at = call.at /\ Got(i, secret).from = call.from
      /\ Got(i, secret).to = call.to /\ Got(i, secret).want = call.want
      /\ Got(i, secret).newProduct = call.newProduct
      /\ Got(i, secret).journal = call.journal
      /\ Got(i, secret).before = call.before
  BY <1>4, <1>5, <1>6 DEF Open
<1>. QED  BY <1>7, <1>8 DEF made

LEMMA InitTypes == Init => TypeOK
<1>. SUFFICES ASSUME Init PROVE TypeOK
  OBVIOUS
<1>1. PICK a \in Accounts, p \in Amounts, stamped \in BOOLEAN, fresh \in BOOLEAN,
           id \in [Kinds -> 1..Cardinality(Kinds)] :
        /\ \A k, l \in Kinds : k # l => id[k] # id[l]
        /\ id[Platform] = 1
        /\ hooks = [i \in HookIds |->
                      IF \E k \in Kinds : id[k] = i
                        THEN [acct |-> a, kind |-> CHOOSE k \in Kinds : id[k] = i,
                              stamped |-> stamped, fresh |-> fresh, on |-> TRUE]
                        ELSE None]
        /\ lastId = Cardinality(Kinds)
        /\ catalog = [b \in Accounts |->
                        IF b = a THEN [n |-> 1, active |-> TRUE, prices |-> {p}]
                        ELSE [n |-> 0, active |-> FALSE, prices |-> {}]]
        /\ subs = Accounts
        /\ keys = {}
        /\ secrets = [acct |-> a, hook |-> id]
        /\ pending = None
        /\ call = [at |-> "none"]
        /\ calls = 0
        /\ origin = [i \in HookIds |-> IF hooks[i] = None THEN None
                                      ELSE [acct |-> a, kind |-> hooks[i].kind]]
        /\ odd = {}
  BY DEF Init
<1>2. 1..Cardinality(Kinds) \subseteq 1..MaxHooks /\ Cardinality(Kinds) \in 0..MaxHooks
  BY KindsAreFew, BoundsAreNumbers
<1>3. hooks \in [HookIds -> Hook \cup {None}]
  BY <1>1 DEF Hook
<1>4. id \in [Kinds -> 0..MaxHooks]
  BY <1>2
<1>5. secrets \in Secrets
  BY <1>1, <1>4 DEF Secrets
<1>6. catalog \in [Accounts -> Tier]
  BY <1>1 DEF Tier
<1>7. origin \in [HookIds -> [acct : Accounts, kind : Kinds] \cup {None}]
  <2>1. \A i \in HookIds : hooks[i] # None => hooks[i].kind \in Kinds
    BY <1>3 DEF Hook
  <2>. QED  BY <1>1, <2>1
<1>. QED  BY <1>1, <1>2, <1>3, <1>5, <1>6, <1>7 DEF TypeOK

\* What a call starts with.
LEMMA StartTypes ==
  ASSUME TypeOK, NEW from \in Accounts, NEW to \in Accounts, Start(from, to)
  PROVE  TypeOK' /\ call' \in Open
<1>1. (<<>>) \in Seq(Entries)
  OBVIOUS
<1>2. [k \in {} |-> 0] \in UNION {[some -> 0..MaxHooks] : some \in SUBSET Kinds}
  <2>1. [k \in {} |-> 0] \in [{} -> 0..MaxHooks] /\ {} \in SUBSET Kinds
    OBVIOUS
  <2>. QED  BY <2>1
<1>3. [hooks |-> hooks, catalog |-> catalog, subs |-> subs]
        \in [hooks : [HookIds -> Hook \cup {None}], catalog : [Accounts -> Tier],
             subs : SUBSET Accounts]
  BY DEF TypeOK
<1>4. call' \in Open
  <2>. DEFINE none == [k \in {} |-> 0]
              before == [hooks |-> hooks, catalog |-> catalog, subs |-> subs]
  <2>1. call' = [at |-> "inventory", from |-> from, to |-> to,
                auto |-> FALSE, scope |-> "keep_old_active", want |-> None,
                got |-> none, made |-> {}, newProduct |-> FALSE,
                replayed |-> FALSE, journal |-> <<>>, before |-> before]
    BY DEF Start
  <2>2. /\ none \in UNION {[some -> 0..MaxHooks] : some \in SUBSET Kinds}
        /\ before \in [hooks : [HookIds -> Hook \cup {None}],
                       catalog : [Accounts -> Tier], subs : SUBSET Accounts]
    BY <1>2, <1>3
  <2>. HIDE DEF none, before
  <2>. QED  BY <1>1, <2>1, <2>2 DEF Open, Working, Scopes
<1>. QED  BY <1>4 DEF Start, stripe, files, history, TypeOK

\* The order of the journal names endpoints.
LEMMA JournalTypes ==
  ASSUME call \in Open, NEW order \in [1..Cardinality(call.made) -> call.made],
         NEW log, log = [m \in DOMAIN order |-> HookEntry(order[m])]
  PROVE  /\ log \in Seq(Entries)
         /\ \A m \in 1..Len(log) : /\ log[m].op = "webhook.delete"
                                   /\ log[m].id \in call.made
<1>1. IsFiniteSet(call.made) /\ call.made \subseteq HookIds
  BY FS_Interval, FS_Subset, BoundsAreNumbers DEF HookIds, Open
<1>2. PICK n \in Nat : n = Cardinality(call.made)
  BY <1>1, FS_CardinalityType
<1>3. \A m \in 1..n : /\ log[m] \in Entries
                      /\ log[m].op = "webhook.delete" /\ log[m].id \in call.made
  BY <1>1, <1>2, BoundsAreNumbers DEF HookEntry, HookIds, Entries
<1>4. log \in [1..n -> Entries]
  BY <1>2, <1>3
<1>5. log \in Seq(Entries)
  BY <1>4, SeqDef
<1>6. Len(log) \in Nat /\ DOMAIN log = 1..Len(log)
  BY <1>5, LenProperties
<1>. QED  BY <1>3, <1>4, <1>5, <1>6

\* The endpoints are there, and the call goes on to the catalog or the secrets.
LEMMA GoOn ==
  ASSUME call \in Open, NEW want \in Amounts \cup {None}, NEW log \in Seq(Entries)
  PROVE  /\ Equipped(want, log) \in Open
         /\ Equipped(want, log).at = IF want = None THEN "secrets" ELSE "catalog"
         /\ Equipped(want, log).want = want /\ Equipped(want, log).made = {}
         /\ Equipped(want, log).journal = log
         /\ Equipped(want, log).got = call.got
         /\ Equipped(want, log).from = call.from
         /\ Equipped(want, log).to = call.to
         /\ Equipped(want, log).newProduct = call.newProduct
         /\ Equipped(want, log).before = call.before
<1>. DEFINE stage == IF want = None THEN "secrets" ELSE "catalog"
<1>1. stage \in Working
  BY DEF Working
<1>. HIDE DEF stage
<1>2. /\ To(stage) \in Open /\ To(stage).at = stage /\ To(stage).got = call.got
      /\ To(stage).from = call.from /\ To(stage).to = call.to
      /\ To(stage).newProduct = call.newProduct /\ To(stage).before = call.before
  BY <1>1, ToStage
<1>3. PICK c, next :
        /\ c \in Open /\ c = To(stage) /\ next = Equipped(want, log)
        /\ next = [c EXCEPT !.want = want, !.made = {}, !.journal = log]
  <2>1. Equipped(want, log) =
          [To(stage) EXCEPT !.want = want, !.made = {}, !.journal = log]
    BY DEF Equipped, stage
  <2>. QED  BY ZenonT(60), <1>2, <2>1
<1>4. next.at = c.at /\ next.want = want /\ next.made = {} /\ next.journal = log
  BY <1>3 DEF Open
<1>5. /\ next.got = c.got /\ next.from = c.from /\ next.to = c.to
      /\ next.newProduct = c.newProduct /\ next.before = c.before
  BY <1>3 DEF Open
<1>6. next \in Open
  BY <1>3 DEF Open
<1>7. c.at = IF want = None THEN "secrets" ELSE "catalog"
  BY <1>2, <1>3 DEF stage
<1>. QED  BY <1>2, <1>3, <1>4, <1>5, <1>6, <1>7

\* The steps on the destination type.
LEMMA WebhooksTypes == ASSUME TypeOK, Webhooks PROVE TypeOK'
<1>. call \in Open
  BY RunningIsOpen DEF Webhooks, ReuseHook, CreateHook, WebhooksDone, Reconciling,
                       Running, Working
<1>1. CASE ReuseHook
  <2>1. PICK i \in Match(NextKind) :
          /\ hooks' = [hooks EXCEPT ![i].stamped = TRUE, ![i].fresh = TRUE]
          /\ \/ \E secret \in {0, i} : call' = Got(i, secret)
             \/ call' = To("rollback")
    BY <1>1 DEF ReuseHook
  <2>2. i \in HookIds /\ hooks[i] \in Hook
    BY DEF Match, Exact, Legacy, HooksOf, TypeOK
  <2>3. hooks' \in [HookIds -> Hook \cup {None}]
    BY <2>1, <2>2 DEF TypeOK, Hook
  <2>4. call' \in Open
    <3>1. \A secret \in {0, i} : secret \in 0..MaxHooks
      BY <2>2, BoundsAreNumbers DEF HookIds
    <3>2. \A secret \in {0, i} : Got(i, secret) \in Open
      BY <1>1, <2>2, <3>1, GotKind DEF ReuseHook
    <3>. QED  BY <2>1, <3>2, ToStage
  <2>. QED  BY <1>1, <2>3, <2>4 DEF ReuseHook, files, history, TypeOK
<1>2. CASE CreateHook
  <2>1. NextKind \in Kinds /\ call.to \in Accounts /\ lastId' \in HookIds
    BY <1>2, KindIsNext, BoundsAreNumbers DEF CreateHook, Open, HookIds, TypeOK
  <2>2. NewHook(NextKind) \in Hook /\ HookKey(NextKind) \in Keys
    BY <2>1 DEF NewHook, Hook, HookKey, Keys
  <2>3. hooks' \in [HookIds -> Hook \cup {None}] /\ keys' \subseteq Keys
    BY <1>2, <2>1, <2>2 DEF CreateHook, Created, TypeOK
  <2>4. call' \in Open
    <3>1. PICK i \in HookIds : i = lastId'
      BY <2>1
    <3>2. i \in 0..MaxHooks
      BY BoundsAreNumbers DEF HookIds
    <3>3. Got(i, i) \in Open
      BY <1>2, <3>2, GotKind DEF CreateHook
    <3>. QED  BY <1>2, <3>1, <3>3, ToStage DEF CreateHook
  <2>5. lastId' \in 0..MaxHooks
    BY <2>1, BoundsAreNumbers DEF HookIds
  <2>6. origin' \in [HookIds -> [acct : Accounts, kind : Kinds] \cup {None}]
    <3>1. [acct |-> call.to, kind |-> NextKind] \in [acct : Accounts, kind : Kinds]
      BY <2>1
    <3>2. origin \in [HookIds -> [acct : Accounts, kind : Kinds] \cup {None}]
      BY DEF TypeOK
    <3>. QED  BY <1>2, <3>1, <3>2 DEF CreateHook
  <2>. QED  BY <1>2, <2>3, <2>4, <2>5, <2>6 DEF CreateHook, files, TypeOK
<1>3. CASE WebhooksDone
  <2>1. PICK want \in Amounts \cup {None},
             order \in [1..Cardinality(call.made) -> call.made] :
          call' = Equipped(want, [m \in DOMAIN order |-> HookEntry(order[m])])
    BY <1>3 DEF WebhooksDone, JournalOfHooks
  <2>2. PICK log \in Seq(Entries) : log = [m \in DOMAIN order |-> HookEntry(order[m])]
    BY JournalTypes
  <2>3. call' \in Open
    BY <2>1, <2>2, GoOn
  <2>. QED  BY <1>3, <2>3 DEF WebhooksDone, stripe, files, history, TypeOK
<1>. QED  BY <1>1, <1>2, <1>3 DEF Webhooks

\* The catalog is done, and its product goes to the journal if it is new.
LEMMA CatalogEnds ==
  ASSUME call \in Open, catalog \in [Accounts -> Tier], NEW replayed \in BOOLEAN
  PROVE  /\ CatalogDone(replayed) \in Open
         /\ CatalogDone(replayed).at = "secrets"
         /\ CatalogDone(replayed).replayed = replayed
         /\ CatalogDone(replayed).from = call.from
         /\ CatalogDone(replayed).to = call.to
         /\ CatalogDone(replayed).want = call.want
         /\ CatalogDone(replayed).got = call.got
         /\ CatalogDone(replayed).made = call.made
         /\ CatalogDone(replayed).newProduct = call.newProduct
         /\ CatalogDone(replayed).before = call.before
         /\ CatalogDone(replayed).journal =
              IF call.newProduct
                THEN Append(call.journal, ProductEntry(catalog[call.to].n))
                ELSE call.journal
<1>. DEFINE log == IF call.newProduct
                     THEN Append(call.journal, ProductEntry(catalog[call.to].n))
                     ELSE call.journal
<1>1. "secrets" \in Working
  BY DEF Working
<1>2. /\ To("secrets") \in Open /\ To("secrets").at = "secrets"
      /\ To("secrets").from = call.from /\ To("secrets").to = call.to
      /\ To("secrets").want = call.want /\ To("secrets").got = call.got
      /\ To("secrets").made = call.made
      /\ To("secrets").newProduct = call.newProduct
      /\ To("secrets").journal = call.journal
      /\ To("secrets").before = call.before
  BY <1>1, ToStage
<1>3. call.to \in Accounts /\ call.journal \in Seq(Entries)
  BY DEF Open
<1>4. ProductEntry(catalog[call.to].n) \in Entries
  BY <1>3 DEF ProductEntry, Entries, Tier
<1>5. log \in Seq(Entries)
  BY <1>3, <1>4, AppendProperties
<1>6. CatalogDone(replayed) =
        [To("secrets") EXCEPT !.replayed = replayed, !.journal = log]
  BY <1>2 DEF CatalogDone, Open
<1>. HIDE DEF log
<1>7. /\ CatalogDone(replayed) \in Open
      /\ CatalogDone(replayed).at = "secrets"
      /\ CatalogDone(replayed).replayed = replayed
      /\ CatalogDone(replayed).from = call.from
      /\ CatalogDone(replayed).to = call.to
      /\ CatalogDone(replayed).want = call.want
      /\ CatalogDone(replayed).got = call.got
      /\ CatalogDone(replayed).made = call.made
      /\ CatalogDone(replayed).newProduct = call.newProduct
      /\ CatalogDone(replayed).before = call.before
      /\ CatalogDone(replayed).journal = log
  BY <1>2, <1>5, <1>6 DEF Open
<1>. QED  BY <1>7 DEF log

LEMMA CatalogTypes == ASSUME TypeOK, Priced, Catalog PROVE TypeOK'
<1>0. call.at \in Working
  BY DEF Catalog, ReuseProduct, CreateProduct, SetPrice, Working
<1>. call \in Open
  BY <1>0, RunningIsOpen DEF Running
<1>1. call.to \in Accounts /\ catalog[call.to] \in Tier
  BY DEF Open, TypeOK
<1>2. "price" \in Working
  BY DEF Working
<1>3. CASE ReuseProduct
  BY <1>2, <1>3, ToStage DEF ReuseProduct, stripe, files, history, TypeOK
<1>4. CASE CreateProduct
  <2>1. catalog' \in [Accounts -> Tier]
    BY <1>1, <1>4 DEF CreateProduct, TypeOK, Tier
  <2>2. keys' \subseteq Keys
    BY <1>1, <1>4 DEF CreateProduct, ProductKey, Keys, TypeOK
  <2>3. To("price") \in Open /\ To("rollback") \in Open
    BY <1>2, ToStage
  <2>4. [To("price") EXCEPT !.newProduct = TRUE] \in Open
    BY <2>3 DEF Open
  <2>5. call' \in Open
    BY <1>4, <2>3, <2>4 DEF CreateProduct
  <2>. QED  BY <1>4, <2>1, <2>2, <2>5 DEF CreateProduct, files, history, TypeOK
<1>5. CASE SetPrice
  <2>1. call.want \in Amounts
    BY <1>5 DEF SetPrice, Priced, Open
  <2>2. keys' \subseteq Keys
    BY <1>1, <1>5, <2>1 DEF SetPrice, PriceKey, Keys, TypeOK, Tier
  <2>3. catalog' \in [Accounts -> Tier]
    <3>1. \A prices \in SUBSET Amounts :
            [catalog EXCEPT ![call.to].prices = prices] \in [Accounts -> Tier]
      BY <1>1 DEF TypeOK, Tier
    <3>2. \E prices \in SUBSET Amounts :
            catalog' = [catalog EXCEPT ![call.to].prices = prices]
      <4>1. catalog[call.to].prices \in SUBSET Amounts
        BY <1>1 DEF Tier
      <4>. DEFINE replayed == call.want \notin catalog[call.to].prices
                              /\ PriceKey(catalog[call.to].n) \in keys
      <4>2. CASE \E gone \in SUBSET Older(catalog[call.to].prices) :
                   catalog' = [catalog EXCEPT ![call.to].prices =
                     (IF replayed THEN @ ELSE @ \cup {call.want}) \ gone]
        BY <2>1, <4>1, <4>2
      <4>3. CASE catalog' = [catalog EXCEPT ![call.to].prices = @ \cup {call.want}]
        BY <2>1, <4>1, <4>3
      <4>. QED  BY <1>5, <4>2, <4>3 DEF SetPrice
    <3>. QED  BY <3>1, <3>2
  <2>4. call' \in Open
    <3>1. \A replayed \in BOOLEAN : CatalogDone(replayed) \in Open
      BY CatalogEnds DEF TypeOK
    <3>2. \/ \E replayed \in BOOLEAN : call' = CatalogDone(replayed)
          \/ call' = To("rollback")
      BY <1>5 DEF SetPrice
    <3>. QED  BY <3>1, <3>2, ToStage
  <2>. QED  BY <1>5, <2>2, <2>3, <2>4 DEF SetPrice, files, history, TypeOK
<1>. QED  BY <1>3, <1>4, <1>5 DEF Catalog

\* Past the secrets, a call is over or goes on to the source.
LEMMA Scoped ==
  ASSUME call \in Open, NEW auto \in BOOLEAN, NEW scope \in Scopes
  PROVE  \/ ToScope(auto, scope) = End("ok")
         \/ /\ ToScope(auto, scope) \in Open
            /\ ToScope(auto, scope).at \in {"products", "endpoints"}
            /\ ToScope(auto, scope).auto = auto
            /\ ToScope(auto, scope).from = call.from
            /\ ToScope(auto, scope).to = call.to
            /\ ToScope(auto, scope).want = call.want
            /\ ToScope(auto, scope).got = call.got
            /\ ToScope(auto, scope).replayed = call.replayed
            /\ ToScope(auto, scope).before = call.before
<1>. DEFINE on == [call EXCEPT !.auto = auto, !.scope = scope]
<1>1. /\ on \in Open /\ on.auto = auto
      /\ on.from = call.from /\ on.to = call.to /\ on.want = call.want
      /\ on.got = call.got /\ on.replayed = call.replayed /\ on.before = call.before
  BY DEF Open
<1>2. \/ ToScope(auto, scope) = End("ok")
      \/ ToScope(auto, scope) = [on EXCEPT !.at = "endpoints"]
      \/ ToScope(auto, scope) = [on EXCEPT !.at = "products"]
  BY DEF ToScope
<1>. HIDE DEF on
<1>3. CASE ToScope(auto, scope) = End("ok")
  BY <1>3
<1>4. ASSUME NEW stage \in {"products", "endpoints"},
             ToScope(auto, scope) = [on EXCEPT !.at = stage]
      PROVE  /\ ToScope(auto, scope) \in Open
             /\ ToScope(auto, scope).at = stage
             /\ ToScope(auto, scope).auto = auto
             /\ ToScope(auto, scope).from = call.from
             /\ ToScope(auto, scope).to = call.to
             /\ ToScope(auto, scope).want = call.want
             /\ ToScope(auto, scope).got = call.got
             /\ ToScope(auto, scope).replayed = call.replayed
             /\ ToScope(auto, scope).before = call.before
  BY <1>1, <1>4 DEF Open, Scoping
<1>. QED  BY <1>2, <1>3, <1>4

LEMMA PayloadIsSecrets ==
  ASSUME call \in Open, Prepared, call.at \in {"secrets"} \cup Scoping
  PROVE  Payload \in Secrets /\ DOMAIN call.got = Kinds
<1>1. DOMAIN call.got = Kinds
  BY DEF Prepared, Working, Scoping
<1>. QED  BY <1>1 DEF Open, Payload, Secrets

LEMMA SecretsTypes == ASSUME TypeOK, Prepared, WriteSecrets PROVE TypeOK'
<1>0. call.at = "secrets"
  BY DEF WriteSecrets, PushSecrets, LeaveSecrets
<1>. call \in Open
  BY <1>0, RunningIsOpen DEF Running, Working
<1>1. Payload \in Secrets
  BY <1>0, PayloadIsSecrets
<1>2. \A auto \in BOOLEAN, scope \in Scopes :
        ToScope(auto, scope) \in Open \cup Over
  BY Scoped, EndStage DEF Past
<1>3. CASE PushSecrets
  <2>1. To("rollback") \in Open
    BY ToStage
  <2>2. TRUE \in BOOLEAN
    OBVIOUS
  <2>3. call' \in Open \cup Over
    BY <1>2, <1>3, <2>1, <2>2 DEF PushSecrets
  <2>. QED  BY <1>1, <1>3, <2>3 DEF PushSecrets, stripe, TypeOK
<1>4. CASE LeaveSecrets
  BY <1>1, <1>2, <1>4, EndStage DEF LeaveSecrets, stripe, history, TypeOK, Past
<1>. QED  BY <1>3, <1>4 DEF WriteSecrets

LEMMA ScopeTypes == ASSUME TypeOK, Scope PROVE TypeOK'
<1>0. call.at \in Scoping
  BY DEF Scope, ScopeProducts, ScopeEndpoints, ScopeSubscriptions, Scoping
<1>. call \in Open
  BY <1>0, RunningIsOpen DEF Running
<1>1. /\ To("endpoints") \in Open /\ To("subscriptions") \in Open
      /\ End("ok") \in Over
  BY ToStage, EndStage DEF Scoping, Past
<1>2. CASE ScopeProducts
  <2>1. catalog' \in [Accounts -> Tier]
    <3>1. [catalog EXCEPT ![call.from].active = FALSE] \in [Accounts -> Tier]
      BY ZenonT(60) DEF TypeOK, Tier, Open
    <3>. QED  BY <1>2, <3>1 DEF ScopeProducts, TypeOK
  <2>. QED  BY <1>1, <1>2, <2>1 DEF ScopeProducts, AfterProducts, files, history, TypeOK
<1>3. CASE ScopeEndpoints
  <2>1. hooks' \in [HookIds -> Hook \cup {None}]
    <3>1. PICK done \in SUBSET HooksOf(call.from) :
            hooks' = [i \in HookIds |-> IF i \in done THEN [hooks[i] EXCEPT !.on = FALSE]
                                        ELSE hooks[i]]
      BY <1>3 DEF ScopeEndpoints
    <3>2. \A i \in done : [hooks[i] EXCEPT !.on = FALSE] \in Hook
      BY DEF HooksOf, TypeOK, Hook
    <3>. QED  BY <3>1, <3>2 DEF TypeOK
  <2>. QED  BY <1>1, <1>3, <2>1 DEF ScopeEndpoints, files, history, TypeOK
<1>4. CASE ScopeSubscriptions
  BY <1>1, <1>4 DEF ScopeSubscriptions, files, history, TypeOK
<1>. QED  BY <1>2, <1>3, <1>4 DEF Scope

\* One entry less to undo.
LEMMA OneLess ==
  ASSUME call \in Open, call.journal # <<>>,
         NEW next, next = [call EXCEPT !.journal = SubSeq(@, 1, Len(@) - 1)]
  PROVE  /\ next \in Open
         /\ next.at = call.at /\ next.from = call.from /\ next.to = call.to
         /\ next.made = call.made /\ next.newProduct = call.newProduct
         /\ next.before = call.before /\ next.want = call.want
         /\ next.replayed = call.replayed
         /\ Len(next.journal) = Len(call.journal) - 1
         /\ \A m \in 1..Len(next.journal) : /\ m \in 1..Len(call.journal)
                                            /\ next.journal[m] = call.journal[m]
         /\ Len(call.journal) \in 1..Len(call.journal)
         /\ call.journal[Len(call.journal)] \in Entries
<1>1. call.journal \in Seq(Entries)
  BY DEF Open
<1>2. PICK n \in Nat : n = Len(call.journal)
  BY <1>1, LenProperties
<1>3. n # 0
  BY <1>1, <1>2, EmptySeq
<1>. DEFINE rest == SubSeq(call.journal, 1, n - 1)
<1>4. /\ rest \in Seq(Entries) /\ Len(rest) = n - 1
      /\ \A m \in 1..(n - 1) : rest[m] = call.journal[m]
  <2>1. 1 \in Int /\ n - 1 \in Int
    OBVIOUS
  <2>2. \A m \in 1..(n - 1) : m \in 1..Len(call.journal)
    BY <1>2
  <2>. QED  BY <1>1, <1>2, <1>3
<1>. HIDE DEF rest
<1>5. next = [call EXCEPT !.journal = rest]
  BY <1>2 DEF rest, Open
<1>6. /\ next \in Open /\ next.journal = rest
      /\ next.at = call.at /\ next.from = call.from /\ next.to = call.to
      /\ next.made = call.made /\ next.newProduct = call.newProduct
      /\ next.before = call.before /\ next.want = call.want
      /\ next.replayed = call.replayed
  BY <1>4, <1>5 DEF Open
<1>7. call.journal[n] \in Entries
  BY <1>1, <1>2, <1>3, ElementOfSeq
<1>. QED  BY <1>2, <1>3, <1>4, <1>6, <1>7

LEMMA RollbackTypes == ASSUME TypeOK, Rollback PROVE TypeOK'
<1>0. call.at = "rollback"
  BY DEF Rollback, RollbackEntry, RollbackDone
<1>. call \in Open
  BY <1>0, RunningIsOpen DEF Running
<1>1. CASE RollbackEntry
  <2>1. PICK next : next = [call EXCEPT !.journal = SubSeq(@, 1, Len(@) - 1)]
    OBVIOUS
  <2>2. next \in Open /\ call' = next
    BY <1>1, <2>1, OneLess DEF RollbackEntry
  <2>3. hooks' \in [HookIds -> Hook \cup {None}] /\ catalog' \in [Accounts -> Tier]
    <3>1. [catalog EXCEPT ![call.to].active = FALSE] \in [Accounts -> Tier]
      BY ZenonT(60) DEF TypeOK, Tier, Open
    <3>2. \A i : [hooks EXCEPT ![i] = None] \in [HookIds -> Hook \cup {None}]
      BY DEF TypeOK
    <3>3. call.journal[Len(call.journal)] \in Entries
      BY <1>1, <2>1, OneLess DEF RollbackEntry
    <3>. QED  BY <1>1, <3>1, <3>2, <3>3 DEF RollbackEntry, Undone, Entries, TypeOK
  <2>. QED  BY <1>1, <2>2, <2>3 DEF RollbackEntry, files, history, TypeOK
<1>2. CASE RollbackDone
  BY <1>2, EndStage DEF RollbackDone, stripe, files, history, TypeOK, Past
<1>. QED  BY <1>1, <1>2 DEF Rollback

LEMMA OtherTypes ==
  ASSUME TypeOK, Inventory \/ Fail \/ Die \/ ByHand \/ ForgetKeys
  PROVE  TypeOK'
<1>1. ASSUME Running PROVE call \in Open
  BY <1>1, RunningIsOpen
<1>2. CASE Inventory
  <2>1. call \in Open /\ "webhooks" \in Working
    BY <1>1, <1>2 DEF Inventory, Running, Working
  <2>2. To("webhooks") \in Open /\ End("refused") \in Over
    BY <2>1, ToStage, EndStage DEF Past
  <2>. QED  BY <1>2, <2>2 DEF Inventory, stripe, files, history, TypeOK
<1>3. CASE Fail
  <2>1. call \in Open
    BY <1>1, <1>3 DEF Fail, Running
  <2>. QED  BY <1>3, <2>1, ToStage DEF Fail, stripe, files, history, TypeOK
<1>4. CASE Die
  <2>1. call \in Open
    BY <1>1, <1>4 DEF Die
  <2>2. End("dead") \in Over
    BY <2>1, EndStage DEF Past
  <2>. QED  BY <1>4, <2>2 DEF Die, stripe, files, history, TypeOK
<1>5. CASE CopySecret
  <2>1. pending \in Secrets /\ secrets \in Secrets
    BY <1>5 DEF CopySecret, TypeOK
  <2>2. [secrets EXCEPT !.acct = pending.acct] \in Secrets
    BY <2>1 DEF Secrets
  <2>3. \A k \in Kinds : [secrets EXCEPT !.hook[k] = pending.hook[k]] \in Secrets
    BY <2>1 DEF Secrets
  <2>4. secrets' \in Secrets
    BY <1>5, <2>2, <2>3 DEF CopySecret
  <2>5. odd' \subseteq {"lost", "part", "byhand"}
    BY <1>5 DEF CopySecret, TypeOK
  <2>. QED  BY <1>5, <2>4, <2>5 DEF CopySecret, stripe, TypeOK
<1>7. CASE DeleteFile
  BY <1>7 DEF DeleteFile, stripe, history, TypeOK
<1>6. CASE ForgetKeys
  BY <1>6 DEF ForgetKeys, files, history, TypeOK
<1>. QED  BY <1>2, <1>3, <1>4, <1>5, <1>6, <1>7 DEF ByHand

LEMMA NextTypes == ASSUME TypeOK, Prepared, Priced, [Next]_vars PROVE TypeOK'
<1>1. CASE StartSwitch
  BY <1>1, StartTypes DEF StartSwitch
<1>2. CASE UNCHANGED vars
  BY <1>2 DEF vars, stripe, files, history, TypeOK
<1>. QED  BY <1>1, <1>2, WebhooksTypes, CatalogTypes, SecretsTypes, ScopeTypes,
             RollbackTypes, OtherTypes DEF Next

-----------------------------------------------------------------------------
(***************************************************************************)
(* What a step leaves as it was.                                           *)
(***************************************************************************)

\* No endpoint is new, and none moves.
NoneIsNew ==
    /\ lastId' = lastId
    /\ \A i \in HookIds :
         hooks'[i] # None => /\ hooks[i] # None
                             /\ hooks'[i].acct = hooks[i].acct
                             /\ hooks'[i].kind = hooks[i].kind

LEMMA EndpointsKept ==
  ASSUME LaterAreUnused, NoTwins, NoneIsNew PROVE LaterAreUnused' /\ NoTwins'
<1>1. LaterAreUnused'
  BY DEF LaterAreUnused, NoneIsNew, HookIds
<1>2. NoTwins'
  <2>. SUFFICES ASSUME NEW i \in HookIds, NEW j \in HookIds,
                       hooks'[i] # None, hooks'[j] # None,
                       hooks'[i].acct = hooks'[j].acct, hooks'[i].kind = hooks'[j].kind
                PROVE  i = j
    BY DEF NoTwins, HookIds
  <2>. QED  BY DEF NoTwins, NoneIsNew
<1>. QED  BY <1>1, <1>2

\* An endpoint that is as it should be stays so.
GoodStay ==
    \A i \in HookIds :
        hooks[i] # None => /\ hooks'[i] # None
                           /\ hooks'[i].acct = hooks[i].acct
                           /\ hooks'[i].kind = hooks[i].kind
                           /\ hooks[i].stamped => hooks'[i].stamped
                           /\ hooks[i].fresh => hooks'[i].fresh

LEMMA ExactKept ==
  ASSUME GoodStay, call'.to = call.to, NEW k \in Kinds
  PROVE  \A i \in Exact(k) :
           i \in HookIds /\ i \in Exact(k)' /\ (hooks[i].fresh => hooks'[i].fresh)
  BY DEF GoodStay, Exact, HooksOf, HookIds

LEMMA PreparedKept ==
  ASSUME call \in Open, Prepared, GoodStay, call.at \in Working \cup Scoping,
         call'.to = call.to, call'.got = call.got,
         \/ call'.at \in {"inventory", "webhooks"}
         \/ DOMAIN call.got = Kinds
  PROVE  Prepared'
<1>1. ASSUME NEW k \in DOMAIN call.got
      PROVE  \E i \in Exact(k)' : hooks'[i].fresh /\ call.got[k] \in {0, i}
  <2>1. k \in Kinds
    BY DEF Open
  <2>2. PICK i \in Exact(k) : hooks[i].fresh /\ call.got[k] \in {0, i}
    BY DEF Prepared
  <2>. QED  BY <2>1, <2>2, ExactKept
<1>. QED  BY <1>1 DEF Prepared, Exact, HooksOf, HookIds

\* A call that is over promises nothing but its prices.
LEMMA Ended ==
  ASSUME call'.at \in Past PROVE Apart' /\ Undoable' /\ Prepared'
  BY DEF Past, Apart, Running, Undoable, Prepared, Working, Scoping

\* While nothing changes at Stripe, all can be undone as before.
LEMMA UndoableKept ==
  ASSUME Undoable, UNCHANGED stripe, call.at \in Working \cup {"rollback"},
         call'.to = call.to, call'.made = call.made, call'.journal = call.journal,
         call'.before = call.before, call'.newProduct = call.newProduct
  PROVE  Undoable'
  BY DEF Undoable, New, stripe, HookIds

LEMMA NewKept ==
  ASSUME NoneIsNew, call'.before = call.before, call'.to = call.to, NEW i, New(i)
  PROVE  New(i)'
  BY DEF New, NoneIsNew

LEMMA Unmoved ==
  ASSUME IInv, UNCHANGED <<hooks, lastId>>
  PROVE  NoneIsNew /\ GoodStay /\ LaterAreUnused' /\ NoTwins'
<1>1. NoneIsNew /\ GoodStay
  BY DEF NoneIsNew, GoodStay
<1>. QED  BY <1>1, EndpointsKept DEF IInv

-----------------------------------------------------------------------------
(***************************************************************************)
(* The steps.                                                              *)
(***************************************************************************)

LEMMA InitIsGood == Init => IInv
<1>. SUFFICES ASSUME Init PROVE IInv
  OBVIOUS
<1>1. PICK a \in Accounts, p \in Amounts, stamped \in BOOLEAN, fresh \in BOOLEAN,
           id \in [Kinds -> 1..Cardinality(Kinds)] :
        /\ \A k, l \in Kinds : k # l => id[k] # id[l]
        /\ id[Platform] = 1
        /\ hooks = [i \in HookIds |->
                      IF \E k \in Kinds : id[k] = i
                        THEN [acct |-> a, kind |-> CHOOSE k \in Kinds : id[k] = i,
                              stamped |-> stamped, fresh |-> fresh, on |-> TRUE]
                        ELSE None]
        /\ lastId = Cardinality(Kinds)
        /\ catalog = [b \in Accounts |->
                        IF b = a THEN [n |-> 1, active |-> TRUE, prices |-> {p}]
                        ELSE [n |-> 0, active |-> FALSE, prices |-> {}]]
        /\ subs = Accounts
        /\ keys = {}
        /\ secrets = [acct |-> a, hook |-> id]
        /\ pending = None
        /\ call = [at |-> "none"]
        /\ calls = 0
        /\ origin = [i \in HookIds |-> IF hooks[i] = None THEN None
                                      ELSE [acct |-> a, kind |-> hooks[i].kind]]
        /\ odd = {}
  BY DEF Init
<1>2. PICK n \in Nat : n = Cardinality(Kinds)
  BY KindsAreFew, BoundsAreNumbers
<1>3. \A k \in Kinds : id[k] \in 1..n
  BY <1>1, <1>2
<1>4. \A i \in HookIds : hooks[i] # None =>
        \E k \in Kinds : id[k] = i /\ hooks[i].kind = k /\ hooks[i].acct = a
  BY <1>1
<1>5. LaterAreUnused
  BY <1>1, <1>2, <1>3, <1>4 DEF LaterAreUnused
<1>6. NoTwins
  BY <1>4 DEF NoTwins
<1>8. Apart /\ Undoable /\ Prepared /\ Priced
  BY <1>1 DEF Apart, Running, Undoable, Prepared, Priced, Working, Scoping
<1>. QED  BY <1>5, <1>6, <1>8, InitTypes DEF IInv

LEMMA StartKeeps == ASSUME IInv, StartSwitch PROVE IInv'
<1>1. PICK from \in Accounts, to \in Accounts : Start(from, to)
  BY DEF StartSwitch
<1>2. TypeOK' /\ call' \in Open
  BY <1>1, StartTypes DEF IInv
<1>3. LaterAreUnused' /\ NoTwins'
  BY <1>1, Unmoved DEF Start, stripe
<1>. DEFINE none == [k \in {} |-> 0]
            before == [hooks |-> hooks, catalog |-> catalog, subs |-> subs]
<1>4. /\ call'.at = "inventory" /\ call'.from = from /\ call'.to = to
      /\ call'.got = none /\ call'.made = {} /\ call'.newProduct = FALSE
      /\ call'.journal = <<>> /\ call'.before = before
  <2>. HIDE DEF none, before
  <2>1. call' = [at |-> "inventory", from |-> from, to |-> to,
                auto |-> FALSE, scope |-> "keep_old_active", want |-> None,
                got |-> none, made |-> {}, newProduct |-> FALSE,
                replayed |-> FALSE, journal |-> <<>>, before |-> before]
    BY <1>1 DEF Start, none, before
  <2>. QED  BY <2>1
<1>5. DOMAIN none = {}
  OBVIOUS
<1>6. before.hooks = hooks /\ before.catalog = catalog /\ before.subs = subs
  OBVIOUS
<1>. HIDE DEF none, before
<1>7. Apart'
  BY <1>1, <1>4 DEF Apart, Start
<1>8. Undoable'
  <2>1. UNCHANGED <<hooks, lastId, catalog, subs>>
    BY <1>1 DEF Start, stripe
  <2>2. \A i \in HookIds : hooks[i] # None => i <= lastId
    <3>1. lastId \in Nat /\ HookIds \subseteq Nat
      BY BoundsAreNumbers DEF HookIds, IInv, TypeOK
    <3>. QED  BY <3>1 DEF IInv, LaterAreUnused
  <2>3. 1..Len(<<>>) = {}
    OBVIOUS
  <2>. QED  BY <1>4, <1>6, <2>1, <2>2, <2>3 DEF Undoable, HookIds
<1>9. Prepared' /\ Priced'
  BY <1>4, <1>5 DEF Prepared, Priced, Scoping
<1>. QED  BY <1>2, <1>3, <1>7, <1>8, <1>9 DEF IInv

\* The call goes on to the rollback, or is over, and nothing else happens.
LEMMA LeaveKeeps ==
  ASSUME IInv, TypeOK', call \in Open, UNCHANGED stripe,
         \/ call.at \in Working /\ call' = To("rollback")
         \/ \E stage \in Past \ {"ok"} : call' = End(stage)
  PROVE  IInv'
<1>1. LaterAreUnused' /\ NoTwins'
  BY Unmoved DEF stripe
<1>2. CASE call.at \in Working /\ call' = To("rollback")
  <2>1. /\ call' \in Open /\ call'.at = "rollback"
        /\ call'.from = call.from /\ call'.to = call.to /\ call'.made = call.made
        /\ call'.newProduct = call.newProduct
        /\ call'.journal = call.journal /\ call'.before = call.before
    BY <1>2, ToStage
  <2>3. Apart'
    BY <1>2, <2>1 DEF IInv, Apart, Running
  <2>4. Undoable'
    BY <1>2, <2>1, UndoableKept DEF IInv
  <2>5. Prepared' /\ Priced'
    BY <2>1 DEF Prepared, Priced, Working, Scoping
  <2>. QED  BY <1>1, <2>3, <2>4, <2>5 DEF IInv
<1>3. ASSUME NEW stage \in Past \ {"ok"}, call' = End(stage) PROVE IInv'
  <2>1. call' \in Over /\ call'.at = stage
    BY <1>3, EndStage
  <2>3. Apart' /\ Undoable' /\ Prepared'
    BY <2>1, Ended
  <2>4. Priced'
    BY <2>1 DEF Priced, Past, Scoping
  <2>. QED  BY <1>1, <2>3, <2>4 DEF IInv
<1>. QED  BY <1>2, <1>3

LEMMA InventoryKeeps == ASSUME IInv, Inventory PROVE IInv'
<1>. call \in Open
  BY RunningIsOpen DEF Inventory, Running, Working, IInv
<1>1. CASE call' = End("refused")
  BY <1>1, LeaveKeeps, OtherTypes DEF Inventory, Past, IInv
<1>2. CASE call' = To("webhooks")
  <2>0. "webhooks" \in Working /\ call.at \in Working
    BY DEF Inventory, Working
  <2>1. /\ call'.at = "webhooks" /\ call'.from = call.from /\ call'.to = call.to
        /\ call'.made = call.made /\ call'.newProduct = call.newProduct
        /\ call'.got = call.got
        /\ call'.journal = call.journal /\ call'.before = call.before
    BY <1>2, <2>0, ToStage
  <2>2. LaterAreUnused' /\ NoTwins' /\ GoodStay
    BY Unmoved DEF Inventory, stripe
  <2>3. TypeOK'
    BY OtherTypes DEF IInv
  <2>4. Apart'
    BY <2>0, <2>1 DEF IInv, Apart, Running
  <2>5. Undoable'
    BY <2>0, <2>1, UndoableKept DEF IInv, Inventory
  <2>6. Prepared'
    BY <2>0, <2>1, <2>2, PreparedKept DEF IInv
  <2>7. Priced'
    BY <2>1 DEF Priced, Scoping
  <2>. QED  BY <2>2, <2>3, <2>4, <2>5, <2>6, <2>7 DEF IInv
<1>. QED  BY <1>1, <1>2 DEF Inventory

LEMMA QuietKeeps ==
  ASSUME IInv, Fail \/ Die \/ RollbackDone \/ ForgetKeys
  PROVE  IInv'
<1>1. CASE Fail
  <2>1. call \in Open /\ call.at \in Working
    BY <1>1, RunningIsOpen DEF Fail, Running, IInv
  <2>. QED  BY <1>1, <2>1, LeaveKeeps, OtherTypes DEF Fail, IInv
<1>2. CASE Die
  <2>1. call \in Open /\ "dead" \in Past \ {"ok"}
    BY <1>2, RunningIsOpen DEF Die, IInv, Past
  <2>. QED  BY <1>2, <2>1, LeaveKeeps, OtherTypes DEF Die, IInv
<1>3. CASE RollbackDone
  <2>1. call \in Open /\ "aborted" \in Past \ {"ok"}
    BY <1>3, RunningIsOpen DEF RollbackDone, Running, IInv, Past
  <2>. QED  BY <1>3, <2>1, LeaveKeeps, RollbackTypes DEF RollbackDone, Rollback, IInv
<1>4. CASE ForgetKeys
  <2>1. LaterAreUnused' /\ NoTwins' /\ NoneIsNew
    BY <1>4, Unmoved DEF ForgetKeys
  <2>2. TypeOK'
    BY <1>4, OtherTypes DEF IInv
  <2>3. call.at \notin Working \cup Scoping \cup {"rollback"}
    BY <1>4 DEF ForgetKeys, Running
  <2>4. Apart' /\ Undoable' /\ Prepared'
    BY <1>4, <2>3 DEF ForgetKeys, Apart, Running, Undoable, Prepared
  <2>5. Priced'
    BY <1>4 DEF ForgetKeys, Priced, IInv
  <2>. QED  BY <2>1, <2>2, <2>4, <2>5 DEF IInv
<1>. QED  BY <1>1, <1>2, <1>3, <1>4

\* A person changes nothing at Stripe.
LEMMA ByHandKeeps == ASSUME IInv, ByHand PROVE IInv'
<1>0. UNCHANGED <<hooks, lastId, catalog, subs, call>>
  BY DEF ByHand, CopySecret, DeleteFile, stripe
<1>1. LaterAreUnused' /\ NoTwins'
  BY <1>0, Unmoved
<1>2. TypeOK'
  BY OtherTypes DEF IInv
<1>3. Apart' /\ Priced'
  BY <1>0 DEF IInv, Apart, Running, Priced
<1>4. Undoable'
  BY <1>0 DEF IInv, Undoable, New, HookIds
<1>5. Prepared'
  BY <1>0 DEF IInv, Prepared, Exact, HooksOf, HookIds
<1>. QED  BY <1>1, <1>2, <1>3, <1>4, <1>5 DEF IInv

\* What was there is there, and what is to be undone is of this call.
LEMMA UndoableOn ==
  ASSUME Undoable, call.at \in Working \cup {"rollback"}, UNCHANGED <<catalog, subs>>,
         call'.to = call.to, call'.before = call.before,
         call'.journal = call.journal, call'.newProduct = call.newProduct,
         \A j \in HookIds : call.before.hooks[j] # None =>
           j <= lastId' /\ hooks'[j] # None /\ hooks'[j].on = call.before.hooks[j].on,
         \A j : New(j) => New(j)',
         \A j \in call'.made : New(j)'
  PROVE  Undoable'
<1>1. \A m \in 1..Len(call.journal) :
        LET entry == call.journal[m]
        IN  IF entry.op = "webhook.delete" THEN New(entry.id)'
            ELSE ~call.before.catalog[call.to].active
  BY DEF Undoable
<1>. QED  BY <1>1 DEF Undoable, HookIds

\* One more kind has its endpoint, as it should be.
LEMMA GotPrepared ==
  ASSUME IInv, call \in Open, Reconciling, GoodStay, call.at \in Working,
         NEW i \in HookIds, NEW secret \in {0, i}, NEW kind, kind = NextKind,
         call' = Got(i, secret),
         hooks'[i] # None, hooks'[i].acct = call.to, hooks'[i].kind = kind,
         hooks'[i].stamped = TRUE, hooks'[i].fresh = TRUE
  PROVE  Prepared' /\ Priced'
<1>0. secret \in 0..MaxHooks /\ call.at = "webhooks"
  BY BoundsAreNumbers DEF HookIds, Reconciling
<1>1. /\ Got(i, secret).at = call.at /\ Got(i, secret).to = call.to
      /\ DOMAIN Got(i, secret).got = DOMAIN call.got \cup {NextKind}
      /\ Got(i, secret).got[NextKind] = secret
      /\ \A k \in DOMAIN call.got : Got(i, secret).got[k] = call.got[k]
  BY <1>0, GotKind
<1>2. /\ call'.at = "webhooks" /\ call'.to = call.to
      /\ DOMAIN call'.got = DOMAIN call.got \cup {kind}
      /\ call'.got[kind] = secret
      /\ \A k \in DOMAIN call.got : call'.got[k] = call.got[k]
  BY <1>0, <1>1
<1>3. ASSUME NEW k \in DOMAIN call.got
      PROVE  \E j \in Exact(k)' : hooks'[j].fresh /\ call'.got[k] \in {0, j}
  <2>1. k \in Kinds
    BY DEF Open
  <2>2. PICK j \in Exact(k) : hooks[j].fresh /\ call.got[k] \in {0, j}
    BY DEF Prepared, IInv
  <2>. QED  BY <1>2, <2>1, <2>2, ExactKept
<1>4. i \in Exact(kind)' /\ hooks'[i].fresh
  BY <1>2 DEF Exact, HooksOf, HookIds
<1>5. Prepared'
  BY <1>2, <1>3, <1>4 DEF Prepared, Exact, HooksOf, HookIds
<1>. QED  BY <1>2, <1>5 DEF Priced, Scoping

LEMMA ReuseHookKeeps == ASSUME IInv, ReuseHook PROVE IInv'
<1>0. Reconciling /\ call.at = "webhooks" /\ call.at \in Working
  BY DEF ReuseHook, Reconciling, Working
<1>. call \in Open
  BY <1>0, RunningIsOpen DEF Running, IInv
<1>1. PICK i \in Match(NextKind) :
        /\ hooks' = [hooks EXCEPT ![i].stamped = TRUE, ![i].fresh = TRUE]
        /\ \/ \E secret \in {0, i} : call' = Got(i, secret)
           \/ call' = To("rollback")
  BY DEF ReuseHook
<1>2. PICK kind : kind = NextKind
  OBVIOUS
<1>3. /\ i \in HookIds /\ hooks[i] \in Hook /\ hooks[i] # None
      /\ hooks[i].acct = call.to /\ hooks[i].kind = kind
  BY <1>2 DEF Match, Exact, Legacy, HooksOf, IInv, TypeOK
<1>4. /\ \A j \in HookIds : j # i => hooks'[j] = hooks[j]
      /\ hooks'[i] \in Hook /\ hooks'[i].acct = call.to
      /\ hooks'[i].kind = kind /\ hooks'[i].on = hooks[i].on
      /\ hooks'[i].stamped = TRUE /\ hooks'[i].fresh = TRUE
  BY <1>1, <1>3 DEF IInv, TypeOK, Hook
<1>5. hooks'[i] # None
  BY <1>4, NoneIsApart
<1>6. NoneIsNew /\ GoodStay
  BY <1>3, <1>4, <1>5 DEF NoneIsNew, GoodStay, ReuseHook
<1>7. TypeOK' /\ LaterAreUnused' /\ NoTwins'
  BY <1>6, WebhooksTypes, EndpointsKept DEF IInv, Webhooks, ReuseHook
<1>8. ASSUME call'.to = call.to, call'.from = call.from, call'.made = call.made,
             call'.before = call.before, call'.journal = call.journal,
             call'.newProduct = call.newProduct
      PROVE  Apart' /\ Undoable'
  <2>1. Apart'
    BY <1>0, <1>8 DEF IInv, Apart, Running
  <2>2. \A j \in HookIds : call.before.hooks[j] # None =>
             j <= lastId' /\ hooks'[j] # None /\ hooks'[j].on = call.before.hooks[j].on
    BY <1>0, <1>4, <1>5 DEF IInv, Undoable, ReuseHook
  <2>3. \A j : New(j) => New(j)'
    BY <1>6, <1>8, NewKept
  <2>4. \A j \in call'.made : New(j)'
    BY <1>0, <1>8, <2>3 DEF IInv, Undoable
  <2>. QED  BY <1>0, <1>8, <2>1, <2>2, <2>3, <2>4, UndoableOn DEF IInv, ReuseHook
<1>9. CASE call' = To("rollback")
  <2>1. /\ call'.at = "rollback" /\ call'.from = call.from /\ call'.to = call.to
        /\ call'.made = call.made /\ call'.newProduct = call.newProduct
        /\ call'.journal = call.journal /\ call'.before = call.before
    BY <1>9, ToStage
  <2>2. Prepared' /\ Priced'
    BY <2>1 DEF Prepared, Priced, Working, Scoping
  <2>. QED  BY <1>7, <1>8, <2>1, <2>2 DEF IInv
<1>10. ASSUME NEW secret \in {0, i}, call' = Got(i, secret) PROVE IInv'
  <2>1. secret \in 0..MaxHooks
    BY <1>3, BoundsAreNumbers DEF HookIds
  <2>2. /\ Got(i, secret).from = call.from /\ Got(i, secret).to = call.to
        /\ Got(i, secret).made = call.made
        /\ Got(i, secret).newProduct = call.newProduct
        /\ Got(i, secret).journal = call.journal
        /\ Got(i, secret).before = call.before
    BY <1>0, <1>3, <2>1, GotKind
  <2>3. Apart' /\ Undoable'
    BY <1>8, <1>10, <2>2
  <2>4. Prepared' /\ Priced'
    BY <1>0, <1>2, <1>3, <1>4, <1>5, <1>6, <1>10, GotPrepared
  <2>. QED  BY <1>7, <2>3, <2>4 DEF IInv
<1>. QED  BY <1>1, <1>9, <1>10

LEMMA CreateHookKeeps == ASSUME IInv, CreateHook PROVE IInv'
<1>0. Reconciling /\ call.at = "webhooks" /\ call.at \in Working
  BY DEF CreateHook, Reconciling, Working
<1>. call \in Open
  BY <1>0, RunningIsOpen DEF Running, IInv
<1>1. PICK i, kind : i = lastId' /\ kind = NextKind
  OBVIOUS
<1>2. /\ i \in HookIds /\ i = lastId + 1 /\ lastId \in Nat /\ i \in 0..MaxHooks
      /\ hooks[i] = None
      /\ kind \in Kinds \ DOMAIN call.got
  <2>1. lastId \in 0..MaxHooks /\ lastId < MaxHooks /\ lastId' = lastId + 1
    BY DEF CreateHook, IInv, TypeOK
  <2>2. i \in HookIds /\ i = lastId + 1 /\ lastId \in Nat /\ i \in 0..MaxHooks
    BY <1>1, <2>1, BoundsAreNumbers DEF HookIds
  <2>3. hooks[i] = None
    BY <2>2 DEF IInv, LaterAreUnused
  <2>. QED  BY <1>0, <1>1, <2>2, <2>3, KindIsNext
<1>3. /\ \A j \in HookIds : j # i => hooks'[j] = hooks[j]
      /\ hooks'[i] \in Hook /\ hooks'[i].acct = call.to /\ hooks'[i].kind = kind
      /\ hooks'[i].stamped = TRUE /\ hooks'[i].fresh = TRUE
  BY <1>1, <1>2 DEF CreateHook, Created, NewHook, Hook, IInv, TypeOK, Open
<1>4. hooks'[i] # None
  BY <1>3, NoneIsApart
<1>5. GoodStay
  BY <1>2, <1>3 DEF GoodStay
<1>6. TypeOK'
  BY WebhooksTypes DEF IInv, Webhooks
<1>7. LaterAreUnused'
  <2>1. \A j \in HookIds : j > i => j # i /\ j > lastId
    BY <1>2 DEF HookIds
  <2>. QED  BY <1>1, <1>3, <2>1 DEF LaterAreUnused, HookIds, IInv
<1>8. NoTwins'
  <2>1. \A j \in HookIds : hooks[j] # None => ~(hooks[j].acct = call.to /\ hooks[j].kind = kind)
    <3>1. Match(kind) = {}
      BY <1>1 DEF CreateHook
    <3>. QED  BY <3>1 DEF Match, Exact, Legacy, HooksOf
  <2>2. NoTwins
    BY DEF IInv
  <2>. SUFFICES ASSUME NEW j \in HookIds, NEW l \in HookIds,
                       hooks'[j] # None, hooks'[l] # None,
                       hooks'[j].acct = hooks'[l].acct, hooks'[j].kind = hooks'[l].kind
                PROVE  j = l
    BY DEF NoTwins, HookIds
  <2>. QED  BY <1>3, <2>1, <2>2 DEF NoTwins
<1>10. \A j : New(j) /\ call'.before = call.before /\ call'.to = call.to => New(j)'
  <2>. SUFFICES ASSUME NEW j, New(j), call'.before = call.before, call'.to = call.to
                PROVE  New(j)'
    OBVIOUS
  <2>1. j \in HookIds /\ j <= lastId /\ j # i /\ j <= i
    BY <1>2 DEF New, HookIds
  <2>. QED  BY <1>1, <1>3, <2>1 DEF New, HookIds
<1>11. call.before.hooks[i] = None
  BY <1>0, <1>2 DEF IInv, Undoable
<1>12. New(i)' \/ call'.before # call.before \/ call'.to # call.to
  BY <1>1, <1>2, <1>3, <1>11 DEF New, HookIds
<1>13. ASSUME call'.to = call.to, call'.from = call.from,
              call'.made \in {call.made, call.made \cup {i}},
              call'.before = call.before, call'.journal = call.journal,
              call'.newProduct = call.newProduct
      PROVE  Apart' /\ Undoable'
  <2>1. Apart'
    BY <1>0, <1>13 DEF IInv, Apart, Running
  <2>2. \A j \in HookIds : call.before.hooks[j] # None =>
             j <= lastId' /\ hooks'[j] # None /\ hooks'[j].on = call.before.hooks[j].on
    <3>. SUFFICES ASSUME NEW j \in HookIds, call.before.hooks[j] # None
                  PROVE  j <= i /\ hooks'[j] # None /\ hooks'[j].on = call.before.hooks[j].on
      BY <1>1
    <3>1. j <= lastId /\ hooks[j] # None /\ hooks[j].on = call.before.hooks[j].on
      BY <1>0 DEF IInv, Undoable
    <3>2. j # i /\ j <= i
      BY <1>2, <3>1 DEF HookIds
    <3>. QED  BY <1>3, <3>1, <3>2
  <2>3. \A j \in call'.made : New(j)'
    <3>1. New(i)'
      BY <1>12, <1>13
    <3>2. \A j \in call.made : New(j)'
      BY <1>0, <1>10, <1>13 DEF IInv, Undoable
    <3>. QED  BY <1>13, <3>1, <3>2
  <2>. QED  BY <1>0, <1>10, <1>13, <2>1, <2>2, <2>3, UndoableOn DEF IInv, CreateHook
<1>14. CASE call' = To("rollback")
  <2>1. /\ call'.at = "rollback" /\ call'.from = call.from /\ call'.to = call.to
        /\ call'.made = call.made /\ call'.newProduct = call.newProduct
        /\ call'.journal = call.journal /\ call'.before = call.before
    BY <1>14, ToStage
  <2>2. Prepared' /\ Priced'
    BY <2>1 DEF Prepared, Priced, Working, Scoping
  <2>. QED  BY <1>6, <1>7, <1>8, <1>13, <2>1, <2>2 DEF IInv
<1>15. CASE call' = Got(i, i)
  <2>1. /\ Got(i, i).from = call.from /\ Got(i, i).to = call.to
        /\ Got(i, i).made = call.made \cup {i}
        /\ Got(i, i).newProduct = call.newProduct
        /\ Got(i, i).journal = call.journal /\ Got(i, i).before = call.before
    BY ZenonT(60), <1>0, <1>2, GotKind
  <2>2. Apart' /\ Undoable'
    BY <1>13, <1>15, <2>1
  <2>3. Prepared' /\ Priced'
    BY <1>0, <1>1, <1>2, <1>3, <1>4, <1>5, <1>15, GotPrepared
  <2>. QED  BY <1>6, <1>7, <1>8, <2>2, <2>3 DEF IInv
<1>. QED  BY <1>1, <1>14, <1>15 DEF CreateHook

LEMMA WebhooksDoneKeeps == ASSUME IInv, WebhooksDone PROVE IInv'
<1>0. call.at = "webhooks" /\ call.at \in Working /\ DOMAIN call.got = Kinds
  BY DEF WebhooksDone, Working
<1>. call \in Open
  BY <1>0, RunningIsOpen DEF Running, IInv
<1>1. PICK want \in Amounts \cup {None},
           order \in [1..Cardinality(call.made) -> call.made] :
        call' = Equipped(want, [m \in DOMAIN order |-> HookEntry(order[m])])
  BY DEF WebhooksDone, JournalOfHooks
<1>2. PICK log \in Seq(Entries) : log = [m \in DOMAIN order |-> HookEntry(order[m])]
  BY JournalTypes
<1>3. \A m \in 1..Len(log) : log[m].op = "webhook.delete" /\ log[m].id \in call.made
  BY <1>2, JournalTypes
<1>4. /\ call'.at = IF want = None THEN "secrets" ELSE "catalog"
      /\ call'.want = want /\ call'.made = {} /\ call'.journal = log
      /\ call'.got = call.got /\ call'.from = call.from /\ call'.to = call.to
      /\ call'.newProduct = call.newProduct /\ call'.before = call.before
  <2>1. call' = Equipped(want, log)
    BY <1>1, <1>2
  <2>2. /\ Equipped(want, log).at = IF want = None THEN "secrets" ELSE "catalog"
        /\ Equipped(want, log).want = want /\ Equipped(want, log).made = {}
        /\ Equipped(want, log).journal = log
        /\ Equipped(want, log).got = call.got
        /\ Equipped(want, log).from = call.from
        /\ Equipped(want, log).to = call.to
        /\ Equipped(want, log).newProduct = call.newProduct
        /\ Equipped(want, log).before = call.before
    BY GoOn
  <2>. QED  BY <2>1, <2>2
<1>5. LaterAreUnused' /\ NoTwins' /\ GoodStay /\ NoneIsNew
  BY Unmoved DEF WebhooksDone, stripe
<1>6. TypeOK'
  BY WebhooksTypes DEF IInv, Webhooks
<1>7. Apart'
  BY <1>0, <1>4 DEF IInv, Apart, Running
<1>8. Undoable'
  <2>1. \A i \in call.made : New(i)'
    BY <1>0, <1>4, <1>5, NewKept DEF IInv, Undoable
  <2>2. \A m \in 1..Len(log) : log[m].op = "webhook.delete" /\ New(log[m].id)'
    BY <1>3, <2>1
  <2>4. UNCHANGED <<hooks, lastId, catalog, subs>>
    BY DEF WebhooksDone, stripe
  <2>5. \A i \in call'.made : New(i)'
    BY <1>4
  <2>6. call'.newProduct => ~call'.before.catalog[call'.to].active
    BY <1>0, <1>4 DEF IInv, Undoable
  <2>7. /\ \A i \in HookIds : call'.before.hooks[i] # None =>
             i <= lastId /\ hooks[i] # None /\ hooks[i].on = call'.before.hooks[i].on
        /\ \A a \in Accounts : call'.before.catalog[a].active =>
             catalog[a].active /\ catalog[a].n = call'.before.catalog[a].n
        /\ subs = call'.before.subs
    BY <1>0, <1>4 DEF IInv, Undoable
  <2>8. call'.journal = log
    BY <1>4
  <2>. QED  BY <2>2, <2>4, <2>5, <2>6, <2>7, <2>8 DEF Undoable, HookIds
<1>9. Prepared'
  BY <1>0, <1>4, <1>5, PreparedKept DEF IInv
<1>10. Priced'
  BY <1>4 DEF Priced, Scoping
<1>. QED  BY <1>5, <1>6, <1>7, <1>8, <1>9, <1>10 DEF IInv

LEMMA ReuseProductKeeps == ASSUME IInv, ReuseProduct PROVE IInv'
<1>0. call.at = "catalog" /\ call.at \in Working /\ "price" \in Working
  BY DEF ReuseProduct, Working
<1>. call \in Open
  BY <1>0, RunningIsOpen DEF Running, IInv
<1>1. /\ call'.at = "price" /\ call'.from = call.from /\ call'.to = call.to
      /\ call'.made = call.made /\ call'.newProduct = call.newProduct
      /\ call'.journal = call.journal /\ call'.before = call.before
      /\ call'.got = call.got /\ call'.want = call.want
  BY <1>0, ToStage DEF ReuseProduct
<1>2. LaterAreUnused' /\ NoTwins' /\ GoodStay
  BY Unmoved DEF ReuseProduct, stripe
<1>3. TypeOK'
  BY CatalogTypes DEF IInv, Catalog
<1>4. Apart'
  BY <1>0, <1>1 DEF IInv, Apart, Running
<1>5. Undoable'
  BY <1>0, <1>1, UndoableKept DEF IInv, ReuseProduct
<1>6. Prepared'
  <2>1. DOMAIN call.got = Kinds
    BY <1>0 DEF IInv, Prepared
  <2>. QED  BY <1>0, <1>1, <1>2, <2>1, PreparedKept DEF IInv
<1>7. Priced'
  BY <1>0, <1>1 DEF Priced, Scoping, ReuseProduct, stripe, IInv
<1>. QED  BY <1>2, <1>3, <1>4, <1>5, <1>6, <1>7 DEF IInv

\* Active products of before are as they were, whatever the catalog of the
\* destination goes through.
LEMMA UndoableCatalog ==
  ASSUME Undoable, call.at \in Working, UNCHANGED <<hooks, lastId, subs>>,
         call'.to = call.to, call'.before = call.before, call'.made = call.made,
         \A a \in Accounts : call.before.catalog[a].active =>
           catalog'[a].active /\ catalog'[a].n = call.before.catalog[a].n,
         call'.newProduct => ~call.before.catalog[call.to].active,
         \A m \in 1..Len(call'.journal) :
           \/ m \in 1..Len(call.journal) /\ call'.journal[m] = call.journal[m]
           \/ call'.journal[m].op # "webhook.delete"
              /\ ~call.before.catalog[call.to].active
  PROVE  Undoable'
<1>1. /\ \A i \in HookIds : call.before.hooks[i] # None =>
           i <= lastId /\ hooks[i] # None /\ hooks[i].on = call.before.hooks[i].on
      /\ subs = call.before.subs
      /\ \A i \in call.made : New(i)
      /\ \A m \in 1..Len(call.journal) :
           IF call.journal[m].op = "webhook.delete" THEN New(call.journal[m].id)
           ELSE ~call.before.catalog[call.to].active
  BY DEF Undoable
<1>. QED  BY <1>1 DEF Undoable, New, HookIds

LEMMA CreateProductKeeps == ASSUME IInv, CreateProduct PROVE IInv'
<1>0. call.at = "catalog" /\ call.at \in Working /\ "price" \in Working
  BY DEF CreateProduct, Working
<1>. call \in Open
  BY <1>0, RunningIsOpen DEF Running, IInv
<1>1. /\ call'.at \in {"price", "rollback"} /\ call'.from = call.from
      /\ call'.to = call.to
      /\ call'.made = call.made /\ call'.newProduct \in {TRUE, call.newProduct}
      /\ call'.journal = call.journal /\ call'.before = call.before
      /\ call'.got = call.got /\ call'.want = call.want
  <2>1. /\ To("price").from = call.from /\ To("price").to = call.to
        /\ To("price").made = call.made /\ To("price").at = "price"
        /\ To("price").journal = call.journal /\ To("price").before = call.before
        /\ To("price").got = call.got /\ To("price").want = call.want
        /\ To("price") \in Open
    BY <1>0, ToStage
  <2>2. CASE call' = [To("price") EXCEPT !.newProduct = TRUE]
    BY <2>1, <2>2 DEF Open
  <2>3. CASE call' = To("rollback")
    BY <2>3, ToStage
  <2>. QED  BY <2>2, <2>3 DEF CreateProduct
<1>2. LaterAreUnused' /\ NoTwins' /\ GoodStay
  BY Unmoved DEF CreateProduct
<1>3. TypeOK'
  BY CatalogTypes DEF IInv, Catalog
<1>4. Apart'
  BY <1>0, <1>1 DEF IInv, Apart, Running
<1>5. /\ catalog'[call.to].active
      /\ \A a \in Accounts : a # call.to => catalog'[a] = catalog[a]
  BY DEF CreateProduct, IInv, TypeOK, Open
<1>6. ~call.before.catalog[call.to].active
  BY <1>0 DEF IInv, Undoable, CreateProduct, Open
<1>7. Undoable'
  <2>1. \A a \in Accounts : call.before.catalog[a].active =>
          catalog'[a].active /\ catalog'[a].n = call.before.catalog[a].n
    BY <1>0, <1>5, <1>6 DEF IInv, Undoable
  <2>. QED  BY <1>0, <1>1, <1>6, <2>1, UndoableCatalog DEF IInv, CreateProduct
<1>8. Prepared'
  <2>1. DOMAIN call.got = Kinds
    BY <1>0 DEF IInv, Prepared
  <2>. QED  BY <1>0, <1>1, <1>2, <2>1, PreparedKept DEF IInv
<1>9. Priced'
  BY <1>0, <1>1, <1>5 DEF Priced, Scoping, IInv
<1>. QED  BY <1>2, <1>3, <1>4, <1>7, <1>8, <1>9 DEF IInv

LEMMA SetPriceKeeps == ASSUME IInv, SetPrice PROVE IInv'
<1>0. call.at = "price" /\ call.at \in Working
  BY DEF SetPrice, Working
<1>. call \in Open
  BY <1>0, RunningIsOpen DEF Running, IInv
<1>. DEFINE replays == call.want \notin catalog[call.to].prices
                       /\ PriceKey(catalog[call.to].n) \in keys
<1>1. /\ call.want # None /\ call.to \in Accounts
      /\ catalog[call.to].active /\ catalog[call.to] \in Tier
      /\ DOMAIN call.got = Kinds
  BY <1>0 DEF IInv, Priced, Prepared, Open, TypeOK
<1>2. LaterAreUnused' /\ NoTwins' /\ GoodStay
  BY Unmoved DEF SetPrice
<1>3. TypeOK'
  BY CatalogTypes DEF IInv, Catalog
<1>4. /\ catalog'[call.to].active /\ catalog'[call.to].n = catalog[call.to].n
      /\ \A a \in Accounts : a # call.to => catalog'[a] = catalog[a]
  <2>1. \A prices :
          LET next == [catalog EXCEPT ![call.to].prices = prices]
          IN  /\ next[call.to].active /\ next[call.to].n = catalog[call.to].n
              /\ \A a \in Accounts : a # call.to => next[a] = catalog[a]
    BY <1>1 DEF IInv, TypeOK, Tier
  <2>2. \E prices : catalog' = [catalog EXCEPT ![call.to].prices = prices]
    BY DEF SetPrice
  <2>. QED  BY <2>1, <2>2
<1>5. \A a \in Accounts : call.before.catalog[a].active =>
        catalog'[a].active /\ catalog'[a].n = call.before.catalog[a].n
  BY <1>0, <1>1, <1>4 DEF IInv, Undoable
<1>6. CASE call' = To("rollback")
  <2>1. /\ call'.at = "rollback" /\ call'.from = call.from /\ call'.to = call.to
        /\ call'.made = call.made /\ call'.newProduct = call.newProduct
        /\ call'.journal = call.journal /\ call'.before = call.before
    BY <1>6, ToStage
  <2>2. Apart'
    BY <1>0, <2>1 DEF IInv, Apart, Running
  <2>3. Undoable'
    BY <1>0, <1>5, <2>1, UndoableCatalog DEF IInv, Undoable, SetPrice
  <2>4. Prepared' /\ Priced'
    BY <2>1 DEF Prepared, Priced, Working, Scoping
  <2>. QED  BY <1>2, <1>3, <2>2, <2>3, <2>4 DEF IInv
<1>7. ASSUME NEW gone \in SUBSET Older(catalog[call.to].prices),
             catalog' = [catalog EXCEPT ![call.to].prices =
                          (IF replays THEN @ ELSE @ \cup {call.want}) \ gone],
             call' = CatalogDone(replays)
      PROVE  IInv'
  <2>0. replays \in BOOLEAN
    OBVIOUS
  <2>1. replays \/ call.want \in catalog'[call.to].prices
    BY <1>1, <1>7 DEF IInv, TypeOK, Tier, Older
  <2>. PICK replayed \in BOOLEAN : replayed = replays
    BY <2>0
  <2>. HIDE DEF replays
  <2>2. /\ CatalogDone(replayed).at = "secrets"
        /\ CatalogDone(replayed).replayed = replayed
        /\ CatalogDone(replayed).from = call.from
        /\ CatalogDone(replayed).to = call.to
        /\ CatalogDone(replayed).want = call.want
        /\ CatalogDone(replayed).got = call.got
        /\ CatalogDone(replayed).made = call.made
        /\ CatalogDone(replayed).newProduct = call.newProduct
        /\ CatalogDone(replayed).before = call.before
        /\ CatalogDone(replayed).journal =
             IF call.newProduct
               THEN Append(call.journal, ProductEntry(catalog[call.to].n))
               ELSE call.journal
    BY CatalogEnds DEF IInv, TypeOK
  <2>3. /\ call'.at = "secrets" /\ call'.replayed = replays
        /\ call'.from = call.from /\ call'.to = call.to /\ call'.want = call.want
        /\ call'.got = call.got /\ call'.made = call.made
        /\ call'.newProduct = call.newProduct /\ call'.before = call.before
        /\ call'.journal =
             IF call.newProduct
               THEN Append(call.journal, ProductEntry(catalog[call.to].n))
               ELSE call.journal
    BY <1>7, <2>2
  <2>4. Apart'
    BY <1>0, <2>3 DEF IInv, Apart, Running
  <2>5. \A m \in 1..Len(call'.journal) :
           \/ m \in 1..Len(call.journal) /\ call'.journal[m] = call.journal[m]
           \/ call'.journal[m].op # "webhook.delete"
              /\ ~call.before.catalog[call.to].active
    <3>1. CASE ~call.newProduct
      BY <2>3, <3>1
    <3>2. CASE call.newProduct
      <4>1. ~call.before.catalog[call.to].active
        BY <1>0, <3>2 DEF IInv, Undoable
      <4>2. PICK entry : entry = ProductEntry(catalog[call.to].n)
        OBVIOUS
      <4>3. entry \in Entries /\ entry.op = "product.archive"
        BY <1>1, <4>2 DEF ProductEntry, Entries, Tier
      <4>4. call.journal \in Seq(Entries)
        BY DEF Open
      <4>5. PICK n \in Nat : n = Len(call.journal)
        BY <4>4, LenProperties
      <4>6. /\ Len(Append(call.journal, entry)) = n + 1
            /\ \A m \in 1..n : Append(call.journal, entry)[m] = call.journal[m]
            /\ Append(call.journal, entry)[n + 1] = entry
        BY <4>3, <4>4, <4>5, AppendProperties
      <4>7. call'.journal = Append(call.journal, entry)
        BY SMTT(60), <2>3, <3>2, <4>2
      <4>. QED  BY <4>1, <4>3, <4>5, <4>6, <4>7
    <3>. QED  BY <3>1, <3>2
  <2>6. Undoable'
    <3>1. call.newProduct => ~call.before.catalog[call.to].active
      BY <1>0 DEF IInv, Undoable
    <3>. QED  BY <1>0, <1>5, <2>3, <2>5, <3>1, UndoableCatalog DEF IInv, SetPrice
  <2>7. Prepared'
    BY <1>0, <1>1, <1>2, <2>3, PreparedKept DEF IInv
  <2>8. Priced'
    BY <1>4, <2>1, <2>3 DEF Priced, Scoping
  <2>. QED  BY <1>2, <1>3, <2>4, <2>6, <2>7, <2>8 DEF IInv
<1>. QED  BY <1>6, <1>7 DEF SetPrice

\* The secrets are written, and the call is over or goes on to the source.
LEMMA SecretsStep ==
  ASSUME IInv, call \in Open, call.at = "secrets", UNCHANGED stripe, TypeOK',
         NEW auto \in BOOLEAN, NEW scope \in Scopes, call' = ToScope(auto, scope)
  PROVE  IInv'
<1>1. LaterAreUnused' /\ NoTwins' /\ GoodStay
  BY Unmoved DEF stripe
<1>2. CASE call' = End("ok")
  <2>1. call'.at = "ok" /\ call'.to = call.to /\ call'.want = call.want
        /\ call'.replayed = call.replayed
    BY <1>2, EndStage DEF Past
  <2>2. Apart' /\ Undoable' /\ Prepared'
    BY <2>1, Ended DEF Past
  <2>3. Priced'
    BY <2>1 DEF IInv, Priced, stripe, Scoping
  <2>. QED  BY <1>1, <2>2, <2>3 DEF IInv
<1>3. CASE call' # End("ok")
  <2>1. /\ call'.at \in {"products", "endpoints"} /\ call'.auto = auto
        /\ call'.from = call.from /\ call'.to = call.to
        /\ call'.want = call.want /\ call'.got = call.got
        /\ call'.replayed = call.replayed
    BY <1>3, Scoped
  <2>2. call.at \in Working /\ call'.at \in Scoping
    BY <2>1 DEF Working, Scoping
  <2>3. Apart'
    BY <2>1, <2>2 DEF IInv, Apart, Running
  <2>4. Undoable'
    BY <2>1 DEF Undoable, Working
  <2>5. Prepared'
    <3>1. DOMAIN call.got = Kinds
      BY <2>2 DEF IInv, Prepared
    <3>. QED  BY <1>1, <2>1, <2>2, <3>1, PreparedKept DEF IInv
  <2>7. Priced'
    BY <2>1, <2>2 DEF IInv, Priced, stripe
  <2>. QED  BY <1>1, <2>3, <2>4, <2>5, <2>7 DEF IInv
<1>. QED  BY <1>2, <1>3

LEMMA WriteKeeps == ASSUME IInv, WriteSecrets PROVE IInv'
<1>0. call.at = "secrets" /\ call.at \in Working
  BY DEF WriteSecrets, PushSecrets, LeaveSecrets, Working
<1>. call \in Open
  BY <1>0, RunningIsOpen DEF Running, IInv
<1>1. TypeOK'
  BY SecretsTypes DEF IInv
<1>3. UNCHANGED stripe
  BY DEF WriteSecrets, PushSecrets, LeaveSecrets
<1>5. CASE PushSecrets
  <2>1. ASSUME NEW scope \in Scopes, call' = ToScope(TRUE, scope) PROVE IInv'
    BY <1>0, <1>1, <1>3, <2>1, SecretsStep
  <2>2. CASE call' = To("rollback")
    <3>1. /\ call'.at = "rollback" /\ call'.from = call.from /\ call'.to = call.to
          /\ call'.made = call.made /\ call'.newProduct = call.newProduct
          /\ call'.journal = call.journal /\ call'.before = call.before
      BY <2>2, ToStage
    <3>2. LaterAreUnused' /\ NoTwins'
      BY <1>3, Unmoved DEF stripe
    <3>3. Apart'
      BY <1>0, <3>1 DEF IInv, Apart, Running
    <3>4. Undoable'
      BY <1>0, <1>3, <3>1, UndoableKept DEF IInv
    <3>5. Prepared' /\ Priced'
      BY <3>1 DEF Prepared, Priced, Working, Scoping
    <3>. QED  BY <1>1, <3>2, <3>3, <3>4, <3>5 DEF IInv
  <2>. QED  BY <1>5, <2>1, <2>2 DEF PushSecrets
<1>6. CASE LeaveSecrets
  <2>1. ASSUME NEW scope \in Scopes, call' = ToScope(FALSE, scope) PROVE IInv'
    BY <1>0, <1>1, <1>3, <2>1, SecretsStep
  <2>2. CASE call' = End("raised")
    BY <1>1, <1>3, <2>2, LeaveKeeps DEF Past
  <2>. QED  BY <1>6, <2>1, <2>2 DEF LeaveSecrets
<1>. QED  BY <1>5, <1>6 DEF WriteSecrets

\* Only the source changes.
LEMMA ScopeKeeps == ASSUME IInv, Scope PROVE IInv'
<1>0. call.at \in Scoping /\ UNCHANGED <<lastId, files>>
  BY DEF Scope, ScopeProducts, ScopeEndpoints, ScopeSubscriptions, Scoping
<1>. call \in Open
  BY <1>0, RunningIsOpen DEF Running, IInv
<1>1. TypeOK'
  BY ScopeTypes DEF IInv
<1>2. call.from # call.to
  BY <1>0 DEF IInv, Apart, Running
<1>3. NoneIsNew /\ GoodStay
  <2>1. CASE ScopeEndpoints
    <3>1. PICK done \in SUBSET HooksOf(call.from) :
            hooks' = [i \in HookIds |-> IF i \in done THEN [hooks[i] EXCEPT !.on = FALSE]
                                        ELSE hooks[i]]
      BY <2>1 DEF ScopeEndpoints
    <3>2. \A i \in done : hooks[i] \in Hook /\ hooks[i] # None
      BY DEF HooksOf, IInv, TypeOK
    <3>3. \A i \in done : /\ hooks'[i] \in Hook
                          /\ hooks'[i].acct = hooks[i].acct
                          /\ hooks'[i].kind = hooks[i].kind
                          /\ hooks'[i].stamped = hooks[i].stamped
                          /\ hooks'[i].fresh = hooks[i].fresh
      BY <3>1, <3>2 DEF Hook, HooksOf
    <3>4. \A i \in HookIds : i \notin done => hooks'[i] = hooks[i]
      BY <3>1
    <3>. QED  BY <1>0, <3>2, <3>3, <3>4, NoneIsApart DEF NoneIsNew, GoodStay
  <2>2. CASE UNCHANGED hooks
    BY <1>0, <2>2 DEF NoneIsNew, GoodStay
  <2>. QED  BY <2>1, <2>2 DEF Scope, ScopeProducts, ScopeSubscriptions
<1>4. LaterAreUnused' /\ NoTwins'
  BY <1>0, <1>3, EndpointsKept DEF IInv
<1>5. catalog'[call.to] = catalog[call.to]
  BY <1>2 DEF Scope, ScopeProducts, ScopeEndpoints, ScopeSubscriptions, IInv,
              TypeOK, Open
<1>6. PICK stage \in {"endpoints", "subscriptions"} :
        call' = End("ok") \/ call' = To(stage)
  BY DEF Scope, ScopeProducts, AfterProducts, ScopeEndpoints, ScopeSubscriptions
<1>7. CASE call' = End("ok")
  <2>1. call'.at = "ok" /\ call'.to = call.to /\ call'.want = call.want
        /\ call'.replayed = call.replayed
    BY <1>7, EndStage DEF Past
  <2>2. Apart' /\ Undoable' /\ Prepared'
    BY <2>1, Ended DEF Past
  <2>3. Priced'
    BY <1>0, <1>5, <2>1 DEF IInv, Priced, Scoping
  <2>. QED  BY <1>1, <1>4, <2>2, <2>3 DEF IInv
<1>8. CASE call' = To(stage)
  <2>0. stage \in Scoping
    BY DEF Scoping
  <2>1. /\ call'.at = stage /\ call'.auto = call.auto
        /\ call'.from = call.from /\ call'.to = call.to
        /\ call'.want = call.want /\ call'.got = call.got
        /\ call'.replayed = call.replayed
    BY <1>8, <2>0, ToStage
  <2>2. Apart'
    BY <1>2, <2>1 DEF Apart
  <2>3. Undoable'
    BY <2>1 DEF Undoable, Working
  <2>4. Prepared'
    <3>1. DOMAIN call.got = Kinds
      BY <1>0 DEF IInv, Prepared, Scoping
    <3>. QED  BY <1>0, <1>3, <2>1, <3>1, PreparedKept DEF IInv
  <2>6. Priced'
    BY <1>0, <1>5, <2>0, <2>1 DEF IInv, Priced
  <2>. QED  BY <1>1, <1>4, <2>2, <2>3, <2>4, <2>6 DEF IInv
<1>. QED  BY <1>6, <1>7, <1>8

\* Only what the call has made is undone.
LEMMA RollbackKeeps == ASSUME IInv, RollbackEntry PROVE IInv'
<1>0. call.at = "rollback"
  BY DEF RollbackEntry
<1>. call \in Open
  BY <1>0, RunningIsOpen DEF Running, IInv
<1>1. PICK entry : entry = call.journal[Len(call.journal)]
  OBVIOUS
<1>2. PICK next : next = [call EXCEPT !.journal = SubSeq(@, 1, Len(@) - 1)]
  OBVIOUS
<1>3. /\ next.at = call.at /\ next.from = call.from /\ next.to = call.to
      /\ next.made = call.made /\ next.newProduct = call.newProduct
      /\ next.before = call.before
      /\ \A m \in 1..Len(next.journal) : /\ m \in 1..Len(call.journal)
                                         /\ next.journal[m] = call.journal[m]
      /\ entry \in Entries
      /\ Len(call.journal) \in 1..Len(call.journal)
  BY <1>1, <1>2, OneLess DEF RollbackEntry
<1>4. IF entry.op = "webhook.delete" THEN New(entry.id)
      ELSE ~call.before.catalog[call.to].active
  BY <1>0, <1>1, <1>3 DEF IInv, Undoable
<1>5. call' = next /\ UNCHANGED <<lastId, subs, keys, files>>
  BY <1>2 DEF RollbackEntry
<1>6. \/ entry.op = "webhook.delete" /\ hooks' = [hooks EXCEPT ![entry.id] = None]
         /\ UNCHANGED catalog
      \/ entry.op # "webhook.delete" /\ UNCHANGED hooks
         /\ catalog' = [catalog EXCEPT ![call.to].active = FALSE]
      \/ UNCHANGED <<hooks, catalog>>
  BY <1>1, <1>3 DEF RollbackEntry, Undone, Entries
<1>7. NoneIsNew
  BY <1>5, <1>6 DEF NoneIsNew, IInv, TypeOK
<1>8. TypeOK' /\ LaterAreUnused' /\ NoTwins'
  BY <1>5, <1>7, RollbackTypes, EndpointsKept DEF IInv, Rollback
<1>9. Apart'
  BY <1>0, <1>3, <1>5 DEF IInv, Apart, Running
<1>10. Undoable'
  <2>1. \A j \in HookIds : call.before.hooks[j] # None =>
          j <= lastId' /\ hooks'[j] # None /\ hooks'[j].on = call.before.hooks[j].on
    <3>1. ASSUME entry.op = "webhook.delete" PROVE call.before.hooks[entry.id] = None
      BY <1>4, <3>1 DEF New
    <3>2. \A j \in HookIds : call.before.hooks[j] # None => hooks'[j] = hooks[j]
      BY <1>6, <3>1 DEF IInv, TypeOK
    <3>. QED  BY <1>0, <1>5, <3>2 DEF IInv, Undoable
  <2>2. \A a \in Accounts : call.before.catalog[a].active =>
          catalog'[a].active /\ catalog'[a].n = call.before.catalog[a].n
    <3>1. \A a \in Accounts : call.before.catalog[a].active => catalog'[a] = catalog[a]
      BY <1>4, <1>6 DEF IInv, TypeOK
    <3>. QED  BY <1>0, <3>1 DEF IInv, Undoable
  <2>3. \A i : New(i) => New(i)'
    BY <1>3, <1>5, <1>7, NewKept
  <2>4. \A i \in next.made : New(i)'
    BY <1>0, <1>3, <2>3 DEF IInv, Undoable
  <2>5. \A m \in 1..Len(next.journal) :
          IF next.journal[m].op = "webhook.delete" THEN New(next.journal[m].id)'
          ELSE ~next.before.catalog[next.to].active
    BY <1>0, <1>3, <2>3 DEF IInv, Undoable
  <2>6. subs = next.before.subs /\ (next.newProduct => ~next.before.catalog[next.to].active)
    BY <1>0, <1>3 DEF IInv, Undoable
  <2>. QED  BY <1>3, <1>5, <2>1, <2>2, <2>4, <2>5, <2>6 DEF Undoable, HookIds
<1>11. Prepared' /\ Priced'
  BY <1>0, <1>3, <1>5 DEF Prepared, Priced, Working, Scoping
<1>. QED  BY <1>8, <1>9, <1>10, <1>11 DEF IInv

LEMMA StepKeeps == ASSUME IInv, [Next]_vars PROVE IInv'
<1>1. CASE UNCHANGED vars
  <2>1. TypeOK'
    BY <1>1, NextTypes DEF IInv
  <2>2. LaterAreUnused' /\ NoTwins'
    BY <1>1, Unmoved DEF vars, stripe
  <2>3. Apart'
    BY <1>1 DEF vars, stripe, IInv, Apart, Running
  <2>4. Undoable'
    BY <1>1 DEF vars, stripe, IInv, Undoable, New, HookIds
  <2>5. Prepared'
    BY <1>1 DEF vars, stripe, IInv, Prepared, Exact, HooksOf, HookIds
  <2>6. Priced'
    BY <1>1 DEF vars, stripe, IInv, Priced
  <2>. QED  BY <2>1, <2>2, <2>3, <2>4, <2>5, <2>6 DEF IInv
<1>2. CASE Webhooks
  BY <1>2, ReuseHookKeeps, CreateHookKeeps, WebhooksDoneKeeps DEF Webhooks
<1>3. CASE Catalog
  BY <1>3, ReuseProductKeeps, CreateProductKeeps, SetPriceKeeps DEF Catalog
<1>4. CASE Rollback
  BY <1>4, RollbackKeeps, QuietKeeps DEF Rollback
<1>. QED  BY <1>1, <1>2, <1>3, <1>4, StartKeeps, InventoryKeeps, WriteKeeps,
             ScopeKeeps, QuietKeeps, ByHandKeeps DEF Next

-----------------------------------------------------------------------------
(***************************************************************************)
(* The secrets, and what the call found when it began.                     *)
(***************************************************************************)

\* An id stands for the endpoint it was given to, and for none before.
Origins ==
    \A i \in HookIds :
        /\ i > lastId => origin[i] = None
        /\ hooks[i] # None =>
             origin[i] = [acct |-> hooks[i].acct, kind |-> hooks[i].kind]

\* An endpoint that no rollback deletes.
Lasting(i) ==
    /\ hooks[i] # None
    /\ call.at \in Working \cup {"rollback"} => call.before.hooks[i] # None

\* The file is of one account, and of endpoints that last.
FileIsWhole ==
    pending # None =>
        \A k \in Kinds : pending.hook[k] # 0 =>
            /\ origin[pending.hook[k]] = [acct |-> pending.acct, kind |-> k]
            /\ Lasting(pending.hook[k])

SecretsTogether ==
    \A k \in Kinds : secrets.hook[k] # 0 =>
        /\ origin[secrets.hook[k]] # None
        /\ origin[secrets.hook[k]].kind = k
        /\ origin[secrets.hook[k]].acct = secrets.acct \/ "part" \in odd
        /\ Lasting(secrets.hook[k]) \/ "lost" \in odd

\* What is disabled in the destination was so when the call began.
Enabled ==
    call.at \in Working \cup Scoping =>
        \A i \in HookIds :
            hooks[i] # None /\ hooks[i].acct = call.to /\ ~hooks[i].on =>
                call.before.hooks[i] # None /\ ~call.before.hooks[i].on

\* Past the secrets, they were handed over.
Stored ==
    call.at \in Scoping =>
        IF call.auto THEN secrets = Payload \/ odd # {}
        ELSE pending = Payload \/ (pending = None /\ secrets = Payload)

\* Up to the source, what is not of the destination is as the call found it.
SourceKept ==
    call.at \in Working \cup {"rollback"} =>
        /\ \A i \in HookIds : call.before.hooks[i] # None =>
             hooks[i].acct = call.to \/ hooks[i] = call.before.hooks[i]
        /\ \A a \in Accounts \ {call.to} : catalog[a] = call.before.catalog[a]

Early == {"inventory", "webhooks", "catalog", "price"}

\* Prices go when the one asked for is there, or was answered.
PricesKept ==
    call.at \in Working \cup {"rollback"} /\ call.before.catalog[call.to].active =>
        \A p \in call.before.catalog[call.to].prices \ catalog[call.to].prices :
            /\ call.at \notin Early
            /\ call.want \notin {None, p}
            /\ call.want \in catalog[call.to].prices \/ call.replayed

FoundInv ==
    /\ Origins
    /\ FileIsWhole
    /\ SecretsTogether
    /\ Enabled
    /\ Stored
    /\ SourceKept
    /\ PricesKept

\* What a step may do to an endpoint.
Careful(i) ==
    /\ hooks[i] # None /\ hooks'[i] # None =>
         /\ hooks'[i].acct = hooks[i].acct /\ hooks'[i].kind = hooks[i].kind
         /\ \/ hooks'[i].on = hooks[i].on
            \/ call.at \in Scoping /\ hooks[i].acct = call.from
    /\ hooks[i] # None /\ hooks'[i] = None =>
         call.at = "rollback" /\ call.before.hooks[i] = None /\ hooks[i].acct = call.to
    /\ hooks[i] = None /\ hooks'[i] # None => hooks'[i].on /\ hooks'[i].acct = call.to
    /\ hooks[i] # None /\ hooks'[i] # hooks[i] =>
         call.at \in Scoping \/ hooks[i].acct = call.to

LEMMA HooksStep ==
  ASSUME IInv, [Next]_vars PROVE \A i \in HookIds : Careful(i)
<1>1. CASE UNCHANGED hooks
  BY <1>1 DEF Careful
<1>2. CASE ReuseHook
  <2>. call \in Open
    BY <1>2, RunningIsOpen DEF ReuseHook, Reconciling, Running, Working, IInv
  <2>1. PICK i \in Match(NextKind) :
          hooks' = [hooks EXCEPT ![i].stamped = TRUE, ![i].fresh = TRUE]
    BY <1>2 DEF ReuseHook
  <2>2. /\ i \in HookIds /\ hooks[i] \in Hook /\ hooks[i].acct = call.to
        /\ hooks[i] # None
    BY DEF Match, Exact, Legacy, HooksOf, IInv, TypeOK
  <2>3. /\ \A j \in HookIds : j # i => hooks'[j] = hooks[j]
        /\ hooks'[i] \in Hook /\ hooks'[i].acct = hooks[i].acct
        /\ hooks'[i].kind = hooks[i].kind /\ hooks'[i].on = hooks[i].on
    BY <2>1, <2>2 DEF IInv, TypeOK, Hook
  <2>. QED  BY <2>2, <2>3, NoneIsApart DEF Careful
<1>3. CASE CreateHook
  <2>. call \in Open
    BY <1>3, RunningIsOpen DEF CreateHook, Reconciling, Running, Working, IInv
  <2>1. PICK i : i = lastId + 1
    OBVIOUS
  <2>2. i \in HookIds /\ hooks[i] = None
    BY <1>3, <2>1, BoundsAreNumbers
       DEF CreateHook, HookIds, IInv, TypeOK, LaterAreUnused
  <2>3. /\ \A j \in HookIds : j # i => hooks'[j] = hooks[j]
        /\ hooks'[i].on = TRUE /\ hooks'[i].acct = call.to
    BY <1>3, <2>1, <2>2 DEF CreateHook, Created, NewHook, IInv, TypeOK
  <2>. QED  BY <2>2, <2>3 DEF Careful
<1>4. CASE ScopeEndpoints
  <2>. call.at \in Scoping
    BY <1>4 DEF ScopeEndpoints, Scoping
  <2>1. PICK done \in SUBSET HooksOf(call.from) :
          hooks' = [i \in HookIds |-> IF i \in done THEN [hooks[i] EXCEPT !.on = FALSE]
                                      ELSE hooks[i]]
    BY <1>4 DEF ScopeEndpoints
  <2>2. \A i \in done : hooks[i] \in Hook /\ hooks[i].acct = call.from
    BY DEF HooksOf, IInv, TypeOK
  <2>3. \A i \in done : /\ hooks'[i] \in Hook
                        /\ hooks'[i].acct = hooks[i].acct
                        /\ hooks'[i].kind = hooks[i].kind
    BY <2>1, <2>2 DEF Hook, HooksOf
  <2>4. \A i \in HookIds : i \notin done => hooks'[i] = hooks[i]
    BY <2>1
  <2>. QED  BY <2>2, <2>3, <2>4, NoneIsApart DEF Careful
<1>5. CASE RollbackEntry
  <2>0. call.at = "rollback" /\ call \in Open
    BY <1>5, RunningIsOpen DEF RollbackEntry, Running, IInv
  <2>1. PICK entry : entry = call.journal[Len(call.journal)]
    OBVIOUS
  <2>2. entry \in Entries /\ Len(call.journal) \in 1..Len(call.journal)
    <3>1. PICK next : next = [call EXCEPT !.journal = SubSeq(@, 1, Len(@) - 1)]
      OBVIOUS
    <3>. QED  BY <1>5, <2>0, <2>1, <3>1, OneLess DEF RollbackEntry
  <2>3. entry.op = "webhook.delete" => New(entry.id)
    BY <2>0, <2>1, <2>2 DEF IInv, Undoable
  <2>4. CASE entry.op = "webhook.delete" /\ hooks' = [hooks EXCEPT ![entry.id] = None]
    <3>1. \A j \in HookIds : j # entry.id => hooks'[j] = hooks[j]
      BY <2>4 DEF IInv, TypeOK
    <3>2. hooks'[entry.id] = None
      BY <2>3, <2>4 DEF New, IInv, TypeOK
    <3>. QED  BY <2>0, <2>3, <2>4, <3>1, <3>2 DEF Careful, New
  <2>5. CASE UNCHANGED hooks
    BY <2>5 DEF Careful
  <2>. QED  BY <1>5, <2>1, <2>2, <2>4, <2>5 DEF RollbackEntry, Undone, Entries
<1>. QED
  <2>1. CASE StartSwitch \/ Inventory \/ Fail \/ WriteSecrets \/ RollbackDone
    BY <1>1, <2>1 DEF StartSwitch, Start, Inventory, Fail, WriteSecrets, PushSecrets,
                      LeaveSecrets, RollbackDone, stripe
  <2>2. CASE WebhooksDone \/ Catalog \/ ScopeProducts \/ ScopeSubscriptions
    BY <1>1, <2>2 DEF WebhooksDone, Catalog, ReuseProduct, CreateProduct, SetPrice,
                      ScopeProducts, ScopeSubscriptions, stripe
  <2>3. CASE Die \/ ByHand \/ ForgetKeys \/ UNCHANGED vars
    BY <1>1, <2>3 DEF Die, ByHand, CopySecret, DeleteFile, ForgetKeys, vars, stripe
  <2>. QED  BY <1>2, <1>3, <1>4, <1>5, <2>1, <2>2, <2>3
            DEF Next, Webhooks, Scope, Rollback

\* Before the source, only the catalog of the destination changes, and no
\* subscription.
LEMMA CatalogStep ==
  ASSUME IInv, [Next]_vars, Running, call.at \notin Scoping
  PROVE  /\ subs' = subs
         /\ \A a \in Accounts : a # call.to => catalog'[a] = catalog[a]
         /\ \/ catalog'[call.to] = catalog[call.to]
            \/ CreateProduct \/ SetPrice
            \/ call.at = "rollback" /\ ~call.before.catalog[call.to].active
<1>. call \in Open
  BY RunningIsOpen DEF IInv
<1>1. CASE UNCHANGED <<catalog, subs>>
  BY <1>1
<1>2. CASE CreateProduct
  BY <1>2 DEF CreateProduct, IInv, TypeOK
<1>3. CASE SetPrice
  <2>1. \E prices : catalog' = [catalog EXCEPT ![call.to].prices = prices]
    BY <1>3 DEF SetPrice
  <2>. QED  BY <1>3, <2>1 DEF SetPrice, IInv, TypeOK
<1>4. CASE RollbackEntry
  <2>0. call.at = "rollback"
    BY <1>4 DEF RollbackEntry
  <2>1. PICK entry : entry = call.journal[Len(call.journal)]
    OBVIOUS
  <2>2. entry \in Entries /\ Len(call.journal) \in 1..Len(call.journal)
    <3>1. PICK next : next = [call EXCEPT !.journal = SubSeq(@, 1, Len(@) - 1)]
      OBVIOUS
    <3>. QED  BY <1>4, <2>1, <3>1, OneLess DEF RollbackEntry
  <2>3. entry.op # "webhook.delete" => ~call.before.catalog[call.to].active
    BY <2>0, <2>1, <2>2 DEF IInv, Undoable
  <2>. QED  BY <1>4, <2>0, <2>1, <2>2, <2>3
            DEF RollbackEntry, Undone, Entries, IInv, TypeOK
<1>. QED
  <2>1. CASE StartSwitch
    BY <2>1 DEF StartSwitch, Start
  <2>2. CASE Scope
    BY <2>2 DEF Scope, ScopeProducts, ScopeEndpoints, ScopeSubscriptions, Scoping
  <2>3. CASE Inventory \/ Fail \/ WriteSecrets \/ RollbackDone \/ Webhooks
    BY <1>1, <2>3 DEF Inventory, Fail, WriteSecrets, PushSecrets, LeaveSecrets,
                      RollbackDone, Webhooks, ReuseHook, CreateHook, WebhooksDone,
                      stripe
  <2>4. CASE ReuseProduct
    BY <1>1, <2>4 DEF ReuseProduct, stripe
  <2>5. CASE Die \/ ByHand \/ ForgetKeys \/ UNCHANGED vars
    BY <1>1, <2>5 DEF Die, ByHand, CopySecret, DeleteFile, ForgetKeys, vars, stripe
  <2>. QED  BY <1>2, <1>3, <1>4, <2>1, <2>2, <2>3, <2>4, <2>5
            DEF Next, Catalog, Rollback

\* The step of a call that goes on.
GoesOn ==
    call'.at \in Working \cup Scoping \cup {"rollback"} =>
        /\ call \in Open /\ Running
        /\ call'.from = call.from /\ call'.to = call.to /\ call'.before = call.before
        /\ call'.at \in Working \cup {"rollback"} =>
             call.at \in Working \cup {"rollback"}
        /\ call.at = "rollback" => call'.at = "rollback"
        /\ call'.at \in Scoping => call.at \in Scoping \/ WriteSecrets
        /\ call'.at \in Early => call.at \in Early
        /\ call.at \notin Early =>
             call'.want = call.want /\ call'.replayed = call.replayed
        /\ call.at \in Scoping => call'.auto = call.auto /\ call'.got = call.got

LEMMA CallStep == ASSUME IInv, [Next]_vars, ~StartSwitch PROVE GoesOn
<1>0. ASSUME Running PROVE call \in Open
  BY <1>0, RunningIsOpen DEF IInv
<1>1. ASSUME NEW stage \in Past, call' = End(stage), call \in Open PROVE GoesOn
  BY <1>1, EndStage DEF GoesOn, Past, Working, Scoping
<1>2. ASSUME NEW stage \in Working \cup Scoping \cup {"rollback"}, call' = To(stage),
             Running, call.at # "rollback",
             stage \in Working \cup {"rollback"} => call.at \in Working \cup {"rollback"},
             stage \in Scoping => call.at \in Scoping,
             stage \in Early => call.at \in Early
      PROVE  GoesOn
  <2>1. /\ call'.at = stage /\ call'.from = call.from /\ call'.to = call.to
        /\ call'.auto = call.auto /\ call'.want = call.want /\ call'.got = call.got
        /\ call'.replayed = call.replayed /\ call'.before = call.before
    BY <1>0, <1>2, ToStage
  <2>. QED  BY <1>0, <1>2, <2>1 DEF GoesOn
<1>3. CASE UNCHANGED call
  BY <1>0, <1>3 DEF GoesOn, Running
<1>4. CASE Inventory
  <2>1. Running /\ call.at \in Early /\ call.at \in Working /\ "webhooks" \in Working
    BY <1>4 DEF Inventory, Running, Working, Early
  <2>. QED  BY <1>0, <1>1, <1>2, <1>4, <2>1 DEF Inventory, Past, Working, Scoping
<1>5. ASSUME call' = To("rollback"), call.at \in Working PROVE GoesOn
  BY <1>2, <1>5 DEF Running, Early, Working, Scoping
<1>6. ASSUME Reconciling, NEW i \in HookIds, NEW secret \in 0..MaxHooks,
             call' = Got(i, secret)
      PROVE  GoesOn
  <2>1. call.at = "webhooks" /\ Running /\ call \in Open
    BY <1>0, <1>6 DEF Reconciling, Running, Working
  <2>2. /\ call'.at = call.at /\ call'.from = call.from /\ call'.to = call.to
        /\ call'.before = call.before
    BY <1>6, <2>1, GotKind
  <2>. QED  BY <2>1, <2>2 DEF GoesOn, Early, Working, Scoping
<1>7. CASE ReuseHook
  <2>1. call.at \in Working /\ Reconciling
    BY <1>7 DEF ReuseHook, Reconciling, Working
  <2>2. PICK i \in Match(NextKind) :
          (\E secret \in {0, i} : call' = Got(i, secret)) \/ call' = To("rollback")
    BY <1>7 DEF ReuseHook
  <2>3. i \in HookIds /\ {0, i} \subseteq 0..MaxHooks
    BY BoundsAreNumbers DEF Match, Exact, Legacy, HooksOf, HookIds
  <2>. QED  BY <1>5, <1>6, <2>1, <2>2, <2>3
<1>8. CASE CreateHook
  <2>1. call.at \in Working /\ Reconciling
    BY <1>8 DEF CreateHook, Reconciling, Working
  <2>2. PICK i : i = lastId'
    OBVIOUS
  <2>3. i \in HookIds /\ i \in 0..MaxHooks
    BY <1>8, <2>2, BoundsAreNumbers DEF CreateHook, HookIds, IInv, TypeOK
  <2>. QED  BY <1>5, <1>6, <1>8, <2>1, <2>2, <2>3 DEF CreateHook
<1>9. CASE WebhooksDone
  <2>0. call.at = "webhooks" /\ Running /\ call \in Open
    BY <1>0, <1>9 DEF WebhooksDone, Running, Working
  <2>1. PICK want \in Amounts \cup {None},
             order \in [1..Cardinality(call.made) -> call.made] :
          call' = Equipped(want, [m \in DOMAIN order |-> HookEntry(order[m])])
    BY <1>9 DEF WebhooksDone, JournalOfHooks
  <2>2. PICK log \in Seq(Entries) : log = [m \in DOMAIN order |-> HookEntry(order[m])]
    BY <2>0, JournalTypes
  <2>3. /\ call'.at = IF want = None THEN "secrets" ELSE "catalog"
        /\ call'.from = call.from /\ call'.to = call.to /\ call'.before = call.before
    <3>. call \in Open
      BY <2>0
    <3>1. call' = Equipped(want, log)
      BY <2>1, <2>2
    <3>2. /\ Equipped(want, log).at = IF want = None THEN "secrets" ELSE "catalog"
          /\ Equipped(want, log).from = call.from
          /\ Equipped(want, log).to = call.to
          /\ Equipped(want, log).before = call.before
      BY SMTT(60), GoOn
    <3>. QED  BY <3>1, <3>2
  <2>. QED  BY <2>0, <2>3 DEF GoesOn, Early, Working, Scoping
<1>10. CASE ReuseProduct
  BY <1>2, <1>10 DEF ReuseProduct, Running, Working, Early, Scoping
<1>11. CASE CreateProduct
  <2>0. call.at = "catalog" /\ call.at \in Working /\ Running /\ call \in Open
    BY <1>0, <1>11 DEF CreateProduct, Running, Working
  <2>1. CASE call' = [To("price") EXCEPT !.newProduct = TRUE]
    <3>1. /\ To("price") \in Open /\ To("price").at = "price"
          /\ To("price").from = call.from /\ To("price").to = call.to
          /\ To("price").before = call.before
      BY <2>0, ToStage DEF Working
    <3>2. /\ call'.at = "price" /\ call'.from = call.from /\ call'.to = call.to
          /\ call'.before = call.before
      BY <2>1, <3>1 DEF Open
    <3>. QED  BY <2>0, <3>2 DEF GoesOn, Early, Working, Scoping
  <2>. QED  BY <1>5, <1>11, <2>0, <2>1 DEF CreateProduct
<1>12. CASE SetPrice
  <2>0. call.at = "price" /\ call.at \in Working /\ Running /\ call \in Open
    BY <1>0, <1>12 DEF SetPrice, Running, Working
  <2>1. ASSUME NEW replayed \in BOOLEAN, call' = CatalogDone(replayed) PROVE GoesOn
    <3>1. /\ call'.at = "secrets" /\ call'.from = call.from /\ call'.to = call.to
          /\ call'.before = call.before
      BY <2>0, <2>1, CatalogEnds DEF IInv, TypeOK
    <3>. QED  BY <2>0, <3>1 DEF GoesOn, Early, Working, Scoping
  <2>2. \/ \E replayed \in BOOLEAN : call' = CatalogDone(replayed)
        \/ call' = To("rollback")
    BY <1>12 DEF SetPrice
  <2>. QED  BY <1>5, <2>0, <2>1, <2>2
<1>13. CASE WriteSecrets
  <2>0. call.at = "secrets" /\ call.at \in Working /\ Running /\ call \in Open
    BY <1>0, <1>13 DEF WriteSecrets, PushSecrets, LeaveSecrets, Running, Working
  <2>1. ASSUME NEW auto \in BOOLEAN, NEW scope \in Scopes, call' = ToScope(auto, scope)
        PROVE  GoesOn
    <3>1. CASE call' = End("ok")
      BY <1>1, <2>0, <3>1 DEF Past
    <3>2. CASE call' # End("ok")
      <4>1. /\ call'.at \in {"products", "endpoints"}
            /\ call'.from = call.from /\ call'.to = call.to
            /\ call'.before = call.before
            /\ call'.want = call.want /\ call'.replayed = call.replayed
        BY <2>0, <2>1, <3>2, Scoped
      <4>. QED  BY <1>13, <2>0, <4>1 DEF GoesOn, Early, Working, Scoping
    <3>. QED  BY <3>1, <3>2
  <2>2. \/ \E auto \in BOOLEAN, scope \in Scopes : call' = ToScope(auto, scope)
        \/ call' = To("rollback") \/ call' = End("raised")
    BY <1>13 DEF WriteSecrets, PushSecrets, LeaveSecrets
  <2>. QED  BY <1>1, <1>5, <2>0, <2>1, <2>2 DEF Past
<1>14. CASE Scope
  <2>0. call.at \in Scoping /\ Running /\ call \in Open
    BY <1>0, <1>14 DEF Scope, ScopeProducts, ScopeEndpoints, ScopeSubscriptions, Scoping,
                 Running
  <2>1. PICK stage \in {"endpoints", "subscriptions"} :
          call' = End("ok") \/ call' = To(stage)
    BY <1>14 DEF Scope, ScopeProducts, AfterProducts, ScopeEndpoints, ScopeSubscriptions
  <2>. QED  BY <1>1, <1>2, <2>0, <2>1 DEF Scoping, Working, Early, Past
<1>15. CASE RollbackEntry
  <2>0. call.at = "rollback" /\ Running /\ call \in Open
    BY <1>0, <1>15 DEF RollbackEntry, Running
  <2>1. PICK next : next = [call EXCEPT !.journal = SubSeq(@, 1, Len(@) - 1)]
    OBVIOUS
  <2>2. /\ call' = next /\ next.at = call.at /\ next.from = call.from
        /\ next.to = call.to /\ next.before = call.before /\ next.want = call.want
        /\ next.replayed = call.replayed
    BY <1>15, <2>0, <2>1, OneLess DEF RollbackEntry
  <2>. QED  BY <2>0, <2>2 DEF GoesOn, Early, Working, Scoping
<1>16. CASE RollbackDone \/ Die
  BY <1>0, <1>1, <1>16 DEF RollbackDone, Die, Running, Past
<1>17. CASE Fail
  BY <1>5, <1>17 DEF Fail
<1>18. CASE ByHand \/ ForgetKeys \/ UNCHANGED vars
  BY <1>3, <1>18 DEF ByHand, CopySecret, DeleteFile, ForgetKeys, vars
<1>. QED  BY <1>4, <1>7, <1>8, <1>9, <1>10, <1>11, <1>12, <1>13, <1>14, <1>15, <1>16,
             <1>17, <1>18 DEF Next, Webhooks, Catalog, Rollback

\* An id that stands for an endpoint always does.
LEMMA OriginsStep ==
  ASSUME IInv, Origins, [Next]_vars
  PROVE  /\ Origins'
         /\ \A i \in HookIds : origin[i] # None => origin'[i] = origin[i]
<1>1. CASE CreateHook
  <2>. call \in Open /\ Reconciling
    BY <1>1, RunningIsOpen DEF CreateHook, Reconciling, Running, Working, IInv
  <2>1. PICK i, kind : i = lastId + 1 /\ kind = NextKind
    OBVIOUS
  <2>2. /\ i \in HookIds /\ lastId \in Nat /\ lastId' = i /\ i > lastId
        /\ hooks[i] = None /\ kind \in Kinds
    BY <1>1, <2>1, BoundsAreNumbers, KindIsNext
       DEF CreateHook, HookIds, IInv, TypeOK, LaterAreUnused
  <2>3. /\ \A j \in HookIds : j # i => hooks'[j] = hooks[j] /\ origin'[j] = origin[j]
        /\ hooks'[i].acct = call.to /\ hooks'[i].kind = kind
        /\ origin'[i] = [acct |-> call.to, kind |-> kind]
    BY <1>1, <2>1, <2>2 DEF CreateHook, Created, NewHook, IInv, TypeOK
  <2>4. origin[i] = None
    BY <2>2 DEF Origins
  <2>5. \A j \in HookIds : j > i => j # i /\ j > lastId
    BY <2>2 DEF HookIds
  <2>. QED  BY <2>2, <2>3, <2>4, <2>5 DEF Origins, HookIds
<1>2. CASE ~CreateHook
  <2>1. UNCHANGED <<origin, lastId>> /\ \A i \in HookIds : hooks[i] = None => hooks'[i] = None
    <3>1. CASE ReuseHook
      <4>1. PICK i \in Match(NextKind) :
              hooks' = [hooks EXCEPT ![i].stamped = TRUE, ![i].fresh = TRUE]
        BY <3>1 DEF ReuseHook
      <4>2. hooks[i] # None
        BY DEF Match, Exact, Legacy, HooksOf
      <4>. QED  BY <3>1, <4>1, <4>2 DEF ReuseHook, history, IInv, TypeOK
    <3>2. CASE ScopeEndpoints
      <4>1. PICK done \in SUBSET HooksOf(call.from) :
              hooks' = [i \in HookIds |-> IF i \in done THEN [hooks[i] EXCEPT !.on = FALSE]
                                          ELSE hooks[i]]
        BY <3>2 DEF ScopeEndpoints
      <4>2. \A i \in done : hooks[i] # None
        BY DEF HooksOf
      <4>. QED  BY <3>2, <4>1, <4>2 DEF ScopeEndpoints, history
    <3>3. CASE RollbackEntry
      <4>1. \/ hooks' = [hooks EXCEPT ![call.journal[Len(call.journal)].id] = None]
            \/ UNCHANGED hooks
        <5>1. call.at = "rollback" /\ call \in Open
          BY <3>3, RunningIsOpen DEF RollbackEntry, Running, IInv
        <5>2. PICK next : next = [call EXCEPT !.journal = SubSeq(@, 1, Len(@) - 1)]
          OBVIOUS
        <5>3. call.journal[Len(call.journal)] \in Entries
          BY <3>3, <5>1, <5>2, OneLess DEF RollbackEntry
        <5>. QED  BY <3>3, <5>3 DEF RollbackEntry, Undone, Entries
      <4>. QED  BY <3>3, <4>1 DEF RollbackEntry, history, IInv, TypeOK
    <3>4. CASE WebhooksDone \/ Catalog \/ ScopeProducts \/ ScopeSubscriptions
      BY <3>4 DEF WebhooksDone, Catalog, ReuseProduct, CreateProduct, SetPrice,
                  ScopeProducts, ScopeSubscriptions, stripe, history
    <3>5. CASE StartSwitch \/ Inventory \/ Fail \/ WriteSecrets \/ RollbackDone
      BY <3>5 DEF StartSwitch, Start, Inventory, Fail, WriteSecrets, PushSecrets,
                  LeaveSecrets, RollbackDone, stripe, history
    <3>6. CASE Die \/ ByHand \/ ForgetKeys \/ UNCHANGED vars
      BY <3>6 DEF Die, ByHand, CopySecret, DeleteFile, ForgetKeys, vars, stripe, history
    <3>. QED  BY <1>2, <3>1, <3>2, <3>3, <3>4, <3>5, <3>6
              DEF Next, Webhooks, Scope, Rollback
  <2>2. \A i \in HookIds : hooks'[i] # None =>
          hooks'[i].acct = hooks[i].acct /\ hooks'[i].kind = hooks[i].kind
    BY <2>1, HooksStep DEF Careful
  <2>. QED  BY <2>1, <2>2 DEF Origins, HookIds
<1>. QED  BY <1>1, <1>2

\* An endpoint that no rollback deletes is never deleted.
LEMMA LastingStep ==
  ASSUME IInv, [Next]_vars PROVE \A i \in HookIds : Lasting(i) => Lasting(i)'
<1>. SUFFICES ASSUME NEW i \in HookIds, Lasting(i) PROVE Lasting(i)'
  OBVIOUS
<1>1. hooks'[i] # None
  BY HooksStep DEF Careful, Lasting
<1>2. CASE StartSwitch
  <2>1. PICK from \in Accounts, to \in Accounts : Start(from, to)
    BY <1>2 DEF StartSwitch
  <2>2. call'.before.hooks = hooks
    BY <2>1 DEF Start
  <2>. QED  BY <1>1, <2>2 DEF Lasting
<1>3. CASE ~StartSwitch
  BY <1>1, <1>3, CallStep DEF GoesOn, Lasting
<1>. QED  BY <1>2, <1>3

\* The endpoints whose secrets the call has are of the destination.
LEMMA PayloadIsOwn ==
  ASSUME IInv, Origins, call.at = "secrets", NEW k \in Kinds, Payload.hook[k] # 0
  PROVE  /\ Payload.hook[k] \in HookIds /\ hooks[Payload.hook[k]] # None
         /\ origin[Payload.hook[k]] = [acct |-> call.to, kind |-> k]
<1>. call \in Open
  BY RunningIsOpen DEF Running, Working, IInv
<1>1. DOMAIN call.got = Kinds /\ Payload.hook = call.got
  BY PayloadIsSecrets DEF IInv, Payload
<1>2. PICK i \in Exact(k) : call.got[k] \in {0, i}
  BY <1>1 DEF IInv, Prepared, Working
<1>3. Payload.hook[k] = i
  BY <1>1, <1>2
<1>4. i \in HookIds /\ hooks[i] # None /\ hooks[i].acct = call.to /\ hooks[i].kind = k
  BY DEF Exact, HooksOf
<1>. QED  BY <1>3, <1>4 DEF Origins

\* Where the secrets are written, the call is past the rollback or gives it up.
LEMMA WrittenLasts ==
  ASSUME NEW i \in HookIds, hooks'[i] # None,
         call'.at \notin Working \cup {"rollback"}
  PROVE  Lasting(i)'
  BY DEF Lasting

LEMMA ScopedIsPast ==
  ASSUME call \in Open, NEW auto \in BOOLEAN, NEW scope \in Scopes,
         call' = ToScope(auto, scope)
  PROVE  call'.at \notin Working \cup {"rollback"}
<1>1. CASE call' = End("ok")
  BY <1>1, EndStage DEF Past, Working
<1>2. CASE call' # End("ok")
  BY <1>2, Scoped DEF Working
<1>. QED  BY <1>1, <1>2

LEMMA OriginIsTold ==
  \A a \in Accounts, k \in Kinds : [acct |-> a, kind |-> k] # None
  BY NoneIsApart

LEMMA FileStep ==
  ASSUME IInv, TypeOK', Origins, FileIsWhole, [Next]_vars PROVE FileIsWhole'
<1>. SUFFICES ASSUME NEW k \in Kinds, NEW file, file = pending', file # None,
                     NEW i, i = file.hook[k], i # 0
              PROVE  origin'[i] = [acct |-> file.acct, kind |-> k] /\ Lasting(i)'
  BY DEF FileIsWhole, Lasting
<1>0. i \in HookIds /\ file.acct \in Accounts
  BY BoundsAreNumbers DEF TypeOK, Secrets, HookIds
<1>1. CASE pending' = pending
  <2>1. origin[i] = [acct |-> file.acct, kind |-> k] /\ Lasting(i)
    BY <1>1 DEF FileIsWhole
  <2>2. origin[i] # None
    BY <1>0, <2>1, OriginIsTold
  <2>. QED  BY <1>0, <2>1, <2>2, OriginsStep, LastingStep
<1>2. CASE pending' # pending
  <2>1. LeaveSecrets /\ file = Payload
    <3>1. pending' = None \/ LeaveSecrets
      BY <1>2 DEF Next, StartSwitch, Start, Inventory, Webhooks, ReuseHook, CreateHook,
                  WebhooksDone, Catalog, ReuseProduct, CreateProduct, SetPrice,
                  WriteSecrets, PushSecrets, Scope, ScopeProducts, ScopeEndpoints,
                  ScopeSubscriptions, Fail, Rollback, RollbackEntry, RollbackDone, Die,
                  ByHand, CopySecret, DeleteFile, ForgetKeys, vars, files
    <3>. QED  BY <1>2, <3>1 DEF LeaveSecrets
  <2>2. call.at = "secrets" /\ call \in Open
    BY <2>1, RunningIsOpen DEF LeaveSecrets, Running, Working, IInv
  <2>3. UNCHANGED <<hooks, origin>> /\ \E scope \in Scopes : call' = ToScope(FALSE, scope)
    BY <1>2, <2>1 DEF LeaveSecrets, stripe, history
  <2>4. hooks[i] # None /\ origin[i] = [acct |-> call.to, kind |-> k]
    BY <2>1, <2>2, PayloadIsOwn
  <2>5. Lasting(i)'
    BY <1>0, <2>2, <2>3, <2>4, ScopedIsPast, WrittenLasts
  <2>6. file.acct = call.to
    BY <2>1 DEF Payload
  <2>. QED  BY <2>3, <2>4, <2>5, <2>6
<1>. QED  BY <1>1, <1>2

LEMMA TogetherStep ==
  ASSUME IInv, TypeOK', Origins, FileIsWhole, SecretsTogether, [Next]_vars
  PROVE  SecretsTogether'
<1>. SUFFICES ASSUME NEW k \in Kinds, NEW i, i = secrets'.hook[k], i # 0
              PROVE  /\ origin'[i] # None /\ origin'[i].kind = k
                     /\ origin'[i].acct = secrets'.acct \/ "part" \in odd'
                     /\ Lasting(i)' \/ "lost" \in odd'
  BY DEF SecretsTogether, Lasting
<1>0. i \in HookIds
  BY BoundsAreNumbers DEF TypeOK, Secrets, HookIds
<1>1. CASE UNCHANGED <<secrets, odd>>
  <2>1. /\ origin[i] # None /\ origin[i].kind = k
        /\ origin[i].acct = secrets.acct \/ "part" \in odd
        /\ Lasting(i) \/ "lost" \in odd
    BY <1>1 DEF SecretsTogether
  <2>. QED  BY <1>0, <1>1, <2>1, OriginsStep, LastingStep
<1>2. CASE PushSecrets
  <2>0. call.at = "secrets" /\ call \in Open
    BY <1>2, RunningIsOpen DEF PushSecrets, Running, Working, IInv
  <2>1. UNCHANGED <<hooks, origin>> /\ secrets' = Payload
    BY <1>2 DEF PushSecrets, stripe
  <2>2. hooks[i] # None /\ origin[i] = [acct |-> call.to, kind |-> k]
    BY <2>0, <2>1, PayloadIsOwn
  <2>3. origin'[i] # None /\ origin'[i].kind = k /\ origin'[i].acct = secrets'.acct
    <3>1. origin[i] # None
      BY <2>0, <2>2, OriginIsTold DEF Open
    <3>. QED  BY <2>1, <2>2, <3>1 DEF Payload
  <2>4. CASE odd' = {"lost"}
    BY <2>3, <2>4
  <2>5. CASE \E scope \in Scopes : call' = ToScope(TRUE, scope)
    <3>1. Lasting(i)'
      BY <1>0, <2>0, <2>1, <2>2, <2>5, ScopedIsPast, WrittenLasts
    <3>. QED  BY <2>3, <3>1
  <2>. QED  BY <1>2, <2>4, <2>5 DEF PushSecrets
<1>3. CASE CopySecret
  <2>1. UNCHANGED <<hooks, call, origin, pending>> /\ pending \in Secrets
    BY <1>3 DEF CopySecret, stripe, IInv, TypeOK
  <2>2. secrets \in Secrets
    BY DEF IInv, TypeOK
  <2>3. secrets'.hook[k] \in {secrets.hook[k], pending.hook[k]}
    BY <1>3, <2>1, <2>2 DEF CopySecret, Secrets
  <2>4. ASSUME i = pending.hook[k]
        PROVE  /\ origin[i] = [acct |-> pending.acct, kind |-> k] /\ origin[i] # None
               /\ Lasting(i)'
    <3>1. origin[i] = [acct |-> pending.acct, kind |-> k] /\ Lasting(i)
      BY <1>3, <2>4 DEF FileIsWhole, CopySecret
    <3>2. origin[i] # None
      BY <2>1, <3>1, OriginIsTold DEF Secrets
    <3>. QED  BY <1>0, <3>1, <3>2, LastingStep
  <2>5. CASE secrets' = pending
    BY <2>1, <2>4, <2>5
  <2>6. CASE secrets' # pending
    <3>1. odd' = odd \cup {"part"}
      BY <1>3, <2>6 DEF CopySecret
    <3>2. CASE i = pending.hook[k]
      BY <2>1, <2>4, <3>1, <3>2
    <3>3. CASE i = secrets.hook[k]
      <4>1. /\ origin[i] # None /\ origin[i].kind = k
            /\ Lasting(i) \/ "lost" \in odd
        BY <3>3 DEF SecretsTogether
      <4>. QED  BY <1>0, <2>1, <3>1, <4>1, LastingStep
    <3>. QED  BY <2>3, <3>2, <3>3
  <2>. QED  BY <2>5, <2>6
<1>. QED
  <2>1. CASE Webhooks \/ Catalog
    BY <1>1, <2>1 DEF Webhooks, ReuseHook, CreateHook, WebhooksDone, Catalog,
                      ReuseProduct, CreateProduct, SetPrice, files, history
  <2>2. CASE StartSwitch \/ Inventory \/ Fail \/ Scope \/ Rollback
    BY <1>1, <2>2 DEF StartSwitch, Start, Inventory, Fail, Scope, ScopeProducts,
                      ScopeEndpoints, ScopeSubscriptions, Rollback, RollbackEntry,
                      RollbackDone, files, history
  <2>3. CASE LeaveSecrets \/ Die \/ DeleteFile \/ ForgetKeys \/ UNCHANGED vars
    BY <1>1, <2>3 DEF LeaveSecrets, Die, DeleteFile, ForgetKeys, vars, files, history
  <2>. QED  BY <1>2, <1>3, <2>1, <2>2, <2>3 DEF Next, WriteSecrets, ByHand

LEMMA EnabledStep == ASSUME IInv, Enabled, [Next]_vars PROVE Enabled'
<1>. SUFFICES ASSUME call'.at \in Working \cup Scoping, NEW i \in HookIds,
                     hooks'[i] # None, hooks'[i].acct = call'.to, ~hooks'[i].on
              PROVE  call'.before.hooks[i] # None /\ ~call'.before.hooks[i].on
  BY DEF Enabled
<1>1. CASE StartSwitch
  <2>1. PICK from \in Accounts, to \in Accounts : Start(from, to)
    BY <1>1 DEF StartSwitch
  <2>2. call'.before.hooks = hooks /\ hooks' = hooks
    BY <2>1 DEF Start, stripe
  <2>. QED  BY <2>2
<1>2. CASE ~StartSwitch
  <2>1. /\ call'.to = call.to /\ call'.before = call.before /\ Running
        /\ call.at # "rollback"
    BY <1>2, CallStep DEF GoesOn, Working, Scoping
  <2>2. call.at \in Working \cup Scoping
    BY <2>1 DEF Running
  <2>3. call.from # call.to
    BY <2>1 DEF IInv, Apart
  <2>4. hooks[i] # None /\ hooks[i].acct = call.to /\ ~hooks[i].on
    BY <2>1, <2>3, HooksStep DEF Careful
  <2>. QED  BY <2>1, <2>2, <2>4 DEF Enabled
<1>. QED  BY <1>1, <1>2

LEMMA StoredStep == ASSUME IInv, Stored, [Next]_vars PROVE Stored'
<1>. SUFFICES ASSUME call'.at \in Scoping
              PROVE  IF call'.auto THEN secrets' = Payload' \/ odd' # {}
                     ELSE pending' = Payload' \/ (pending' = None /\ secrets' = Payload')
  BY DEF Stored
<1>1. CASE WriteSecrets
  <2>0. call.at = "secrets" /\ call \in Open
    BY <1>1, RunningIsOpen DEF WriteSecrets, PushSecrets, LeaveSecrets, Running,
                               Working, IInv
  <2>1. ASSUME NEW auto \in BOOLEAN, NEW scope \in Scopes, call' = ToScope(auto, scope)
        PROVE  call'.auto = auto /\ Payload' = Payload
    <3>1. call' # End("ok")
      BY <2>0, EndStage DEF Past, Scoping
    <3>. QED  BY <2>0, <2>1, <3>1, Scoped DEF Payload
  <2>2. call' # To("rollback") /\ call' # End("raised")
    BY <2>0, ToStage, EndStage DEF Past, Scoping
  <2>3. CASE PushSecrets
    BY <2>1, <2>2, <2>3 DEF PushSecrets
  <2>4. CASE LeaveSecrets
    BY <2>1, <2>2, <2>4 DEF LeaveSecrets
  <2>. QED  BY <1>1, <2>3, <2>4 DEF WriteSecrets
<1>2. ASSUME ~WriteSecrets
      PROVE  /\ call.at \in Scoping /\ call'.auto = call.auto /\ Payload' = Payload
             /\ Payload # None
  <2>1. ~StartSwitch
    BY DEF StartSwitch, Start, Scoping
  <2>2. GoesOn
    BY <2>1, CallStep
  <2>3. call.at \in Scoping
    BY <1>2, <2>2 DEF GoesOn
  <2>4. call'.auto = call.auto /\ Payload' = Payload
    BY <2>2, <2>3 DEF GoesOn, Payload
  <2>5. Payload # None
    <3>1. Payload \in Secrets
      BY <2>2, <2>3, PayloadIsSecrets DEF GoesOn, IInv
    <3>. QED  BY <3>1, NoneIsApart
  <2>. QED  BY <2>3, <2>4, <2>5
<1>3. CASE CopySecret
  <2>1. ~WriteSecrets
    BY <1>3 DEF CopySecret, WriteSecrets, PushSecrets, LeaveSecrets, Scoping
  <2>. QED  BY <1>2, <1>3, <2>1 DEF Stored, CopySecret
<1>4. CASE DeleteFile
  <2>1. ~WriteSecrets
    BY <1>4 DEF DeleteFile, WriteSecrets, PushSecrets, LeaveSecrets, Scoping
  <2>. QED  BY <1>2, <1>4, <2>1 DEF Stored, DeleteFile, history
<1>5. CASE UNCHANGED <<secrets, pending, odd>> /\ ~WriteSecrets
  BY <1>2, <1>5 DEF Stored
<1>6. CASE Die
  <2>1. call \in Open
    BY <1>6, RunningIsOpen DEF Die, IInv
  <2>. QED  BY <1>6, <2>1, EndStage DEF Die, Past, Scoping
<1>. QED
  <2>1. CASE Webhooks \/ Catalog
    BY <1>1, <1>5, <2>1 DEF Webhooks, ReuseHook, CreateHook, WebhooksDone, Catalog,
                      ReuseProduct, CreateProduct, SetPrice, files, history
  <2>2. CASE StartSwitch \/ Inventory \/ Fail \/ Scope \/ Rollback
    BY <1>1, <1>5, <2>2 DEF StartSwitch, Start, Inventory, Fail, Scope, ScopeProducts,
                      ScopeEndpoints, ScopeSubscriptions, Rollback, RollbackEntry,
                      RollbackDone, files, history
  <2>3. CASE ForgetKeys \/ UNCHANGED vars
    BY <1>1, <1>5, <2>3 DEF ForgetKeys, vars, files, history
  <2>. QED  BY <1>1, <1>3, <1>4, <1>6, <2>1, <2>2, <2>3 DEF Next, ByHand

LEMMA SourceStep ==
  ASSUME IInv, SourceKept, [Next]_vars PROVE SourceKept'
<1>. SUFFICES ASSUME call'.at \in Working \cup {"rollback"}
              PROVE  /\ \A i \in HookIds : call'.before.hooks[i] # None =>
                          \/ hooks'[i].acct = call'.to
                          \/ hooks'[i] = call'.before.hooks[i]
                     /\ \A a \in Accounts \ {call'.to} :
                          catalog'[a] = call'.before.catalog[a]
  BY DEF SourceKept
<1>1. CASE StartSwitch
  <2>1. PICK from \in Accounts, to \in Accounts : Start(from, to)
    BY <1>1 DEF StartSwitch
  <2>2. /\ call'.before.hooks = hooks /\ call'.before.catalog = catalog
        /\ hooks' = hooks /\ catalog' = catalog
    BY <2>1 DEF Start, stripe
  <2>. QED  BY <2>2
<1>2. CASE ~StartSwitch
  <2>1. /\ call'.to = call.to /\ call'.before = call.before /\ Running
        /\ call.at \in Working \cup {"rollback"} /\ call.at \notin Scoping
    BY <1>2, CallStep DEF GoesOn, Working, Scoping
  <2>2. \A a \in Accounts : a # call.to => catalog'[a] = catalog[a]
    BY <2>1, CatalogStep
  <2>3. ASSUME NEW i \in HookIds, call.before.hooks[i] # None
        PROVE  hooks'[i].acct = call.to \/ hooks'[i] = call.before.hooks[i]
    <3>1. hooks[i] # None
      BY <2>1, <2>3 DEF IInv, Undoable
    <3>2. hooks[i].acct = call.to \/ hooks[i] = call.before.hooks[i]
      BY <2>1, <2>3 DEF SourceKept
    <3>3. hooks'[i] # None
      BY <2>3, <3>1, HooksStep DEF Careful
    <3>4. hooks'[i].acct = hooks[i].acct
      BY <3>1, <3>3, HooksStep DEF Careful
    <3>5. hooks'[i] # hooks[i] => hooks[i].acct = call.to
      BY <2>1, <3>1, HooksStep DEF Careful
    <3>. QED  BY <3>2, <3>4, <3>5
  <2>. QED  BY <2>1, <2>2, <2>3 DEF SourceKept
<1>. QED  BY <1>1, <1>2

LEMMA PricesStep == ASSUME IInv, PricesKept, [Next]_vars PROVE PricesKept'
<1>. SUFFICES ASSUME call'.at \in Working \cup {"rollback"},
                     NEW to, to = call'.to, call'.before.catalog[to].active,
                     NEW p \in call'.before.catalog[to].prices, p \notin catalog'[to].prices
              PROVE  /\ call'.at \notin Early
                     /\ call'.want \notin {None, p}
                     /\ call'.want \in catalog'[to].prices \/ call'.replayed
  BY DEF PricesKept
<1>1. CASE StartSwitch
  <2>1. PICK from \in Accounts, dest \in Accounts : Start(from, dest)
    BY <1>1 DEF StartSwitch
  <2>2. call'.before.catalog = catalog /\ catalog' = catalog
    BY <2>1 DEF Start, stripe
  <2>. QED  BY <2>2
<1>2. CASE ~StartSwitch
  <2>1. /\ call.to = to /\ call'.before = call.before /\ Running /\ call \in Open
        /\ call.at \in Working \cup {"rollback"} /\ call.at \notin Scoping
        /\ call'.at \in Early => call.at \in Early
        /\ call.at \notin Early => call'.want = call.want /\ call'.replayed = call.replayed
    BY <1>2, CallStep DEF GoesOn, Working, Scoping
  <2>2. call.before.catalog[to].active /\ p \in call.before.catalog[to].prices
    BY <2>1
  <2>3. catalog[to].active /\ to \in Accounts
    BY <2>1, <2>2 DEF IInv, Undoable, Open
  <2>4. CASE catalog'[to] = catalog[to]
    BY <2>1, <2>2, <2>4 DEF PricesKept
  <2>5. ~CreateProduct
    BY <2>1, <2>3 DEF CreateProduct
  <2>6. CASE SetPrice
    <3>0. call.at = "price"
      BY <2>6 DEF SetPrice
    <3>1. p \in catalog[to].prices
      BY <2>1, <2>2, <3>0 DEF PricesKept, Early
    <3>. DEFINE replays == call.want \notin catalog[to].prices
                           /\ PriceKey(catalog[to].n) \in keys
    <3>2. catalog[to].prices \subseteq Amounts
      BY <2>3 DEF IInv, TypeOK, Tier
    <3>3. CASE catalog' = [catalog EXCEPT ![to].prices = @ \cup {call.want}]
      BY <2>3, <3>1, <3>3 DEF IInv, TypeOK, Tier
    <3>4. ASSUME NEW gone \in SUBSET Older(catalog[to].prices),
                 catalog' = [catalog EXCEPT ![to].prices =
                              (IF replays THEN @ ELSE @ \cup {call.want}) \ gone],
                 call' = CatalogDone(replays)
          PROVE  /\ call'.at \notin Early
                 /\ call'.want \notin {None, p}
                 /\ call'.want \in catalog'[to].prices \/ call'.replayed
      <4>1. replays \in BOOLEAN /\ call.want \notin gone
        BY DEF Older
      <4>. PICK replayed \in BOOLEAN : replayed = replays
        BY <4>1
      <4>2. catalog'[to].prices =
              (IF replayed THEN catalog[to].prices ELSE catalog[to].prices \cup {call.want})
                \ gone
        BY <2>3, <3>4 DEF IInv, TypeOK, Tier
      <4>. HIDE DEF replays
      <4>3. call'.at = "secrets" /\ call'.want = call.want /\ call'.replayed = replayed
        BY <2>1, <3>4, CatalogEnds DEF IInv, TypeOK
      <4>4. call.want # None
        BY <3>0 DEF IInv, Priced
      <4>5. p \in gone
        BY <3>1, <4>2
      <4>. QED  BY <4>1, <4>2, <4>3, <4>4, <4>5 DEF Early
    <3>. QED  BY <2>1, <2>6, <3>3, <3>4 DEF SetPrice
  <2>. QED  BY <2>1, <2>2, <2>4, <2>5, <2>6, CatalogStep
<1>. QED  BY <1>1, <1>2

LEMMA InitFound == Init => FoundInv
<1>. SUFFICES ASSUME Init PROVE FoundInv
  OBVIOUS
<1>1. PICK a \in Accounts, p \in Amounts, stamped \in BOOLEAN, fresh \in BOOLEAN,
           id \in [Kinds -> 1..Cardinality(Kinds)] :
        /\ \A k, l \in Kinds : k # l => id[k] # id[l]
        /\ id[Platform] = 1
        /\ hooks = [i \in HookIds |->
                      IF \E k \in Kinds : id[k] = i
                        THEN [acct |-> a, kind |-> CHOOSE k \in Kinds : id[k] = i,
                              stamped |-> stamped, fresh |-> fresh, on |-> TRUE]
                        ELSE None]
        /\ lastId = Cardinality(Kinds)
        /\ catalog = [b \in Accounts |->
                        IF b = a THEN [n |-> 1, active |-> TRUE, prices |-> {p}]
                        ELSE [n |-> 0, active |-> FALSE, prices |-> {}]]
        /\ subs = Accounts
        /\ keys = {}
        /\ secrets = [acct |-> a, hook |-> id]
        /\ pending = None
        /\ call = [at |-> "none"]
        /\ calls = 0
        /\ origin = [i \in HookIds |-> IF hooks[i] = None THEN None
                                      ELSE [acct |-> a, kind |-> hooks[i].kind]]
        /\ odd = {}
  BY DEF Init
<1>2. LaterAreUnused /\ TypeOK
  BY InitIsGood DEF IInv
<1>3. \A i \in HookIds : hooks[i] # None => hooks[i].acct = a
  BY <1>1
<1>4. Origins
  BY <1>1, <1>2, <1>3 DEF Origins, LaterAreUnused
<1>5. FileIsWhole /\ Enabled /\ Stored /\ SourceKept /\ PricesKept
  BY <1>1 DEF FileIsWhole, Enabled, Stored, SourceKept, PricesKept, Working, Scoping
<1>6. SecretsTogether
  <2>. SUFFICES ASSUME NEW k \in Kinds, NEW i, i = secrets.hook[k], i # 0
                PROVE  /\ origin[i] # None /\ origin[i].kind = k
                       /\ origin[i].acct = secrets.acct
                       /\ Lasting(i)
    BY DEF SecretsTogether
  <2>1. i = id[k] /\ secrets.acct = a
    BY <1>1
  <2>2. i \in HookIds
    BY <1>2, BoundsAreNumbers DEF TypeOK, Secrets, HookIds
  <2>3. /\ hooks[i] = [acct |-> a, kind |-> CHOOSE l \in Kinds : id[l] = i,
                       stamped |-> stamped, fresh |-> fresh, on |-> TRUE]
    BY <1>1, <2>1, <2>2
  <2>4. (CHOOSE l \in Kinds : id[l] = i) = k
    BY <1>1, <2>1
  <2>5. hooks[i] # None /\ hooks[i].kind = k
    <3>1. PICK h : h = [acct |-> a, kind |-> k, stamped |-> stamped,
                        fresh |-> fresh, on |-> TRUE]
      OBVIOUS
    <3>2. hooks[i] = h
      BY <2>3, <2>4, <3>1
    <3>3. h \in Hook /\ h.kind = k
      BY <3>1 DEF Hook
    <3>. QED  BY <3>2, <3>3, NoneIsApart
  <2>6. origin[i] = [acct |-> a, kind |-> k]
    BY <1>1, <2>2, <2>5
  <2>7. Lasting(i)
    BY <1>1, <2>5 DEF Lasting, Working
  <2>. QED  BY <2>1, <2>6, <2>7, OriginIsTold
<1>. QED  BY <1>4, <1>5, <1>6 DEF FoundInv

LEMMA FoundStep ==
  ASSUME IInv, FoundInv, [Next]_vars PROVE FoundInv'
<1>1. TypeOK'
  BY NextTypes DEF IInv
<1>. QED  BY <1>1, OriginsStep, FileStep, TogetherStep, EnabledStep, StoredStep,
             SourceStep, PricesStep DEF FoundInv

-----------------------------------------------------------------------------
(***************************************************************************)
(* The theorems.                                                           *)
(***************************************************************************)

\* The invariant holds in every reachable state.
THEOREM SwitchInvariant == Spec => [](IInv /\ FoundInv)
<1>1. Init => IInv /\ FoundInv
  BY InitIsGood, InitFound
<1>2. IInv /\ FoundInv /\ [Next]_vars => IInv' /\ FoundInv'
  BY StepKeeps, FoundStep
<1>. QED  BY <1>1, <1>2, PTL DEF Spec

\* The records of the endpoints, the catalog, the secrets and the call keep their
\* shape, and ids stay within what was given.
THEOREM TypeCorrect == Spec => []TypeOK
<1>1. IInv => TypeOK
  BY DEF IInv
<1>. QED  BY <1>1, SwitchInvariant, PTL

\* However many switches fail, are aborted or die, an account never has two
\* endpoints of a kind (setup_webhook_endpoints finds what an earlier call left).
THEOREM OneEndpointOfAKind == Spec => []NoTwins
<1>1. IInv => NoTwins
  BY DEF IInv
<1>. QED  BY <1>1, SwitchInvariant, PTL

\* As long as a rollback runs, whatever of the journal is undone (_rollback), the
\* source is as the call found it, and so is what was active in the destination, but
\* for the events of its endpoints and the prices that gave way to the one asked for.
THEOREM RollbackKeepsWhatRuns == Spec => []AbortKeepsWhatRuns
<1>1. IInv /\ FoundInv => AbortKeepsWhatRuns
  <2>. SUFFICES ASSUME IInv, FoundInv, call.at = "rollback" PROVE AbortKeepsWhatRuns
    BY DEF AbortKeepsWhatRuns
  <2>. call \in Open
    BY RunningIsOpen DEF IInv, Running
  <2>1. call.to \in Accounts
    BY DEF Open
  <2>2. /\ \A i \in HookIds : call.before.hooks[i] # None =>
             hooks[i] # None /\ hooks[i].on = call.before.hooks[i].on
        /\ \A a \in Accounts : call.before.catalog[a].active =>
             catalog[a].active /\ catalog[a].n = call.before.catalog[a].n
        /\ subs = call.before.subs
    BY DEF IInv, Undoable
  <2>3. /\ \A i \in HookIds : call.before.hooks[i] # None =>
             hooks[i].acct = call.to \/ hooks[i] = call.before.hooks[i]
        /\ \A a \in Accounts \ {call.to} : catalog[a] = call.before.catalog[a]
    BY DEF FoundInv, SourceKept
  <2>4. call.before.catalog[call.to].active =>
          \A p \in call.before.catalog[call.to].prices \ catalog[call.to].prices :
            /\ call.want \notin {None, p}
            /\ call.want \in catalog[call.to].prices \/ call.replayed
    BY DEF FoundInv, PricesKept
  <2>. QED  BY <2>1, <2>2, <2>3, <2>4 DEF AbortKeepsWhatRuns
<1>. QED  BY <1>1, SwitchInvariant, PTL

\* The webhook secrets of the project are of endpoints of their kind, in the account
\* whose key it uses unless a person copied some of them only, and these endpoints
\* are there unless the answer to the write of the secrets was lost (switch_account:
\* one payload, of the destination).
THEOREM SecretsStayTogether == Spec => []SecretsBelongTogether
<1>1. IInv /\ FoundInv => SecretsBelongTogether
  BY DEF FoundInv, SecretsTogether, Lasting, SecretsBelongTogether
<1>. QED  BY <1>1, SwitchInvariant, PTL

\* A switch that gets past the catalog leaves the tier with an active product and
\* the price asked for, or Stripe replayed an older answer
\* (setup_products_and_prices).
THEOREM TierIsPriced == Spec => []CatalogIsPriced
<1>1. IInv => CatalogIsPriced
  BY DEF IInv, Priced, CatalogIsPriced
<1>. QED  BY <1>1, SwitchInvariant, PTL

\* When the source is touched, an endpoint of each kind serves in the destination,
\* and the secrets were handed over.
LEMMA ScopingIsReady ==
  ASSUME IInv, FoundInv, call.at \in Scoping
  PROVE  (\A k \in Kinds : \E i \in HookIds : Serves(i, k)) /\ HandedOver
<1>. call \in Open
  BY RunningIsOpen DEF IInv, Running
<1>1. ASSUME NEW k \in Kinds PROVE \E i \in HookIds : Serves(i, k)
  <2>1. k \in DOMAIN call.got
    BY DEF IInv, Prepared, Scoping
  <2>2. PICK i \in Exact(k) : hooks[i].fresh /\ call.got[k] \in {0, i}
    BY <2>1 DEF IInv, Prepared
  <2>3. i \in HookIds /\ hooks[i] # None /\ hooks[i].acct = call.to
    BY DEF Exact, HooksOf
  <2>4. ~hooks[i].on => call.before.hooks[i] # None /\ ~call.before.hooks[i].on
    BY <2>3 DEF FoundInv, Enabled
  <2>. QED  BY <2>2, <2>3, <2>4 DEF Serves
<1>2. HandedOver
  BY DEF FoundInv, Stored, HandedOver
<1>. QED  BY <1>1, <1>2

\* A running call takes nothing from the source - no endpoint deleted or switched
\* off, no product archived, no subscription cancelled - before an endpoint of each
\* kind serves in the destination, enabled unless it was disabled before, and the
\* secrets went to the project or to the file (switch_account: scope_action last).
THEOREM SourceIsLast == Spec => SourceLast
<1>. DEFINE Loses ==
       \/ \E i \in HooksOf(call.from) :
            hooks[i].on /\ (hooks'[i] = None \/ ~hooks'[i].on)
       \/ catalog[call.from].active /\ ~catalog'[call.from].active
       \/ call.from \in subs \ subs'
            Done == /\ call.at \in Scoping
                    /\ \A k \in Kinds : \E i \in HookIds : Serves(i, k)
                    /\ HandedOver
<1>1. ASSUME IInv, FoundInv, [Next]_vars, Running, Loses PROVE Done
  <2>. call \in Open
    BY <1>1, RunningIsOpen DEF IInv
  <2>1. call.from # call.to /\ call.from \in Accounts
    BY <1>1 DEF IInv, Apart, Open
  <2>2. ASSUME call.at \notin Scoping PROVE FALSE
    <3>1. subs' = subs /\ catalog'[call.from] = catalog[call.from]
      BY <1>1, <2>1, <2>2, CatalogStep
    <3>2. ASSUME NEW i \in HooksOf(call.from), hooks[i].on
          PROVE  hooks'[i] # None /\ hooks'[i].on
      <4>1. i \in HookIds /\ hooks[i] # None /\ hooks[i].acct # call.to
        BY <2>1 DEF HooksOf
      <4>. QED  BY <1>1, <2>2, <3>2, <4>1, HooksStep DEF Careful
    <3>. QED  BY <1>1, <3>1, <3>2
  <2>. QED  BY <1>1, <2>2, ScopingIsReady
<1>2. IInv /\ FoundInv /\ [Next]_vars => [Running /\ Loses => Done]_vars
  BY <1>1
<1>. QED  BY <1>2, SwitchInvariant, PTL DEF Spec, SourceLast

=============================================================================
