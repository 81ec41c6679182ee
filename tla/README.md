# A verification model of the StateSet UCP handler

TLA+ modules that model the checkout server of this repository, TLC
configurations that check them on small instances, and theorems about them that
TLAPS proves for every instance. File names below are relative to the
repository; a line number is that of the commit the models were written from.

## 1. The system

The server implements the Universal Commerce Protocol: a client (a *platform*)
opens a checkout session, updates it until nothing is missing, completes it, and
gets an order. It is one tokio process. All state is in maps behind
`tokio::sync::RwLock`s; an optional embedded commerce engine persists part of it.

| Component | State | Operations | Interacts with |
|---|---|---|---|
| Checkout service (`service.rs`) | none of its own | create, get, update, complete, cancel | reads and writes the checkout store; sends an event per completed session |
| Checkout store (`store.rs`) | `cache`: sessions with a deadline; `overlays`: what was negotiated | insert, get, set/get_negotiated, remove (unused) | two locks, taken one after the other; optional engine |
| Order events (`events.rs`, `main.rs:164,326`) | a channel of 128 events; one worker task | send; receive, store, deliver | fills the order store, waits for the webhook |
| Order webhook (`webhook.rs`) | none | post with bounded retries | the platform |
| Order API (`order_api.rs`) | `orders` | insert, get, fulfillment event, adjustment | read-modify-write of whole orders |
| Idempotency (`idempotency.rs`, `mcp.rs`, `a2a.rs`) | records by key, with a lifetime | look up, run, store | wraps every POST/PUT (HTTP) or mutation (MCP, A2A) |
| Tokenization (`tokenization.rs`) | a vault of credentials by token, with a lifetime | tokenize, detokenize | called by the API once `auth.rs` has let a request in |
| OAuth (`oauth.rs`) | codes, access tokens | authorize, exchange, revoke, validate | `auth.rs` asks it of every bearer token |
| API keys (`auth.rs`) | none | validate_token | OAuth's table of tokens |
| Negotiation (`negotiation.rs`, `ucp_meta.rs`) | cache of platform profiles, with a lifetime | fetch, intersect, filter | the platform's profile URL; decides what a request is served under and what its answer shows |
| AP2 (`service.rs:731-903`, `crypto.rs`) | the authorization in each session | sign a session, verify a mandate | the keys of the negotiated profile |
| Pricing (`service.rs:905-1489`, `models.rs`) | none | lines, discounts, fulfillment, tax, totals | catalog; the engine's promotions, taxes and rates |
| Catalog (`catalog.rs`) | products and stock | look-ups | engine; read by pricing, written by nobody here |
| Engine adapter (`store.rs:217-520`, `order_api.rs:70-330`, `commerce_adapter.rs`) | the engine's carts and orders (external) | copy a session or order, adopt a cart | the store and the order store |
| Transports (`main.rs`, `mcp.rs`, `a2a.rs`, `grpc.rs`, `embedded.rs`) | none but the idempotency maps | dispatch | checkout service |
| Config, validation, bindings | none | - | - |

### What is hard here

Nothing orders two operations on one session. Each operation *looks a session
up, computes a new one from its copy, and writes it back*, and gives way in
between at every lock, at the channel, and wherever the client can go away.
`PROJECT.json` lists each hazard at its line; the themes are

- **check, then act**: completing, updating and canceling check the status of a
  copy (two orders of one session, a terminal session overwritten); the same
  shape again in the order API and in the idempotency layer;
- **two locks, one fact**: the cache and the overlays are written one after the
  other (a recorded negotiation lost);
- **the order after the answer**: the order of a completed session is stored by
  a worker that is behind earlier deliveries and their retries;
- **partial failure**: hyper drops a handler's future when its connection ends,
  so an operation can stop at any `.await`; shutdown drops the channel;
- **used once**: authorization codes and vault tokens must be spent by exactly
  one of the requests that name them, over two tables with a lock each;
- **asked without the lock**: a profile is fetched between a look at the cache
  and a write to it, and may be older than what is there by then;
- **signed, then changed**: a checkout is signed when it is stored and cut down,
  canceled or overwritten afterwards;
- **memory and engine**: what the engine keeps is under other identifiers, and
  with other statuses, than what was in memory when the process ended;
- **bounds and rounding**: the channel's capacity, the webhook's attempts, the
  lifetimes, 32-bit quantities, and three accounts of one discount.

## 2. The modules

| Module | Models |
|---|---|
| `Identifiers` | session and order identifiers (uuids: drawn without replacement) |
| `CheckoutSession` | the value of a session, and what the operations compute from it (`apply_status`, `attach_payment_data`, the merge of an update) |
| `CheckoutStore` | `store.rs` without an engine: one action per critical section |
| `OrderEvents` | the channel, the worker, the order store, the webhook's attempts |
| `CheckoutService` | composes the three: requests in progress, each with a program counter naming its next critical section; all properties and the inductive invariants |
| `SessionLifecycle` | what clients are promised, without requests, locks or queues; `CheckoutService!Lifecycle` is the refinement |
| `Idempotency` | the caches of answers that wrap the operations: the HTTP middleware of `idempotency.rs`, and those of `mcp.rs` and `a2a.rs`; `CacheOf[k]` says whose table key `k` belongs to |
| `OrderApi` | the two handlers of `order_api.rs` that change an order once the worker has stored it |
| `OneShot` | what a credential promises that may be used once, without tables or requests |
| `OAuth` | `oauth.rs`; its authorization codes implement `OneShot` (`AuthorizationCodes`) |
| `Tokenization` | `tokenization.rs`; its single-use tokens implement `OneShot` (`VaultedCredentials`) |
| `Access` | composes the two behind `auth.rs`: a request presents a key, is let in, and uses the vault |
| `Negotiation` | operators: the intersection of capabilities, versions, keys, and what an answer shows |
| `ProfileCache` | the cache of profiles and the requests that fetch into it |
| `Mandates` | composes them with the authorizations of sessions: what is stored, completed and answered under which terms |
| `Sums` | operators: the sums of the prefixes of a list of amounts, and its total |
| `Discounts` | operators: the three discount codes and their rounding |
| `Pricing` | sessions as they are priced and priced again, with a catalog that changes |
| `Durability` | the checkout and order stores over the engine, with a clock and restarts |
| `MCCheckoutService`, `MCIdempotency`, `MCOrderApi`, `MCAccess`, `MCMandates`, `MCPricing`, `MCDurability` | instances for TLC |
| `InductionProofs` | lemmas: induction over numbers, functions by recursion, and what `Sums` and `Total` are for lists of any length |
| `CheckoutServiceProofs`, `IdempotencyProofs`, `OrderApiProofs`, `AccessProofs`, `MandatesProofs`, `DurabilityProofs`, `PricingProofs` | the theorems |

Sessions appear in four modules because four questions are asked of them, each
with the part of the session it depends on: the status (`CheckoutService`), the
price (`Pricing`), the signature (`Mandates`), and what outlives memory
(`Durability`, which shares `CheckoutSession` with the first).

### Checkout: state

| Model | Code |
|---|---|
| `cache[c]` | `CheckoutStore::cache`; `NoSession` is a missing entry. A session keeps its status, whether the buyer has an email, what the selected instrument is worth, how far fulfillment is settled, and its order id |
| `expired` | cached sessions with `Utc::now() > expires_at`. Time is not modelled: a deadline may pass at any moment (`Expire`), which covers every timing |
| `overlays[c]` | `negotiated_version/capabilities` of the overlay: none, or the platform they were negotiated with |
| `queue`, `worker` | the mpsc channel, and where the one task of `main.rs:326` is |
| `orders`, `received` | `OrderStore::orders`; the orders for which a platform got at least one webhook (external) |
| `req[r]` | one operation in progress: its program counter, its copy of the session (`checkout` in `service.rs`), and the negotiation `insert` has read |
| `known` | the sessions clients have been told of: a client can only address those |

### Checkout: actions

| Action | Code |
|---|---|
| `CreateCheckout`, `UpdateCheckout`, `CompleteCheckout`, `CancelCheckout` | the operation from its lookup to the first lock of `insert`: without an engine there is no `.await` in between. A `get` that misses under the read lock looks again under the write lock, and the second look decides |
| `Refuse` | every early return with an error: no such session, a status that rules the operation out, a body that is refused |
| `StoreSession`, `ReadOverlay`, `WriteOverlay` | the three critical sections of `insert` |
| `EvictExpired`, `DropOverlay` | the two critical sections of a `get` that finds an expired session |
| `AnnounceOrder` | `EventSender::send`; it waits while the channel is full |
| `RecordNegotiated` | the handlers' `record_negotiated_checkout` and the answer |
| `Disconnect` | the handler's future is dropped at an `.await` |
| `ReceiveEvent`, `StoreOrder`, `RetryDelivery`, `EndDelivery` | the worker task and `send_order_event` |

`Mutates` and `Reads` say which sessions the client behind a slot addresses.
Disjoint `Mutates` are clients that serialize their changes to a session, which
the code silently relies on; equal ones are clients that do not.

### Idempotency

`Idempotency` leaves the operation behind the cache abstract: carrying a request
out is one step, `RunRequest`, that draws an identifier of its own, so that a
replay can be told from a second run. It may end in any of four ways, `ok`,
`refused`, `invalid` (the body does not parse) and `failed`; which of them are
stored is where the three caches differ (`Stored`).

| Model | Code |
|---|---|
| `records[k]`, `stale` | the map by key, message id or params key; the keys whose record is older than the ttl (`Expire` makes one stale at any moment) |
| `slot[r]` | one request: before the look-up, between the read and the write lock of `get`, before and after `next.run`, answered |
| `done` | history: every run so far, with its key, payload and outcome |
| `Get`, `GetExpired` | `IdempotencyStore::get`, one action per lock (HTTP) |
| `IdempotencyReplay` | the look-up of MCP and A2A under one write lock; `Expired` and `Kept` say what each drops |
| `Insert`, `Skip`, `BufferOverflows` | the answer is stored; is none to store; is too large to buffer (HTTP) |
| `PassThrough` | no key, or a method that is not covered |

`KeysOf` gives each client its keys: a key of one client is one that is repeated
only after an answer, a key that two clients share is one that is not.

### Order API

| Model | Code |
|---|---|
| `orders[o]` | `OrderStore::orders`: the events, the adjustments, and per item how much is fulfilled and its status |
| `slot[r]` | one request: before the look-up, or with the copy it is about to write |
| `AddFulfillmentEvent`, `AddAdjustment` | `get_order`, the validation, and the change of the copy, up to the lock of `update` |
| `UpdateOrder` | `OrderStore::update` |
| `Refuse` | an unknown order, or one of the `validate_*` errors |

Quantities are 32 bits wide in the code; `MaxInt` is the largest, and `Wrapped`
is the sum as the release build computes it. An event is *moved* when its type
is `shipped` or `delivered` (the two that count), *other* otherwise.
Lines keep the ids that clients gave them, which nobody compares
(`service.rs:924-930`); an event names the first line with its id, so the lines in
`Shadowed`, whose id an earlier line has, are never moved.

### Access: OAuth, the vault and API keys

| Model | Code |
|---|---|
| `codes`, `tokens` | the two maps of `OAuthService`, each behind its lock; a token is kept with the code it was issued for |
| `lapsed`, `outdated` | records older than their ttl (`Lapse`, `Outdate` make one so at any moment) |
| `client[k]` | a request to `/oauth2`: before the clean-up of either table, at its work, or with a token it has drawn and not stored |
| `CleanCodes`, `CleanTokens` | `cleanup_expired`, one lock after the other |
| `Grant`, `Refuse` | `authorize`, `validate_scopes`, and the early returns |
| `RemoveCode`, `Issue` | `exchange_code`: the code leaves its table under one lock, the token enters its own under another, and the client may be gone in between (`Disconnect`) |
| `Revoke` | `revoke` |
| `Tokenize`, `HandOut`, `RefuseToken` | `tokenize` and `detokenize`, one critical section each, with `purge_expired` |
| `Authenticate` | `auth_middleware`, with `validate_access_token`, which drops a token it finds expired |
| `Handle` | the handler, any time after |

`granted`, `issued`, `revoked`, `entered`, `handed` and `late` are history.

### Negotiation and mandates

| Model | Code |
|---|---|
| `published[p]` | the profile a platform serves (external); profiles are numbered in the order it publishes them |
| `cache[p]` | `ProfileCache::cache`: which profile, and whether its ttl is over |
| `slot[r]` | a request up to the terms it is served under; `seen` is the cached profile at its look-up |
| `Lookup`, `Answered`, `Unanswered`, `StoreProfile` | `fetch_profile`: read lock, the platform's answer or failure, write lock |
| `Serve` | `validate_version`: served, or refused |
| `SignatureMayPass`, `MayChange` | `request_signature_middleware`, which looks at POST and PUT only: reads are not signed |
| `sessions[c]` | a stored checkout: a *mark* stands for its data, so that two states which a signature tells apart have different marks or statuses |
| `work[r]` | the copy a handler is about to write, or has answered |
| `CreateCheckout`, `UpdateCheckout`, `CompleteCheckout`, `CancelCheckout`, `StoreSession`, `GetCheckout` | the operations, from the look-up to the copy, and the write |
| `MerchantAuthorization` | `ap2_response_for_checkout`: nothing without AP2, the configured constant (`StaticAuthorization`), a signature (`SigningKey`), or nothing when the configured key did not load |
| `MandateHolds` | `verify_ap2_mandate`: the claims that are there have to agree |
| `Shown`, `Whole` | `apply_negotiated_checkout`: what is answered |

A signature is the term of what it was made over: it verifies over that and
nothing else. Which algorithm, encoding and canonical form make it so is left
out. A mandate is any combination of a key, a checkout, an authorization and an
age, so the model asks what follows from acceptance, never who made it.

### Pricing

| Model | Code |
|---|---|
| `catalog` | price and stock by item; `Restock` is the merchant (external) |
| `quotes[s]` | the lines, codes, fulfillment groups, applied discounts and totals of a session |
| `asked[s]` | history: the codes and groups it was last given |
| `Create`, `Update` | `create_checkout` and `update_checkout`: `build_line_items`, `build_fulfillment`, `apply_discounts`, `calculate_tax`, `calculate_totals` |
| `Settle` | completion and cancelation, which price nothing again |
| `Outcomes`, `LegacyDiscounts` | the loop over `SAVE10`, `SAVE5` and `SHIPFREE`, with its divisions: what is taken after each code, and after the last |
| `EngineAnswers` | what the engine says of promotions, taxes and rates (external) |

`InputAssumption` says what requests and the engine may write down: any quantity,
any amount of a fulfillment option (nobody checks it, so it may be negative), any
tax; a promotion takes and does not give. Prices and stock are not negative.
`TotalsAddUp` names the two exceptions the code makes: `SAVE10` after `SAVE5`, and
a fulfillment that costs less than nothing, which `calculate_totals` counts in the
taxable amount and does not list.

### Durability

| Model | Code |
|---|---|
| `cache`, `overlays`, `queue`, `orders` | what is in memory |
| `carts` | the engine's cart under each identifier a client can name |
| `copies` | carts of sessions made here: the engine gives them identifiers of its own, which no client knows |
| `Create`, `Update`, `Cancel`, `Complete` | the operation after its `get`, with `insert` and `sync_to_icommerce`, which may fail |
| `Evict`, `Load` | `get` of an expired entry; of one that is not in memory (`load_from_icommerce`) |
| `Restart` | the process ends, `main` not waiting for the queue, and starts again |
| `CartWork` | another application makes a cart or works on it (external) |

Requests follow one another here and time is a clock, since deadlines are
compared with each other.

## 3. What is checked

Passing runs:

| Run | Question |
|---|---|
| `MCSerialized` | Two clients that each change their own session, one of which reads both; one session expires, one client may disconnect anywhere: are terminal states final, is a stored completed session always complete, is there one order per session, does the session name it, does a notified platform find it, and is what was negotiated kept in a session only its own client uses? |
| `MCLifecycle` | Under fairness, do serialized clients see `SessionLifecycle`, is every request answered, and does every completed session's order reach the order store, through a channel of one and a worker that retries? |
| `MCIdempotency` | All three caches at once, keys of one client and a key of two, keys that expire and keys that do not, a client that may disconnect and whose answers may be too large to buffer: is a key of a patient client carried out once, does a replay answer the request it is given to, does a fresh record survive the removal of stale ones? |
| `MCOrderApi` | An order of one client and an order of two: do quantities, statuses and the events that survive agree, whoever overwrites whom; with one client, are events and adjustments append-only, and is nothing fulfilled taken back? |
| `MCAccess` | Two requests race on one code while tokens lapse and are revoked, and a caller uses them on the vault: are codes and vault tokens used once (`OneShot`), does a token keep its grant, does nobody but its holder spend a vault token, and does a revoked or lapsed token stay out? |
| `MCMandates` | Two requests of a platform that replaces its profile and keys, fetches that fail and overlap: is nobody served under something unpublished or older than what was cached, is the agreement the largest common one, was a session of AP2 completed under a mandate of its platform that names no other session and no other state of it, and is the stored authorization one that completing accepts? |
| `MCPricing` | One session priced again and again while the catalog and the engine change: does the price follow from the last inputs, are the line discounts, the applied codes and the totals three accounts of one price, does sending back what was answered cost the same? |
| `MCDurability` | One session made here, one cart of another application, deadlines and restarts: does no way through the engine complete a session more often than it was created or adopted, and does a session that names an order lack nothing, whatever status its cart had, and still have that order? |

Runs that find a violation, each a disagreement between the code and what the
repository says (details in `PROJECT.json`, "findings"):

| Run | Shows |
|---|---|
| `MCDoubleOrder` | two concurrent completions of a session announce two orders |
| `MCOrderEntryLost` | one of two concurrent events or adjustments is lost |
| `MCRestart` | a session of which the engine has taken a copy is not found after a restart, because the copy is under another identifier |
| `MCAnswersVerify` | an answer carries an authorization that does not verify over the checkout it came with |

The same interleavings have other outcomes, which the models show when the
assumption named is dropped from a run. Of `CheckoutService`, with two clients
of one session: an update or a cancelation in progress overwrites a completed
session, and a negotiation one client recorded is lost to another's `insert`
between its two overlay locks; with clients that may disconnect: one between
`insert` and `send` leaves a completed session whose order never exists
(`CompletedOrderIsStored` fails). A completion is answered before its order can
be fetched, since the worker is behind. Of `Idempotency`: two racing requests
with one key that both clients use are both carried out; a disconnect after the
run and before the insert of its answer lets the retry run again; and a replayed
JSON-RPC answer has the id of the first request (`AnswersEchoTheId`). Of
`OrderApi`, with a quantity near the 32-bit limit: the fulfilled quantity wraps
before it is limited. Of `Pricing`: stock is looked at when lines are built and
never again, so completed sessions can hold more than there is
(`StockCoversOrders`); and `SAVE10` after `SAVE5` takes a tenth of the full price
from lines that may have nothing left, which `TotalsAddUp` therefore excepts.

**Bounds.** Two slots suffice for every race above: each hazard needs one
operation between two critical sections of another. Two sessions and two orders
tell "one order per session" from "one session per order". A channel of one
fills with the first event the worker has not received. `MaxAttempts = 2` has a
retry and a last attempt. Every slot may run any number of operations; what is
bounded is the number of sessions and orders ever created. They run out, since
identifiers are not reused: the runs in which the system may then stand still
(`MCSerialized`, `MCLifecycle`, `MCAccess`, `MCPricing`, `MCDurability`,
`MCRestart`) say `CHECK_DEADLOCK FALSE`; the others check for deadlock.

Bodies of requests come in two kinds in these runs, one that completes a session
and one that leaves something missing; `CompletedSessionsAreWellFormed` covers
all 60 combinations of input parts.

In the runs of `Idempotency` two clients repeat requests and have them carried
out again, which every property needs at most once; two payloads make a
conflict. `MCIdempotency` has a lasting key of HTTP and one of MCP, both of the
client that stays, an expiring HTTP key that both clients use, and expiring keys
of MCP and A2A. `Begin` starts a request only while a run is left for it, so no slot is
ever stuck. In the runs of `OrderApi` three entries suffice for an item to be
fulfilled in part, in full, and beyond what was bought; item `i1` is bought
three times and `i2` once, and `i3` is a line with the id of `i2` (`Shadowed`). `MaxInt = 7` is far above any sum of the run. When the
entries are used up, requests are still refused.

`MCAccess` has one code for two requests to race on, a second access token to
tell one exchange from two, a vault token bound to a checkout with or without an
identity, and two redirect URIs of which one is blank. `MCMandates` has four
profiles: two with AP2 and different keys, versions and capabilities, one that has
an extension and not what it extends, and one that is too new; one key does not
load; two marks differ in what they need to be shown. It signs (`SigningKey`, no
static authorization) and asks for no request signatures, which only refuse more.
The business offers what `discovery_document` lists, where every extension
extends `checkout`, so one pruning pass removes all there is to remove; that the
loop is right for longer chains is part of `AgreementIsLargest` only.
`MCPricing` has prices that do not divide evenly, subtotals above and below the
five dollars of `SAVE5`, every order of the codes that changes the result,
blank and unknown codes, and groups without options, without a selection, with an
unknown one, and with an option that costs less than nothing. `MCDurability` runs to the third tick, past every deadline,
with carts that have ended, end later, or never end.

**Fairness.** `Proceed(r)` is weakly fair: tokio polls every ready task, and its
locks and channels are fair to waiters, so an operation that could take a step
takes it. The worker is weakly fair: every delivery attempt ends by the HTTP
client's timeout, and its delay is finite (it is the platform's `Retry-After`,
which the code does not cap, so the assumption is that platforms send finite
ones). Clients are not fair: nobody has to send a request. `Disconnect` and
`Expire` are never forced. The other modules state no fairness: their
properties are about what may not happen.

## 4. What is proved

For every number of sessions, orders, slots, platforms, profiles, codes, tokens
and carts, any channel capacity, ttl and number of attempts, and lists of lines,
codes, fulfillment groups and events of any length:

| Theorem | States | Needs |
|---|---|---|
| `TypeCorrectness` | `Spec => []TypeOK`, the channel within its capacity | - |
| `CompletedSessionsAreWellFormed` | `Spec => []CompletedIsWellFormed` | - |
| `TerminalStatesAreFinal` | `Spec => TerminalIsFinal` | `Serialized` |
| `OneOrderForASession` | `Spec => []OneOrderPerSession` | `Serialized` |
| `AnnouncedOrderHasItsSession` | `Spec => []OrderHasItsSession` | `Serialized` |
| `NotifiedOrdersAreStored` | `Spec => []NotifiedOrderIsStored` | - |
| `NegotiationsAreKept` | `Spec => NegotiationIsKept` | - |
| `ServiceImplementsLifecycle` | `Spec => Lifecycle!LifecycleSafety`, the safety part of `ImplementsLifecycle` | `Serialized`, nobody disconnects |
| `IdempotencyTypes` | `Spec => []TypeOK` (`Idempotency`) | - |
| `ReplaysAnswerTheirRequest` | `Spec => []ReplaysMatch` | - |
| `FreshRecordsAreKept` | `Spec => FreshRecordsStay` | - |
| `PatientClientsRunOnce` | `Spec => []OneRunPerKey` | `Patient` |
| `OrderTypes` | `Spec => []TypeOK` (`OrderApi`) | - |
| `StatusIsTrue` | `Spec => []StatusFollowsQuantities` | `NoOverflow` |
| `EntriesAreKept` | `Spec => EntriesAreAppendOnly` | - |
| `FulfillmentIsKept` | `Spec => FulfillmentOnlyGrows` | `NoOverflow` |
| `FulfilledAgrees` | `Spec => []FulfilledAgreesWithEvents` | `NoOverflow` |
| `AccessTypes` | `Spec => []TypeOK` (`Access`) | - |
| `AuthorizationCodesAreOneShot` | `Spec => CodesAreOneShot`, the refinement of `OneShot` | - |
| `OneAccessTokenPerCode` | `Spec => []OneTokenPerCode` | - |
| `TokensKeepTheirGrant` | `Spec => []TokenKeepsItsGrant` | - |
| `RevokedTokensStayOut` | `Spec => RevokedStaysOut` | - |
| `VaultTokensAreOneShot` | `Spec => VaultIsOneShot`, the refinement of `OneShot` | `SingleUse` |
| `OneCredentialForAToken` | `Spec => []OneCredentialPerToken` | - |
| `RedeemedUnderItsBinding` | `Spec => []OnlyUnderItsBinding` | - |
| `RefusedTokensStay` | `Spec => RefusalsSpendNothing` | - |
| `MandateTypes` | `Spec => []TypeOK` (`Mandates`) | - |
| `ServedUnderPublishedProfiles` | `Spec => []ServedUnderPublished` | - |
| `CacheGoesBackOnlyByOverlap` | `Spec => CacheGoesBackByOverlap` | - |
| `MandatesFitCompletions` | `Spec => []MandateFitsCompletion` | - |
| `StoredAuthorizationsHold` | `Spec => []StoredAuthorizationHolds` | - |
| `AgreementIsLargest` | `Spec => []AgreesOnTheMost` | - |
| `PricingTypes` | `Spec => []TypeOK` (`Pricing`) | - |
| `PricesAreOfTheInputs` | `Spec => []PriceIsOfInputs` | - |
| `AccountsAgree` | `Spec => []DiscountsAreAllocated` | - |
| `EntriesMakeTheTotal` | `Spec => []TotalsAddUp` | - |
| `EchoesKeepTheirPrice` | `Spec => []EchoKeepsPrice` | - |
| `DurabilityTypes` | `Spec => []TypeOK` (`Durability`) | - |
| `OrdersFollowAdoptions` | `Spec => []OneOrderPerAdoption` | - |
| `CompletedSessionsAreWhole` | `Spec => []CompletedIsWhole` | - |

`Serialized` is that no two slots change the same session; `Patient` that no two
slots use the same lasting key, and that a slot that may disconnect or whose
answers may be too large only uses expiring ones; `NoOverflow` that what was
bought plus what a request names fits 32 bits. `EntriesAreAppendOnly` and
`FulfillmentOnlyGrows` speak of the orders that one client changes
(`HasOneClient`), in an instance where others may have several; `SingleUse` is the
setting of that name. Without `Serialized`,
`Patient` and `NoOverflow` TLC finds the violations above, so they are needed; a
completion whose connection breaks before its event is sent leaves a completed
session without an order, which the lifecycle does not allow. The other
assumptions are those on the constants (identifiers of a kind are distinct from
the lack of one, the capacity and the attempts are positive, prices are not
negative).

For the checkout the argument is a chain of inductive invariants, each extending
the last.

1. `SessionInv`: the cache is well formed because only copies are written to it,
   so the copies that requests carry must be well formed too, and the copy of a
   completion is completed from the moment it is to be written.
2. `FinalityInv`: a session about to be overwritten is still open. That is only
   stable if nobody else can be about to write the same session, hence
   `RequestsAddressTheirSessions`: a request changes a session its client owns,
   or one it has just created and nobody else has been told of. Then
   `TerminalIsFinal` is a property of a single step from `FinalityInv`.
3. `OrdersInv`: a request about to write a session finds no order of that
   session among the events sent, wherever they are by now (`SentEvents`: the
   channel, the worker, the order store), no two requests carry the same new
   order, and between its write and its event the completed session is still
   what was written.

For the caches, `ReplayInv` says that every record is a run that took place: the
look-up compares payloads, so a replay is one too. `OneRunInv` accounts for
every run that counts: its key has a record, or the slot that ran it is about to
store one (`RunsAreKept`), hence a slot that found no record is at a key without
such a run (`NothingToRunTwice`). That step is where `Patient` is used: the slot
about to store an answer could be another one, or could be gone. For the order
API, `SoundInv` says that copies as well as stored orders have true statuses, and
`AppendInv` that a copy about to be written extends the stored order
of a single client (`CopiesAddTo`), which a second writer would break; `GrowInv`
adds that such a copy fulfills no less.

`NotifiedInv` adds to the types that the order of the event being posted is
stored, under its session (`PostedIsStored`), which only the worker's own order
of work makes true.

`NegotiationInv` is about the requests at a session that one client addresses:
one that is about to write an overlay over a negotiated one has read the
negotiation, and one that is about to drop an overlay has found no session. Both
are lost as soon as a second client is at the session.

`LifecycleInv` adds to `OrdersInv` that a request writes what its operation makes
of a session: only a completion writes a completed one. With it every step of the
service is a step of `SessionLifecycle`: writing a session is a creation, an
update, a completion or a cancelation of its phase, sending an event places an
order once, storing it makes it retrievable, an eviction is an end, and every
other step changes none of the three.

For identity linking, `OAuthInv` relates the tables to the slots: a code in the
table has been granted and never exchanged, a slot about to issue holds a code
that has left the table, no two slots hold the same one or the same token, and a
revoked token is in no table and no slot. From it the phases of a code move only
forward, which is the refinement of `OneShot`; `VaultInv` does the same for the
vault, where a token's entry and its redemptions exclude each other.
`RevokedStaysOut` needs that the token of a request that came late is revoked and
stays so (`LateIsRevoked`).

For the cache, `FetchInv` says that what a slot saw and fetched was published,
and that what it fetched is not older than what it saw (`SlotsInOrder`): a
platform's profiles only advance, so an older profile can be stored only by a
fetch that began earlier. `MandateInv` carries a mandate's check from the copy to
the store (`WorkIsCovered`): the copy that is written later still has the mark
the mandate was accepted for, because signatures of different marks differ, and
because the stored authorization is the one given to the state it is stored with
(`StoredAreCovered`, of which `StoredAuthorizationHolds` is what
`verify_merchant_authorization` would say, in every configuration). A mandate's
claims are optional in the code (`service.rs:833-869`): of one that names neither
a session nor an authorization `MandateFitsCompletion` says only that the
platform's key signed it, and it would complete any session.

For the stores, `DurableInv` says that an open session has been completed less
often than it was adopted (`OpenIsUnspent`), and that the engine has no cart under
the identifier of a session made here (`OwnHasNoCart`), so that such a session is
adopted once, when it is made. That is the defect of `MCRestart` seen from the
other side. With a cart under the session's own identifier `CopiedSurvives` holds
on the instance of that run, but a completed session would then come back open,
because a cart's status is never updated (`UpdateCart`). `CompletedIsWhole` is
inductive with the types: completing looks at the status it has computed with the
payment attached, never at the one that a cart was translated to; what loses an
order, which is a restart, loses the sessions in memory; and a session that is
loaded again names no order.

The rest is about loops. `InductionProofs` derives induction from the library's
theorem that `<` is well-founded on the numbers: over a set of numbers
(`Induction`, `InductionTo`), hence for functions given by recursion over the
prefixes of a list (`PrefixRecursion`), of which `Sums` is one. The models'
recursions are written that way, so that a loop is a function from the number of
steps to what is known after them.

- `AgreesOnTheMost` needs that removing extensions without what they extend, as
  often as there are capabilities, ends in the largest set without such an
  extension: each pass removes one or is the last.
- `FulfilledAgreesWithEvents` is a conjunct of `SoundInv` (`Agrees`): one event
  more adds its quantity to the total, and what is cut off at the bought quantity
  once stays cut off, as quantities are not negative.
- For one price, `LegacyAccounted` is the loop invariant that the accounts by
  line, by code and in total agree; `LegacyTaken` says without the loop what it
  takes: a tenth of the full price if `SAVE10` was seen, and five dollars of what
  `SAVE10` left if it came first, else of the full price; and `SpreadFacts` that
  the shares of the five dollars and the cents the rounding leaves over are
  exactly that amount, and no line's part is more than the line has.
- `PricesInv` makes it an invariant of sessions: each price is `Sound`, and the
  codes and selections in the session still mean what was asked for (`IsAsked`),
  because the next update prices those and not the requests. That needs that
  normalized codes are normalized and that a settled group is settled.

TLC checked each invariant on the instance of a passing run first.

Only model-checked: liveness (`RequestsAreAnswered`, `CompletedOrderIsStored`,
and the fairness part of `ImplementsLifecycle`), which is out of the prover's
reach. Every invariant and every action property that the passing runs check is
the conclusion of a theorem above.

## 5. Not modelled, and the plan

Left out on purpose: wording, links, messages, headers, the bytes of signatures,
configuration (its values are constants), the language bindings, the page of
`embedded.rs`, the gRPC transport (it dispatches to the same operations, without
negotiation or idempotency), A2A's map from contexts to checkouts, and the inside
of the commerce engine, which is a library outside the repository.
`OrderStore::get` may ask the engine for an order it does not hold; the engine
gives the orders it creates ids of its own (`order_api.rs` ignores the id it is
given back), so the answer is the same with and without it. Time is abstracted to
"a deadline may pass at any moment" everywhere but in `Durability`.

Where a document and the code differ without either being wrong about a
behaviour: `README.md:372` says of AP2 that the handler only checks for presence,
while `verify_ap2_mandate` checks signature, claims and expiry; `Mandates` follows
the code.

What is left of the plan:

- compositions: `Idempotency` over `SessionLifecycle`, in which the run is a
  completion (a retried completion yields one order when the client is patient);
  `OrderApi` fed by the worker of `OrderEvents`;
- an abstract cache of answers, "one run per key, any number of replays",
  implemented by `Idempotency` under `Patient`;
- A2A's map from contexts to checkouts.
