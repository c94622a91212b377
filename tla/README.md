# Ledgerstream: TLA+ models, model checks and proofs

Ledgerstream (`src/`) is a multi-tenant payment platform of four services. A merchant
authorizes and captures payments over HTTP; each capture leaves a row in an outbox table; a
relay ships the row to Kafka; the ledger books it as a double entry and announces the outcome;
the payment service voids the payment if the ledger rejected it. An API gateway stands in front
of the HTTP services, and an AI service answers questions by reading balances through the gateway.

The hard parts are between the processes: at-least-once delivery over crashes, redeliveries
and rebalances, row locks and unique constraints under racing requests, asynchronous
producers, dead-letter queues, and shared buckets and caches. That is what is modelled here.

Contents: [inventory](#1-inventory) · [modules](#2-modules-and-how-they-follow-the-code) ·
[runs](#3-runs-what-they-check-and-their-bounds) · [fairness](#4-fairness) ·
[findings](#5-where-code-and-documentation-disagree) · [proofs](#6-proofs) ·
[not modelled](#7-what-is-not-modelled) · [plan](#8-plan)

## 1. Inventory

| Component (source) | State | Operations | Interacts with | Hard behaviour | Correct if |
|---|---|---|---|---|---|
| Payment store (`payment/payments/models.py`, `outbox/models.py`, `payments/services.py`) | payment rows, row locks, outbox rows | insert under a unique (tenant, key), change status, write outbox row, mark published | everything in the payment service | concurrent transactions | a payment has one outbox row exactly if it left AUTHORIZED; keys are unique |
| Payment web API (`payments/views.py`, `services.py`) | what a worker has read and will write | `authorize_payment`, `capture_payment`, `capture_payments_batch` | store | races, lost replies, partial batches, lock waits | retries are idempotent, statuses only advance, batches end |
| Outbox relay (`outbox/relay.py`) | open transaction, producer queue, `delivered` list | claim, produce, flush, mark | store, `payments.events` | crash between Kafka and the database, late callbacks of a dead cycle, several relays | no event lost; duplicates only after faults |
| Ledger consumer (`ledger/consumer/worker.py`, `ledger/services.py`) | position, attempt count, journal | poll, decode, post, emit outcome, commit, DLQ | both topics, journal | redelivery, zombies after a rebalance, retry and DLQ | one entry per event, truthful outcomes, no event skipped |
| Saga consumer (`payment/consumer/worker.py`) | position, attempt count | poll, decode, compensate, commit, DLQ | `ledger.events`, store | the same, and the race with web captures | rejected payments are voided, others never |
| Consumer group (Kafka, external) | assignment, position, committed offset | poll, commit, rebalance | both consumers | a member that does not know it lost its partitions | committed offsets never rewind |
| Ledger read API (`ledger/views.py`) | none | balances, cursor-paged journal | journal | paging while entries arrive | balances match the captures booked |
| Gateway proxy (`gateway/views.py`, `client.py`, `cache.py`, `breaker.py`) | cache in Redis, breakers per process | rate-limit, look up, forward, store, invalidate | payment and ledger HTTP, Redis | responses that cross an invalidation, probes, killed workers | staleness bounded, breakers open exactly when they should be |
| Gateway rate limiter (`gateway/ratelimit.py`) | token bucket in Redis | one Lua script | Redis | clock readings that arrive out of order | admissions bounded by burst and refill |
| AI query service (`ai/app/router.py`, `guardrails.py`, `llm/gateway.py`, `llm/breaker.py`, `tools.py`) | token buckets and breakers in process memory, shared by threads; the conversation of a query | rate-limit, failover chain, tool loop | gateway, LLM vendors | unsynchronised read-modify-write, faults counted against the wrong party | overspending is paid for by races, a query is given up only in a recent outage, every query ends |
| AI LLM adapters (`llm/base.py`, `claude.py`, `openai_provider.py`, `mock.py`) | none | translate the neutral history, read the answer | vendor APIs | conversations with blocked or failed tools | every conversation is one both APIs accept |
| Tenants, tokens, tenancy checks (`payment/tenants/`, `payment/core/tokens.py`, each service's `core/tenancy.py`) | users, tenants, memberships; claims and expiry in the client's tokens | create_tenant, login, refresh, ask | every service | tokens issued before a membership, tokens without a tenant | nobody sees another tenant's data; a client's fault is not a service's |
| Seed command (`payments/management/commands/seed.py`) | how far it got | tenant per username, authorize, capture | payment store, tenants | started again, twice at a time, killed; payments the saga voided | re-running tops up, and stops only at a voided payment |
| Correlation, logging, metrics, tracing, deployment | none the flow depends on | | | | |

`PROJECT.json` lists the same components with their status, and under `hazards` each place
where the code can go wrong in a way a test would hardly reach, with the properties that watch it.

## 2. Modules and how they follow the code

```
PaymentStore  <--  PaymentApi     <--  MCPaymentApi
      ^---------   OutboxRelay    <--  MCOutboxRelay
      ^---------   SagaConsumer   <--  MCSagaConsumer
ConsumerGroup <--  SagaConsumer, LedgerConsumer
LedgerConsumer <--  MCLedgerConsumer
CircuitBreaker <-- GatewayProxy
GatewayProxy, RateLimiter, JournalPages <-- MCReadPath
CircuitBreaker, LlmMessages <-- AiQuery <-- MCAiQuery
CircuitBreaker <-- TenantAccess <-- SeedCommand (with an instance of PaymentApiProofs) <-- MCSeedCommand
M <-- MProofs  for M = PaymentApi, OutboxRelay, LedgerConsumer, SagaConsumer,
                       AiQuery, SeedCommand, Ledgerstream
ReadPathProofs extends GatewayProxy, RateLimiter and JournalPages; SeedCommand's instance is of PaymentApiProofs
Ledgerstream = instances of PaymentApiProofs + OutboxRelayProofs + LedgerConsumerProofs
               + SagaConsumerProofs, implements Settlement   <--  MCLedgerstream
```

**PaymentStore** is the database of the payment service: `payments` (a function from the ids
in use to rows), `payLock` (who holds a row's `SELECT ... FOR UPDATE` lock) and `outbox` (a
sequence; the index is the row id and the `event_id`). Its operators are the statements the
services execute. PostgreSQL runs READ COMMITTED, every conflicting write is under the row
lock or a unique constraint, and a transaction's writes become visible together, so a
transaction's writes and its commit are one step; what it has read and locked before is
steps of its own. `CompensatePayment` is `compensate_payment`: one transaction, one step.
`WebWrites` is a web worker as the other processes see it: an INSERT, a row locked, a capture
committed, a transaction ended.

Each of the four processes of the payment flow has two next-state relations: its own steps
(`ApiNext`, `RelayNext`, `LedgerNext`, `SagaNext`), and `Next`, which adds the environment it lives in:
the database as web workers, relays and saga workers change it, and the topics as the other side
fills them, with any well-formed record at any time. The properties of a part are stated and proved
of its `Spec` with `Next`. A run gives the part a particular environment of that kind (a topic that is
published record by record, web workers about to capture), and `Ledgerstream` the real one.

**PaymentApi** is one web worker per element of `Workers`, with a program counter `wpc`. An
authorization is: the fast-path SELECT (skipped for a missing *or empty* key, `services.py:41`),
the INSERT, and, on IntegrityError, the second SELECT. A capture is: the view's or the batch's
lookup, `SELECT ... FOR UPDATE` (which may wait), and the decision with its writes. A batch runs
that once per id, in the order given, each in its own transaction. A worker may fail between any
two statements (`WorkerFail`) and may lose the acknowledgement of a commit
(`...Unacknowledged`). `replies` and `reported` are history: what clients were told.

**OutboxRelay**: one cycle (`run_once`) is `Claim` (FOR UPDATE SKIP LOCKED, oldest first, at
most `BatchSize`), `Produce` per row, `StartFlush`, `FlushReturns`, `Mark`. The producer's
queue is delivered by `Deliver` at any time from `produce()` on, in order. A cycle that raises
rolls back, but what it queued is still sent, and its callbacks write to a list nobody reads any
more: messages carry `live`. A failed send may have reached the topic. A dropped database session
frees the row locks while the relay does not know yet (`ConnectionLost`, `MarkFails`).

**ConsumerGroup** (external) is what the two workers see of a Kafka group: assignments change
under a busy member, which finishes its message as a zombie; its commit is fenced.
Commits are asynchronous (`consumer.commit(message=msg)`): applied or lost.

**LedgerConsumer** and **SagaConsumer** are `_handle` of the two workers, one action per step:
decode (any error is poison), process with `run_with_retry` (an attempt is repeated as a whole),
DLQ, commit last. `post_payment_captured` is the business rule, the SELECT, the INSERT with its
UNIQUE `event_id`, and the IntegrityError branch that answers POSTED. `consumer.commit` stands
inside the `try`, so a commit that raises sends a message that was handled to the DLQ as well
(`CommitRaises`). `_to_dlq` has no delivery callback; `ToDlqUndelivered` is the DLQ write that
fails unnoticed. Payment status FAILED and the `unknown event_type` branch are not reached by
any code path, so no action produces them.

**Ledgerstream** composes the four over one store and the two topics: one part's own step, seen by the
others as a step of their environment. `MaxFaults` is a budget they share. **Settlement** is what the whole promises: per payment, absent -> authorized ->
captured -> posted, or -> rejected -> voided; per merchant, the sum owed. `Stage`, `Terms` and
`Payable` are the refinement mapping, read off the payment table, the outbox, the journal and
`ledger.events`; `Payable` is the balance as `BalancesView` adds it up.

**CircuitBreaker** has the breaker's three operations as functions of its record and the clock
(the AI service has the same class). **GatewayProxy** is `ProxyView._proxy` in several gunicorn
processes: look-up, `allow()`, the call, `record_*`, store or invalidate, each a step. gunicorn's
sync workers serve one request at a time, so a process has one call out. A call may break before
or after the backend acted; Redis may fail; a worker silent for longer than `WorkerTimeout` is
killed and comes back with new breakers. A request appears here when the rate limiter
let it through: a denied one (429) changes nothing else. **RateLimiter** is the Lua script as one
step, called with the clock reading that `check()` took before, on a bucket that expires.
One tenant's traffic is enough for both: every Redis key carries the tenant.

**AiQuery** is `POST /query` as FastAPI runs it: a synchronous handler in a pool of threads of one
process, which share `_buckets` and `_breakers` without a lock. A thread may be preempted where it
calls out (`time.time()`, a dict method, I/O); what lies between two calls is one step. (CPython 3.12
switches threads at calls and loop edges; a single dict or attribute access is not torn.) So
`check_rate_limit` is read clock, read bucket, write bucket; `allow()` splits where it reads the
clock for the cooldown; `record_failure()` where it reads it for `opened_at`. A tool that fails raises
out of `_run_loop` and counts as the provider's failure, as in `answer()`. **LlmMessages** is the
neutral history, both vendors' translations of it, how their replies are read, and which
conversations their APIs accept (external, by their documented rules).

**TenantAccess** is identity from login to answer. A token is its claims and its expiry; the
signature is library code. `ClaimOf` bakes the tenant in at login, `Refresh` repeats the claims,
and `PaymentStatus`, `AiStatus`, `LedgerStatus` are what each service answers to a token with and
without a tenant. The gateway's breaker for the ledger (`edge`) sees those answers.
**SeedCommand** extends it with `seed`'s `handle()`: each running command is a worker of an instance
of `PaymentApiProofs` (the module with its theorems), because it calls `authorize_payment` and `capture_payment` like a web worker and
races on the same rows. `get_or_create` and the membership are two statements for a user that
exists (`FoundWithout`, `Join`); for a new one the inserted row makes every rival wait, so they are one.

**JournalPages** is a client that walks `TransactionsView` along its "next" links (`ReadPage`) while consumers
commit entries of several tenants (`CommitEntry`), with stamps that need not grow: `created_at` is set
before the commit. The order is by `created_at` alone (`views.py:36,69`), so each request takes any
listing of the tenant's entries that is sorted by stamp (`Listings`): ties may come in another order the
next time. `NextCursor` is the REST framework's position and offset (external). `split` is history: some
page ended between two entries of one stamp.

## 3. Runs: what they check and their bounds

| Run | Instance | Shows |
|---|---|---|
| `api_authorize` | 2 workers, 2 payments, a known and an unknown tenant, a normal, an empty and no key | `UniqueKeys`, `IdempotentReplies`: two racing authorizations and any lost replies give one payment and one answer per key |
| `api_capture` | 2 workers, 2 authorized payments, single captures and all batches of up to 2 ids (also `[p1,p2]` against `[p2,p1]`, and the same id twice), two tenants | the outbox invariant, truthful answers (`OutcomesHold`), no lost status update, own tenant only; every capture request ends (`CaptureEnds`) |
| `relay` | 2 relays, 2 payments on 2 partitions, batches of 2, 3 faults | a row is PUBLISHED only if its event is in the topic; duplicates cost a fault each; every row is published in the end |
| `ledger` | 2 consumers, 2 partitions, a duplicated settled and an unsettled event of one tenant, a settled one of another, 1 retry, 2 faults | one entry per event, truthful outcomes, nothing skipped, every tenant's balances equal its captures (`BooksMatchCaptures`); every event is handled in the end |
| `ledger_dlq` | 2 consumers, 1 partition, 1 tenant | violation: a failed DLQ write loses the event |
| `saga` | 2 workers, 1 partition, a duplicated rejection and a posting, a web worker that locks rows, 3 faults | voided only on rejection, no rejection skipped, every rejection is handled |
| `pipeline` | one process of each kind, 1 payment, a settled and an unsettled currency, no retries, any 1 fault | the pipeline implements `Settlement`; a captured payment is booked, voided or on a DLQ |
| `read_path`: gateway | 2 workers, threshold 2, cooldown 1, TTL 2, worker timeout 1, 3 ticks, 3 failed calls, 1 invalidation | a breaker refuses exactly while it should, staleness bounded by TTL + request life, an invalidation leaves nothing older than a request's life (`InvalidationHolds`) |
| `read_path`: limiter | 2 workers, burst 2, refill 1, readings up to 2 ticks late, 6 ticks | admissions bounded by burst + refill + what was counted twice |
| `read_path`: history | 2 tenants, 3 stamps, 5 entries, pages of 2 | `PagesStable`: no entry shown twice or missed as long as no page ended within a stamp; `TiesKeepCount`: if one did, every stamp is still shown as often as it occurs |
| `ai` | 2 threads, 1 tenant, chain of Claude and the mock, burst 1, refill 1, threshold 2, cooldown 1, 2 tool rounds, 3 queries, 2 ticks | overspending bounded by the spends written over; given up only if every provider failed within the query or a cooldown before; both APIs accept every conversation; every query ends |
| `ai_mock` | as `ai`, cooldown 2, 4 ticks | violation: a query is given up without the mock having been asked |
| `seed` | 2 commands, 2 usernames, 1 payment each, 3 payment ids, 2 starts, 2 tokens' lifetimes of 1 and 2, 1 tick | own tenant only, one owner per tenant, re-running tops up, stops only at a voided payment |
| `tenantless` | as `seed`, threshold 2 | violation: a user without a tenant opens the ledger's breaker |

`read_path` is one run of three parts that share no variable and no property: the proxy's workers, the token
bucket, and a walk of the history. In each of its behaviours one of the three moves.

Why these bounds are enough for the question asked. The races are between two parties: the
loser of an INSERT and its winner, a zombie and the new owner, a capture and a compensation, a
dead cycle's callback and the next cycle of one producer, a reader and a writer of the cache; two
processes and two items give every one of them, and payments, events and partitions do not
interact otherwise. Fault budgets (`MaxRelayFaults`, `MaxLedgerFaults`, `MaxSagaFaults`,
`MaxFaults`, `MaxFailures`) bound how often things go wrong, not where: any action may be hit. Two
faults allow, for example, a crash after the journal write and a rebalance during the replay (with three, the
safety properties of `ledger` were checked once, 940 000 states under symmetry, and `EveryEventHandled` without
the other tenant's event); three failed calls allow a trip at threshold 2 and a failed probe. The
pipeline run was also completed once with `MaxFaults = 2` (300 000 states, 3 minutes). `MaxRetries`
is 1 (0 in the pipeline) where the code uses 3: the retry loop has one state per attempt and
behaves the same at each. `MaxBatch = 2` is the least at which order and repetition matter. In
the limiter six ticks let a bucket fill (2), expire (3) and be used again with a reading
from before the expiry. In `ai` three queries on two threads give two that race and one that meets
what they left; the burst of 1 is the least that two can both spend. Two tool rounds give a round
that follows another. `seed` has room for one payment and, with a mutant, one tenant too many, so a
duplicate can happen; its two starts are two commands at once or one that is run again. With one
username and two payments per tenant, and three starts, it was completed once as well. Its breaker has
threshold 1: counting is the question of `read_path`. Pages of 2 and 5 entries
are the least at which a walk has a full page before, at and after a border of equal stamps and a last
one, or an entry of another tenant in between. The gateway's TTL of 2 is longer than a request lives: with
1 an entry would expire before an invalidation could matter to it. Deadlock is checked in all runs
except `read_path` and those of the AI service and the seed command, where the journal's, the
clock's or the starts' bound ends the behaviour.

Symmetry (of the workers, and of payments, tenants and commands where they are model values) is used only in runs without
temporal properties.

## 4. Fairness

- Web workers, relays and consumers: weak fairness of their own steps. They are loops in
  processes that are restarted; a crash is a fault and faults are bounded. No request is ever
  assumed to arrive, and no client to retry.
- Strong fairness on `CaptureLock` and on the saga's `Handle`: PostgreSQL queues the waiters of
  a row lock, so a lock that is freed again and again is granted in turn.
- The producer's background thread: weak fairness of `Deliver`.
- `LedgerJoin`, `SagaJoin`: the group coordinator assigns free partitions to polling members.
- The AI service's threads: weak fairness of a query's steps (`QueryEnds`). The pool schedules them and
  each call out has a time limit (`config.LLM_TIMEOUT`, `GATEWAY_TIMEOUT`), after which it raises.
- The safety of the gateway's and the seed command's modules needs none.

## 5. Where code and documentation disagree

Each is a run with `expect: violation`.

1. `ledger_dlq`: `_to_dlq` produces without a delivery callback and ignores what
   `flush()` leaves, so the offset moves past a message that is in no topic. The docstring says
   "so nothing is lost" (`ledger/consumer/worker.py:152`), and `docs/phase3.md:166` says that no message
   "silently vanishes". `AccountedFor` holds with the lost ones counted.
   The saga's `_to_dlq` is the same code, and its caller commits because the message "is safe on the
   DLQ" (`payment/consumer/worker.py:96,109-110`): if that write failed, the rejection is on no queue and the
   payment stays CAPTURED. `RejectionAccountedFor` holds with the lost ones counted.
2. `tenantless`: the ledger's `require_tenant_id` (`ledger/core/tenancy.py:16`) reads the claim with
   `token["tenant_id"]`, which raises KeyError for a token without it: a 500 where its comment says 403. The
   gateway counts 500s against the ledger, so one user without a membership can open the breaker
   for all tenants, where `client.py:54-55` says that a client's fault must not trip it. The payment
   service's twin catches the KeyError.
3. `ai_mock`: `answer()` counts a tool's HTTP error as a failure of the provider (`llm/gateway.py:75-76`), the
   mock included, which the code calls "the always-available failover" (`mock.py:5-6`, `gateway.py:4`). Two
   queries with failing tools open its breaker, and the next one is given up without asking it.
   `OutageIsRecent` is what remains true.

Disagreements that a property states the limits of, instead of a run of their own:

- `cache.py:9-10` promises that after an invalidation "the next read re-fetches"; a balances response
  that was fetched before it and stored after it is served on. `StalenessBounded` bounds that by the
  TTL *plus* the life of the request that stored it, where `cache.py:8` says "at most `ttl` seconds old";
  `InvalidationHolds` says that nothing else survives the invalidation: what is served after it was read no
  longer before it than a request lives. Nor does the invalidation wait for the ledger: it runs when the
  capture is answered, and a read before the event is booked caches the old balance again. Only the
  TTL bounds that; the code promises no more.
- `ratelimit.py:3-11` promises the sustained rate under concurrency; the script writes the caller's
  `now` even if it is older than the stored stamp, so the interval between is refilled twice.
  `RateBounded` says by how much the rate can be exceeded.
- `guardrails.py:29-30` counts 10 quick queries and refuses the 11th; two threads that read one
  bucket both spend its last token. `SpendingBounded` says what that can cost.
- `ledger/views.py:29-31` calls the cursor "stable under inserts". It is, as long as no page ends between
  two entries of one stamp (`PagesStable`): the order is by `created_at` alone, so after such a page the
  database may list the ties the other way round, and one of them is shown twice and another never.
  `docs/concepts/cursor-pagination.md` (section 3) admits that. What is left then is `TiesKeepCount`. A walk
  does not show an entry that was committed late, behind the pages already read.
- `seed.py:8-10` says that "re-running tops up". A re-run with `--capture` that meets a payment the saga has voided
  meanwhile (its currency is not one the ledger books) ends with InvalidStateTransition, and what comes
  after that payment is not seeded. `StopsAtVoided` says that this is the only way it stops.

Noted and not runs: `worker.py:212-215` says `close()` commits final offsets, which it does not
with auto-commit off (harmless: the messages are handled again). A captured payment whose event is
parked stays CAPTURED, against `DESIGN.md:66`; `docs/phase3.md:355-358` accepts that until the DLQ
is replayed, and `CapturesSettle` therefore allows it.

## 6. Proofs

tlapm checks every theorem for all values of the constants: any number of workers, relays, consumers,
threads, payments, tenants, partitions, retries and faults, any batch size, capacity, refill, threshold
and time to live. The assumptions are the named `ASSUME`s of the modules and nothing else; TLC evaluates them on the
runs. `PROJECT.json` says which theorem states which run's property; the strengthenings (`IInv`, `Shape`,
`OffsetInv` ...) are the proofs' own.

### The parts

**PaymentApiProofs** (`StoreTypeOK`, `WorkerTypeOK` and `HistoryTypeOK` are `ApiTypeCorrect`):

- `ApiInvariant`: `IInv`. `OutboxMatchesState` alone is not inductive: a
  capture decides from the status it read a step ago. The strengthening is `LockInv`: a request past
  its SELECT ... FOR UPDATE still holds the row's lock and what it read is still so; it is preserved
  because every other writer needs the lock or a row that is free. `OutboxPattern`, `NoLostUpdate`
  (`StatusOnlyAdvances`) and `CapturedByOwner` (`OnlyOwnerCaptures`) follow.
- `KeysAreUnique`, `RepliesAgree`: `UniqueKeys` and `IdempotentReplies`, with `RepliesNameKey` (each
  answer names a payment that carries the key it was asked for).
- `AnswersHold`: `OutcomesHold`, with `NotesInv`: what a batch has noted as captured, already_captured or
  invalid_state stays true while it works on the others. (not_found claims nothing that could stay true.)
- `EventsNameTerms`: every outbox row carries its payment's tenant and terms.

**OutboxRelayProofs** (`Shape`: the types, and `CycleInv`, what an idle, a flushing and a marking relay can hold):

- `PublishedAreLogged`, from `DeliveredIsLogged` (a row on a relay's `delivered` list is in the topic).
- `DuplicatesArePaidFor`: the inductive invariant `BudgetInv` counts, per row, its copies in the topic, its
  messages in the queues and its claims not yet produced: together at most one more than there were faults.
  SKIP LOCKED is what keeps a second relay from claiming the row, and a fault is what it takes to claim it again.
- `LogIsOutboxHolds`: an event in the topic is an outbox row, in the partition of its payment.

**LedgerConsumerProofs** (`Shape`: the types, and that the topics and the journal hold what can be there):

- `BookedOnce`: `OneEntryPerEvent`, by the UNIQUE `event_id`.
- `OutcomesAreTrue`, `EntriesAreCaptures`: from `TruthInv`, which relates the journal, the answers and what a
  consumer is about to answer: a consumer that says POSTED has seen the entry, one that says REJECTED holds an
  event in a currency nobody books.
- `NoEventSkipped`: `AccountedFor`, from `OffsetInv`: everything before a committed offset, and everything the owner of
  a partition has polled, is answered, parked or in the owner's hand (`PolledOK`); a consumer at its commit has
  dealt with its message, and an owner has polled no further than that (`CommitOK`). A zombie's commit is fenced,
  and a new owner starts from the committed offset: that is why the claim about the owner survives a rebalance.
- `BooksAreCaptures`: `BooksMatchCaptures`, a consequence of `TruthInv` and `OneEntryPerEvent`: a tenant's entries and its
  booked captures correspond one to one (`EntriesAndCaptures`), each entry has one line per side (`LinesAre`), a line is on
  an account of its own entry's tenant, and sums over
  sets that correspond are equal (`SumImage`). That a sum over a set does not depend on the order it is taken in
  (`SumWithout`) is shown by the least size of a set at which it could (`Least`). It assumes that amounts are
  naturals (`payments/serializers.py:30`).

**SagaConsumerProofs**: `CompensationNotSkipped` (`RejectionAccountedFor`) by the same offset invariant;
`OnlyRejectedAreVoided` (`VoidedOnRejection`); `VoidStays`, an action property: no worker, web worker or relay takes a payment
out of VOIDED. `SagaTypeCorrect` (its `SagaTypeOK` is in no run).

**ReadPathProofs**: `GatewayInv` is the types and `RequestsOK` (a request in hand came in before now and what it carries
was read after that), `DropsOK`, `CacheOK` and `BreakersOK` (a breaker counts the failures in a row and remembers the
last one until the probe). `BreakersTripExactly`, `CacheIsFresh`, `InvalidationsHold`, `GatewayTypeCorrect` (its `GatewayTypeOK` is in no run).
The module extends RateLimiter too: `LimiterTypeCorrect`, and `RateIsBounded` by an account of the bucket: tokens granted and
tokens left are at most the first bucket plus the refill up to the bucket's own time stamp and for
the time counted twice; `FillTimeFills` (an idle bucket expires no sooner than it would be full) is
what the expiry case needs.

And JournalPages: `PagesAreStable`, which is `PagesStable`. `WholePages` says that, while no page has ended within a stamp, the
walk has shown only the reader's entries, newest first, none below the cursor's position, and every one it
began with that is not below it; `ListingIs` and `PageIs` say what any sorted listing and its page hold whatever the order of ties,
`NextCursorIs` that such a page's cursor is its last stamp with offset 0.

**AiQueryProofs**: `AiInvariant`: `AiInv`. Threads act on what they read before, so the invariant speaks about what a
thread holds as well as about what is shared.

- `SpendingIsBounded`: the stored bucket *and* every copy a thread took of it are paid for: the queries let through when the copy was
  read, plus its tokens, are at most the burst, the refill up to the copy's stamp and what was undone (`BucketsOK`,
  `CopiesOK`). A write from an old copy moves what others spent since to `undone`.
- `OutagesAreRecent`: every provider a thread has left behind was out for its query (`ChainOK`), which needs that no breaker
  was opened later than its provider last failed, also between `record_failure()`'s reading of the clock and its
  write (`StampsOK`), and that a breaker whose `opened_at` is still 0 is past its cooldown.
- `AiTypeCorrect`: no bucket is stored overdrawn or more than full, whatever copy it was computed from.
- `HistoriesReplay`: `HistoryReplayable`, for any number of tool rounds and calls. The invariant `HistoryOK`: a thread at `generate`
  holds a history that both APIs accept, a thread at `tools` one with an assistant's calls behind it. `RoundKeeps` shows that
  calls and their results behind an accepted history leave it accepted: for Claude turn by turn (`ClaudeRound`), for
  OpenAI on the flattened messages (`OpenAiRound`). `FlattenAppended`, that flattening an item more adds
  that item's messages, is shown by the least place where two readings could differ. `ChainNames`: `_build_providers`
  picks nothing but the providers it knows, so each reply is one of the three kinds.

**SeedCommandProofs**: `SeedInvariant`: `SeedInv`, the conjunction of `PayInv` (types, `LockInv` and `UniqueKeys` of PaymentApi,
whose steps the commands take through the instance: its lemmas are cited, not repeated), `AccessInv` (`AccessTypeOK`,
`OwnTenantOnly` and `MembersApart`: no two users share a tenant and every tenant has a member), the commands' types, `RowsOK`
(every payment carries a key of a command, under that tenant) and `CommandsOK` (what a command has done so far is in
the store, and stays).

- `AccessTypeCorrect`, `TenantsIsolated` (`OwnTenantOnly`), `OwnersAreOne` (`OneOwnerEach`): two commands that race for a user's
  tenant end with one, since the loser waits on the user row.
- `SeedingTopsUp` (`SeedTopsUp`): a finished command finds every item there, and a tenant has no more payments than
  items: the payments are mapped one to one into the items by their keys.
- `StopsAreVoided` (`StopsAtVoided`): a command stops only at a payment that is voided, with the work before it done.
- `NothingTakenBack`, an action property (`RowsStay` and `MembersStay`): no payment goes, changes its tenant or key, returns to
  AUTHORIZED or leaves VOIDED, and no membership is removed or changed.

### The pipeline (LedgerstreamProofs)

- `PipelineInvariant`: the parts' invariants hold together (`JointInv`). The proof is assume-guarantee: `PartsStep`
  says that a step of the pipeline is, for each of the four parts, a step its own `Next` allows: its own
  step, its environment's, or none. `ApiMoves`, `RelayMoves`, `LedgerMoves` and `SagaMoves` show it for the steps of each
  process; the parts' preservation lemmas then carry over as they are.
- `PartsAsSpecified`: the pipeline implements every part's `Spec`. So the environments that the parts were proved
  in are not an assumption, and every theorem about a part holds in the pipeline.
- `PipelineSettles`: `ImplementsSettlement`, the refinement of `Settlement`, for any number of payments, processes and faults. One
  lemma per process shows its steps to be `Authorize`, `Capture`, `Post`, `Reject`, `Void` or a stutter (`AuthorizeRefines` ...
  `LedgerRefines`). The delicate ones: an INSERT into the journal is `Post` only if the event is the payment's one event and carries its terms;
  a first REJECTED on `ledger.events` is `Reject`, a later one a stutter; a compensation is `Void` because its payment was
  rejected, and it can not have been booked too (`NeverBoth`). What a merchant is owed is a sum over the
  journal (`CreditSum`); that an entry adds its amount to it (`CreditAppended`) is proved without an induction theorem, by the least place
  where two readings of the sum could differ (`Least`).

### Only model-checked

- All liveness: `CaptureEnds`, the consumers' and the relay's eventualities, `CapturesSettle`, `QueryEnds`. TLAPS does not prove
  temporal properties under fairness.
- `TiesKeepCount`: it compares the cardinalities of a stamp's entries and of the places they are shown at, over
  listings that differ between the requests; TLC checks it for all journals up to the bound.
- The runs `ledger_dlq`, `tenantless` and `ai_mock` find counterexamples; there is nothing to prove.

## 7. What is not modelled

- Signatures and keys of tokens, password checks: library code; a token is its claims and expiry.
- The AI service's process restart, which resets buckets and breakers to their initial state, and the
  wording of prompts and answers. The MCP server (`mcp_server.py`) forwards one call and keeps no state.
- The gateway's authentication of public routes (an expired header is refused on login too): the
  modelled clients send none there.
- `previous` links of the history and the balances' cache: the first mirrors `next`, the second is
  GatewayProxy.
- Avro encoding and the schema registry: only whether decoding succeeds.
- Back-off delays of `run_with_retry`, poll and flush time-outs: a step takes as long as it takes.
- The width of amounts: they are integers of minor units from 1 up (`payments/serializers.py:30`) in a
  BigIntegerField; one too large for it fails the INSERT, which is a `WorkerFail` here.
- Correlation ids, logging, metrics, tracing, health endpoints: written and read, never decided upon.
- Settings, deployment, load tests, scripts: no property of the flow depends on them.

## 8. Plan

Every safety property of the passing runs but `TiesKeepCount` is proved. What is left is wider instances for what only TLC
checks, the liveness properties, where the run time allows: two payments in the pipeline, two faults.
