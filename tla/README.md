# mflint: specifications and proofs

TLA+ modules for mflint: how the server takes money, meters and throttles its lint
API, signs users in and brings up its database, what it finds in a manifest and
what it says it costs, and how the command-line client keeps its credentials,
with the TLC instances that check them and the TLAPS proofs that hold for every
instance. Paths are relative to `src/`.

## The system

mflint lints Kubernetes manifests. A Go HTTP server (`cmd/server`,
`internal/api`) answers `/v1/*` with one goroutine per request and keeps all its
state in Postgres (`internal/store`), in plain SQL: every query is a statement,
and a transaction, of its own, except in `Migrate`. A handler is therefore a
sequence of atomic statements that other handlers, other servers, crashes and
the payment gateway interleave with. A request's context ends after 15 seconds
(`server.go:42`) or when the client leaves, so each statement may fail, and one
that reports an error may still have committed.

| Component | State | Operations | Interacts with |
|---|---|---|---|
| Billing (`handlers_billing.go`, `internal/billing`, `checkout_sessions.go`, `subscriptions.go`) | tables `checkout_sessions`, `subscriptions` | checkout, webhook of NOWPayments or CoinGate, plan lookup | calls the gateway, is called back by it; the quota reads the plan |
| Service orders (`handlers_services.go`, `handlers_admin.go`, `service_orders.go`) | `service_orders`, `service_checkout_sessions` | order, list, pay (same webhook), admin status | the gateway, the admin |
| Lint quota (`handlers_lint.go`, `handlers_usage.go`, `helpers.go`, `usage.go`, `limits.go`, `reports.go`) | `monthly_usage`, `reports` | `POST /v1/lint`, `GET /v1/usage` | reads `subscriptions` and `api_keys` |
| API keys (`handlers_apikeys.go`, `apikeys.go`) | `api_keys` | create, list, delete, authenticate | every authenticated call |
| Startup and migrations (`cmd/server/main.go`, `store.go`, `migrations/`) | `schema_migrations`, the schema | `Open`, `Migrate`, then listen | other servers on the same database, the supervisor |
| Rate limiter, auth middleware (`middleware.go`, `server.go`) | one token bucket per address, in memory | allow or 429; require a user or an admin | in front of the handlers |
| Accounts and OAuth (`handlers_auth.go`, `oauth.go`, `internal/auth`, `users.go`) | `users`, a state cookie | begin sign-in, callback, upsert by e-mail | Google, GitHub, the browser |
| Rules, parser, cost, report (`internal/rules`, `parser`, `cost`, `report`) | none | pure functions of a manifest | called by the lint handler; the client prints the report and exits by it |
| CLI (`cmd/mflint`) | `config.json` in the user's configuration directory | lint (through the API), login, logout, whoami | the server, other commands on the same file |
| Catalog, consultations | a constant table; `consultation_requests` | lookup; one INSERT | - |
| Stripe and no-op providers | none | always `ErrNotConfigured` | - |

What is hard in it, and the property wanted of each part:

* **Billing.** The gateway repeats a callback until it sees a 200, in any
  order, while handlers die between two statements. Nobody may get what was not
  paid for; what was paid for must be delivered; a callback must not be
  acknowledged before that; a URL must not reach the buyer before the row that
  resolves it.
* **Service orders.** They share the webhook with plans, by fallthrough of the
  lookup, and the admin changes the same row. Only a payment or the admin may
  move an order, and a service purchase must never touch a plan.
* **Quota.** Gate and count are two statements with the work in between; the
  plan and the month change meanwhile; the count is best effort. Usage should
  stay within the plan's limit, and what is answered should be counted.
* **Migrations.** The check is outside the transaction, and nothing orders
  servers that start together. Each migration must be committed once, in order,
  and before any server that needs it listens.
* **Accounts.** A browser has one state cookie for all its sign-ins, and accounts
  move between addresses at the provider while a callback runs. A sign-in must
  end in the browser that began it, as the user whose address was proved.
* **Rate limiter.** The map is guarded by a mutex, but the limiter found in it is
  asked after the mutex is released; all is forgotten at a restart. No address may
  get more than its bucket, and none may suffer for another's calls.
* **CLI.** Commands share a file without a lock, each reading it, asking the API
  and writing it back, in place and truncated first. A key must never be sent to
  an API it was not verified at, and a save must be kept unless one was cut short
  or two overlapped.
* **Rules, parser, cost.** No concurrency, but documents that affect each other:
  one that cannot be decoded fails all, rules relate resources by namespace and
  labels, the sort mixes files, and one package relies on another's findings: the
  estimator takes nothing for an amount left out and leaves it to rule K8S-005 to
  say so, but asks for values where the rule asks for presence. The
  estimate must be a range and near the exact figure after rounding twice.
* **Keys.** Deleted while in use, by the API and by the client that saved them.

`PROJECT.json` lists each hazard at its line with the properties that cover it.

## Modules

### Billing and Purchases

`Billing` is `handleCheckout`, `handleCreateServiceOrder`, `finishWebhook` and
the admin's status change, one action per statement or gateway call, named after
the Go function. `requests[w]` is the handler worker `w` runs: its next statement
(`pc`) and the locals used later. Tables are functions from the key the code
looks them up by to a row or `NoRow`. `HandleWebhook` is the provider's:
NOWPayments trusts the status in the signed body, CoinGate fetches the current
status of the order, so `Gateway` decides whether a late callback reports an old
or the present status. The statement that fails falls through, as in the code:
a failed session lookup goes to the service lookup, and from there to a 200.

The gateway (`Advance`) is external. `notices` is the set of status changes it
has a callback for and `acked` those it got a 200 for; a callback not in `acked`
may be delivered at any time, several times at once, in any order. `Reply`
and `Respond` may be lost. `Crash` drops every request in flight. `credited` is a
history variable: the orders whose upsert or update committed.

`Purchases` is what billing promises a buyer, without any of that: an order is
paid at most once for a fixed item and then fulfilled at least once with that
item. `KeepsPromise` is the refinement, with the item of an order read from its
session row once it is paid.

### LintQuota

`LintQuota` is `handleLint`: authentication, the plan's limit, the usage, the
gate, the work, the increment, the saved report, the answer, with plan changes,
key deletion and the turn of the month in between. The limit is read one
statement before the usage and kept in the request. What the work computes is
irrelevant here: it ends in a report or in a 400 that is not counted. `ceiling`
(highest limit a call of the month was checked against) and `unchecked` (some
call of the month saw an unlimited plan) are history variables that make the
bound on the overshoot statable across plan changes. `served`, `reports` and
`unmetered` count answers, saved reports and failed increments by user and by the
month the increment ran in, which a request keeps (`counted`) until it is answered.

### Migrations

`Migrations` is `main` and `Store.Migrate` of any number of servers on one
database: `CREATE TABLE IF NOT EXISTS`, and per migration the check, the
transaction's statements, the insert of its name and the commit. Servers run
releases with different numbers of migrations and change release when
restarted, as in a rolling deploy. The primary key on `filename` makes the
insert wait for an uncommitted row and fail on a committed one; locks between
the migrations' own statements can only delay a server, so the model lets them
run concurrently. An exit (`log.Fatalf`) rolls back. One set, `recorded`, stands
for the rows and the schema together, because one transaction writes both.

### Accounts

`Accounts` is both login routes and both callbacks: `Begin`, then per callback
the state check, the exchange of the code, `/user` (or Google's userinfo),
GitHub's `/user/emails`, the upsert and the answer. The two callbacks are one
set of actions, since they differ only in what happens without an address. A
sign-in is named by its state. The cookie is cleared when the answer reaches the
browser, not when it is checked, so an answer may clear the cookie of a sign-in
begun meanwhile. `users[e]` is the set of provider ids on the row of address
`e`, empty for no row; ids of users are never seen apart from their address,
which no statement changes. External: consent, the single use of a code, the
addresses the providers vouch for (`profile`, and `proved` for all they ever
vouched for), the cookie's age. A callback URL may be opened in any browser, any
number of times. Tokens never leave the model: `sessions` holds all that arrived.

### Manifest, Cost and LintReport

`Manifest` is `parser.Parse`, the thirteen rules and `RunAll` as operators over a
directory: a function from files, in the order `readManifest` joins them, to
sequences of documents. A document is a record of what the rules tell apart: its
kind, name and namespace, whether it can be decoded, and per kind the fields rules
read (`Typed`, which an assumption asks of each document that decodes); the string functions (`looksLikeSecretName`, the image's tag and digest, the
cost labels) are reduced to their answers. A violation is a rule and a place (the
resource, a container, an environment variable), so that a rule's findings are a
set, and `RunAll`'s stable sort is an order on keys that end with the place in the
manifest. Each `k8s_*.go` is one operator of the same meaning.

`Cost` is the estimate, in exact integers: money in a unit of which `Cent` make a
cent, so that `round2` is the integer division the code's `int64(v*100+0.5)` is,
negative values included. The error of `float64`, and the overflow of `int64()` at
absurd totals, are not modelled.

`LintReport` is the use of both: an author edits a directory (external) and runs
`mflint`, whose request the server refuses (`Refused`: a blank manifest, a body
above `MaxManifestBytes` cut off inside its JSON, a document that cannot be
decoded, an unknown cloud) or answers with rows, counts and estimate; the client
exits with 0, 1 or 2. The same operators answer a directory and each of its
documents alone, and the directory before and after an edit, which is what the
properties compare. `MissingAmountsFlagged` compares the line of a workload with the one
it would have if containers that no row of K8S-005 names meant other amounts (`Guesses`)
where they leave one out. `TableGrouped` is about the table of `WriteTable`, whose rows
are those of the report in order.

### RateLimit and TokenBucket

`RateLimit` is `lintRateLimiter`: `Lookup` is the critical section (find or make
the limiter of the address), `Allow` the call to the limiter after the mutex is
released. Limiters are numbered as they are made and the map holds numbers, so
that two limiters for one address, or one for two, can be told. `Tick` is
`rate.NewLimiter(1, 5)`'s refill, external, in units of which `Unit` make a token; `Restart`
empties the map. `spent` and `granted` are history: what each address has been
given in a window that may open at any moment, and what time and restarts allow.
`TokenBucket` is what that promises each address, without the map, the lock or
the goroutines: a full bucket, emptied by its own admitted calls only and refused
only when empty. `OwnBuckets` is the refinement; an address without a limiter has
a full bucket.

### Cli

`Cli` is `mflint login`, `logout`, `whoami` and lint as processes over
`config.json`. Each command loads the file (`Readable`, `Loaded`), resolves base and
key from flag, environment and file, in that order, and goes on with what it has
resolved: login asks `/v1/usage` (`Verify`) and saves, logout saves without a key.
`saveConfig` is two steps, `Open` (truncate) and `Write` (from the start of the
file, over whatever another process wrote meanwhile), and `Kill` comes anywhere. The
file is a sequence of pieces, each of the configuration it came from; it is
readable if it is all of one. `given` says that base or key came from a flag or the
environment. The server is the table of keys with `CreateAPIKey`, `DeleteAPIKey`
and `requireAuth`, at the API that made each key (`Home`). `verified`, `saved` and
`disturbed` are history. Without configuration, `logout` makes a file with an empty
object; an expired or deleted key is no error to lint, which the server answers as
anonymous.

`MC*` modules give TLC the instances; a definition that starts with "A bug:" in
its comment is a mutated form of the action below it, which nothing uses; it is
there so that each property can be seen to fail on a plausible mistake.

## Runs

| Run | Instance | Shows |
|---|---|---|
| `billing_plans` | 2 users, 2 orders, 2 workers, NOWPayments, any one statement, reply or process fails | `PayableIsResolvable`, `PlanIsPaidFor`, `CompletedIsCredited`, `KeepsPromise` |
| `billing_services` | 1 user, 1 service, 1 order (for a plan or the service), 2 workers, CoinGate, 2 failures outside the lookups, fairness | `PayableIsResolvable`, `CompletedIsCredited`, `KeepsPromise`, `AcknowledgedIsCredited`, `ServiceMovesByPayment`, `PaidIsCredited` |
| `quota` | 1 user, 2 workers, 4 calls, 2 months, limits 1, 2 and none, 1 failure | `OvershootBounded`, `ServedIsCounted` |
| `migrations` | 3 servers, releases of 2 and 3 migrations, 2 failures, fairness | `ServingHasSchema`, `CommittedOnce`, `AppliedInOrder`, `EveryServerServes` |
| `accounts_state` | 2 browsers, 1 GitHub account, 2 sign-ins, 2 workers, 1 failure | `SignInStaysInBrowser`, `LoneSignInConfirmed` |
| `accounts_users` | 1 browser, 2 Google accounts, 1 GitHub account, 2 addresses, 2 sign-ins, 2 workers, 2 profile changes | `SignedInByHolder`, `LinkedToOne` |
| `manifests` | 2 files, 3 documents of 16 kinds (7 workloads, budgets, policies, claims, undecodable, mistyped but unsupported, blank), 4 bytes at most, 1 cloud | `FailsLikeItsDocuments`, `TableGrouped`, `MissingAmountsFlagged`, `RangeOrdered`, `RoundingBounded`, `OthersKeepFindings` |
| `client` | 2 APIs, 2 keys, 2 processes | `SavedPairVerified`, `LastSaveKept`, `BrokenForGood` |
| `ratelimit` | 2 addresses, 2 goroutines, bucket of 3 tokens of 2 units, windows up to 14 units | `RateBounded`, `OneLimiterEach`, `OwnBuckets` |
| `billing_lookup`, `quota_race`, `accounts_moved` | the smallest that shows it | the first three divergences below |

One run of each module also checks its type invariant; `LintReport` has none, since
its states are built from the constants.

Why the bounds are enough to be interesting. Two workers race two callbacks of
one order, or a callback and a checkout; two orders (`billing_plans`) let a second
payment come between two callbacks of the first; two users let one be credited for
the other. One failure reaches every crash point, and in `billing_services` two
failures hit the same order twice. With limit 1 two workers overshoot as far as two can,
and four calls leave some for the next month. Three servers put two at the same
insert while a third commits, and one on the older release. Two sign-ins of one
browser are two tabs; two profile changes take an address from one account and
give it to another. With three documents a budget or policy can stand
before, between or after two workloads, in the other file or the other namespace; the one document of three bytes reaches the limit of a request with another and
exceeds it with two. A bucket of
three tokens is emptied, half refilled and emptied again inside a window, and a
window of 14 units holds a restart. Two processes are enough for two saves to
overlap, and configurations with and without a key differ in length. All safety bounds (`MaxFaults`, `MaxCalls`, `LastMonth`,
`LastMigration`, `MaxSignIns`, `MaxChanges`, `MaxDocuments`, `MaxManifestBytes`, `Guesses`,
`MaxWindow`) are parameters of the
proofs, which hold for every value. Symmetry is used only in runs without
liveness. Deadlock is not checked in the runs of `Billing`, `LintQuota` and `Accounts`, whose
instances stop when order ids, calls, months and sign-ins are used up; it is checked in
the others, where something can always happen: a deploy, an edit, a command, a call.

Fairness. `FairSpec` of `Billing`: net/http runs an accepted request to its end,
so a started handler is weakly fair (starting one is not); the gateway repeats
each callback until it is acknowledged. Failures are finitely many, lookups
answer, nothing forces a buyer to pay. `FairSpec` of `Migrations`: a started
server keeps executing, and one that exited is started again
(`restart: unless-stopped`, `deploy/docker-compose.yml:44`).

### Where the code and its documents differ

* `billing_lookup`: a database failure in either session lookup is answered 200
  like an unknown order (`handlers_billing.go:102`, `:126`, `:141`); a paid order
  is then never credited. The comment there speaks of an order that "will never
  resolve".
* `quota_race`: the quota is a read-then-write race (`handlers_lint.go:77-113`)
  that the migration's comment excludes. `OvershootBounded` is what holds.
* `accounts_moved`: the upsert finds users by address only (`users.go:73`); one
  whose address changed at the provider is refused, although the comments say
  "by Google's stable "sub" id". `LinkedToOne` is what the constraint does keep.

Further disagreements, read off the code while modelling it; the models follow the
code:

* The gateway order is created before the session row (`handlers_billing.go:46`,
  `:57`); `checkout_sessions.go:11-12`, `0002_billing_usage.sql:3-4` and
  `billing.go:54-55` say after. `PayableIsResolvable` is the weaker promise that holds.
* A failing key lookup makes a call with a valid key anonymous, and neither counted
  nor saved (`helpers.go:39`), where `helpers.go:22-24` speaks of a "missing/invalid
  token" only. For the same reason a deleted key is answered as anonymous and
  `api.go:71-72`'s "your API key is invalid or expired" is never printed by lint.
* The rate limiter is "per client IP" (`middleware.go:16`), but without
  `X-Forwarded-For` its key is host and port (`middleware.go:49`): a bucket per
  connection.
* `workload.go:12` says replicas are "always >= 1"; a manifest may set 0 or a negative
  number, and the estimate is then zero or negative. `RangeOrdered` assumes what a
  cluster would accept, `RoundingBounded` an estimate without negative figures:
  `round2` cuts -1.4 cents to 0, off by more than half a cent.
* "no cpu/memory requests or limits set; cost cannot be estimated (see rule K8S-005)"
  (`estimator.go:123-125`) is printed when all amounts are zero by value, the rule tests
  presence: for amounts written as zero, which the API server accepts, and for a workload
  without containers the note stands and the rule is silent. `MissingAmountsFlagged`
  shows that these are the only cases, and three documents of the run have the note.
* `parser.go:30-35` prints an absent namespace as "default", but rules 007 and 010 take
  the two for different namespaces.
* `mflint` answers every 429 with "upgrade your plan" (`api.go:73-74`), the per-address
  limit, which no plan lifts, included.

Two behaviours contradict no document and are worth knowing. Every paid callback
upserts the plan again, so one repeated late puts a user who has since bought
"pro" back to the "team" of the older order (`PlanIsPaidFor` holds: both were
paid for). Of two sign-ins begun in one browser the first is refused, and the
refusal clears the second's cookie (`oauth.go:63`), so both fail
(`LoneSignInConfirmed` is what holds).

## Proofs

All are checked by TLAPS for arbitrary constants, from the named assumptions
(`BillingAssumption`, `QuotaAssumption`, `MigrationsAssumption`,
`AccountsAssumption`, `RateAssumption`, `CliAssumption`, `LintReportAssumption`, `CostAssumption`): bounds and limits are naturals, the pool of workers of
`LintQuota` is finite, `NoRow` and `None` are no value, the ids of the two
providers are disjoint, the rates of the pricing tables are positive and those of
storage not negative (as in `pricing_*.json`), and a document that decodes has the
fields of its Kubernetes type.

**BillingProofs.** None of the invariants is inductive alone. `IInv` adds what
links a request in flight to the tables: `CheckoutInv` (an order id held by a
checkout belongs to that checkout alone, an order with a row exists at the
gateway, a URL's order has a row, a payment needs a URL) and `WebhooksOK` (a
request past the lookups carries the user and plan, or the service, of a row
that is still there, and an order that is paid), and that credited orders are
paid. It works because rows are only added, sessions keep user and plan, and a
paid order stays paid. From it: `TypeCorrect`, `PayableSafe`, `PlanSafe`,
`CompletedSafe`, `ServiceSafe`, the refinement `Implements` (each action maps to
`Pay`, to a fulfilment or to a stutter), and `AcknowledgedSafe`, which assumes
that the lookups answer; the run `billing_lookup` shows that it needs to.

**LintQuotaProofs.** `OvershootSafe`: usage + 1 <= max(1, ceiling) + number of
workers, in each month without an unlimited call. The invariant `QuotaInv` adds
to the current month's usage the calls past the gate and not yet counted: passing
the gate adds one to them, of which there are never more than workers, counting
moves one from there to usage, and a new month starts with usage 0 and at most
all workers past the gate, which is why a ceiling of 0 counts as 1.

**MigrationsProofs.** `ServingSafe`, `CommittedOnceSafe`, `OrderSafe`. `IInv`
says that a running server has everything before its loop index committed, that
the committed migrations are a prefix, and that an uncommitted row is the only
one of its name and not committed yet (the primary key), so that the stale check
does no harm.

**AccountsProofs.** `BrowserSafe`, `HolderSafe`, `LinkedSafe`, `LoneSafe`. `IInv` adds
that a cookie names a sign-in of its own browser (`CookieOK`), what each callback
in flight has learnt so far (`CallsOK`: past the check it runs in the browser
that began, before the upsert its address is proved, after it the row exists),
and that the cookie of a lone sign-in is still there (`LoneOK`), which holds
because only answers in that browser clear it and `over` records their callbacks.

**LintQuotaProofs, counting.** `CountSafe`: `CountInv` says of each user and month that
what was answered, plus the calls that were counted and not answered yet, is at most the
count plus the failed increments, and the same of saved reports with the calls at
`save`. An increment adds one on either side, and later steps move a call from the
second summand to the first, so a turn of the month in between changes nothing.

**RateLimitProofs.** `RateSafe`, `MemorySafe`, and the refinement `Implements`. `IInv` has the
map injective onto the limiters made, each caller between `Lookup` and `Allow` holding
the limiter the map has for its address (entries are only ever added), and `spent[a] +
Left(a) <= granted` for each address, which `Allow` keeps, `Tick` raises on the right
by one and on the left by at most one, and `Restart` by a full bucket on the right and at
most one on the left.

**CliProofs.** `PairSafe`, `SaveSafe`, `BrokenSafe`. `HeldSound`: every piece of the file, and
every command that is saving or was given nothing, carries a verified pair, so whatever
overlaps, a file that is readable is one of them. `OneWriter`: undisturbed, there is at most
one writer, it finds the file empty, and without one the file is what was saved last. For
the third, only commands past loading write, and a broken file lets none pass.

**ManifestProofs.** What the operators of `Manifest` and `Cost` do with data of any size,
which the theorems about reports rest on. Each of these is an induction over data, for which
the library's induction rules cannot be used (they take a predicate, which no installed
prover instantiates). `MinimalMember` replaces them: a nonempty *set* of subsets of a finite
set has a minimal member, from the library's well-foundedness of strict inclusion. A claim
about all subsets is then refuted at a smallest counterexample (`SubsetInduction`,
`SomeInduction`). From it:

* *Sums.* `SumUnfold`, the equation `SumFunctionOnSet` is meant to satisfy, for which its
  recursive function is shown to be unique on smaller sets (`AddsUpOnce`); that a sum may be
  begun anywhere (`SumTakeOut`), is monotone, covers each summand, may be taken over other
  names (`SumRenamed`, which moves the sums from priced positions to the set of lines), and
  adds up errors (`SumOfRounded`).
* *The sort.* `Before` is a strict total order on keys of one length (`BeforeIsOrder`, by the
  least index where two keys differ), so the number of keys before a key is a bijection onto
  `1..n` (`RankIsBijection`), and `RunAllRows`: `RunAll` returns every violation, nothing else,
  strictly ascending. That there are finitely many comparable keys is `KeysTyped`, over all
  thirteen rules (`ChecksPlaces`). `FirstSoMany` and `Groups` turn ascending ranks into groups.
* *Money.* `Round2` is monotone also across zero, within half a cent of a figure that is not
  negative, and exact on whole cents; `RoundedTotal` combines these with the sums. Prices are
  monotone in the amounts.

**LintReportProofs.** `IInv`: the files are lists of documents, finitely many of them, and a report with
status 0 or 1 is the answer to the files as they are (`ReportIsCurrent`). It is inductive
because every edit discards the report. The properties are then facts about one answer:
`ExitStatusIsThatOfSomeDocument`, since the rules of the severity that counts look at one
resource only (`CriticalIsOwn`), so the rows of a directory and of its documents alone agree;
`TablesAreGrouped`, by the sort; `MissingAmountsAreFlagged`, as a container without a row
writes all four amounts (`UnnamedWritesAll`), so that there is nothing to fill in, and sums of
zero over amounts that are not negative have zero terms (`NothingInTotal`); `EstimatesAreRanges`, container by container through
sum, price and rounding; `RoundingIsBounded`, by `RoundedTotal`. `FindingsStayWithTheirResource`
needs no invariant: the eleven rules that look at one resource do not have the others as an argument.

Only model-checked: the liveness properties `PaidIsCredited` and `EveryServerServes`, which need
fairness and ENABLED. Every other property of a passing run is proved.

## Not modelled, and the plan

Signature checking, JSON and HTTP plumbing, prices, contact data, message texts and
printing carry no state the properties depend on. The catalog is a constant table,
a consultation one INSERT, and the Stripe and no-op providers refuse everything. The
static site is content. `ParseDir` and `ParseFile` are called by nothing. The GitHub action (`action.yml:60-64`) runs the client twice and is outside.
What is left, in the order planned:

1. A composition of `Billing` and `LintQuota` over the shared `subscriptions`:
   what a paid plan allows, that `current_period_end` is never read, and a
   provider switched at a restart.
2. `ApiKeys`: the owner of a key, and session tokens with their expiry, over
   `Accounts`' users. Properties: a credential acts for the user it was
   issued to, and only its owner deletes it; the admin's allowlist.
3. A composition of `RateLimit` and `LintQuota`: which refusals of `/v1/lint` come
   first, and that a refused call is not counted.
4. Proofs: the safety cores of the two liveness properties (what each step of the
   progress towards a credited order, or a serving server, keeps).
