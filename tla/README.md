# wwgo: models, checks and proofs

`wwgo` is a library of server building blocks: an in-memory event rendezvous,
database locks and flood control, HTTP and FastCGI daemons, middlewares,
alerting, Stripe webhooks, GraphQL directives, Cognito and a few utilities.
Its parts share little state with each other, but most of them have several
actors inside: goroutines behind a mutex, processes behind one database,
requests against a service that fails or repeats itself. This directory models
those parts in TLA+, checks them with TLC on small instances and proves the
most important results with TLAPS for every instance.

Paths such as `events.go:61` are relative to the repository's root
(`src/` in `PROJECT.json`).

## 1. Inventory

| Component | State it keeps | Operations | What is hard |
|---|---|---|---|
| `events.go` `Events[T]` | a map of groups to remaining names and a channel, under one `RWMutex` | `WatchForEvents`, `WaitForGroup`, `CancelWatch`, `TriggerEvent`, `EventIsBeingWatched` | a waiter is between its lookup and its `select` when the trigger comes; `CancelWatch` looks in one critical section and closes in another |
| `wwdb/lock.go` | per process and name: a mutex and a connection; on the server: the lock table | `Lock`, `Unlock` | two layers of locking, a bounded pool, sessions that die, contexts that end while a statement is in flight, early returns |
| `wwdb/flood.go`, `flood.sql` | a table of hits | `IsAllowed`, `Register`, `Clear`, `Empty`, `FloodGC`, `FloodUnban`, `FloodGetSummary` | two statements act as one guard; columns hold whole seconds; the garbage collector runs at any time |
| `wwhttp/getter.go` `Getter` | a cached document, its ETag, the time of the last check | `GetJson` | the clock is read before the mutex is taken; every kind of answer, and none |
| `wwhttp/cloudflare.go`, `middleware.go` | context values of a request | `CloudflareMiddleware`, `RequireCloudflareMiddleware`, `IpContextMiddleware` | requests are judged by a list that is old, empty or being replaced |
| `wwhttp/daemon.go`, `server.go` | goroutines of two errgroups, listeners, requests in flight | `RunDaemon`, `Server.Start`, `Wait` | signals, a shared deadline, the order in which errors reach a group |
| `wwhttp/daemon.go`, `fcgi.go` | the same with a socket and a flag | `FcgiServer.Start` | a `select` that finds two contexts done |
| `wwalert/*`, `slack.go` | an index and a counter per alerter, a process-wide cache of secrets | `ConfigAlerter.SendAlert`, both alerters, `SendSlackWebhook`, `SendMsTeams`, `getAwsSecret` | retries with a deadline, lost answers, a mutex held during a request, partial failure |
| `wwstripe/wwstripe.go` | endpoints at Stripe, a wait group | `MigrateWebhook`, `CreateWebhook`, `Client`, `WebhookHandlerFunc` | look and write are two requests of several processes; repeated deliveries |
| `wwhttp/logger.go` | a bounded buffer per request | `RequestLogger`, `limitBuffer.Write` | the limit is applied per write |
| `wwgraphql/graphql.go`, `errors.go` | none between calls | five validation directives, `DefaultErrorPresenter`, `ClientError` | boundaries, types, and which layer of a wrapped error a client may read |
| `wwauth/cognito.go` | none between calls | `ListUsers` | pagination with retries |
| `cognito.go` administrators' calls | the user pool; the callers' attribute slices | `AdminCreateUser`, `AdminGetUser`, `AdminResendTemporaryPassword`, `AdminSetTemporaryPassword` | `append` to a slice that several goroutines share, answers that are lost |
| `tools/whaleblazer-fcgi-entrypoint` | a child process, a signal channel of one | `main` | signals before `Notify`, into a full channel, after the child's end |
| `cron.go` | a schedule, running jobs | start, stop, the alert of an error, the report of a panic | jobs that overlap themselves; an alerter that fails or panics; a stop that waits for nobody |
| `errors.go` `ErrAndPanicGroup` | the group's error and context | `Go`, `Wait` | errors and panics in any order, members started while `Wait` waits |
| `ntp_time.go` | an offset and the time of its refresh, under a mutex | `GetTimeAndOffset` and its two halves | a slow query under the lock, a panic when it fails |
| `wwauth/url_signer.go` | none | `SignUrl`, `SignUrlForTime`, `VerifyUrl` | a URL that is parsed, printed and parsed again; whole seconds against a finer clock, a duration that wraps, repeated parameters |
| `wwauth/jwt.go`, `entra.go` | the claims that `NewClaims` returned, per request | start-up, both middlewares, parsing, the context | a token is decoded before it is verified, beside others |
| `wwhttp/recaptcha.go`, `turnstile.go` | none | three verifications | every kind of answer, fields that are missing |
| `wwaws/ses.go` | none | `Send`, `SendRaw`, the filter of recipients | some of the recipients are refused |
| `wwdb/migrate.go`, `CliConfirm` of `cli.go` | what readers of one input have buffered | the migrate command | one input that arrives in pieces, a reader per question |
| `wwhttp/middleware.go` `CorsMiddleware` | none | the decision on an origin | patterns whose halves overlap |
| `util.go`, `wwgraphql/scalars` | none | SQL values, references, scalars, truncation | empty values against nil, widths, what a column and a text can hold, runes against bytes |
| `wwdb/wwdb.go`, `rand.go`, routers, certificates, other CLI, logger set-up | none | configuration of libraries | see section 7 |

How they interact: `CloudflareMiddleware` calls a `Getter` and hands what it
finds to `IpContextMiddleware` through the request's context; `RunDaemon` drives
`Server.Start` or `FcgiServer.Start` through the `DaemonServer` interface; the
two alerters of a call share the cache of secrets with those of every other
call; a GraphQL resolver's errors pass through `ClientError` to the presenter;
the entry point runs a FastCGI daemon and talks to it by signals and its exit
status; the migrate command asks through `CliConfirm`; a value goes through the
SQL helpers of `util.go` and the scalars on its way to a client.
All other components meet only in the programs that use the library.

### What makes each of them correct

* **Events**: a waiter gets the event when, and only when, every name of its
  group was triggered while the group was open; one waiter gets it; none is
  left parked; `EventIsBeingWatched` is exact.
* **Lock**: one holder per name, however calls fail; no connection lost or shared.
* **Flood**: the threshold bounds the hits in a window; truncation and garbage
  collection lose no hit that should count.
* **Getter, Cloudflare**: tag and document belong together; staleness is
  bounded; nobody is served who was not listed.
* **Daemons**: an exit is asked for or reported, waits for its requests as long
  as it promised, and happens; a container's status is its program's.
* **Cron, panic group**: a failure is reported, once; a panic of a job or member
  ends nothing else; jobs come to rest after the stop; the first failure is told.
* **Alerts**: nil means delivered, once, in order; retries end in time.
* **Stripe**: a migration that ends well leaves its endpoint subscribed, an
  acknowledged event was processed, nobody waits for the client for good.
* **Log, GraphQL, Cognito**: what is logged is the body's beginning; resolvers
  see valid values; clients read nothing internal; lists are complete.
* **Clock, links, tokens, captchas, origins**: whoever gets through was vouched
  for, and whoever was vouched for, in time, gets through; an offset is fresh.
* **Accounts, mail, migrations, values**: users keep their own email; everyone
  a mail was for gets it or is named; nothing is dropped unconfirmed; a value is
  read back as it was.

## 2. Modules

| Module | Models | Relation to the code |
|---|---|---|
| `OneShot` | what `events.go` promises | groups that open once, fire once or are cancelled |
| `Events` | `events.go` | one action per critical section; `pc` is what lies between two sections of a call: `found` (after `RUnlock`), `receiving` (in the `select`), `closing` (between the two sections of `CancelWatch`), `panicked` (a closed channel closed again). `asked`, `seen` are history |
| `NamedLock` | what `wwdb/lock.go` promises | a table of names and holders |
| `DbLock` | `wwdb/lock.go` | `pc` of a thread follows `Lock` and `Unlock` from return to return; `mutex`, `conn` are the fields of the process's lock of a name; `session` is the pool, `owner`, `depth` the server's `GET_LOCK` table. MySQL and `database/sql` are external |
| `Flood` | `wwdb/flood.go`, the columns of `flood.sql` | a call reads the clock in one action and runs its statement in the next; a row has an id, the table is a set of them; `Datetime` is the column's truncation (MariaDB's default; `DEFAULT UUID()` without parentheses is its syntax); a second is three ticks; `hits` is history |
| `Getter` | `wwhttp/getter.go` | `waiting` for the mutex, `requesting` with it; the document is its version; `called[g]` is the clock reading before `mut.Lock` |
| `Cloudflare` | `wwhttp/cloudflare.go`, `IpContextMiddleware` | extends `Getter`: a goroutine of the Getter is a request; the constant `RequireCloudflare` holds the requests to guarded routes |
| `Daemon` | `wwhttp/daemon.go` | the signal goroutine, the context, the group's wait |
| `HttpServer` | `wwhttp/server.go` | extends `Daemon` with `Server.Start`: listeners, the shutdown goroutine, the 60-second deadline, requests in flight; `net/http` by its contract |
| `FcgiServer` | `wwhttp/fcgi.go` | extends `Daemon` with `FcgiServer.Start`: the accept loop, the `select` on two contexts, the `closed` flag |
| `Alerts` | `wwalert/`, `slack.go` | a sender is one alerter of one call; both alerters have the same control and one model. Durations wrap like an `int64` |
| `Stripe` | `wwstripe/wwstripe.go` | one action per request to Stripe; the operator, the deliveries and the endpoints of earlier deployments are external; `client` has the two steps of a `WaitGroup`'s waiter, which is released and later runs, and panics if it finds the counter above zero again |
| `Entrypoint` | `tools/whaleblazer-fcgi-entrypoint/main.go` | extends `FcgiServer`, whose variables are the child's; adds the wrapper, its buffer for one signal and the child's wait status. The child's signal source is the wrapper |
| `Cron` | `cron.go` | a run is one goroutine of robfig/cron: in its function, reporting an error, or in the deferred function. The library starts what is due and waits for nobody |
| `PanicGroup` | `ErrAndPanicGroup` of `errors.go` | errgroup by its contract, with and without a context; `failures` is history |
| `HttpLog` | `wwhttp/logger.go` | byte n of a body is the number n, so a prefix can be told from another part |
| `Gql` | `wwgraphql/graphql.go`, `ClientError` | the five directives as operators from a rule and a value to an error; errors are their layers, outermost first; an error without a GraphQL layer is given one by gqlgen, any other keeps its own |
| `Cognito` | `ListUsers` of `wwauth/cognito.go` | one action per answer of the service |
| `Accounts` | the administrators' calls of `wwauth/cognito.go` | `heap[s]` is the element behind the end of a slice, which `append` writes in one action and the request reads in another |
| `NtpTime` | `ntp_time.go` | reading the clock with the mutex and the server's answer are two actions; the true time is the local clock and a skew that changes; a caller is given the answer's own time with the offset, stored or new; `measured`, `basis` are history |
| `UrlSigner` | `wwauth/url_signer.go` | a path is the segments that `url.Parse` takes for an authority, one parse after the other, and the rest; what is signed is the page parsed again, and `VerifyUrl` passes, refuses or panics; a query is a list of values per name, the MAC an ideal one; time in half seconds, durations wrap |
| `Jwt` | `wwauth/jwt.go`, `entra.go` | decoding, the signature and the claims are three actions, as in golang-jwt; `heap` is what `NewClaims` returned |
| `Captcha` | `wwhttp/recaptcha.go`, `turnstile.go` | a question and its judgement; the answer is any of the service's, whole, cut or none |
| `Cors` | `CorsMiddleware` of `wwhttp/middleware.go` | patterns and origins are sequences of characters |
| `Mailer` | `wwaws/ses.go` | an address is the sequence of its parts between @s |
| `Migrate` | `wwdb/migrate.go`, `CliConfirm` | bytes arrive one by one; a read takes any part of what has arrived up to the size of the buffer, from a terminal no more than a line; what a reader did not use is lost with it |
| `Values` | `util.go`, `wwgraphql/scalars` | a pointer is the set of what it points to, 0 every type's empty value; a text the sequence of its runes' lengths; a column keeps all of a time, its seconds or its day, and rejects what the driver does not write |
| `Daemons` | - | composes `HttpServer`, `Entrypoint` (with `FcgiServer`), `Cron` and `PanicGroup`, of which a behaviour runs one, named by `part` |
| `Calls` | - | composes the twelve modules from `HttpLog` to `Values`, of which a behaviour runs one; it has the assumptions on their constants |
| `MC*` | - | instances for TLC: constants and symmetry |
| `EventsProofs`, `DbLockProofs`, `CloudflareProofs`, `DaemonsProofs`, `AlertsProofs`, `FloodProofs`, `StripeProofs`, `CallsProofs` | - | extend the module they are about |

Two modules hold several components that never meet in one call. Their
variables are those of all: in `Daemons` each by its own name (the two
daemons share `Daemon`'s), and the variables of a component that does not run
have the value "rests", which enables none of its actions; in `Calls` the
variables `s1` to `s8` stand for the running component's by `INSTANCE ... WITH`.
`part` never changes, so the states are those of the components side by side and
not their product, and a property that begins with `part = ...` is about one.
In the component modules `Inductive` is what the proofs need besides the
properties: it is about the model's state and is not mapped to code.

The mapping of every definition to its lines is in `PROJECT.json` under `map`.
Operators marked *Mutant* in the modules are deliberately wrong variants of the
definition below them; `PROJECT.json` says which property notices each.

Choices that hold everywhere: a critical section, a statement or a request is
one action, because nothing inside it can be seen by others; reading a clock or
a context before a lock is an action of its own; a call that may fail in
several ways the caller cannot tell apart has one failing action; documents,
messages and names are model values.

## 3. Runs

Every run finishes within minutes with two workers. Deadlock is not checked
where the system may rest: where a bound stops a clock or a counter, where all
calls returned, or where the process exited. A type invariant that is proved
(section 4) is not checked again, except in the two instances that compose
modules, where it also shows that resting values stay out of the way.

| Run | Shows | Bounds and why they are enough |
|---|---|---|
| `Events` | `OpenIffWatched`, `DeliveredOnce`, `ImplementsOneShot` | three goroutines (two that wait for one group and one that triggers it), two groups, two events (a group completes at its second); symmetric. All three are also proved for all sizes |
| `Events_live` | `NoStranding` | two goroutines: a waiter and whoever ends its group; no symmetry, since a liveness property is checked |
| `DbLock` | `Exclusion`, `LentOnce`, `ImplementsNamedLock` | two threads of one process (one mutex), a third in another (one lock table), two names, pools of one, all faults. All three are also proved for all sizes |
| `DbLock_orphan` | `NoOrphan` is violated | two processes, one thread and one connection each, no faults at all: a time-out is enough |
| `Flood` | `RateLimit`, `HitsCount`, `GCIsInvisible` | two workers (one is between its statements while another acts), windows of one and two seconds, seven ticks (more than two seconds, so that hits leave the longer window), three hits, more than the two the property allows in the window; symmetric. All three are also proved for all sizes |
| `Cloudflare` | `TagMatchesCache`, `StaleIsBounded`, `ServedIsVouched` | two requests, one guarded and one not; an interval of 2 in 4 instants, so that a cache is fresh, on the boundary and old; a second version that delists an address |
| `Daemons` | `DaemonsTypeOK`; `HttpExitIsGraceful`; `ContainerTellsTheEnd`; `FailureIsReported`, `QuietAtLast`; `WaitTellsTheFirst`; `StopEnds` | HTTP and HTTPS, two requests each, the second server with handlers that never end; one container, whose state is finite without bounds; two jobs and two runs, so that a job overlaps itself and another; three members, so that one fails between two others. Runs may be reused, so behaviours are infinite |
| `Fcgi_suppress` | `OurCloseIsSuppressed` is violated | no bounds: the state is finite |
| `Alerts` | `NilMeansDelivered`, `InOrderOnce`, `CallsReturn` | two calls with two platforms (four senders at one cache), a category with webhooks of every kind and the default one; a minute of the two is two units, so that a delay of 3 can be taken once and not twice |
| `Stripe` | `AckedIsProcessed`, `DoneMeansSubscribed`, `ClientIsGiven` | two processes, of which the second has no secret and an `onFail` that asks for the client; they subscribe to different lists of events with the same version, so that each finds the other's endpoint of the right version with other events, and one of another version may be left from before; two endpoints (the second is created behind the back of a migration), one event |
| `Calls` | `CallsTypeOK` and one property, or a conjunction, for each of the twelve components | below |
| `Text_truncate` | `TruncateIsUtf8Safe` is violated | texts of up to three runes of one to three bytes |

The bounds of `Calls`, by component: **log**: a limit of 4, writes of up to 6
bytes, bodies of 12. **GraphQL**: values around both limits for every type,
chains of two directives, ten ways to wrap an error. **Listing**: all pools of up
to four pages, empty ones included. **Accounts**: three calls (two that share a
slice and one beside them) for two users. **Clock**: two callers, an hour of two
ticks in four, so that an offset is fresh, on the boundary and old, a skew that
changes. **Links**: expiries of none, one, two and ten seconds, of which the
last does not fit a duration of four bits; two links, so that values can be taken
from the other; six half seconds, on and between seconds; paths with no, one and
two segments that can be taken for an authority, valid and not. **Tokens**: two requests; every
combination of key, algorithm and signature with good claims, and every fault of
the claims with a good signature; times at and beside the leeway. **Captchas**:
all answers. **Origins**: all strings of up to three characters against lists of
up to two patterns. **Mail**: lists of up to two of four addresses, of which one
has two @s and one none. **Migrations**: four bytes in any
pieces from a terminal or a pipe, a buffer of two, so that a line can be longer
than it, two questions at most. **Values**: ints beyond a small int32 on both
sides, times before the year 0, before the zero time, and before and after the
last that can be written.

### What the properties say

* `DeliveredOnce` has two parts. `CompleteBeforeDelivery` relates what a waiter
  was handed to the history of its group: all names it asked for were triggered
  while it was open. `SingleDelivery` says that of several waiters one at most
  got the event; `NoStranding` that the others, and whoever was still on the way
  to its `select`, come back all the same.
* `Exclusion` is the weakest statement about two holders that is true: they are
  in two processes, and the server dropped the session of one. Nothing in
  `lock.go` can do better, since a holder is not told. `ImplementsNamedLock`
  says the same from the other side: a holder holds until its `Unlock` or the
  loss of its session, and until then nobody else does.
* `RateLimit` counts the hits in the window together with the workers that were
  allowed and have not registered: at most the threshold less one and the number
  of workers. The excess over the threshold is the price of two statements.
* `HitsCount`: a guard counts no hit that is older than the window, and all that
  are younger than the window less a second: truncation only ever makes a hit
  count for less long. A column that rounds breaks the first half.
* `GCIsInvisible`: of the hits that nobody cleared, exactly those in the window
  are counted, and `FloodGetSummary` reports the same number, although `FloodGC`
  deletes by another column and with an old clock.
* `StaleIsBounded`: a document that its origin replaced was last checked before
  it was replaced, so it is used for one `CheckInterval` more at most, although
  calls that read the clock early may finish late. Behind it is `CheckedForward`,
  which is proved: the time of the last check never goes back.
* `ServedIsVouched` joins the Getter and the middlewares: a guarded request that
  is served came from an address in a version not older than the interval, and the
  client's address that any handler sees is the peer's own or was vouched for
  by a listed proxy. It needs `Getter`'s failures to look like an empty list.
* `HttpExitIsGraceful` joins `ExitIsGraceful`, an exit has no request in flight
  unless the deadline is over, and `NoPanicInWait`, a stop that was asked for
  never ends in `Wait`'s panic, not even when requests outlast the deadline.
* `ContainerTellsTheEnd` joins `ExitIsAsked`, a clean exit of the FastCGI daemon
  means that somebody asked for it and that no accept had failed, and
  `WrapperTellsTheEnd`, the wrapper outlives its child and reports 130 exactly
  if the daemon ended so.
* `StopEnds`, of both daemons and the wrapper: a signal or a cancelled context
  ends the process, a failure to accept too, and a stop that the wrapper took
  ends both processes.
* `FailureIsReported`: each run that failed asked for exactly the alerts it owes
  (an error, and the panic of the alerter after it; or a panic under its job's
  name), no other run did, and only an alerter that panics at the report of a
  panic ends the process. `QuietAtLast`: once the context is done all runs come
  to rest and stay so, although nobody waits for them.
* `WaitTellsTheFirst`: `Wait` returns the failure that came first in time, a
  panic like an error, after all members ended.
* `NilMeansDelivered`, `InOrderOnce`: an alert that returns nil was taken by
  every webhook of its category, and no webhook took one twice although posts
  are repeated after a 429 and answers get lost.
* `DoneMeansSubscribed`: at the step that ends a migration well there is an
  enabled endpoint with the process's events and version, whatever another
  process or the operator did between its two requests.
* `ClientIsGiven`: whoever waits in `Client` gets it, unless its process ends,
  a new migration begins before it has left the wait (which panics), or the
  migration that it waits for is in an `onFail` that asks for the client.
* `LogIsFaithful`: what is logged of an error is the body's beginning, up to the
  limit at least, and the buffer stays below twice the limit.
* `ErrorsFindTheirReader`: every text a client reads belongs to a layer that is
  meant for it; "An unexpected error" is never told in place of such a layer,
  however deep it is, nor for a refused value, unless the schema is wrong.
* `ListIsComplete`: a listing that returns has the users of all pages, in order,
  however often the service refused in between.
* `EmailIsTheirOwn`: a user is created with its own email, except by callers
  that share a slice with room among calls for several users.
* `OffsetIsFresh`: an offset was measured less than an hour before its caller
  read the clock, or by the caller, however long queries take and whichever fail.
* `SignedPasses` has two parts. `PassedWasSigned`: a link that passes is one that
  was signed, in time, up to how its numbers are written, values that are
  appended to them, and what of its path the two parses of a verification take
  for an authority (the signature covers a path less one such segment).
  The other: a link that was signed, not over an older signature and
  for a time that fits a duration, passes until its time is over exactly if at
  most one segment of its path is taken so.
* `SeenIsSigned`: a handler acts on the claims of its own request's token, which
  was signed by a key of the provider and is valid now, whatever is decoded
  beside it.
* `PassedIsVouched`: who passes a captcha was vouched for in an answer that was
  read to its end, for this action and site; a check panics only over an answer
  without a field that a good one has.
* `AllowedIsListed`: the origins that are allowed are those a listed pattern can
  become, and those in which the ends of a pattern overlap.
* `EveryoneIsAccountedFor`: mail goes to the recipients it was meant for but
  those that a warning names; without a To that is left, to nobody.
* `HarmIsConfirmed`: without `--yes` a database is dropped only after two reads
  of the input that said y, and migrations are undone only after one. It says
  reads and not lines: a line that arrives in pieces, or is longer than the
  buffer of 4096 bytes, may answer both questions (`yy` in two writes to a pipe),
  while a line that one read takes whole answers one only.
* `ValueSurvives`: a value is read back as its column holds it, nil as nil and
  empty as empty, and comes back from a client down to its seconds or its day,
  with the exceptions that the definition names: ints that do not fit, times
  whose year has no four digits, the zero time as a date.

### Fairness

* `Events_live`: goroutines that can run do run (weak fairness of the `select`,
  of receiving from a closed channel and of `CancelWatch`'s second section).
  Nobody has to call, trigger or cancel anything, and no context has to end.
* `Daemons`, the two servers: the program's goroutines run and the deadline
  expires. A signal is never due; a request ends only at a server that is not in
  `Slow`, where the read and write timeouts of 15 seconds end it. The wrapper's
  loop and its waiting goroutine run; it need not get as far as `Notify`, and
  signals need not come.
* `Daemons`, cron: the goroutine that stops the schedule runs and the alerter
  returns. A job's function ends only once its context is done: it is given the
  context (`cron.go:77`), and one that does not heed it never rests.
* `Alerts`: requests are answered or time out (the clients have timeouts), and
  a `Sleep` returns.
* `Stripe`: requests are answered, and a waiter that the `sync.WaitGroup`
  released runs in the end, both weakly fair: it stays released whatever the
  others do meanwhile, and if a new migration began it panics.
* `Calls` assumes none: it checks safety only.

## 4. Proofs

All are for arbitrary values of the constants, from the named assumptions of the
component's module, or of `Calls` for the components it composes: disjointness of
`NoThread` and the like, and types of bounds and inputs. TLC evaluates them in
the runs too. Each theorem follows from an invariant that is inductive, which
TLC checked first on the instance of its run.

* **`EventsProofs`**: `Typing`, `MapMatchesChannels`, `DeliversOnce` (from
  `NoEarlyDelivery` and `AtMostOneDelivery`), `WatchIsExact`, `Refinement`. None
  but the first is inductive alone. The invariant `IInv` adds that remaining names are those
  asked for less those seen (`Remaining`), that an open group lacks a name
  (`OpenLacksNames`: otherwise a second trigger could fire it), that whoever
  holds an event holds it of a closed and complete group (`DeliveredIsOver`:
  closed groups stay closed, so a delivery stays justified), and that a call in
  progress has a group that was made (`CallHasGroup`: what `CancelWatch` closes
  on its stale look exists). The refinement reads a group's life off its channel
  and its names; a stale second close maps to a stutter.
* **`DbLockProofs`**: `Typing`, `MutualExclusion`, `NoConnectionLost`,
  `Refinement`. `IInv` says what a thread between `Lock` and the end of `Unlock`
  has: the mutex of its process (`HeldOK`, `CallOK`), a connection that nobody
  else works on (`ConnUnique`), and, while that connection lives, the name on
  the server (`HeldOwner`). `LentUsed` is the converse for connections: one that
  is out of its pool is in somebody's hands. The refinement maps a granted
  `GET_LOCK` to `Acquire`; the start of `Unlock` and the death of a session to
  `Release`, when there is still something to release; all else to stutters.
  It assumes nothing about the faults.
* **`FloodProofs`**: `LimitsRate`, `CountsHits`, `CollectsUnseen`. `TimesOK` is
  what makes the bound inductive: the window a worker counts in began no later
  than the one of now, so whoever is allowed last has seen fewer hits than the
  threshold in the latter too (`AllowedKeepsBound`), and registering moves a
  worker from those in between to the hits. `TableOK` ties the table to the
  history: each row is what `Register` made of a hit of its own, and a hit without
  a row has expired (`HitsAreKept`); what has expired is out of the window by
  `DatetimeIs`, which is all that is used of the truncation. The numbers are compared
  by the injection from hits to rows. Assumed: there are workers, finitely many.
* **`CloudflareProofs`**, of the Getter: `Typing`, `TagIsOfCache`,
  `BoundedStaleness`, `ChecksGoForward`. The step that matters is `InFlightOK`:
  while a request is in flight nobody else has the mutex, so its clock reading,
  older than the lock, is still not older than the last check. Of the middleware:
  `CfImplementsGetter`, every step of it is one of its Getter or leaves it alone,
  so all of these hold under it; and `Vouched`, for which `HandedOK` follows a
  document after it was handed out (it is the origin's, or was replaced after its
  call came) and `DecidedOK` a request after it was decided.
* **`DaemonsProofs`**: one theorem for each of the four parts, for any number of
  servers, requests, jobs, runs and members, and `Typing` for all. `EndsWell`, of
  the HTTP daemon: `CloserOK` follows the shutdown goroutine, the servers it is
  past have no request left, which stays so since they accept none; `GroupOK`
  says why the process exits cleanly, the deadline expires only after a listener
  returned, so the group's first error is a listener's `ErrServerClosed`, never
  the shutdown's. `TellsTheEnd`, of the container: `SocketOK` and `ResultOK` trace
  the error that `Start` returns to what `Serve` met and to the flag, `StatusOK`
  what the wrapper exits with to what the child left. `ReportsFailures`, of cron:
  `RunOK` says for each place a run can be at which alerts it has asked for;
  `PanicIsContained` is inductive with it, because nothing runs after a crash.
  `WaitTells`, of the group: `FailsIInv` is the step where a failure is the first
  or is not.
* **`AlertsProofs`**: `OnceAndInOrder`, `NilIsTrue`, for any calls, platforms,
  answers and delays, also those that wrap. `LoopOK` says of a sender that the
  webhooks that took its message are increasing and below its index, that it
  counts no more than there are, and that one that ended without an error counted
  them all: increasing numbers below a bound, as many as the bound, are all of them.
* **`StripeProofs`**: `Typing`, `AckedWasProcessed`, and `MigrationSubscribes`.
  `TargetOK` is why a migration may trust what it read before its second request:
  versions of endpoints never change. The theorem has the hypothesis
  `ListsAreSets`, that no list of `EventTypes` has an event twice, because it is false
  without: `eventsMatch` (`wwstripe.go`) compares lengths and looks up one list in
  the other, so `<<x, x>>` matches `<<x, y>>`. Nothing checks the list that a
  caller configures.
* **`CallsProofs`**: `CallsTyping`, for all twelve components that `Calls`
  composes, and a theorem for each. A type may need the rest of the invariant: a
  chain's directives stay numbers only as the end of the field's own
  (`ChainIsSuffix`), a column's value an integer only as what was given.
  - Log, `LogsFaithfully`: until the limit is reached the buffer is the whole
    body (`BufferOK`).
  - GraphQL, `ResolvesValid` and `TellsClients`: the directives that are through
    admit the value (`DoneAdmit`), and an error is the library's or a refusal by
    a directive of the chain, under whatever wrapping (`ErrorHasSource`). Assumed: no
    client error has the code of an unexpected one, and only the library's errors
    have the library's codes.
  - Listings, `ListsAll`, for any number of pages of any size: as long as the loop
    asks, it has the users of all pages before the one it asks for
    (`HasThoseBefore`), also after a refusal.
  - Accounts, `OwnEmail`: a call that owns its slice finds in it what it appended
    (`SliceHasEmail`), as nobody else writes there.
  - Clock, `FreshOffset`: `StoredIsMeasured` says that the refresh that is noted
    is not later than the measurement it stands for (the clock is read before
    the query). This is the right side to err on; with the order reversed the
    theorem would fail.
  - Links, `LinksAreSigned`: all that was issued carries the signature of its own
    parts and of its page parsed again (`IssuedIsSigned`); verifying parses the
    page twice, which is as parsing it once only if at most one segment is taken
    for an authority; what a duration wraps to is never later than it.
    Assumed: what a power of two is to the next one, which the provers do not know.
  - Tokens, `ActsOnSigned`: the token a request holds is the one it came with
    (`TokenIsOwn`), through every place where it is decoded.
  - Captchas, `VouchesFirst`: what was asked about is the form's own
    (`AskedIsOfForm`).
  - Origins, `AllowsListed`: lemmas on prefixes, suffixes and their lengths
    (`PrefixIs`, `SuffixIs`, `MiddleIs`) say that an origin begins and ends like a
    pattern just if the pattern becomes it or its ends overlap.
  - Mail, `AccountsForEveryone`, for lists of any length: the filter keeps what
    passes and `DiffSlice` the rest (`FilterIs`, `FilterSplits`), and a safe address
    is a name before a safe domain (`SafeIs`). Assumed: an address has a part.
  - Migrations, `ConfirmsHarm`, for any buffer and however the bytes arrive: reads
    are numbered, those whose y confirmed increase, and what a reader has left was
    read after them (`ReadsInOrder`); every answer that is missing is still asked
    for (`AnswersAreCounted`).
  - Values, `ValuesSurvive`: each stage is what the conversion, or the column, makes of
    the one before (`StagesFollow`). Assumed: the powers of two that cut an int are
    positive, and a year begins with a day.

The prover cannot use the library's induction theorems, which take an operator as
a parameter, and what the loops over pages and addresses compute is said by
recursive functions (`FlattenSeq`, `FilterSlice`). Two lemmas of `CallsProofs`
stand in for induction and are first-order: `AlongInterval`, that a set of numbers
which has an interval's first, and with each the next, has all of it (were some
missing, there would be a least one, `LeastExists`); and `RecursionExists`, that a
function exists whose value at each number of an interval is the given step from
its value at the one before. From the second follows that a recursive definition
means what it says (`FlattenIs`), from the first what it computes (`FilterIs`).

Only model-checked: liveness (`NoStranding`, `StopEnds`, `QuietAtLast`,
`CallsReturn`, `ClientIsGiven`), since `ENABLED` and fairness are out of the
prover's reach; and the properties of the three runs that are violated, which no
theorem can state. Every safety property of the passing runs is stated by a theorem.

## 5. Findings and observed behaviour

Three runs show the code contradicting its own text:

* `DbLock_orphan`: every return of `Lock` between taking the mutex and its end
  leaves the mutex locked (`lock.go:37-40`, `45-48`, `49-52`). After one
  time-out the name is out of reach for the process until it restarts.
* `Fcgi_suppress`: the goroutine of `fcgi.go:66` may find both contexts done
  and take the second, so that it closes the socket without setting `closed`;
  the error of its own close is then not suppressed and panics in `Wait`.
* `Text_truncate`: `TruncateStrBytes` (`util.go:472`, "UTF-8 safe") takes the
  number of runes before a rune for the number of their bytes. A text with
  multibyte runes is cut inside one, also when all of it fits.

The models also contain these behaviours, for which no run is kept:

* `events.go:90-91` says that whoever waits after a group fired gets an
  "immediate 'true'"; `WaitForGroup` returns nil, as for a cancelled group
  (`WaitForGroup`, the `ELSE` branch). Two cancellations, or a cancellation and
  a trigger, may close a channel twice (`pc = "panicked"`, `events.go:69`).
* `lock.go:64`: an `Unlock` whose context is done before its statement returns
  its connection to the pool with the name still locked on the server.
* `getter.go:54`, `:90`, `:119`: `v = pg.cache` assigns the parameter; a caller
  that is answered from the cache, or by a 304, finds its `v` unfilled, and a
  failed first check reports success (`ReturnCached`, `NotModified`, `FallBack`).
  So `isIpFromCloudflare` treats all addresses as unlisted whenever the list
  was not downloaded by this very call.
* `cloudflare.go:77`: the middleware returns without calling the next handler
  when it has the client's address (`DropsRequest`).
* `server.go:80`: the error of a failed shutdown is never the group's first
  (`FirstError`), so the process exits as after a clean one. When the first
  server of two fails to drain, the second is not shut down at all; `Slow`
  excludes server 1, the redirect server, whose handlers do not wait.
* `slack.go:79`: a `Retry-After` that is negative, or large enough to wrap when
  multiplied by a second, retries at once, outside the two minutes.
* `cron.go:77`: nobody waits for running jobs when the schedule stops, so a
  process that exits with its servers ends them in the middle (`StopSchedule`).
* `ntp_time.go:43`: a query that fails panics in the caller; the mutex is freed
  by a defer, and the next caller queries again (`QueryFails`).
* `cognito.go:90`: `append` writes the email behind the end of the caller's
  slice: calls that share one with room may create a user with another's email
  (`AppendEmail`).
* `url_signer.go:68`: an expiry that does not fit a duration wraps, and the link
  is refused at once; a link signed again over its signature never passes.
* `url_signer.go:37`, `:79`: what is signed is `RequestURI()` parsed again, for
  which `url.Parse` takes a segment after `//` for the host: it drops out of the
  signature, and a link with two such segments never passes. If the segment is
  no valid host the error is ignored, and the nil URL panics in the next line
  (`Parseable`). Neither the scheme nor the host of a link is signed. Links are
  taken to be signed as whole URLs, with both.
* `date.go:63` refuses years outside [0,9999]; `GqlTime` writes them, and they are
  refused, or read as nil, when they come back (`Unreadable`).
* `jwt.go`: `JwtFromContext` panics behind `JwtAuth`'s middleware, which stores a
  token and not a text; an expired token gets two answers (`Validate`).
* `turnstile.go:99`: an answer without an action or hostname is dereferenced;
  `recaptcha.go:94` overwrites a request's error.
* `ses.go:71`: with no To left, Cc and Bcc are dropped without a warning.
* `middleware.go:61`: `a*a` allows `a`.
* `cli.go:46`: at the end of its input `CliConfirm` asks for ever (`looping`); a
  line in pieces may answer two questions (`Fill`).
* The entry point loses a signal that finds its buffer full, and dies of one
  that comes before `Notify` while the child goes on (`SignalArrives`).
* `wwstripe.go:160`, `:208`: a migration that begins while a caller of `Client` is
  released and has not yet run makes it panic, "WaitGroup is reused before
  previous Wait has returned" (`ClientReturns`); an `onFail` that asks for the
  client waits for the end of its own migration (`OnFailReturns`).
* `wwstripe.go:276`: two processes that both see no webhook create two.
* `logger.go:165`: a write is cut to the limit, not to what is left of it
  (`MemoryIsBounded` proves less than twice the limit).
* `graphql.go:142`: string limits count bytes, their messages say characters.
* `cognito.go:187`: the error of the loop is shadowed; after five throttled
  requests the wrapped error is nil and the caller reads a nil page
  (`GiveUp`).

## 6. Plan

Order of construction: `Events` and its abstraction first, as the purest
concurrency of the repository, then `DbLock`, the Getter and the middlewares on
it, the daemons, alerts and Stripe, then what lives as long as its process
(entry point, cron, panic group), and the components whose calls share nothing.
That is done, and every safety property is proved. Left, by weight:

1. Abstract specifications still worth stating: a daemon as "serves until asked,
   then exits", which both servers implement, and a cache with bounded staleness,
   which `Getter` and `NtpTime` both implement.
2. Requests of the FastCGI daemon, once `fcgi.go:80` has a way to wait for them.

## 7. Not modelled

* **Database opening** (`wwdb/wwdb.go`): one sequence of calls that configure
  libraries. Read and noted: the limit on open connections is set on a handle
  that is then replaced by the instrumented one, so it is lost (`wwdb.go:24`).
* **Random strings** (`rand.go`): what it should do is a distribution. Read and
  noted: the last character of a set is never drawn (`rand.go:26`, where the
  bound that `rand.Int` excludes is already one less than the length).
* **Routers, certificates, other CLI and logger set-up, GraphQL server set-up**:
  configuration of libraries, and interfaces.
* **Formatting**: log fields, messages, subjects, the text of a duration.
* The slice helpers of `util.go` that are one library call, those that set a
  context value in `middleware.go`, and reading settings from the environment.
* What the properties admit: a signal that ends the wrapper before `Notify`
  (`main.go`), calls that share an attribute slice (`cognito.go:90`) and patterns
  whose ends overlap (`middleware.go:61`) are behaviours of the models that the
  properties except by name; a `Retry-After` that is negative or wraps is in
  `Alerts` and its safety theorems, and not in the run, where `CallsReturn` would
  be false: nothing bounds how often the code repeats then.
* Cryptography is taken to be ideal (`UrlSigner`, `Jwt`).
* The requests of FastCGI: `fcgi.Serve` offers no way to wait for them, as the
  todo at `fcgi.go:80` says.
