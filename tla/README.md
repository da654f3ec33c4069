# TLA+ model of the INTERSECT Registry Service

The registry service gives INTERSECT microservices a name, an API key, queues and a
user on the message broker. This directory models what the service does, checks the
models with TLC and proves the main results with TLAPS. Paths below are relative to
the repository; `app/` stands for `intersect_registry_service/app/`.

## 1. The system

### Components

| Component | Where | State it keeps | Operations | Module |
|---|---|---|---|---|
| Registration handler | `app/ui/endpoints/microservice_user.py`, `app/core/configuration_manager.py` | none of its own: a request in flight, its SQLAlchemy object | POST `/`: insert the service row, configure the broker, insert the broker row, roll back | `ServiceRegistration` |
| Registry database | `app/models`, `migrations/versions` | tables `service` (unique name) and `broker` (foreign key with cascade) | INSERT, DELETE, SELECT, each committed on its own | `RegistryDatabase` |
| AMQP protocol handler | `app/control_plane/protocols/amqp0_9_1.py` | queues and bindings of the broker, the threads that make them | declare exchange; declare and bind two queues per service in a thread pool | `Amqp091Protocol`, `Startup` |
| RabbitMQ handler | `app/control_plane/brokers/rabbitmq.py` | broker users, passwords, topic permissions | PUT user, PUT permissions, for services and for the client user | `RabbitMQHandler`, `Startup` |
| SDK configuration API | `app/api/v1/endpoints/sdk/impl_real.py` | none | GET `service_config`, GET `client_config` | `SdkConfig` |
| Startup | `__main__.py`, `app/main.py`, `app/core/run_migrations.py`, `migrations/env.py` | schema version, exchange, client user | migrate, make the handlers, initialise the broker, lifespan | `Startup` |
| Keycloak sessions | `app/ui/endpoints/login_keycloak.py`, `app/auth/impl_keycloak` | two cookies of the browser; nothing on the server | redirect, callback, check, logout | `KeycloakSession`, an implementation of `BrowserSession` |
| Rudimentary sessions | `app/ui/endpoints/login_rudimentary.py`, `app/auth/impl_rudimentary` | a token cookie of 15 minutes | login page, login, logout | `UiForms`, `BrowserSession` |
| Service page and CSRF | `microservice_user.py`, `app/middlewares/csrf.py`, `app/utils/urls.py`, templates | pages of the tabs, the CSRF cookie | load, submit, partial, redirect, log in and out | `UiForms` |
| Names and broker objects | `app/core/definitions.py`, `app/utils/broker_credentials.py`, `client_name_generator.py` | none | validate a name; derive user, queue and key names | `Naming` (the limits) |
| Logging | `app/middlewares/logging_context.py` | none | answer an exception with 500 | `UiForms` (`ErrorAnswer`) |
| Everything else | see "Not modelled" | | | |

### How they interact

A user logs in, through Keycloak (`KeycloakSession`) or the rudimentary login, loads the
page and submits the form (`UiForms`). The handler (`ServiceRegistration`) writes to the database
(`RegistryDatabase`), then calls `config_manager.add_service`, which calls the protocol
handler (`Amqp091Protocol`: queues, in two threads) and the broker handler
(`RabbitMQHandler`: user and permissions), and then writes to the database again. An SDK
process asks `service_config` with the key the user has read (`SdkConfig`). All of it
relies on what `Startup` has set up. The database, the broker and the browser's cookies
are the only shared state; uvicorn workers share no memory.

### What is hard

- **Two stores, no transaction over both.** A registration spans two database
  transactions with broker calls between them. Every call can fail, with or without
  having taken effect, and the worker can die anywhere. The only thing that orders two
  workers is the unique index on `service_name`.
- **A rollback that undoes half.** It deletes the row. Queues, bindings and the broker
  user stay, and the next request that takes the name inherits them.
- **Threads whose exceptions nobody sees** (`executor.submit` with the futures dropped).
- **An ORM object that expires**, read in the `except` clause.
- **Replicas that start together**, migrate one database and initialise one broker, and
  are restarted while others serve.
- **A session that lives in cookies**, sent back with every answer, so that answers
  which overtake each other put old sessions back.
- **One CSRF cookie for all tabs**, for the service form and the login form, and two ways
  of answering a form.
- **A page that outlives its session.** The session ends or another user logs in while the
  page is open; with htmx the login page is pasted into it.
- **Four limits on names**, in a pattern that is searched for, a pattern that is matched, a
  column and a query parameter.

`PROJECT.json` lists each of these hazards at its line, with the properties that cover
it or the reason why none does.

### What makes each component correct

- Registration: a name is configured and shown for one request at a time; what a user
  was shown exists, keeps existing and its stored password works; a failure is undone
  or reported; every request is answered.
- SDK API: a key that its user has seen is refused only after its own registration was
  rolled back.
- Startup: whoever serves finds everything set up; a migration is applied once; nobody
  waits for a dead replica.
- Sessions: a request is served as the user of the last login or as nobody.
- Page: after a submit the user sees what came of it; with htmx and one tab, a
  fresh form is accepted; a form registers for the user whose page it is on.
- Names: what the browser lets through is accepted everywhere.

## 2. Modules

`ServiceRegistration` composes the three stores by INSTANCE: `DB == INSTANCE
RegistryDatabase`, `Protocol == INSTANCE Amqp091Protocol`, `Broker == INSTANCE
RabbitMQHandler`. Their operators are the statements and calls; the handler's actions
say when and in which order they happen. `NameReservation` is the abstract
specification, and `SdkConfig` extends the registration with its readers.
`BrowserSession` is the abstract specification of a session: `KeycloakSession` is shown
to implement it, and `UiForms` is built on it, so that its forms live under sessions that
come and go as those of Keycloak do, without their cookies. `UiForms` also extends
`Naming`. `Startup` stands alone: what a registration finds is what its
`ServingIsInitialized` says.

Order of reading: `NameReservation`, `RegistryDatabase`, `Amqp091Protocol`,
`RabbitMQHandler`, `ServiceRegistration`, `SdkConfig`; `BrowserSession`,
`KeycloakSession`, `Naming`, `UiForms`; `Startup`.

### ServiceRegistration

`pc[r]` is the call that request `r` makes next. One action is one call with its answer,
because that is the grain at which workers interleave: `add_new_service` is an `async`
function that never awaits after its CSRF check, so within one worker process nothing
else runs; other workers and the pool threads do.

| Code | Actions |
|---|---|
| `session.add`, `commit` (83-85) | `InsertService`; `ServiceNameTaken` on IntegrityError; `InsertServiceFails` on anything else, with the row committed or not |
| `session.refresh` (86) | `RefreshService`, which also submits the two tasks, `RefreshServiceFails` |
| `initialize_service_config` of the protocol | `SubmitFails`, `TaskStep` for the two threads, `PoolJoined` for the end of the `with` block |
| `initialize_service_config` of the broker | `PutUser`, `PutPermissions`, each with its failures |
| second session (95-100) | `InsertBroker`, `InsertBrokerFails`, `RefreshBroker` |
| `except` clause (101-112) | `Except`, `Rollback`, `RollbackFails`, `RollbackFlushFails`, and `AnswerFault` for the answer (112) |

A request stands for the API key and the password it draws, which are unique. `expired`
is the state of SQLAlchemy's object: a commit, or the rollback of a failed flush, expires
it, and reading an expired object outside a session raises. `WorkerKilled` stops a
request and its threads for good, after any call that changes a store: that of the
rollback too, whose answer is a step of its own, so that the row may be gone and nobody
told. A call that a dead worker had sent and that takes effect afterwards is then the same
behaviour with the death later. For the broker row the foreign key decides in the database.

`LatePuts = TRUE` lets a PUT, of a user or of its permissions, land after its caller went
on: an attempt of a call that failed, of a worker that died, or an attempt that was retried
with success. `late` and `latePerm` hold what may land, and nothing is taken out of them,
so a PUT may land as late and as often as one likes, or never.

If no thread can be started, `executor.submit` itself raises. At the first task nothing was
submitted (`SubmitFails`); at the second the one thread does both tasks before the exception
comes out of the `with` block, so that `PoolJoined` may lead to the `except` clause.

`NameReservation` says the same without calls: a request reserves a name that nobody
holds, is refused only if somebody does, is shown, or fails. The refinement mapping reads
the holder of a name off the `service` table and the status of a request off its `pc`.

### SdkConfig

The page and `service_config` read the `service` table while registrations run. `seen`
holds the keys that a user can have read off the page, `answer` what the SDK was told
last. `rolledBack` is a history variable: whose handler has deleted its row, or tried to. The
readers need a worker that is not busy with a registration (`WorkerFree`).

### Startup

`stage[p]` is the call of `main()` that replica `p` makes next. `GotoOrEnd` is a call that
took effect, with its answer received or lost; `ProcessEnds` is a call that had no effect,
or a kill. A migration reads the version, creates its tables in a transaction (another
creator waits, and raises if that transaction commits) and commits tables and version
together. `GetHandlers` stands for the constructors of the two handlers, which touch nothing
outside the process but may raise. A replica whose `BROKER_PROTOCOL` is `mqtt5.0` ends at
`ProtocolNotImplemented`, with its migration committed.

### KeycloakSession

`session` and `fingerprint` are the two cookies. A request's effect is computed from the
cookies of the moment it is sent, and arrives later: `resent` holds every session that an
answer may put back, and nothing is ever taken out of it, so an answer may be as late and
as often repeated as one likes; `answers` holds the answers of redirects, callbacks and
logouts, which change the session once. `SessionMiddleware` sends a non-empty session back
with every response, also over the cookie that `logout_request` deletes and the one that
`login_callback` sets by hand; that is why both handlers are modelled by what ends up in
`request.session`. The states of several flows lie side
by side in the session, as Authlib keeps them. `current` is a history variable.

### BrowserSession

Who logged in last (`current`) and whom a request is served as (`user`). `Change` lets a
session end before a logout and be accepted again; nothing but `Login` brings in another
user. For Keycloak the mapping reads `current` off the history variable of
`KeycloakSession` and `user` off the check of the two cookies.

### Naming

A name is two numbers: its length, and the length of its longest run of allowed
characters. That is all the four limits tell apart: FastAPI *searches* a name for
`HIERARCHY_REGEX` (`pattern=` of pydantic is not anchored), the browser *matches* the
input's `pattern` with the whole name, the column holds 63 characters (SQLModel checks no
`min_length` when it makes a table row), and `service_config` takes 3 to 63.

### UiForms

Two tabs of one browser, with or without htmx, under either login.

| Code | Actions |
|---|---|
| GET `/` and GET `/login`, each redirecting to the other | `Load`, `FollowRedirect` (both `Request`), then `ServicePageArrives` or `LoginPageArrives` |
| `add_new_service` | `Submit`, with a result from `ResultsWithoutRow` or `ResultsWithRow`; the calls behind the result are in `ServiceRegistration` |
| its answers | `Partial` and `Redirect` |
| `handle_unauthenticated` | of the same name: htmx follows the redirect and pastes the login page into the table |
| CSRF errors, 422, `logging_middleware` | `ErrorAnswer` |
| `login_request`, `login_callback`, `logout_request` | of the same names |

A page is asked for and arrives in two steps, because its `Set-Cookie` takes effect on
arrival, and a login in another tab may come in between. A POST is two steps, the server's
and the answer's; a login or logout is one (`KeycloakSession` has its late answers). `cookie`
names the form that the CSRF cookie fits: each page with a form draws a new token, so it fits
exactly one. Without htmx the old page stays until the redirect's target is there, so a
second press may find the CSRF cookie unset; `RefusedOnlyIfOld` therefore speaks of htmx.
`PageCanPost` speaks of both: that refusal ends with the page which the redirect leads to.

`FormIsForItsUser` is about a page that outlives its user's session. The server stores no
user with a form. What keeps the form of the page that greets one user from registering
for another is that the other's first page has replaced the CSRF cookie. `landed` says when that is:
after the rudimentary login at once, since the login page had the cookie; with Keycloak only
when a page of the new user has arrived, since `login_callback` leaves the cookie alone; and
never while a page of an earlier user is still on its way (`Crossing`). In between, the old
form is accepted for the new user.

## 3. What TLC checks

| Run | Instance | Shows |
|---|---|---|
| `registration_safety` | 3 requests, 1 name, 3 workers, no late PUTs | `OneHandlerPerName`, that registration implements `NameReservation` (`ReservesNames`), `StoredPasswordInForce`, `ShownIsProvisioned`, `ShownStays`, `ConfiguredUnderReservation`, `QueueMissingOnlyByFault` |
| `registration_late_puts` | 2 requests, 1 name, 2 workers, late PUTs | `StoredPasswordInForce`, `ShownIsProvisioned`, `ShownStays`, `ConfiguredUnderReservation`, with what a late PUT may do to them |
| `registration_liveness` | 2 requests, 2 workers, fair, late PUTs | `EveryRequestAnswered`, `JoinCanEnd`, `HandlersGoForward` |
| `sdk_keys` | 2 requests, 2 workers | `RefusedOnlyAfterRollback` |
| `startup` | 4 replicas, one of them with `mqtt5.0`, three client passwords, fair | `ServingIsInitialized`, `MigratesOnce`, `WaitsForLiving`, `StartupEnds` |
| `keycloak_session` | 2 users, 2 logins, 2 flows | `IdentitySticks`, `LoginServed`, and that the cookies implement `BrowserSession` (`ImplementsBrowserSession`) |
| `ui_forms` | 2 tabs, 2 users, names around the limits | `HtmxOutcomeShown`, `RefusedOnlyIfOld`, `PageCanPost`, `FormIsForItsUser`, `NamesFit` |

Each of these modules also has a type invariant, checked in its first run.

Runs that find a disagreement between the code and what the repository says of it; the
findings in `PROJECT.json` quote the lines:

| Run | What happens |
|---|---|
| `queues_swallowed` | a pool thread fails, and the service is shown without its queues |
| `rollback_unlogged` | the `except` clause reads an expired object; no rollback, no message |
| `fault_keeps_name` | "please try again later", and the name stays taken by the failed try |
| `sdk_config_early` | `service_config` answers 200 before there are credentials |
| `ui_error_lost` | without Javascript the error of a form is dropped |

### Bounds

- *One service name.* Every table row, queue, user and permission belongs to one name, and
  no action reads that of another; a second name adds only products of states. The proofs
  are for any set of names.
- *Three requests, three workers.* The interesting histories need a request that
  holds the name, one that is refused or comes after its rollback, and one that a worker
  died with. Two requests are enough for a late PUT: the one that left it and the one that
  it meets. With a third, more than two million states tell nothing new; the theorems
  about late PUTs are for any number.
- *Four replicas.* One in its transaction, one waiting for it, one serving or dead. One of
  them has a new client password, as during a rotation. The fourth has the protocol that is
  not implemented, and a password that must never reach the broker.
- *Two users, two logins, two flows.* An old session, a new one, and the answers of both
  crossing each other.
- *Two tabs, two users.* One tab whose form has the cookie and one whose form has lost it;
  an old user's page and the new user's.
- *Names of length 2, 63 and 64, and one of length 5 with a run of 3.* The upper limit,
  one past it, one short of the lower limit, and a name that the server's search accepts and
  the browser does not. Only the name of 63 passes the browser, since a second one that
  passes makes more than five million states; the shortest, of length 3, and all others are
  in `NamesFitHolds`, by `LimitsAgree`.

There are no counters to cap. Requests, users, logins, flows and tabs are symmetric
where the model files declare it; symmetry is used for safety runs only. `registration_safety`
and `keycloak_session` check refinements, that is safety properties, under symmetry: the
abstract specifications are symmetric too.

`CHECK_DEADLOCK` is never switched off. `AllEnded` is the one step that changes nothing:
all requests have ended and users send no more.

### Fairness

`registration_liveness` assumes weak fairness of each request's handler: a process that is
not killed goes on, and a thread it started too. Nothing makes a user send a request, a
worker die, or a late PUT arrive. The calls have no timeouts, so that each one returns or
raises is an assumption about the database and the broker, stated here and not in the
code. `startup` assumes weak fairness of each replica's own steps. Nothing makes
a deployment start or end one. PostgreSQL wakes a waiter when the transaction it waits
for ends, but others may keep taking its place, so `StartupEnds` excepts replicas that
keep opening the transaction and dying in it. With several workers per replica, one whose
lifespan fails is started again by uvicorn's supervisor and the replica does not end: a
stutter of `Lifespan`. `StartupEnds` assumes that a worker which is started over and over
comes up at last.

## 4. What is proved

`NameReservationProofs`, `ServiceRegistrationProofs`, `SdkConfigProofs`, `StartupProofs`,
`KeycloakSessionProofs` and `UiFormsProofs` hold theorems for every value of the constants,
under `ConstantsAssumption`, `StartupAssumption`, `SessionAssumption` and `FormsAssumption`
(the "no one" values are none of the others, workers are a positive number, switches are
Booleans, a name is a `Name`).

**Registration.** The service row is a lock that happens to be in the database. `LockInv`
says that names in the table are unique, that each row was made from its request's form,
and that every handler past its insert (or shown) still has its row. It is what makes
`OneHandlerPerName` inductive, since the handler itself never looks whether it holds the
name. `ProvisionInv` adds what the lock buys: behind each stage of a handler, the user
has its password, then its permissions, then its broker row, and nobody else can change
them, except by a late PUT of a user. **Where user PUTs can be applied late, a stored password need
not be the one that the broker accepts**: a PUT of a rolled back request may replace the
password of the next one. `InForce` says exactly this much: the broker accepts the password, or,
if `LatePuts`, that of another request for the name whose handler has given up. `LateInv` is
what that needs: whoever sent a PUT that may still land has given up, and stays so, or has set
its password by another attempt, and then its row keeps every other request from the name. A
late PUT of permissions can only add them: `ConfiguredUnderReservation` excepts it beside that
of a password, since it may land when nobody holds the name. With
`LatePuts = FALSE` nothing is ever on its way and `InForce` is equality, so no theorem assumes
anything of `LatePuts`, and the four that speak of passwords or of the broker
(`StoredPasswordInForceHolds`, `ShownIsProvisionedHolds`, `ShownStaysHolds`,
`ConfiguredUnderReservationHolds`) say what a late PUT does and that it does nothing else.
The steps are sorted by what they do to the row (keep, take, drop it), so that each invariant
is argued three times and not once per action.

`ThreadsJoined` (a request past the join has no thread in the middle of a task) keeps the
queues of a name to whoever holds it. `TasksInv` adds what each thread has done so far and that
both are through after the join; a shown service then lacks a queue only by the exception of its
own thread (`QueueMissingOnlyByFaultHolds`), the fault that the run `queues_swallowed` shows.

`EveryRequestAnswered` needs fairness and stays with TLC, but the two facts behind it are proved.
`CallsLeft` counts the calls that a request and its threads still make at most, and every step
that moves a request lowers it while the steps of the others leave it alone
(`HandlersGoForwardHolds`): no failure leads back. And the one place where a handler waits, the
join, waits for threads that were started and have a call to make (`JoinCanEndHolds`, from
`Submitted`). What is left to TLC is that a call which can be made is made.

**Reserving names.** `NameReservationProofs` shows what the abstract specification is good for: a
request that is at work or was shown has its name; only a failure of that request gives the
name back, and none hands it over; an answer is final. `ReservesNamesHolds` is the refinement, step
by step, and `PromisesKept` uses it to carry the three promises over to the registration, for the
holders read off the `service` table.

**SDK reads.** `RegistrationGoesOn`: a behaviour of `SdkSpec` is one of the registration, since
the readers leave its variables alone; so `LockInv` holds there too. `SeenInv` adds the past:
a key that was read still has its row, or its request is in `rolledBack`. Only a request's
own rollback removes its row (`RowStays`), and after it a handler answers with an error or
dies, and does nothing else (`AfterRollbackStays`). `RefusedOnlyAfterRollback` therefore does
not say that the user was told: a worker that dies between the COMMIT of the deletion (106) and
the answer (112) leaves a key that may have been read, and is refused without a word.

**Startup.** `TransactionInv`: `migrating` names exactly the replica about to commit, and
then the database is empty. `OrderInv`: at every stage the effects of the earlier calls
are there; no step takes one back. `WaitsForLivingHolds` follows from the first: a replica that
waits for the migration's transaction waits for one that can end it. With fairness that gives
`StartupEnds`, which TLC checks.

**Sessions.** `HashInv`: wherever a session is, its token and its hash are of one login.
`FingerprintInv`: the fingerprint cookie is the current login's or absent. An accepted
session is then the current login's, and where the cookies hold the current login it is accepted
(`LoginServedHolds`), so that a login is lost only to another session that takes its place.
`KnownInv` adds that the login behind every session has
a user, which is what the refinement `ImplementsBrowserSessionHolds` needs: each step of the
cookies is a step of `BrowserSession` or changes nothing that it shows.

**Forms.** `NamesFitHolds` rests on `LimitsAgree`, arithmetic on the four limits, and on an
invariant that every name in an outcome or a row has passed the browser's. `CookieInv` says
that once `landed`, no page of another user is on its way and a cookie for a service
form fits one that greets the current user; `FormIsForItsUserHolds` follows. `ShownInv` adds
to `HtmxOutcomeShown` that a tab which remembers an outcome is on a page, so
that no answer is shown in a tab that has moved on. `OnlyTabInv` is about a browser with one tab in use: its form has
the cookie, or the login page has just taken it and nobody is logged in, in which case the
next submission is sent to the login page and not refused; for that a session that has run
out must not come back, which with the rudimentary login it does not. `PageCanPostHolds` adds the
browser without Javascript, where only the arrival of a page, with its cookie, puts one there.

Only model-checked: the liveness properties (`EveryRequestAnswered`, `StartupEnds`), which
need fairness and ENABLED. Every invariant and every other property of a passing run is
proved, for every value of the constants.

## 5. Not modelled

- `remove_service_config` of both handlers: nothing calls it.
- The data plane (empty), developer-mode SDK answers, ping and health check, response types,
  static files and headers: no state, or none that another part reads.
- `environment.py` beyond the settings named above: URLs and validation. Its docstring of
  `DEVELOPMENT_API_KEY` (line 77) says that no broker users with limited rights are created;
  `main()` and `add_service` do not look at that setting, and `Startup` follows the code.
- Registrations on replicas that start and end: `ServiceRegistration` and `Startup` share
  only the exchange and the tables, which no step takes back once a replica serves
  (`ServingIsInitialized`); a replica that ends is `WorkerKilled` for its requests.
- An operator who removes the row that the log asks for: no code does it.
- RabbitMQ's ordinary permissions: the code sets topic permissions only, and what the broker
  makes of a user without ordinary ones is the broker's own.
- Signatures, hashes, random draws: a token, key, password or fingerprint is the request
  or login that drew it, which takes for granted that draws do not collide.
- Keycloak, PostgreSQL, RabbitMQ and the browser appear as far as the code uses them; what
  is modelled from that use alone is marked external in `PROJECT.json`.
- The Back button, and pages that a browser restores.

## 6. What could follow

1. The late answers of a login or logout (`KeycloakSession`) in the browser of `UiForms`,
   which would replace `BrowserSession` by its implementation there.
2. `remove_service_config`, when something calls it, and the MQTT handler, when it has
   methods.
