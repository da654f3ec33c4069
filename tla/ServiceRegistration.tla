------------------------- MODULE ServiceRegistration -------------------------
(***************************************************************************)
(* Registering a service: the POST / handler add_new_service of            *)
(* ui/endpoints/microservice_user.py and everything it calls, run by       *)
(* several uvicorn workers over one database and one broker.               *)
(*                                                                         *)
(* After its CSRF check the handler never awaits, so a worker process runs *)
(* one registration at a time and registrations interleave only across     *)
(* SERVER_WORKERS processes, between their calls to the database and the   *)
(* broker.  Every such call is a step here, and so is every way it fails.  *)
(* Nothing ties the database and the broker together: the handler inserts  *)
(* the service row, configures the broker, inserts the broker row, and     *)
(* deletes the service row again if one of the later steps fails.          *)
(*                                                                         *)
(* "expired" is SQLAlchemy's state of the handler's new_service object.  A *)
(* commit and the rollback of a failed flush expire its attributes, and    *)
(* reading an expired attribute outside a session raises.                  *)
(***************************************************************************)
EXTENDS Naturals, FiniteSets

CONSTANTS
  Requests,         \* the POSTs, each with its own api_key and password
  Names,            \* the service names that forms submit
  Nobody,           \* no request
  SERVER_WORKERS,   \* uvicorn worker processes, over all replicas
  LatePuts          \* see RabbitMQHandler

ASSUME ConstantsAssumption ==
  /\ Nobody \notin Requests
  /\ SERVER_WORKERS \in Nat \ {0}
  /\ LatePuts \in BOOLEAN

VARIABLES
  service, broker,              \* the database
  queues, bindings, task,       \* queues, and the threads that make them
  password, topicPerm, late, latePerm,   \* broker users, and late PUTs
  pc,         \* pc[r]: the call request r makes next, or how it ended
  form,       \* form[r]: the service_name of request r's form
  expired,    \* requests whose new_service has expired attributes
  logged      \* requests that logged that an operator has to clean up

dbVars == <<service, broker>>
protocolVars == <<queues, bindings, task>>
brokerVars == <<password, topicPerm, late, latePerm>>
vars == <<dbVars, protocolVars, brokerVars, pc, form, expired, logged>>

DB == INSTANCE RegistryDatabase
Protocol == INSTANCE Amqp091Protocol
Broker == INSTANCE RabbitMQHandler

Types == Protocol!INTERSECT_SERVICE_SUBSCRIPTION_TYPES

\* Calls of the handler that change the broker's state for the service.
Configuring == {"create_queues", "put_user", "put_permissions"}

\* Calls of a handler whose service row is committed.
Holding == {"refresh_service", "insert_broker", "refresh_broker", "except",
            "rollback"} \cup Configuring

\* Calls of a handler and, after its except clause, the answer it still owes.
Running == {"insert_service", "answer"} \cup Holding

\* ok: the service is shown to the user; taken and server_fault: the two error
\* partials; internal_error: the exception left the handler; killed: the worker
\* died and nobody answered.
Answered == {"ok", "taken", "server_fault", "internal_error"}
Ended == Answered \cup {"killed"}

TypeOK ==
  /\ DB!DbTypeOK
  /\ Protocol!ProtocolTypeOK
  /\ Broker!BrokerTypeOK
  /\ pc \in [Requests -> {"idle"} \cup Running \cup Ended]
  /\ form \in [Requests -> Names]
  /\ expired \subseteq Requests
  /\ logged \subseteq Requests

Init ==
  /\ DB!DbInit
  /\ Protocol!ProtocolInit
  /\ Broker!BrokerInit
  /\ pc = [r \in Requests |-> "idle"]
  /\ form \in [Requests -> Names]
  /\ expired = {}
  /\ logged = {}

Step(r, from, to) == pc[r] = from /\ pc' = [pc EXCEPT ![r] = to]

InFlight == {r \in Requests : pc[r] \in Running}

-----------------------------------------------------------------------------
(* The first session: insert and refresh the service row.                  *)

\* A free worker takes the request and its CSRF check passes.
Begin(r) ==
  /\ Cardinality(InFlight) < SERVER_WORKERS
  /\ Step(r, "idle", "insert_service")
  /\ UNCHANGED <<dbVars, protocolVars, brokerVars, form, expired, logged>>

InsertService(r) ==
  /\ Step(r, "insert_service", "refresh_service")
  /\ DB!InsertService(form[r], r)
  /\ expired' = expired \cup {r}
  /\ UNCHANGED <<protocolVars, brokerVars, form, logged>>

\* Mutant: every exception of the first session is answered as "taken".
ServiceNameTakenOnError(r) ==
  /\ Step(r, "insert_service", "taken")
  /\ UNCHANGED <<dbVars, protocolVars, brokerVars, form, expired, logged>>

\* The unique constraint raises IntegrityError.
ServiceNameTaken(r) ==
  /\ Step(r, "insert_service", "taken")
  /\ DB!NameTaken(form[r])
  /\ UNCHANGED <<dbVars, protocolVars, brokerVars, form, expired, logged>>

\* Any other exception: the row was not committed, or it was and the answer to
\* the COMMIT was lost.  The handler does not look.
InsertServiceFails(r) ==
  /\ Step(r, "insert_service", "server_fault")
  /\ UNCHANGED dbVars \/ DB!InsertService(form[r], r)
  /\ UNCHANGED <<protocolVars, brokerVars, form, expired, logged>>

RefreshService(r) ==
  /\ Step(r, "refresh_service", "create_queues")
  /\ DB!ServiceExists(r)
  /\ expired' = expired \ {r}
  /\ Protocol!SubmitTasks(r)
  /\ UNCHANGED <<dbVars, brokerVars, form, logged>>

\* No thread can be started for the first task: nothing was submitted, and the
\* except clause of the second session follows.
SubmitFails(r) ==
  /\ Step(r, "refresh_service", "except")
  /\ DB!ServiceExists(r)
  /\ expired' = expired \ {r}
  /\ UNCHANGED <<dbVars, protocolVars, brokerVars, form, logged>>

\* The same except clause as for a failed insert, now with a committed row.
RefreshServiceFails(r) ==
  /\ Step(r, "refresh_service", "server_fault")
  /\ UNCHANGED <<dbVars, protocolVars, brokerVars, form, expired, logged>>

-----------------------------------------------------------------------------
(* config_manager.add_service: the protocol handler, then the broker's.    *)

\* A step of a pool thread.  Nothing but the death of its process stops one.
TaskStep(r) ==
  /\ pc[r] # "killed"
  /\ \E t \in Types : \/ Protocol!QueueDeclare(form[r], r, t)
                      \/ Protocol!QueueBind(form[r], r, t)
                      \/ Protocol!TaskRaises(form[r], r, t)
  /\ UNCHANGED <<dbVars, brokerVars, pc, form, expired, logged>>

\* If no second thread can be started, the first one does both tasks, and what
\* submit raised comes out after the join.
PoolJoined(r) ==
  /\ Step(r, "create_queues", "put_user") \/ Step(r, "create_queues", "except")
  /\ Protocol!PoolJoined(r)
  /\ UNCHANGED <<dbVars, protocolVars, brokerVars, form, expired, logged>>

\* Mutant: the status of the response is not looked at.
PutUserUnchecked(r) ==
  /\ Step(r, "put_user", "put_permissions")
  /\ Broker!PutUser(form[r], r) \/ Broker!PutUserFails(form[r], r)
  /\ UNCHANGED <<dbVars, protocolVars, form, expired, logged>>

\* Mutant: config_manager.add_service is tried again from its beginning.
PutUserRetries(r) ==
  /\ \/ /\ Step(r, "put_user", "put_permissions")
        /\ Broker!PutUser(form[r], r)
        /\ UNCHANGED protocolVars
     \/ /\ Step(r, "put_user", "create_queues")
        /\ Broker!PutUserFails(form[r], r)
        /\ Protocol!SubmitTasks(r)
  /\ UNCHANGED <<dbVars, form, expired, logged>>

PutUser(r) ==
  /\ \/ Step(r, "put_user", "put_permissions") /\ Broker!PutUser(form[r], r)
     \/ Step(r, "put_user", "except") /\ Broker!PutUserFails(form[r], r)
  /\ UNCHANGED <<dbVars, protocolVars, form, expired, logged>>

\* Mutant: the status of the response is not looked at.
PutPermissionsUnchecked(r) ==
  /\ Step(r, "put_permissions", "insert_broker")
  /\ \/ Broker!PutTopicPermissions(form[r])
     \/ Broker!PutTopicPermissionsFails(form[r])
  /\ UNCHANGED <<dbVars, protocolVars, form, expired, logged>>

PutPermissions(r) ==
  /\ \/ /\ Step(r, "put_permissions", "insert_broker")
        /\ Broker!PutTopicPermissions(form[r])
     \/ /\ Step(r, "put_permissions", "except")
        /\ Broker!PutTopicPermissionsFails(form[r])
  /\ UNCHANGED <<dbVars, protocolVars, form, expired, logged>>

-----------------------------------------------------------------------------
(* The second session: insert the broker row, refresh both objects.        *)

InsertBroker(r) ==
  /\ Step(r, "insert_broker", "refresh_broker")
  /\ DB!InsertBroker(r, r)
  /\ expired' = expired \cup {r}
  /\ UNCHANGED <<protocolVars, brokerVars, form, logged>>

\* The flush raises and the session's rollback expires new_service; or the
\* COMMIT raises, applied or not, and new_service keeps its attributes.
InsertBrokerFails(r) ==
  /\ Step(r, "insert_broker", "except")
  /\ \/ UNCHANGED dbVars /\ expired' = expired \cup {r}
     \/ (UNCHANGED dbVars \/ DB!InsertBroker(r, r)) /\ UNCHANGED expired
  /\ UNCHANGED <<protocolVars, brokerVars, form, logged>>

RefreshBroker(r) ==
  /\ \/ Step(r, "refresh_broker", "ok") /\ expired' = expired \ {r}
     \/ Step(r, "refresh_broker", "except") /\ UNCHANGED expired
  /\ UNCHANGED <<dbVars, protocolVars, brokerVars, form, logged>>

-----------------------------------------------------------------------------
(* The except clause: log the failure, delete the service row again.       *)

\* The arguments of logger.exception read new_service.service_name, outside the
\* inner try: an expired object raises and the handler ends there.
Except(r) ==
  /\ \/ Step(r, "except", "rollback") /\ r \notin expired
     \/ Step(r, "except", "internal_error") /\ r \in expired
  /\ UNCHANGED <<dbVars, protocolVars, brokerVars, form, expired, logged>>

\* The deletion is committed; the answer is a step of its own, before which the
\* worker can still die.
Rollback(r) ==
  /\ Step(r, "rollback", "answer")
  /\ DB!DeleteService(r)
  /\ UNCHANGED <<protocolVars, brokerVars, form, expired, logged>>

\* Mutant: remembers the name instead of the request.
RollbackFailsLogsName(r) ==
  /\ Step(r, "rollback", "answer")
  /\ logged' = logged \cup {form[r]}
  /\ UNCHANGED <<dbVars, protocolVars, brokerVars, form, expired>>

\* The SELECT or the COMMIT of the deletion raises: the message that asks for a
\* manual removal is logged, whether the deletion was applied or not.
RollbackFails(r) ==
  /\ Step(r, "rollback", "answer")
  /\ UNCHANGED dbVars \/ DB!DeleteService(r)
  /\ logged' = logged \cup {r}
  /\ UNCHANGED <<protocolVars, brokerVars, form, expired>>

\* The flush of the deletion raises: new_service is expired when the message
\* reads its name, and the message is never written.
RollbackFlushFails(r) ==
  /\ Step(r, "rollback", "internal_error")
  /\ expired' = expired \cup {r}
  /\ UNCHANGED <<dbVars, protocolVars, brokerVars, form, logged>>

AnswerFault(r) ==
  /\ Step(r, "answer", "server_fault")
  /\ UNCHANGED <<dbVars, protocolVars, brokerVars, form, expired, logged>>

-----------------------------------------------------------------------------

\* A worker process dies (out of memory, a deployment, a host): its request is
\* never answered, its pool threads die with it, and uvicorn starts another.
WorkerKilled(r) ==
  /\ pc[r] \in Running
  /\ pc' = [pc EXCEPT ![r] = "killed"]
  /\ UNCHANGED <<dbVars, protocolVars, brokerVars, form, expired, logged>>

LatePutLands ==
  /\ Broker!LatePutLands
  /\ UNCHANGED <<dbVars, protocolVars, pc, form, expired, logged>>

\* The steps of the handler itself.
Handler(r) ==
  \/ InsertService(r) \/ ServiceNameTaken(r) \/ InsertServiceFails(r)
  \/ RefreshService(r) \/ SubmitFails(r) \/ RefreshServiceFails(r)
  \/ TaskStep(r) \/ PoolJoined(r)
  \/ PutUser(r) \/ PutPermissions(r)
  \/ InsertBroker(r) \/ InsertBrokerFails(r) \/ RefreshBroker(r)
  \/ Except(r) \/ Rollback(r) \/ RollbackFails(r) \/ RollbackFlushFails(r)
  \/ AnswerFault(r)

AllEnded == (\A r \in Requests : pc[r] \in Ended) /\ UNCHANGED vars

Next ==
  \/ \E r \in Requests : Begin(r) \/ Handler(r) \/ WorkerKilled(r)
  \/ LatePutLands
  \/ AllEnded

\* A process that is not killed keeps running its handler.  Nothing makes a
\* user send a request, kills a worker or delivers a late PUT.
Fairness == \A r \in Requests : WF_vars(Handler(r))

Spec == Init /\ [][Next]_vars

FairSpec == Spec /\ Fairness

-----------------------------------------------------------------------------
(* What the registry must never do.                                        *)

\* The row is the lock: whatever fails, two handlers never configure the broker
\* for one service name at the same time, and none does for a service that was
\* already shown to its user.  Only the unique index orders the workers; a
\* rollback gives the name away and must be the last thing its handler does.
OneHandlerPerName ==
  \A r, s \in Requests :
    /\ r # s
    /\ form[r] = form[s]
    /\ pc[r] \in Holding
    => pc[s] \notin Holding \cup {"ok"}

\* Where a handler is, or ended, that failed or died: it does not come back to
\* store the password that it PUT.
GivenUp == {"except", "rollback", "answer", "server_fault", "internal_error",
            "killed"}

\* The broker accepts pw for service n; or, where PUTs can be late, the password
\* of another request for n, one that will never store it.
InForce(n, pw) ==
  \/ password[n] = pw
  \/ /\ LatePuts
     /\ \E r \in Requests : form[r] = n /\ pc[r] \in GivenUp /\ password[n] = r

\* The unhashed password that a broker row keeps, for scaled-out copies of the
\* service to log in with (models/broker.py), is the one the broker accepts,
\* though the user outlives a rolled back row and is PUT again by the next
\* request that takes the name.  Only a late PUT takes it out of force.
StoredPasswordInForce ==
  \A b \in broker :
    \E s \in service : /\ s.api_key = b.service
                       /\ InForce(s.service_name, b.broker_password)

\* A service that was shown to its user has its row, its broker row, its broker
\* user with the password of that row, and the permissions of that user.  A late
\* PUT may have replaced the password, but the user and the rest are there.
ShownIsProvisioned ==
  \A r \in Requests : pc[r] = "ok" =>
    /\ [service_name |-> form[r], api_key |-> r] \in service
    /\ [service |-> r, broker_password |-> r] \in broker
    /\ InForce(form[r], r)
    /\ form[r] \in topicPerm

\* No registration, by any worker and however it ends, takes back what a user
\* was shown: the rows of a shown service stay, and so does its broker password
\* unless a PUT that is still on its way arrives late and brings another.
ShownStays ==
  [][\A r \in Requests : pc[r] = "ok" =>
       /\ {s \in service' : s.api_key = r} = {s \in service : s.api_key = r}
       /\ {b \in broker' : b.service = r} = {b \in broker : b.service = r}
       /\ \/ password'[form[r]] = password[form[r]]
          \/ <<form[r], password'[form[r]]>> \in late]_vars

\* The broker changes for a service name (a queue, a binding, a password or a
\* permission) only while a handler that holds the row of that name is at the
\* calls that configure it.  In particular no pool thread outlives the join and
\* touches queues when its handler, or the row, is gone.  Otherwise only a late
\* PUT that lands changes anything: it brings the password it carries, or the
\* permissions of a request that was told that it could not set them.
ConfiguredUnderReservation ==
  [][\A n \in Names :
       \/ /\ \/ password'[n] = password[n]
             \/ <<n, password'[n]>> \in late
          /\ (n \in topicPerm' <=> n \in topicPerm) \/ n \in latePerm
          /\ \A t \in Types : /\ <<n, t>> \in queues' <=> <<n, t>> \in queues
                              /\ <<n, t>> \in bindings' <=> <<n, t>> \in bindings
       \/ \E r \in Requests :
            /\ pc[r] \in Configuring
            /\ [service_name |-> n, api_key |-> r] \in service]_vars

\* Nothing but an exception in its own pool thread leaves a shown service
\* without a queue: the handler goes on only when both threads are through, no
\* registration takes a queue away, and what is bound exists.
QueueMissingOnlyByFault ==
  \A r \in Requests : pc[r] = "ok" =>
    \A t \in Types :
      \/ task[r][t] = "failed"
      \/ <<form[r], t>> \in queues /\ <<form[r], t>> \in bindings

-----------------------------------------------------------------------------
(* Registration as a way to reserve names (module NameReservation).        *)

HolderOf(n) ==
  IF DB!NameTaken(n)
  THEN (CHOOSE s \in service : s.service_name = n).api_key
  ELSE Nobody

StatusOf(r) ==
  CASE pc[r] \in {"idle", "insert_service"} -> "none"
    [] pc[r] \in Holding                    -> "held"
    [] pc[r] = "ok"                         -> "shown"
    [] pc[r] = "taken"                      -> "refused"
    [] OTHER                                -> "failed"

Reservation == INSTANCE NameReservation WITH
  wants <- form,
  holder <- [n \in Names |-> HolderOf(n)],
  status <- [r \in Requests |-> StatusOf(r)]

\* Registration implements name reservation: every call, failure and crash of a
\* handler reserves, refuses, shows, releases or leaves alone, as seen in the
\* service table and in what the users were answered.
ReservesNames == Reservation!Spec

-----------------------------------------------------------------------------
(* What the code says of itself and does not do.                           *)

\* amqp0_9_1.py, initialize_service_config: "On initialization, we will need to
\* create a new queue and bind it to our exchange."  A service that was shown
\* to its user has both its queues bound.
ShownHasQueues ==
  \A r \in Requests : pc[r] = "ok" =>
    \A t \in Types : <<form[r], t>> \in bindings

\* microservice_user.py: "Could not implement failsafe rollback for service %s,
\* will need to manually remove it".  When the except clause ends without
\* having removed the row, the operator is told.
FailedRollbackIsLogged ==
  \A s \in service :
    pc[s.api_key] = "internal_error" => s.api_key \in logged

\* service-submit-error-partial.jinja: "Unable to add service ..., please try
\* again later."  A user who reads this was not given the service, and trying
\* again can succeed once the fault is over: the name is not held by a row of
\* the failed request, unless the log asks an operator to remove it.
TryAgainLater ==
  \A s \in service :
    pc[s.api_key] = "server_fault" => s.api_key \in logged

-----------------------------------------------------------------------------
(* What must happen.                                                       *)

\* A handler that is not killed answers, whatever fails: no exception in a pool
\* thread leaves the join waiting and no failure leads back to a retried step.
EveryRequestAnswered ==
  \A r \in Requests : pc[r] = "insert_service" ~> pc[r] \in Ended

\* The calls that a handler and a thread still make at most from a point on.
HandlerCalls(from) ==
  CASE from = "idle"            -> 15
    [] from = "insert_service"  -> 14
    [] from = "refresh_service" -> 13
    [] from = "create_queues"   -> 8
    [] from = "put_user"        -> 7
    [] from = "put_permissions" -> 6
    [] from = "insert_broker"   -> 5
    [] from = "refresh_broker"  -> 4
    [] from = "except"          -> 3
    [] from = "rollback"        -> 2
    [] from = "answer"          -> 1
    [] OTHER                    -> 0

ThreadCalls(from) == CASE from = "declare" -> 2 [] from = "bind" -> 1 [] OTHER -> 0

CallsLeft(r) ==
  HandlerCalls(pc[r]) + ThreadCalls(task[r]["request"]) + ThreadCalls(task[r]["response"])

\* No failure leads back to a call that was made, and no other request, worker or
\* late PUT gives a handler or its threads more to do: whatever moves a request
\* brings it closer to its end.
HandlersGoForward ==
  [][\A r \in Requests :
       pc'[r] # pc[r] \/ task'[r] # task[r] => CallsLeft(r)' < CallsLeft(r)]_vars

\* The join, the one place where a handler waits, waits for nothing but threads
\* of its own that were started and have a call to make.
JoinCanEnd ==
  \A r \in Requests : pc[r] = "create_queues" =>
    Protocol!PoolJoined(r) \/ \E t \in Types : task[r][t] \in {"declare", "bind"}
=============================================================================
