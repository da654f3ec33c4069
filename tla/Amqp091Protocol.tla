--------------------------- MODULE Amqp091Protocol ---------------------------
(***************************************************************************)
(* The AMQP protocol handler, control_plane/protocols/amqp0_9_1.py, as     *)
(* far as a registration uses it: initialize_service_config submits one    *)
(* task per subscription type to a thread pool, and each task opens its    *)
(* own connection, declares the service's queue and binds it to the        *)
(* INTERSECT exchange.  The futures are dropped, so an exception in a task *)
(* ends that task and nothing else.                                        *)
(***************************************************************************)

CONSTANTS Requests, Names

VARIABLES
  queues,     \* durable queues of the broker, as <<service name, type>>
  bindings,   \* queues bound to the INTERSECT exchange by their routing key
  task        \* task[r][t]: where request r's pool thread for type t stands

INTERSECT_SERVICE_SUBSCRIPTION_TYPES == {"request", "response"}

TaskState == {"none", "declare", "bind", "bound", "failed"}

ProtocolTypeOK ==
  /\ queues \subseteq Names \X INTERSECT_SERVICE_SUBSCRIPTION_TYPES
  /\ bindings \subseteq Names \X INTERSECT_SERVICE_SUBSCRIPTION_TYPES
  /\ task \in [Requests -> [INTERSECT_SERVICE_SUBSCRIPTION_TYPES -> TaskState]]

ProtocolInit ==
  /\ queues = {}
  /\ bindings = {}
  /\ task = [r \in Requests |->
               [t \in INTERSECT_SERVICE_SUBSCRIPTION_TYPES |-> "none"]]

\* Mutant: submits the task of one type only.
SubmitOneTask(r) ==
  /\ task' = [task EXCEPT ![r]["request"] = "declare"]
  /\ UNCHANGED <<queues, bindings>>

\* executor.submit for every type; the pool has a thread for each of them.
SubmitTasks(r) ==
  /\ task' = [task EXCEPT ![r] =
                [t \in INTERSECT_SERVICE_SUBSCRIPTION_TYPES |-> "declare"]]
  /\ UNCHANGED <<queues, bindings>>

\* channel.queue_declare returns.  Declaring an existing queue is a no-op.
QueueDeclare(n, r, t) ==
  /\ task[r][t] = "declare"
  /\ queues' = queues \cup {<<n, t>>}
  /\ task' = [task EXCEPT ![r][t] = "bind"]
  /\ UNCHANGED bindings

\* channel.queue_bind returns, and the connection is closed.
QueueBind(n, r, t) ==
  /\ task[r][t] = "bind"
  /\ bindings' = bindings \cup {<<n, t>>}
  /\ task' = [task EXCEPT ![r][t] = "bound"]
  /\ UNCHANGED queues

\* An exception in the task (no connection, channel closed, lost answer): the
\* command it was at may have been applied by the broker or not.
TaskRaises(n, r, t) ==
  /\ task[r][t] \in {"declare", "bind"}
  /\ \/ UNCHANGED <<queues, bindings>>
     \/ /\ task[r][t] = "declare"
        /\ queues' = queues \cup {<<n, t>>}
        /\ UNCHANGED bindings
     \/ /\ task[r][t] = "bind"
        /\ bindings' = bindings \cup {<<n, t>>}
        /\ UNCHANGED queues
  /\ task' = [task EXCEPT ![r][t] = "failed"]

\* Mutant: executor.shutdown(wait=False).
PoolNotJoined(r) == TRUE

\* Mutant: waits for the tasks to succeed.
PoolSucceeded(r) ==
  \A t \in INTERSECT_SERVICE_SUBSCRIPTION_TYPES : task[r][t] = "bound"

\* The executor's __exit__ waits for every submitted task, failed or not.
PoolJoined(r) ==
  \A t \in INTERSECT_SERVICE_SUBSCRIPTION_TYPES :
    task[r][t] \in {"bound", "failed"}
=============================================================================
