------------------------------- MODULE Startup -------------------------------
(***************************************************************************)
(* How a replica of the registry service starts: main() of __main__.py     *)
(* runs the migrations and initialises the broker, and uvicorn then starts *)
(* workers that run the lifespan of app/main.py and serve.  Several        *)
(* replicas start, fail and are started again next to each other, over one *)
(* database and one broker.                                                *)
(*                                                                         *)
(* main() handles no exception: a call that fails ends the process.  The   *)
(* effect of such a call may have reached the database or the broker.      *)
(* The project has one migration, so the database is at "none" or "head".  *)
(* Developer mode starts in the same way.                                  *)
(***************************************************************************)

CONSTANTS
  Replicas,                 \* the deployed processes
  Passwords,                \* values of BROKER_CLIENT_PASSWORD
  NoPassword,               \* the client user does not exist
  Nobody,                   \* no replica
  BROKER_CLIENT_PASSWORD,   \* environment of each replica
  BROKER_PROTOCOL,          \* the same
  ALEMBIC_RUN_MIGRATIONS    \* does main() run the migrations?

ASSUME StartupAssumption ==
  /\ Nobody \notin Replicas
  /\ NoPassword \notin Passwords
  /\ BROKER_CLIENT_PASSWORD \in [Replicas -> Passwords]
  /\ BROKER_PROTOCOL \in [Replicas -> {"amqp0.9.1", "mqtt5.0"}]
  /\ ALEMBIC_RUN_MIGRATIONS \in BOOLEAN

VARIABLES
  stage,             \* stage[p]: the call replica p makes next, or "serving"
  alembic_version,   \* the committed schema version
  migrating,         \* the replica with uncommitted tables, or Nobody
  exchange,          \* does the INTERSECT exchange exist?
  clientPassword,    \* the password the broker accepts for the client user
  clientPerm         \* does the client user have its topic permissions?

dbVars == <<alembic_version, migrating>>
brokerVars == <<exchange, clientPassword, clientPerm>>
vars == <<stage, dbVars, brokerVars>>

Migrating == {"read_version", "create_tables", "commit"}

Initializing == {"get_handlers", "declare_exchange", "put_client_user",
                 "put_client_permissions"}

Stages == {"down", "lifespan", "serving"} \cup Migrating \cup Initializing

TypeOK ==
  /\ stage \in [Replicas -> Stages]
  /\ alembic_version \in {"none", "head"}
  /\ migrating \in Replicas \cup {Nobody}
  /\ exchange \in BOOLEAN
  /\ clientPassword \in Passwords \cup {NoPassword}
  /\ clientPerm \in BOOLEAN

\* A new deployment: an empty database, which may have been migrated from the
\* command line, and an empty broker.
Init ==
  /\ stage = [p \in Replicas |-> "down"]
  /\ alembic_version \in {"none", "head"}
  /\ migrating = Nobody
  /\ exchange = FALSE
  /\ clientPassword = NoPassword
  /\ clientPerm = FALSE

At(p, s) == stage[p] = s

Goto(p, s) == stage' = [stage EXCEPT ![p] = s]

\* After a call took effect its caller goes on, or ends for want of the answer.
GotoOrEnd(p, s) == Goto(p, s) \/ Goto(p, "down")

-----------------------------------------------------------------------------

Start(p) ==
  /\ At(p, "down")
  /\ Goto(p, IF ALEMBIC_RUN_MIGRATIONS THEN "read_version" ELSE "get_handlers")
  /\ UNCHANGED <<dbVars, brokerVars>>

\* command.upgrade(..., 'head') reads the version and plans its steps from it.
ReadVersion(p) ==
  /\ At(p, "read_version")
  /\ Goto(p, IF alembic_version = "head" THEN "get_handlers" ELSE "create_tables")
  /\ UNCHANGED <<dbVars, brokerVars>>

\* Mutant: tables are created only if they do not exist.
CreateTablesIfNotExist(p) ==
  /\ At(p, "create_tables")
  /\ migrating = Nobody
  /\ Goto(p, "commit")
  /\ migrating' = p
  /\ UNCHANGED <<alembic_version, brokerVars>>

\* The first CREATE TABLE waits for the transaction of a replica that created
\* the same table, and raises if that one was committed.
CreateTables(p) ==
  /\ At(p, "create_tables")
  /\ migrating = Nobody
  /\ \/ alembic_version = "none" /\ Goto(p, "commit") /\ migrating' = p
     \/ alembic_version = "head" /\ Goto(p, "down") /\ UNCHANGED migrating
  /\ UNCHANGED <<alembic_version, brokerVars>>

\* Mutant: the connection is kept and its transaction left open.
CommitForgotten(p) ==
  /\ At(p, "commit")
  /\ GotoOrEnd(p, "get_handlers")
  /\ UNCHANGED <<dbVars, brokerVars>>

\* The tables and the new version are committed in one transaction.
Commit(p) ==
  /\ At(p, "commit")
  /\ GotoOrEnd(p, "get_handlers")
  /\ alembic_version' = "head"
  /\ migrating' = Nobody
  /\ UNCHANGED brokerVars

\* ConfigurationManager makes the handlers, which make no call.  That of AMQP reads
\* certificates, from fixed paths, if BROKER_TLS_CERT is set.
GetHandlers(p) ==
  /\ At(p, "get_handlers")
  /\ GotoOrEnd(p, "declare_exchange")
  /\ UNCHANGED <<dbVars, brokerVars>>

\* The MQTT handler has no method that does not raise NotImplementedError.
ProtocolNotImplemented(p) ==
  /\ At(p, "declare_exchange")
  /\ BROKER_PROTOCOL[p] = "mqtt5.0"
  /\ Goto(p, "down")
  /\ UNCHANGED <<dbVars, brokerVars>>

\* Declaring an exchange that exists is a no-op.
DeclareExchange(p) ==
  /\ At(p, "declare_exchange")
  /\ BROKER_PROTOCOL[p] = "amqp0.9.1"
  /\ GotoOrEnd(p, "put_client_user")
  /\ exchange' = TRUE
  /\ UNCHANGED <<dbVars, clientPassword, clientPerm>>

\* Mutant: the name and the password change places.
PutClientUserSwapped(p) ==
  /\ At(p, "put_client_user")
  /\ GotoOrEnd(p, "put_client_permissions")
  /\ clientPassword' = p
  /\ UNCHANGED <<dbVars, exchange, clientPerm>>

PutClientUser(p) ==
  /\ At(p, "put_client_user")
  /\ GotoOrEnd(p, "put_client_permissions")
  /\ clientPassword' = BROKER_CLIENT_PASSWORD[p]
  /\ UNCHANGED <<dbVars, exchange, clientPerm>>

\* Mutant: a response of 400 and up does not raise.
PutClientPermissionsUnchecked(p) ==
  /\ At(p, "put_client_permissions")
  /\ GotoOrEnd(p, "lifespan")
  /\ clientPerm' \in {clientPerm, TRUE}
  /\ UNCHANGED <<dbVars, exchange, clientPassword>>

PutClientPermissions(p) ==
  /\ At(p, "put_client_permissions")
  /\ GotoOrEnd(p, "lifespan")
  /\ clientPerm' = TRUE
  /\ UNCHANGED <<dbVars, exchange, clientPassword>>

\* The lifespan of a worker: it makes the engine, may execute SELECT 1, which
\* needs no table, makes handlers of its own, and serves.  Of several workers, one
\* whose lifespan fails is started again by uvicorn's supervisor, at this stage.
Lifespan(p) ==
  /\ At(p, "lifespan")
  /\ GotoOrEnd(p, "serving")
  /\ UNCHANGED <<dbVars, brokerVars>>

-----------------------------------------------------------------------------

\* The last worker of a replica dies and uvicorn's supervisor starts another,
\* which runs the lifespan and nothing of main().
WorkerDies(p) ==
  /\ At(p, "serving")
  /\ Goto(p, "lifespan")
  /\ UNCHANGED <<dbVars, brokerVars>>

\* A call fails without effect, or the process is stopped or killed.  The
\* database rolls its open transaction back.
ProcessEnds(p) ==
  /\ ~ At(p, "down")
  /\ Goto(p, "down")
  /\ migrating' = IF migrating = p THEN Nobody ELSE migrating
  /\ UNCHANGED <<alembic_version, brokerVars>>

\* The steps of the process itself.
Process(p) ==
  \/ ReadVersion(p) \/ CreateTables(p) \/ Commit(p)
  \/ GetHandlers(p) \/ ProtocolNotImplemented(p)
  \/ DeclareExchange(p) \/ PutClientUser(p) \/ PutClientPermissions(p)
  \/ Lifespan(p)

Next == \E p \in Replicas : Start(p) \/ Process(p) \/ WorkerDies(p) \/ ProcessEnds(p)

Spec == Init /\ [][Next]_vars

\* A process that was started keeps running.  Nothing makes a deployment start
\* one, or end one.
FairSpec == Spec /\ \A p \in Replicas : WF_vars(Process(p))

-----------------------------------------------------------------------------

\* What a registration relies on (the tables, the exchange its queues are bound to,
\* a protocol handler with methods) and what a client relies on (the client user,
\* its permissions, and a password from the environment of some replica that can
\* hand it out) is there before a replica serves, whichever replica did it, however
\* often any of them failed half way, and the others do not undo it.
ServingIsInitialized ==
  \A p \in Replicas : At(p, "serving") =>
    /\ BROKER_PROTOCOL[p] = "amqp0.9.1"
    /\ ALEMBIC_RUN_MIGRATIONS => alembic_version = "head"
    /\ exchange
    /\ \E q \in Replicas : /\ BROKER_PROTOCOL[q] = "amqp0.9.1"
                          /\ clientPassword = BROKER_CLIENT_PASSWORD[q]
    /\ clientPerm

\* Replicas that start at the same time do not apply one migration twice: a
\* replica commits tables only on a database that has none, and no two have
\* uncommitted ones.
MigratesOnce ==
  \A p \in Replicas : At(p, "commit") =>
    /\ alembic_version = "none"
    /\ \A q \in Replicas \ {p} : ~ At(q, "commit")

\* The CREATE TABLE of a migration, the one place where a replica waits for another,
\* waits for a replica that is still there and has only its commit to make: not for
\* itself, not for one that waits in turn, and for none that ended in its transaction
\* or forgot to close it.
WaitsForLiving ==
  \A p \in Replicas : At(p, "create_tables") /\ migrating # Nobody =>
    migrating \in Replicas \ {p} /\ At(migrating, "commit")

\* A replica that starts comes to serve or ends, unless others keep opening the
\* migration's transaction.  It never waits for one that is gone.
StartupEnds ==
  \A p \in Replicas :
    ~ At(p, "down") ~> \/ stage[p] \in {"serving", "down"}
                       \/ \E q \in Replicas \ {p} : At(q, "commit")
=============================================================================
