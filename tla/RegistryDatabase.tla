-------------------------- MODULE RegistryDatabase --------------------------
(***************************************************************************)
(* The PostgreSQL schema of the registry: the "service" and "broker"       *)
(* tables of models/service.py and models/broker.py, and the statements    *)
(* the application commits against them.  Every statement below is one     *)
(* committed transaction, so each one is atomic for every worker process.  *)
(*                                                                         *)
(* A registration request draws a fresh api_key and makes its service      *)
(* row with it, so the request stands for the api_key and the primary key  *)
(* of that row; likewise it stands for the broker password it draws.       *)
(***************************************************************************)

CONSTANTS
  Requests,   \* registration requests, each with its own api_key
  Names       \* the service names that forms submit

VARIABLES
  service,    \* rows of table "service"
  broker      \* rows of table "broker"

ServiceRow == [service_name : Names, api_key : Requests]

BrokerRow == [service : Requests, broker_password : Requests]

DbTypeOK == service \subseteq ServiceRow /\ broker \subseteq BrokerRow

DbInit == service = {} /\ broker = {}

\* The unique index on service_name, as the database evaluates it.
NameTaken(n) == \E s \in service : s.service_name = n

\* The foreign key of a broker row: its service row exists.
ServiceExists(r) == \E s \in service : s.api_key = r

\* Mutant: a migration without the unique index.
InsertServiceNotUnique(n, r) ==
  /\ service' = service \cup {[service_name |-> n, api_key |-> r]}
  /\ UNCHANGED broker

\* INSERT INTO service, committed: the unique constraint holds.
InsertService(n, r) ==
  /\ ~ NameTaken(n)
  /\ service' = service \cup {[service_name |-> n, api_key |-> r]}
  /\ UNCHANGED broker

\* INSERT INTO broker, committed: the foreign key holds.
InsertBroker(r, password) ==
  /\ ServiceExists(r)
  /\ broker' = broker \cup {[service |-> r, broker_password |-> password]}
  /\ UNCHANGED service

\* DELETE FROM service, committed: the broker rows of the service go with it.
DeleteService(r) ==
  /\ service' = {s \in service : s.api_key # r}
  /\ broker' = {b \in broker : b.service # r}
=============================================================================
