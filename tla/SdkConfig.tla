------------------------------ MODULE SdkConfig ------------------------------
(***************************************************************************)
(* What an SDK service is told while its registration goes on: the UI page *)
(* that lists a user's services with their API keys (microservice_user.py, *)
(* microservice_user_page) and the SDK's GET service_config                *)
(* (sdk/impl_real.py).  Both are answered by the same workers that         *)
(* register services, and both read the service table only.                *)
(***************************************************************************)
EXTENDS ServiceRegistration

VARIABLES
  seen,     \* requests whose api_key the user has read off the page
  answer,   \* answer[r]: the SDK's last answer for request r's name and key
  rolledBack   \* history: requests whose handler has deleted its row, or tried

sdkVars == <<seen, answer, rolledBack>>

SdkTypeOK ==
  /\ TypeOK
  /\ seen \subseteq Requests
  /\ answer \in [Requests -> {"none", "config", "forbidden"}]
  /\ rolledBack \subseteq Requests

SdkInit ==
  /\ Init
  /\ seen = {}
  /\ answer = [r \in Requests |-> "none"]
  /\ rolledBack = {}

\* A worker that runs no registration answers the request.
WorkerFree == Cardinality(InFlight) < SERVER_WORKERS

\* Mutant: reads the wrong column.
ListServicesWrongColumn ==
  /\ WorkerFree
  /\ seen' = seen \cup {s.service_name : s \in service}
  /\ UNCHANGED <<vars, answer, rolledBack>>

\* SELECT of the user's services; the page shows the key of each.
ListServices ==
  /\ WorkerFree
  /\ seen' = seen \cup {s.api_key : s \in service}
  /\ UNCHANGED <<vars, answer, rolledBack>>

\* Mutant: also asks for the broker row before answering 200.
HasServiceAndBroker(r) ==
  /\ [service_name |-> form[r], api_key |-> r] \in service
  /\ \E b \in broker : b.service = r

\* SELECT by name and key: 200 with the configuration, or 403.
HasService(r) == [service_name |-> form[r], api_key |-> r] \in service

\* The SDK was configured with a key that its developer read off the page, or
\* was shown in answer to the form.
ServiceConfig(r) ==
  /\ WorkerFree
  /\ r \in seen \/ pc[r] = "ok"
  /\ answer' = [answer EXCEPT ![r] = IF HasService(r) THEN "config" ELSE "forbidden"]
  /\ UNCHANGED <<vars, seen, rolledBack>>

\* The registrations go on.
Registering ==
  /\ Next
  /\ rolledBack' = rolledBack \cup
       {r \in Requests : pc[r] = "rollback" /\ pc'[r] = "answer"}
  /\ UNCHANGED <<seen, answer>>

SdkNext ==
  \/ Registering
  \/ ListServices
  \/ \E r \in Requests : ServiceConfig(r)

SdkSpec == SdkInit /\ [][SdkNext]_<<vars, sdkVars>>

-----------------------------------------------------------------------------

\* A key that its user has seen is refused only after the registration's own
\* handler has been through its rollback: no other registration makes a key stop
\* working, and no crash but one that comes after that.  The handler answers with
\* an error next, unless the worker dies before it does: then the key is dead
\* and nobody was told.
RefusedOnlyAfterRollback ==
  \A r \in Requests : answer[r] = "forbidden" =>
    r \in rolledBack /\ pc[r] \in {"answer", "server_fault", "killed"}

\* README.md, Workflow: "The SDK calls the appropriate API endpoint, and
\* receives the appropriate credentials needed to integrate into INTERSECT."
\* The endpoint answers 200 only for a service that has broker credentials.
ConfigMeansCredentials ==
  [][\A r \in Requests : answer'[r] = "config" /\ answer[r] # "config" =>
       \E b \in broker : b.service = r]_<<vars, sdkVars>>
=============================================================================
