---------------------- MODULE ServiceRegistrationProofs ----------------------
(***************************************************************************)
(* Proofs about ServiceRegistration, for any number of requests, names and *)
(* worker processes.                                                       *)
(***************************************************************************)
EXTENDS ServiceRegistration, TLAPS

\* The service row that request r commits.
RowOf(r) == [service_name |-> form[r], api_key |-> r]

\* The broker row that request r commits.
BrokerRowOf(r) == [service |-> r, broker_password |-> r]

-----------------------------------------------------------------------------
(* Type correctness.                                                       *)

USE DEF DB!DbTypeOK, DB!ServiceRow, DB!BrokerRow

LEMMA TypeInit == Init => TypeOK
  BY DEF Init, TypeOK, DB!DbInit, Protocol!ProtocolInit, Broker!BrokerInit,
         Protocol!ProtocolTypeOK, Protocol!TaskState, Broker!BrokerTypeOK,
         Protocol!INTERSECT_SERVICE_SUBSCRIPTION_TYPES

LEMMA TypeTask ==
  ASSUME TypeOK, NEW r \in Requests, TaskStep(r)
  PROVE  TypeOK'
<1>1. PICK t \in Types : \/ Protocol!QueueDeclare(form[r], r, t)
                         \/ Protocol!QueueBind(form[r], r, t)
                         \/ Protocol!TaskRaises(form[r], r, t)
  BY DEF TaskStep
<1>2. form[r] \in Names
  BY DEF TypeOK
<1>3. Protocol!ProtocolTypeOK'
  BY <1>1, <1>2 DEF TypeOK, Protocol!ProtocolTypeOK, Protocol!TaskState, Types,
     Protocol!QueueDeclare, Protocol!QueueBind, Protocol!TaskRaises
<1>4. QED
  BY <1>3 DEF TaskStep, TypeOK, Broker!BrokerTypeOK, dbVars, brokerVars

\* The steps that leave queues, threads and broker users alone.
LEMMA TypeDatabaseStep ==
  ASSUME TypeOK, NEW r \in Requests,
         \/ Begin(r) \/ InsertService(r) \/ ServiceNameTaken(r)
         \/ InsertServiceFails(r) \/ RefreshServiceFails(r)
         \/ InsertBroker(r) \/ InsertBrokerFails(r) \/ RefreshBroker(r)
         \/ Except(r) \/ Rollback(r) \/ RollbackFails(r)
         \/ RollbackFlushFails(r) \/ WorkerKilled(r) \/ PoolJoined(r)
         \/ SubmitFails(r) \/ AnswerFault(r)
  PROVE  TypeOK'
<1> USE DEF Step, Running, Holding, Configuring, Ended, Answered
<1>1. form[r] \in Names
  BY DEF TypeOK
<1>2. UNCHANGED <<protocolVars, brokerVars, form>>
  BY DEF Begin, InsertService, ServiceNameTaken, InsertServiceFails,
         RefreshServiceFails, InsertBroker, InsertBrokerFails, RefreshBroker,
         Except, Rollback, RollbackFails, RollbackFlushFails, WorkerKilled,
         PoolJoined, SubmitFails, AnswerFault
<1>3. Protocol!ProtocolTypeOK' /\ Broker!BrokerTypeOK' /\ (form \in [Requests -> Names])'
  BY <1>2 DEF TypeOK, Protocol!ProtocolTypeOK, Broker!BrokerTypeOK,
     protocolVars, brokerVars
<1>4. (pc \in [Requests -> {"idle"} \cup Running \cup Ended])'
  BY DEF TypeOK, Begin, InsertService, ServiceNameTaken, InsertServiceFails,
         RefreshServiceFails, InsertBroker, InsertBrokerFails, RefreshBroker,
         Except, Rollback, RollbackFails, RollbackFlushFails, WorkerKilled,
         PoolJoined, SubmitFails, AnswerFault
<1>5. (expired \subseteq Requests)' /\ (logged \subseteq Requests)'
  BY DEF TypeOK, Begin, InsertService, ServiceNameTaken, InsertServiceFails,
         RefreshServiceFails, InsertBroker, InsertBrokerFails, RefreshBroker,
         Except, Rollback, RollbackFails, RollbackFlushFails, WorkerKilled,
         PoolJoined, SubmitFails, AnswerFault
<1>6. DB!DbTypeOK'
  <2>1. \/ UNCHANGED dbVars \/ DB!InsertService(form[r], r)
        \/ DB!InsertBroker(r, r) \/ DB!DeleteService(r)
    BY DEF Begin, InsertService, ServiceNameTaken, InsertServiceFails,
         RefreshServiceFails, InsertBroker, InsertBrokerFails, RefreshBroker,
         Except, Rollback, RollbackFails, RollbackFlushFails, WorkerKilled,
         PoolJoined, SubmitFails, AnswerFault
  <2>2. QED
    BY <1>1, <2>1 DEF TypeOK, dbVars, DB!InsertService, DB!InsertBroker,
       DB!DeleteService
<1>7. QED
  BY <1>3, <1>4, <1>5, <1>6 DEF TypeOK

LEMMA TypeBrokerStep ==
  ASSUME TypeOK, NEW r \in Requests,
         RefreshService(r) \/ PutUser(r) \/ PutPermissions(r)
  PROVE  TypeOK'
<1>1. form[r] \in Names
  BY DEF TypeOK
<1>2. UNCHANGED <<dbVars, form, logged>> /\ expired' \subseteq Requests
  BY DEF RefreshService, PutUser, PutPermissions, TypeOK
<1>3. (pc \in [Requests -> {"idle"} \cup Running \cup Ended])'
  BY DEF RefreshService, PutUser, PutPermissions, TypeOK, Step, Running,
         Holding, Configuring
<1>4. Protocol!ProtocolTypeOK'
  BY DEF RefreshService, PutUser, PutPermissions, TypeOK, protocolVars,
         Protocol!ProtocolTypeOK, Protocol!SubmitTasks, Protocol!TaskState,
         Protocol!INTERSECT_SERVICE_SUBSCRIPTION_TYPES
<1>5. Broker!BrokerTypeOK'
  <2>1. \/ UNCHANGED brokerVars
        \/ Broker!PutUser(form[r], r) \/ Broker!PutUserFails(form[r], r)
        \/ Broker!PutTopicPermissions(form[r])
        \/ Broker!PutTopicPermissionsFails(form[r])
    BY DEF RefreshService, PutUser, PutPermissions
  <2>2. QED
    BY <1>1, <2>1 DEF TypeOK, brokerVars, Broker!BrokerTypeOK, Broker!PutUser,
       Broker!PutUserFails, Broker!PutTopicPermissions,
       Broker!PutTopicPermissionsFails
<1>6. QED
  BY <1>2, <1>3, <1>4, <1>5 DEF TypeOK, dbVars

LEMMA TypeStep == TypeOK /\ [Next]_vars => TypeOK'
<1> SUFFICES ASSUME TypeOK, [Next]_vars
             PROVE  TypeOK'
  OBVIOUS
<1>1. ASSUME NEW r \in Requests, Begin(r) \/ Handler(r) \/ WorkerKilled(r)
      PROVE  TypeOK'
  BY <1>1, TypeTask, TypeDatabaseStep, TypeBrokerStep DEF Handler
<1>2. CASE LatePutLands
  <2>1. Broker!BrokerTypeOK'
    BY <1>2 DEF LatePutLands, Broker!LatePutLands, Broker!LateUserLands,
       Broker!LatePermissionsLand, TypeOK, Broker!BrokerTypeOK
  <2> QED
    BY <1>2, <2>1 DEF LatePutLands, TypeOK, dbVars, protocolVars,
       Protocol!ProtocolTypeOK
<1>3. CASE UNCHANGED vars
  BY <1>3 DEF vars, dbVars, protocolVars, brokerVars, TypeOK,
     Protocol!ProtocolTypeOK, Broker!BrokerTypeOK
<1>4. QED
  BY <1>1, <1>2, <1>3 DEF Next, AllEnded

\* The type invariant.
THEOREM TypeCorrect == Spec => []TypeOK
  BY TypeInit, TypeStep, PTL DEF Spec

-----------------------------------------------------------------------------
(* The service row as a lock.  OneHandlerPerName is not inductive: it says *)
(* nothing of the table.  It follows from the unique index once every      *)
(* handler past its insert is known to have its row in the table, and the  *)
(* row is known to carry the name of its form.                             *)

\* Where a request has no row yet, or never will.
Rowless == {"idle", "insert_service", "taken"}

UniqueName ==
  \A s1, s2 \in service : s1.service_name = s2.service_name => s1 = s2

RowsMatchForms ==
  \A s \in service : s = RowOf(s.api_key) /\ pc[s.api_key] \notin Rowless

HoldersHaveRow ==
  \A r \in Requests : pc[r] \in Holding \cup {"ok"} => RowOf(r) \in service

LockInv == UniqueName /\ RowsMatchForms /\ HoldersHaveRow

\* What a step of request r does to the service table: nothing, insert r's row,
\* or delete it.
KeepsRow(r) ==
  /\ UNCHANGED service
  /\ pc'[r] \in Holding \cup {"ok"} => pc[r] \in Holding \cup {"ok"}
  /\ pc'[r] \in Rowless => pc[r] \in Rowless

TakesRow(r) ==
  /\ pc[r] = "insert_service" /\ pc'[r] \in {"refresh_service", "server_fault"}
  /\ DB!InsertService(form[r], r)

DropsRow(r) ==
  /\ pc[r] = "rollback" /\ pc'[r] = "answer"
  /\ DB!DeleteService(r)

LEMMA RowStep ==
  ASSUME TypeOK, NEW r \in Requests, Begin(r) \/ Handler(r) \/ WorkerKilled(r)
  PROVE  /\ form' = form
         /\ \A q \in Requests \ {r} : pc'[q] = pc[q]
         /\ KeepsRow(r) \/ TakesRow(r) \/ DropsRow(r)
<1> USE DEF TypeOK, Step, KeepsRow, TakesRow, DropsRow, Rowless, Running,
            Holding, Configuring, dbVars
<1>1. CASE Begin(r) \/ WorkerKilled(r)
  BY <1>1 DEF Begin, WorkerKilled
<1>2. CASE InsertService(r) \/ ServiceNameTaken(r) \/ InsertServiceFails(r)
  BY <1>2 DEF InsertService, ServiceNameTaken, InsertServiceFails
<1>3. CASE RefreshService(r) \/ SubmitFails(r) \/ RefreshServiceFails(r)
  BY <1>3 DEF RefreshService, SubmitFails, RefreshServiceFails
<1>4. CASE TaskStep(r) \/ PoolJoined(r) \/ PutUser(r) \/ PutPermissions(r)
  BY <1>4 DEF TaskStep, PoolJoined, PutUser, PutPermissions
<1>5. CASE InsertBroker(r) \/ InsertBrokerFails(r) \/ RefreshBroker(r)
  BY <1>5 DEF InsertBroker, InsertBrokerFails, RefreshBroker, DB!InsertBroker
<1>6. CASE \/ Except(r) \/ Rollback(r) \/ RollbackFails(r)
           \/ RollbackFlushFails(r) \/ AnswerFault(r)
  BY <1>6 DEF Except, Rollback, RollbackFails, RollbackFlushFails, AnswerFault
<1>7. QED
  BY <1>1, <1>2, <1>3, <1>4, <1>5, <1>6 DEF Handler

LEMMA LockInit == Init => LockInv
  BY DEF Init, LockInv, UniqueName, RowsMatchForms, HoldersHaveRow, DB!DbInit,
         Holding, Configuring

LEMMA LockKept ==
  ASSUME TypeOK, LockInv, NEW r \in Requests, KeepsRow(r), form' = form,
         \A q \in Requests \ {r} : pc'[q] = pc[q]
  PROVE  LockInv'
<1>1. \A s \in service : s.api_key \in Requests
  BY DEF TypeOK
<1>2. QED
  BY <1>1 DEF LockInv, UniqueName, RowsMatchForms, HoldersHaveRow, KeepsRow,
     RowOf, Rowless

LEMMA LockTaken ==
  ASSUME TypeOK, LockInv, NEW r \in Requests, TakesRow(r), form' = form,
         \A q \in Requests \ {r} : pc'[q] = pc[q]
  PROVE  LockInv'
<1>1. /\ service' = service \cup {RowOf(r)}
      /\ \A s \in service : s.service_name # form[r]
  BY DEF TakesRow, DB!InsertService, DB!NameTaken, RowOf
<1>2. /\ \A q \in Requests : RowOf(q)' = RowOf(q)
      /\ RowOf(r).api_key = r /\ RowOf(r).service_name = form[r]
  BY DEF RowOf
<1>3. UniqueName'
  BY <1>1, <1>2 DEF LockInv, UniqueName
<1>4. RowsMatchForms'
  <2> SUFFICES ASSUME NEW s \in service'
               PROVE  s = RowOf(s.api_key) /\ pc'[s.api_key] \notin Rowless
    BY <1>1, <1>2 DEF RowsMatchForms, TypeOK
  <2>1. CASE s = RowOf(r)
    BY <1>2, <2>1 DEF TakesRow, Rowless
  <2>2. CASE s \in service
    <3>1. s.api_key \in Requests /\ s.api_key # r
      BY <2>2 DEF TypeOK, LockInv, RowsMatchForms, TakesRow, Rowless
    <3>2. QED
      BY <2>2, <3>1 DEF LockInv, RowsMatchForms
  <2>3. QED
    BY <1>1, <2>1, <2>2
<1>5. HoldersHaveRow'
  BY <1>1, <1>2 DEF LockInv, HoldersHaveRow
<1>6. QED
  BY <1>3, <1>4, <1>5 DEF LockInv

LEMMA LockDropped ==
  ASSUME TypeOK, LockInv, NEW r \in Requests, DropsRow(r), form' = form,
         \A q \in Requests \ {r} : pc'[q] = pc[q]
  PROVE  LockInv'
<1>1. service' = {s \in service : s.api_key # r}
  BY DEF DropsRow, DB!DeleteService
<1>2. \A q \in Requests : RowOf(q)' = RowOf(q) /\ RowOf(q).api_key = q
  BY DEF RowOf
<1>3. UniqueName'
  BY <1>1 DEF LockInv, UniqueName
<1>4. RowsMatchForms'
  <2>1. \A s \in service : s.api_key \in Requests
    BY DEF TypeOK
  <2>2. QED
    BY <1>1, <1>2, <2>1 DEF LockInv, RowsMatchForms
<1>5. HoldersHaveRow'
  <2>1. pc'[r] \notin Holding \cup {"ok"}
    BY DEF DropsRow, Holding, Configuring
  <2>2. QED
    BY <1>1, <1>2, <2>1 DEF LockInv, HoldersHaveRow
<1>6. QED
  BY <1>3, <1>4, <1>5 DEF LockInv

LEMMA LockStep ==
  ASSUME TypeOK, LockInv, [Next]_vars
  PROVE  LockInv'
<1>1. ASSUME NEW r \in Requests, Begin(r) \/ Handler(r) \/ WorkerKilled(r)
      PROVE  LockInv'
  BY <1>1, RowStep, LockKept, LockTaken, LockDropped
<1>2. CASE LatePutLands \/ UNCHANGED vars
  BY <1>2 DEF LatePutLands, vars, dbVars, LockInv, UniqueName, RowsMatchForms,
     HoldersHaveRow, RowOf
<1>3. QED
  BY <1>1, <1>2 DEF Next, AllEnded

LEMMA LockInvariant == Spec => [](TypeOK /\ LockInv)
  BY TypeInit, TypeStep, LockInit, LockStep, PTL DEF Spec

\* No two handlers configure the broker for one name at the same time, and none
\* does for a name that was already shown to its user.
THEOREM OneHandlerPerNameHolds == Spec => []OneHandlerPerName
<1>1. LockInv => OneHandlerPerName
  <2> SUFFICES ASSUME LockInv, NEW r \in Requests, NEW s \in Requests, r # s,
                      form[r] = form[s], pc[r] \in Holding,
                      pc[s] \in Holding \cup {"ok"}
               PROVE  FALSE
    BY DEF OneHandlerPerName
  <2>1. RowOf(r) \in service /\ RowOf(s) \in service
    BY DEF LockInv, HoldersHaveRow
  <2>2. RowOf(r) = RowOf(s)
    BY <2>1 DEF LockInv, UniqueName, RowOf
  <2>3. QED
    BY <2>2 DEF RowOf
<1>2. QED
  BY <1>1, LockInvariant, PTL

-----------------------------------------------------------------------------
(* What a shown service has.  StoredPasswordInForce needs to know that the *)
(* request of a broker row set the password, that nobody did since but by  *)
(* a late PUT, and that whoever sent a PUT that may still land has given   *)
(* up, or set the password by another attempt and still has it set.        *)

HasUser == {"put_permissions", "insert_broker", "refresh_broker", "ok"}
HasPermissions == HasUser \ {"put_permissions"}
HasBrokerRow == {"refresh_broker", "ok"}

LateInv ==
  /\ ~ LatePuts => late = {}
  /\ \A put \in late : /\ form[put[2]] = put[1]
                       /\ pc[put[2]] \in GivenUp \cup HasUser

UsersSetUp ==
  \A r \in Requests :
    /\ pc[r] \in HasUser => InForce(form[r], r)
    /\ pc[r] \in HasPermissions => form[r] \in topicPerm
    /\ pc[r] \in HasBrokerRow => BrokerRowOf(r) \in broker

BrokerRowsInForce ==
  \A b \in broker : /\ b = BrokerRowOf(b.service)
                    /\ RowOf(b.service) \in service
                    /\ InForce(form[b.service], b.service)

ProvisionInv == LateInv /\ UsersSetUp /\ BrokerRowsInForce

\* What a step of request r does to the broker's users ...
SetsUp(r) ==
  /\ pc[r] \in GivenUp => pc'[r] \in GivenUp
  /\ pc[r] \in HasUser => pc'[r] \in HasUser \cup GivenUp
  /\ \/ late' = late
     \/ /\ LatePuts /\ late' = late \cup {<<form[r], r>>}
        /\ pc'[r] \in HasUser \cup GivenUp
  /\ topicPerm \subseteq topicPerm'
  /\ \/ password' = password
     \/ pc[r] = "put_user" /\ password' = [password EXCEPT ![form[r]] = r]
  /\ pc'[r] \in HasUser =>
       \/ pc[r] \in HasUser /\ password' = password
       \/ pc[r] = "put_user" /\ password' = [password EXCEPT ![form[r]] = r]
  /\ pc'[r] \in HasPermissions => pc[r] \in HasPermissions \/ form[r] \in topicPerm'

\* ... and to the broker table.
KeepsBrokerRows(r) ==
  /\ broker' = broker /\ service \subseteq service'
  /\ pc'[r] \in HasBrokerRow => pc[r] \in HasBrokerRow

AddsBrokerRow(r) ==
  /\ pc[r] = "insert_broker"
  /\ broker' = broker \cup {BrokerRowOf(r)} /\ service' = service

LEMMA UserStep ==
  ASSUME TypeOK, NEW r \in Requests, Begin(r) \/ Handler(r) \/ WorkerKilled(r)
  PROVE  SetsUp(r)
<1> USE DEF TypeOK, Step, SetsUp, HasUser, HasPermissions, GivenUp, Running,
            Holding, Configuring, brokerVars
<1>1. CASE PutUser(r)
  BY <1>1 DEF PutUser, Broker!PutUser, Broker!PutUserFails
<1>2. CASE PutPermissions(r)
  BY <1>2 DEF PutPermissions, Broker!PutTopicPermissions,
     Broker!PutTopicPermissionsFails
<1>3. CASE Begin(r) \/ WorkerKilled(r)
  BY <1>3 DEF Begin, WorkerKilled
<1>4. CASE \/ InsertService(r) \/ ServiceNameTaken(r) \/ InsertServiceFails(r)
           \/ RefreshService(r) \/ SubmitFails(r) \/ RefreshServiceFails(r)
  BY <1>4 DEF InsertService, ServiceNameTaken, InsertServiceFails,
     RefreshService, SubmitFails, RefreshServiceFails
<1>5. CASE TaskStep(r) \/ PoolJoined(r)
  BY <1>5 DEF TaskStep, PoolJoined
<1>6. CASE InsertBroker(r) \/ InsertBrokerFails(r) \/ RefreshBroker(r)
  BY <1>6 DEF InsertBroker, InsertBrokerFails, RefreshBroker
<1>7. CASE \/ Except(r) \/ Rollback(r) \/ RollbackFails(r)
           \/ RollbackFlushFails(r) \/ AnswerFault(r)
  BY <1>7 DEF Except, Rollback, RollbackFails, RollbackFlushFails, AnswerFault
<1>8. QED
  BY <1>1, <1>2, <1>3, <1>4, <1>5, <1>6, <1>7 DEF Handler

LEMMA BrokerTableStep ==
  ASSUME TypeOK, NEW r \in Requests, Begin(r) \/ Handler(r) \/ WorkerKilled(r)
  PROVE  KeepsBrokerRows(r) \/ AddsBrokerRow(r) \/ DropsRow(r)
<1> USE DEF TypeOK, Step, KeepsBrokerRows, AddsBrokerRow, DropsRow,
            HasBrokerRow, dbVars
<1>1. CASE InsertService(r) \/ InsertServiceFails(r) \/ ServiceNameTaken(r)
  BY <1>1 DEF InsertService, InsertServiceFails, ServiceNameTaken, DB!InsertService
<1>2. CASE InsertBroker(r) \/ InsertBrokerFails(r) \/ RefreshBroker(r)
  BY <1>2 DEF InsertBroker, InsertBrokerFails, RefreshBroker, DB!InsertBroker,
     BrokerRowOf
<1>3. CASE \/ Except(r) \/ Rollback(r) \/ RollbackFails(r)
           \/ RollbackFlushFails(r) \/ AnswerFault(r)
  BY <1>3 DEF Except, Rollback, RollbackFails, RollbackFlushFails, AnswerFault
<1>4. CASE Begin(r) \/ WorkerKilled(r)
  BY <1>4 DEF Begin, WorkerKilled
<1>5. CASE RefreshService(r) \/ SubmitFails(r) \/ RefreshServiceFails(r)
  BY <1>5 DEF RefreshService, SubmitFails, RefreshServiceFails
<1>6. CASE TaskStep(r) \/ PoolJoined(r) \/ PutUser(r) \/ PutPermissions(r)
  BY <1>6 DEF TaskStep, PoolJoined, PutUser, PutPermissions
<1>7. QED
  BY <1>1, <1>2, <1>3, <1>4, <1>5, <1>6 DEF Handler

\* The row tells apart the requests that hold the same name.
LEMMA RowIsLock ==
  ASSUME LockInv, NEW q, NEW r, RowOf(q) \in service, RowOf(r) \in service,
         form[q] = form[r]
  PROVE  q = r
<1>1. RowOf(q) = RowOf(r)
  BY DEF LockInv, UniqueName, RowOf
<1>2. QED
  BY <1>1 DEF RowOf

LEMMA ProvisionInit == Init => ProvisionInv
  BY DEF Init, ProvisionInv, LateInv, UsersSetUp, BrokerRowsInForce, DB!DbInit,
         Broker!BrokerInit, HasUser, HasPermissions, HasBrokerRow

\* A handler that sets a password holds the row of the name, so the password of
\* every other request with a row stays.
LEMMA OthersKeepPassword ==
  ASSUME TypeOK, LockInv, NEW r \in Requests, SetsUp(r),
         NEW q \in Requests, q # r, RowOf(q) \in service
  PROVE  password'[form[q]] = password[form[q]]
<1>1. CASE password' = password
  BY <1>1
<1>2. CASE pc[r] = "put_user" /\ password' = [password EXCEPT ![form[r]] = r]
  <2>1. RowOf(r) \in service
    BY <1>2 DEF LockInv, HoldersHaveRow, Holding, Configuring
  <2>2. form[q] # form[r]
    BY <2>1, RowIsLock
  <2>3. QED
    BY <1>2, <2>2 DEF TypeOK, Broker!BrokerTypeOK
<1>3. QED
  BY <1>1, <1>2 DEF SetsUp

\* A step of a handler that leaves the password of a name alone leaves it in
\* force: a request that gave up does not come back.
LEMMA StaysInForce ==
  ASSUME TypeOK, NEW r \in Requests, SetsUp(r), form' = form,
         \A q \in Requests \ {r} : pc'[q] = pc[q],
         NEW n, NEW pw, InForce(n, pw), password'[n] = password[n]
  PROVE  InForce(n, pw)'
  BY DEF InForce, SetsUp

LEMMA ComesInForce ==
  ASSUME TypeOK, NEW r \in Requests, form' = form,
         password' = [password EXCEPT ![form[r]] = r]
  PROVE  InForce(form[r], r)'
  BY DEF InForce, TypeOK, Broker!BrokerTypeOK

\* So does a late PUT: its sender is one that gave up, or has the row of the name
\* and so is the request itself.
LEMMA LatePutStaysInForce ==
  ASSUME TypeOK, LockInv, LateInv, LatePutLands,
         NEW q \in Requests, RowOf(q) \in service, InForce(form[q], q)
  PROVE  InForce(form[q], q)'
<1>1. /\ UNCHANGED <<form, pc>> /\ form[q] \in Names
      /\ password \in [Names -> Requests \cup {Nobody}]
  BY DEF LatePutLands, TypeOK, Broker!BrokerTypeOK
<1>2. CASE password' = password
  BY <1>1, <1>2 DEF InForce
<1>3. ASSUME NEW put \in late, password' = [password EXCEPT ![put[1]] = put[2]]
      PROVE  InForce(form[q], q)'
  <2>1. /\ LatePuts /\ put[2] \in Requests /\ form[put[2]] = put[1]
        /\ pc[put[2]] \in GivenUp \cup HasUser
    BY DEF LateInv, TypeOK, Broker!BrokerTypeOK
  <2>2. CASE form[q] # put[1]
    <3>1. password'[form[q]] = password[form[q]]
      BY <1>1, <1>3, <2>2
    <3> QED BY <1>1, <3>1 DEF InForce
  <2>3. CASE form[q] = put[1] /\ pc[put[2]] \in GivenUp
    <3>1. password'[form[q]] = put[2]
      BY <1>1, <1>3, <2>3
    <3> QED BY <1>1, <2>1, <2>3, <3>1 DEF InForce
  <2>4. CASE form[q] = put[1] /\ pc[put[2]] \in HasUser
    <3>1. RowOf(put[2]) \in service
      BY <2>1, <2>4 DEF LockInv, HoldersHaveRow, HasUser, Holding, Configuring
    <3>2. put[2] = q
      BY <2>1, <2>4, <3>1, RowIsLock
    <3>3. password'[form[q]] = q
      BY <1>1, <1>3, <2>4, <3>2
    <3> QED BY <1>1, <3>3 DEF InForce
  <2> QED BY <2>1, <2>2, <2>3, <2>4
<1> QED
  BY <1>2, <1>3 DEF LatePutLands, Broker!LatePutLands, Broker!LateUserLands,
     Broker!LatePermissionsLand

LEMMA LatePutsKnown ==
  ASSUME TypeOK, LateInv, NEW r \in Requests, SetsUp(r), form' = form,
         \A q \in Requests \ {r} : pc'[q] = pc[q]
  PROVE  LateInv'
<1> SUFFICES ASSUME NEW put \in late'
             PROVE  form[put[2]] = put[1] /\ pc'[put[2]] \in GivenUp \cup HasUser
  BY DEF LateInv, SetsUp
<1>1. CASE put \in late
  <2>1. /\ put[2] \in Requests /\ form[put[2]] = put[1]
        /\ pc[put[2]] \in GivenUp \cup HasUser
    BY <1>1 DEF TypeOK, Broker!BrokerTypeOK, LateInv
  <2> QED BY <2>1 DEF SetsUp
<1>2. CASE put = <<form[r], r>> /\ pc'[r] \in GivenUp \cup HasUser
  BY <1>2
<1> QED BY <1>1, <1>2 DEF SetsUp

LEMMA UsersStaySetUp ==
  ASSUME TypeOK, LockInv, ProvisionInv, NEW r \in Requests, SetsUp(r),
         KeepsBrokerRows(r) \/ AddsBrokerRow(r) \/ DropsRow(r),
         form' = form, \A q \in Requests \ {r} : pc'[q] = pc[q]
  PROVE  UsersSetUp'
<1> SUFFICES ASSUME NEW q \in Requests
             PROVE  /\ pc'[q] \in HasUser => InForce(form[q], q)'
                    /\ pc'[q] \in HasPermissions => form[q] \in topicPerm'
                    /\ pc'[q] \in HasBrokerRow => BrokerRowOf(q) \in broker'
  BY DEF UsersSetUp, BrokerRowOf
<1>1. ASSUME pc'[q] \in HasUser
      PROVE  InForce(form[q], q)'
  <2> form[q]' = form[q]
    OBVIOUS
  <2>1. CASE q = r
    <3>1. CASE pc[r] \in HasUser /\ password' = password
      <4>1. InForce(form[r], r)
        BY <3>1 DEF ProvisionInv, UsersSetUp
      <4> QED BY <2>1, <3>1, <4>1, StaysInForce DEF InForce
    <3>2. CASE password' = [password EXCEPT ![form[r]] = r]
      BY <2>1, <3>2, ComesInForce
    <3> QED BY <1>1, <2>1, <3>1, <3>2 DEF SetsUp
  <2>2. CASE q # r
    <3>1. RowOf(q) \in service /\ InForce(form[q], q)
      BY <1>1, <2>2 DEF LockInv, HoldersHaveRow, HasUser, Holding, Configuring,
         ProvisionInv, UsersSetUp
    <3>2. password'[form[q]] = password[form[q]]
      BY <2>2, <3>1, OthersKeepPassword
    <3> QED BY <3>1, <3>2, StaysInForce DEF InForce
  <2>3. QED
    BY <2>1, <2>2
<1>2. pc'[q] \in HasPermissions => form[q] \in topicPerm'
  <2>1. CASE q = r
    BY <2>1 DEF SetsUp, ProvisionInv, UsersSetUp
  <2>2. CASE q # r
    BY <2>2 DEF SetsUp, ProvisionInv, UsersSetUp
  <2>3. QED
    BY <2>1, <2>2
<1>3. pc'[q] \in HasBrokerRow => BrokerRowOf(q) \in broker'
  <2>1. CASE KeepsBrokerRows(r)
    BY <2>1 DEF KeepsBrokerRows, ProvisionInv, UsersSetUp
  <2>2. CASE AddsBrokerRow(r)
    BY <2>2 DEF AddsBrokerRow, ProvisionInv, UsersSetUp
  <2>3. CASE DropsRow(r)
    <3>1. /\ broker' = {b \in broker : b.service # r}
          /\ pc'[r] \notin HasBrokerRow
      BY <2>3 DEF DropsRow, DB!DeleteService, HasBrokerRow
    <3>2. BrokerRowOf(q).service = q
      BY DEF BrokerRowOf
    <3>3. QED
      BY <3>1, <3>2 DEF ProvisionInv, UsersSetUp
  <2>4. QED
    BY <2>1, <2>2, <2>3
<1>4. QED
  BY <1>1, <1>2, <1>3

LEMMA BrokerRowsStayInForce ==
  ASSUME TypeOK, LockInv, ProvisionInv, NEW r \in Requests, SetsUp(r),
         KeepsBrokerRows(r) \/ AddsBrokerRow(r) \/ DropsRow(r),
         form' = form, \A q \in Requests \ {r} : pc'[q] = pc[q]
  PROVE  BrokerRowsInForce'
<1> DEFINE Good(b) == /\ b = BrokerRowOf(b.service)
                      /\ RowOf(b.service) \in service'
                      /\ InForce(form[b.service], b.service)'
<1>1. ASSUME NEW b \in broker, RowOf(b.service) \in service'
      PROVE  Good(b)
  <2>1. /\ b.service \in Requests /\ RowOf(b.service) \in service
        /\ b = BrokerRowOf(b.service) /\ InForce(form[b.service], b.service)
    BY DEF TypeOK, ProvisionInv, BrokerRowsInForce
  <2>2. CASE password'[form[b.service]] = password[form[b.service]]
    BY <1>1, <2>1, <2>2, StaysInForce DEF InForce
  <2>3. CASE b.service # r
    BY <2>1, <2>2, <2>3, OthersKeepPassword
  <2>4. CASE b.service = r
    <3>1. CASE password' = password
      BY <2>2, <3>1
    <3>2. CASE password' = [password EXCEPT ![form[r]] = r]
      BY <1>1, <2>1, <2>4, <3>2, ComesInForce
    <3> QED BY <3>1, <3>2 DEF SetsUp
  <2> QED BY <2>3, <2>4
<1>2. ASSUME NEW b \in broker'
      PROVE  Good(b)
  <2>1. CASE KeepsBrokerRows(r)
    BY <1>1, <2>1 DEF KeepsBrokerRows, ProvisionInv, BrokerRowsInForce
  <2>2. CASE AddsBrokerRow(r)
    <3>1. CASE b \in broker
      BY <1>1, <2>2, <3>1 DEF AddsBrokerRow, ProvisionInv, BrokerRowsInForce
    <3>2. CASE b = BrokerRowOf(r)
      <4>1. b.service = r
        BY <3>2 DEF BrokerRowOf
      <4>2. RowOf(r) \in service /\ InForce(form[r], r)
        BY <2>2 DEF AddsBrokerRow, LockInv, HoldersHaveRow, ProvisionInv,
           UsersSetUp, HasUser, Holding
      <4>3. password' = password
        BY <2>2 DEF AddsBrokerRow, SetsUp
      <4>4. InForce(form[r], r)'
        BY <4>2, <4>3, StaysInForce DEF InForce
      <4>5. QED
        BY <2>2, <3>2, <4>1, <4>2, <4>4 DEF AddsBrokerRow
    <3>3. QED
      BY <2>2, <3>1, <3>2 DEF AddsBrokerRow
  <2>3. CASE DropsRow(r)
    <3>1. b \in broker /\ b.service # r
      BY <2>3 DEF DropsRow, DB!DeleteService
    <3>2. RowOf(b.service) \in service'
      BY <2>3, <3>1 DEF DropsRow, DB!DeleteService, ProvisionInv,
         BrokerRowsInForce, RowOf
    <3>3. QED
      BY <1>1, <3>1, <3>2
  <2>4. QED
    BY <2>1, <2>2, <2>3
<1>3. QED
  BY <1>2 DEF BrokerRowsInForce, RowOf, BrokerRowOf

LEMMA LatePutKeepsProvisions ==
  ASSUME TypeOK, LockInv, ProvisionInv, LatePutLands
  PROVE  ProvisionInv'
<1>1. UNCHANGED <<service, broker, form, pc, late>> /\ topicPerm \subseteq topicPerm'
  BY DEF LatePutLands, Broker!LatePutLands, Broker!LateUserLands,
     Broker!LatePermissionsLand, dbVars
<1>2. LateInv'
  BY <1>1 DEF ProvisionInv, LateInv
<1>3. ASSUME NEW q \in Requests, RowOf(q) \in service, InForce(form[q], q)
      PROVE  InForce(form[q], q)'
  BY <1>3, LatePutStaysInForce DEF ProvisionInv
<1>4. UsersSetUp'
  <2>1. \A q \in Requests : pc[q] \in HasUser => RowOf(q) \in service
    BY DEF LockInv, HoldersHaveRow, HasUser, Holding, Configuring
  <2> QED BY <1>1, <1>3, <2>1 DEF ProvisionInv, UsersSetUp, BrokerRowOf
<1>5. BrokerRowsInForce'
  <2>1. \A b \in broker : b.service \in Requests
    BY DEF TypeOK
  <2> QED
    BY <1>1, <1>3, <2>1 DEF ProvisionInv, BrokerRowsInForce, BrokerRowOf, RowOf
<1> QED BY <1>2, <1>4, <1>5 DEF ProvisionInv

LEMMA ProvisionStep ==
  ASSUME TypeOK, LockInv, ProvisionInv, [Next]_vars
  PROVE  ProvisionInv'
<1>1. ASSUME NEW r \in Requests, Begin(r) \/ Handler(r) \/ WorkerKilled(r)
      PROVE  ProvisionInv'
  <2>1. /\ SetsUp(r) /\ form' = form /\ \A q \in Requests \ {r} : pc'[q] = pc[q]
        /\ KeepsBrokerRows(r) \/ AddsBrokerRow(r) \/ DropsRow(r)
    BY <1>1, RowStep, UserStep, BrokerTableStep
  <2>2. QED
    BY <2>1, LatePutsKnown, UsersStaySetUp, BrokerRowsStayInForce DEF ProvisionInv
<1>2. CASE UNCHANGED vars
  BY <1>2 DEF vars, dbVars, brokerVars, ProvisionInv, LateInv, UsersSetUp,
     BrokerRowsInForce, InForce, RowOf, BrokerRowOf
<1>3. QED
  BY <1>1, <1>2, LatePutKeepsProvisions DEF Next, AllEnded

LEMMA ProvisionInvariant == Spec => [](TypeOK /\ LockInv /\ ProvisionInv)
<1>1. TypeOK /\ LockInv /\ ProvisionInv /\ [Next]_vars
        => (TypeOK /\ LockInv /\ ProvisionInv)'
  BY TypeStep, LockStep, ProvisionStep
<1>2. QED
  BY <1>1, TypeInit, LockInit, ProvisionInit, PTL DEF Spec

\* The password that a broker row keeps is the one the broker accepts, unless a
\* PUT of a request that gave up came late and replaced it.
THEOREM StoredPasswordInForceHolds == Spec => []StoredPasswordInForce
<1>1. TypeOK /\ ProvisionInv => StoredPasswordInForce
  <2> SUFFICES ASSUME TypeOK, ProvisionInv, NEW b \in broker
               PROVE  \E s \in service : /\ s.api_key = b.service
                                         /\ InForce(s.service_name, b.broker_password)
    BY DEF StoredPasswordInForce
  <2>1. /\ RowOf(b.service) \in service
        /\ b.broker_password = b.service
        /\ InForce(form[b.service], b.service)
    BY DEF ProvisionInv, BrokerRowsInForce, BrokerRowOf
  <2>2. QED
    BY <2>1 DEF RowOf
<1>2. QED
  BY <1>1, ProvisionInvariant, PTL

\* A service that was shown to its user is complete but for its queues, and its
\* password is in force but for late PUTs.
THEOREM ShownIsProvisionedHolds == Spec => []ShownIsProvisioned
<1>1. LockInv /\ ProvisionInv => ShownIsProvisioned
  BY DEF LockInv, HoldersHaveRow, ProvisionInv, UsersSetUp, HasUser,
     HasPermissions, HasBrokerRow, RowOf, BrokerRowOf, ShownIsProvisioned
<1>2. QED
  BY <1>1, ProvisionInvariant, PTL

-----------------------------------------------------------------------------
(* The pool threads.                                                       *)

\* The executor's join: pool threads work only while their handler waits for
\* them, or are gone with their process.
ThreadsJoined ==
  \A r \in Requests, t \in Types :
    task[r][t] \in {"declare", "bind"} => pc[r] \in {"create_queues", "killed"}

LEMMA ThreadsInit == Init => ThreadsJoined
  BY DEF Init, ThreadsJoined, Protocol!ProtocolInit, Types

LEMMA ThreadsStep ==
  ASSUME TypeOK, ThreadsJoined, [Next]_vars
  PROVE  ThreadsJoined'
<1> USE DEF Types
<1>1. ASSUME NEW r \in Requests, Begin(r) \/ Handler(r) \/ WorkerKilled(r)
      PROVE  ThreadsJoined'
  <2>1. CASE RefreshService(r)
    BY <2>1 DEF RefreshService, Step, Protocol!SubmitTasks, TypeOK,
       Protocol!ProtocolTypeOK, ThreadsJoined
  <2>2. CASE TaskStep(r)
    <3>1. PICK t \in Types : \/ Protocol!QueueDeclare(form[r], r, t)
                             \/ Protocol!QueueBind(form[r], r, t)
                             \/ Protocol!TaskRaises(form[r], r, t)
      BY <2>2 DEF TaskStep
    <3>2. /\ task[r][t] \in {"declare", "bind"} /\ pc' = pc
          /\ \E to \in Protocol!TaskState : task' = [task EXCEPT ![r][t] = to]
      BY <2>2, <3>1 DEF TaskStep, Protocol!QueueDeclare, Protocol!QueueBind,
         Protocol!TaskRaises, Protocol!TaskState
    <3>3. QED
      BY <3>2 DEF ThreadsJoined, TypeOK, Protocol!ProtocolTypeOK
  <2>3. CASE PoolJoined(r)
    BY <2>3 DEF PoolJoined, Step, Protocol!PoolJoined, protocolVars, TypeOK,
       ThreadsJoined
  <2>4. CASE WorkerKilled(r)
    BY <2>4 DEF WorkerKilled, protocolVars, TypeOK, ThreadsJoined
  <2>5. CASE \/ Begin(r) \/ InsertService(r) \/ ServiceNameTaken(r)
             \/ InsertServiceFails(r) \/ RefreshServiceFails(r)
             \/ PutUser(r) \/ PutPermissions(r)
             \/ InsertBroker(r) \/ InsertBrokerFails(r) \/ RefreshBroker(r)
             \/ Except(r) \/ Rollback(r) \/ RollbackFails(r)
             \/ RollbackFlushFails(r) \/ SubmitFails(r) \/ AnswerFault(r)
    <3>1. /\ task' = task /\ \A q \in Requests \ {r} : pc'[q] = pc[q]
          /\ pc[r] \notin {"create_queues", "killed"}
      BY <2>5 DEF TypeOK, Step, protocolVars, Begin, InsertService,
         ServiceNameTaken, InsertServiceFails, RefreshServiceFails, PutUser,
         PutPermissions, InsertBroker, InsertBrokerFails, RefreshBroker,
         Except, Rollback, RollbackFails, RollbackFlushFails, SubmitFails,
         AnswerFault
    <3>2. QED
      BY <3>1 DEF ThreadsJoined
  <2>6. QED
    BY <1>1, <2>1, <2>2, <2>3, <2>4, <2>5 DEF Handler
<1>2. CASE LatePutLands \/ UNCHANGED vars
  BY <1>2 DEF LatePutLands, vars, protocolVars, ThreadsJoined
<1>3. QED
  BY <1>1, <1>2 DEF Next, AllEnded

\* A handler past the join.
Joined == HasUser \cup {"put_user"}

\* What a thread has done, and that both are through after the join.
TasksInv ==
  \A r \in Requests, t \in Types :
    /\ task[r][t] \in {"bind", "bound"} => <<form[r], t>> \in queues
    /\ task[r][t] = "bound" => <<form[r], t>> \in bindings
    /\ pc[r] \in Joined => task[r][t] \in {"bound", "failed"}

LEMMA TasksInit == Init => TasksInv
  BY DEF Init, TasksInv, Protocol!ProtocolInit, Types, Joined, HasUser

\* Only the thread of r and t, and the submission of r's tasks, move a task; no
\* step takes a queue or a binding away.
LEMMA TasksOfOthers ==
  ASSUME TypeOK, NEW r \in Requests, Begin(r) \/ Handler(r) \/ WorkerKilled(r)
  PROVE  /\ queues \subseteq queues' /\ bindings \subseteq bindings'
         /\ \/ task' = task /\ (pc'[r] \in Joined => pc[r] \in Joined)
            \/ PoolJoined(r)
            \/ RefreshService(r)
            \/ TaskStep(r)
<1> USE DEF TypeOK, Step, Joined, HasUser, protocolVars
<1>1. CASE TaskStep(r)
  BY <1>1 DEF TaskStep, Protocol!QueueDeclare, Protocol!QueueBind,
     Protocol!TaskRaises
<1>2. CASE RefreshService(r) \/ PoolJoined(r)
  BY <1>2 DEF RefreshService, PoolJoined, Protocol!SubmitTasks
<1>3. CASE \/ Begin(r) \/ WorkerKilled(r) \/ InsertService(r)
           \/ ServiceNameTaken(r) \/ InsertServiceFails(r) \/ RefreshServiceFails(r)
           \/ PutUser(r) \/ PutPermissions(r)
  BY <1>3 DEF Begin, WorkerKilled, InsertService, ServiceNameTaken,
     InsertServiceFails, RefreshServiceFails, PutUser, PutPermissions
<1>4. CASE \/ InsertBroker(r) \/ InsertBrokerFails(r) \/ RefreshBroker(r)
           \/ Except(r) \/ Rollback(r) \/ RollbackFails(r) \/ RollbackFlushFails(r)
           \/ SubmitFails(r) \/ AnswerFault(r)
  BY <1>4 DEF InsertBroker, InsertBrokerFails, RefreshBroker, Except, Rollback,
     RollbackFails, RollbackFlushFails, SubmitFails, AnswerFault
<1> QED BY <1>1, <1>2, <1>3, <1>4 DEF Handler

LEMMA TasksStep ==
  ASSUME TypeOK, TasksInv, [Next]_vars
  PROVE  TasksInv'
<1> USE DEF TypeOK, Protocol!ProtocolTypeOK, Types
<1>1. ASSUME NEW r \in Requests, Begin(r) \/ Handler(r) \/ WorkerKilled(r)
      PROVE  TasksInv'
  <2>1. /\ queues \subseteq queues' /\ bindings \subseteq bindings'
        /\ form' = form /\ \A q \in Requests \ {r} : pc'[q] = pc[q]
    BY <1>1, TasksOfOthers, RowStep
  <2>2. CASE task' = task /\ (pc'[r] \in Joined => pc[r] \in Joined)
    BY <2>1, <2>2 DEF TasksInv
  <2>3. CASE PoolJoined(r)
    BY <2>1, <2>3 DEF PoolJoined, Protocol!PoolJoined, protocolVars, TasksInv
  <2>4. CASE RefreshService(r)
    <3>1. /\ task' = [task EXCEPT ![r] = [t \in Types |-> "declare"]]
          /\ pc'[r] \notin Joined
      BY <2>4 DEF RefreshService, Protocol!SubmitTasks, Step, Joined, HasUser
    <3> QED BY <2>1, <3>1 DEF TasksInv
  <2>5. CASE TaskStep(r)
    <3>1. PICK t \in Types : \/ Protocol!QueueDeclare(form[r], r, t)
                             \/ Protocol!QueueBind(form[r], r, t)
                             \/ Protocol!TaskRaises(form[r], r, t)
      BY <2>5 DEF TaskStep
    <3>2. task[r][t] \in {"declare", "bind"} /\ pc' = pc
      BY <2>5, <3>1 DEF TaskStep, Protocol!QueueDeclare, Protocol!QueueBind,
         Protocol!TaskRaises
    <3>3. pc[r] \notin Joined
      BY <3>2 DEF TasksInv
    <3>4. CASE Protocol!QueueDeclare(form[r], r, t)
      BY <2>1, <3>2, <3>3, <3>4 DEF TasksInv, Protocol!QueueDeclare
    <3>5. CASE Protocol!QueueBind(form[r], r, t)
      BY <2>1, <3>2, <3>3, <3>5 DEF TasksInv, Protocol!QueueBind
    <3>6. CASE Protocol!TaskRaises(form[r], r, t)
      <4>1. task' = [task EXCEPT ![r][t] = "failed"]
        BY <3>6 DEF Protocol!TaskRaises
      <4> QED BY <2>1, <3>2, <3>3, <4>1 DEF TasksInv
    <3> QED BY <3>1, <3>4, <3>5, <3>6
  <2> QED BY <1>1, <2>2, <2>3, <2>4, <2>5, TasksOfOthers
<1>2. CASE LatePutLands \/ UNCHANGED vars
  BY <1>2 DEF LatePutLands, vars, protocolVars, TasksInv
<1> QED BY <1>1, <1>2 DEF Next, AllEnded

\* A shown service lacks a queue only if its own pool thread raised.
THEOREM QueueMissingOnlyByFaultHolds == Spec => []QueueMissingOnlyByFault
<1>1. TasksInv => QueueMissingOnlyByFault
  BY DEF TasksInv, Joined, HasUser, QueueMissingOnlyByFault
<1> QED BY <1>1, TypeCorrect, TasksInit, TasksStep, PTL DEF Spec

-----------------------------------------------------------------------------
(* Towards the end of a request.  Every step that moves a request takes    *)
(* one of its calls away, and the join never waits for a task that nobody  *)
(* submitted.                                                              *)

LEMMA CallsAreNatural ==
  ASSUME NEW x
  PROVE  HandlerCalls(x) \in Nat /\ ThreadCalls(x) \in Nat
BY DEF HandlerCalls, ThreadCalls

\* A step of request r that leaves the tasks alone makes one of its calls.
LEMMA HandlerGoesForward ==
  ASSUME TypeOK, NEW r \in Requests,
         Begin(r) \/ Handler(r) \/ WorkerKilled(r), ~ RefreshService(r), ~ TaskStep(r)
  PROVE  /\ task' = task
         /\ HandlerCalls(pc'[r]) < HandlerCalls(pc[r])
<1> USE DEF TypeOK, Step, HandlerCalls, protocolVars
<1>1. CASE Begin(r) \/ InsertService(r) \/ ServiceNameTaken(r) \/ InsertServiceFails(r)
  BY <1>1 DEF Begin, InsertService, ServiceNameTaken, InsertServiceFails
<1>2. CASE RefreshServiceFails(r) \/ PoolJoined(r) \/ PutUser(r) \/ PutPermissions(r)
  BY <1>2 DEF RefreshServiceFails, PoolJoined, PutUser, PutPermissions
<1>3. CASE InsertBroker(r) \/ InsertBrokerFails(r) \/ RefreshBroker(r)
  BY <1>3 DEF InsertBroker, InsertBrokerFails, RefreshBroker
<1>4. CASE \/ Except(r) \/ Rollback(r) \/ RollbackFails(r)
           \/ RollbackFlushFails(r) \/ AnswerFault(r) \/ SubmitFails(r)
  BY <1>4 DEF Except, Rollback, RollbackFails, RollbackFlushFails, AnswerFault,
     SubmitFails
<1>5. CASE WorkerKilled(r)
  BY <1>5 DEF WorkerKilled, Running, Holding, Configuring
<1> QED BY <1>1, <1>2, <1>3, <1>4, <1>5 DEF Handler

\* A step of a pool thread makes one of its calls, and none of another thread.
LEMMA ThreadGoesForward ==
  ASSUME TypeOK, NEW r \in Requests, TaskStep(r)
  PROVE  /\ pc' = pc
         /\ \A q \in Requests \ {r} : task'[q] = task[q]
         /\ \E t \in Types : /\ ThreadCalls(task'[r][t]) < ThreadCalls(task[r][t])
                             /\ \A u \in Types \ {t} : task'[r][u] = task[r][u]
<1> USE DEF TypeOK, Protocol!ProtocolTypeOK, Types
<1>1. PICK t \in Types : \/ Protocol!QueueDeclare(form[r], r, t)
                         \/ Protocol!QueueBind(form[r], r, t)
                         \/ Protocol!TaskRaises(form[r], r, t)
  BY DEF TaskStep
<1>2. PICK to \in Protocol!TaskState :
        /\ task' = [task EXCEPT ![r][t] = to]
        /\ \/ task[r][t] = "declare" /\ to \in {"bind", "failed"}
           \/ task[r][t] = "bind" /\ to \in {"bound", "failed"}
  BY <1>1 DEF Protocol!QueueDeclare, Protocol!QueueBind, Protocol!TaskRaises,
     Protocol!TaskState
<1>3. /\ task'[r][t] = to
      /\ \A u \in Types \ {t} : task'[r][u] = task[r][u]
      /\ \A q \in Requests \ {r} : task'[q] = task[q]
  BY <1>2
<1>4. ThreadCalls(task'[r][t]) < ThreadCalls(task[r][t])
  BY <1>2, <1>3 DEF ThreadCalls
<1> QED BY <1>3, <1>4 DEF TaskStep

LEMMA GoesForward ==
  ASSUME TypeOK, NEW r \in Requests, Begin(r) \/ Handler(r) \/ WorkerKilled(r)
  PROVE  /\ CallsLeft(r)' < CallsLeft(r)
         /\ \A q \in Requests \ {r} : pc'[q] = pc[q] /\ task'[q] = task[q]
<1> USE CallsAreNatural
<1>1. \A q \in Requests \ {r} : pc'[q] = pc[q]
  BY RowStep
<1>2. CASE RefreshService(r)
  <2>1. /\ task' = [task EXCEPT ![r] = [t \in Types |-> "declare"]]
        /\ pc[r] = "refresh_service" /\ pc'[r] = "create_queues"
    BY <1>2 DEF RefreshService, Step, Protocol!SubmitTasks, Types, TypeOK
  <2>2. /\ \A q \in Requests \ {r} : task'[q] = task[q]
        /\ task'[r]["request"] = "declare" /\ task'[r]["response"] = "declare"
    BY <2>1 DEF TypeOK, Protocol!ProtocolTypeOK, Types,
       Protocol!INTERSECT_SERVICE_SUBSCRIPTION_TYPES
  <2>3. /\ HandlerCalls("refresh_service") = 13 /\ HandlerCalls("create_queues") = 8
        /\ ThreadCalls("declare") = 2
    BY DEF HandlerCalls, ThreadCalls
  <2> QED BY <1>1, <2>1, <2>2, <2>3 DEF CallsLeft
<1>3. CASE TaskStep(r)
  <2>1. PICK t \in Types :
          /\ ThreadCalls(task'[r][t]) < ThreadCalls(task[r][t])
          /\ \A u \in Types \ {t} : task'[r][u] = task[r][u]
    BY <1>3, ThreadGoesForward
  <2>2. /\ pc' = pc /\ \A q \in Requests \ {r} : task'[q] = task[q]
    BY <1>3, ThreadGoesForward
  <2> QED
    BY <2>1, <2>2
    DEF CallsLeft, Types, Protocol!INTERSECT_SERVICE_SUBSCRIPTION_TYPES
<1>4. CASE ~ RefreshService(r) /\ ~ TaskStep(r)
  <2>1. task' = task /\ HandlerCalls(pc'[r]) < HandlerCalls(pc[r])
    BY <1>4, HandlerGoesForward
  <2> QED BY <1>1, <2>1 DEF CallsLeft
<1> QED BY <1>2, <1>3, <1>4

\* Every move of a request, of its handler or its threads, leaves fewer calls to
\* make; the moves of the others, and late PUTs, leave it alone.
THEOREM HandlersGoForwardHolds == Spec => HandlersGoForward
<1>1. TypeOK /\ [Next]_vars
        => [\A r \in Requests :
              pc'[r] # pc[r] \/ task'[r] # task[r] => CallsLeft(r)' < CallsLeft(r)]_vars
  <2> SUFFICES ASSUME TypeOK, Next, NEW q \in Requests,
                      pc'[q] # pc[q] \/ task'[q] # task[q]
               PROVE  CallsLeft(q)' < CallsLeft(q)
    OBVIOUS
  <2>1. ASSUME NEW r \in Requests, Begin(r) \/ Handler(r) \/ WorkerKilled(r)
        PROVE  CallsLeft(q)' < CallsLeft(q)
    BY <2>1, GoesForward
  <2>2. CASE LatePutLands \/ AllEnded
    BY <2>2 DEF LatePutLands, AllEnded, vars, protocolVars
  <2> QED BY <2>1, <2>2 DEF Next
<1> QED BY <1>1, TypeCorrect, PTL DEF Spec, HandlersGoForward

\* Who waits at the join has submitted a task of every type.
Submitted ==
  \A r \in Requests, t \in Types : pc[r] = "create_queues" => task[r][t] # "none"

LEMMA SubmittedStep ==
  ASSUME TypeOK, Submitted, [Next]_vars
  PROVE  Submitted'
<1> USE DEF TypeOK, Protocol!ProtocolTypeOK, Types, Submitted
<1>1. ASSUME NEW r \in Requests, Begin(r) \/ Handler(r) \/ WorkerKilled(r)
      PROVE  Submitted'
  <2>1. \A q \in Requests \ {r} : pc'[q] = pc[q] /\ task'[q] = task[q]
    BY <1>1, GoesForward
  <2>2. CASE RefreshService(r)
    <3>1. task' = [task EXCEPT ![r] = [t \in Types |-> "declare"]]
      BY <2>2 DEF RefreshService, Protocol!SubmitTasks
    <3> QED BY <2>1, <3>1
  <2>3. CASE TaskStep(r)
    <3>1. PICK t \in Types : \/ Protocol!QueueDeclare(form[r], r, t)
                             \/ Protocol!QueueBind(form[r], r, t)
                             \/ Protocol!TaskRaises(form[r], r, t)
      BY <2>3 DEF TaskStep
    <3>2. \E to \in {"bind", "bound", "failed"} : task' = [task EXCEPT ![r][t] = to]
      BY <3>1 DEF Protocol!QueueDeclare, Protocol!QueueBind, Protocol!TaskRaises
    <3> QED BY <2>3, <3>2 DEF TaskStep
  <2>4. CASE ~ RefreshService(r) /\ ~ TaskStep(r)
    <3>1. task' = task /\ HandlerCalls(pc'[r]) < HandlerCalls(pc[r])
      BY <1>1, <2>4, HandlerGoesForward
    <3>2. pc'[r] # "create_queues"
      BY <1>1, <2>4
      DEF Handler, Step, Begin, WorkerKilled, InsertService, ServiceNameTaken,
          InsertServiceFails, RefreshServiceFails, PoolJoined, PutUser,
          PutPermissions, InsertBroker, InsertBrokerFails, RefreshBroker, Except,
          Rollback, RollbackFails, RollbackFlushFails, SubmitFails, AnswerFault
    <3> QED BY <2>1, <3>1, <3>2
  <2> QED BY <2>2, <2>3, <2>4
<1>2. CASE LatePutLands \/ UNCHANGED vars
  BY <1>2 DEF LatePutLands, vars, protocolVars
<1> QED BY <1>1, <1>2 DEF Next, AllEnded

\* No handler waits at the join for what will not happen.
THEOREM JoinCanEndHolds == Spec => []JoinCanEnd
<1>1. Init => Submitted
  BY DEF Init, Submitted
<1>2. TypeOK /\ Submitted => JoinCanEnd
  BY DEF TypeOK, Protocol!ProtocolTypeOK, Protocol!TaskState, Types, Submitted,
     JoinCanEnd, Protocol!PoolJoined, Protocol!INTERSECT_SERVICE_SUBSCRIPTION_TYPES
<1> QED BY <1>1, <1>2, TypeCorrect, SubmittedStep, PTL DEF Spec

-----------------------------------------------------------------------------
(* The refinement: every step of registration is a step of NameReservation *)
(* or changes nothing that it speaks of.  The invariant of the lock makes  *)
(* the CHOOSE in HolderOf a function of the table.                         *)

Holder == [n \in Names |-> HolderOf(n)]
StatusMap == [r \in Requests |-> StatusOf(r)]

HolderAgrees ==
  /\ \A s \in service : HolderOf(s.service_name) = s.api_key
  /\ \A m \in Names : ~ DB!NameTaken(m) => HolderOf(m) = Nobody

LEMMA HolderIsRow == LockInv => HolderAgrees
  BY DEF LockInv, UniqueName, HolderAgrees, HolderOf, DB!NameTaken

LEMMA HolderIsRowNext == LockInv' => HolderAgrees'
  BY HolderIsRow, PTL

\* How the status of the request that steps moves with its row.
LEMMA StatusStep ==
  ASSUME TypeOK, NEW r \in Requests, Begin(r) \/ Handler(r) \/ WorkerKilled(r)
  PROVE  \/ KeepsRow(r) /\ StatusOf(r)' = StatusOf(r)
         \/ /\ KeepsRow(r) /\ StatusOf(r) = "none" /\ StatusOf(r)' = "refused"
            /\ DB!NameTaken(form[r])
         \/ KeepsRow(r) /\ StatusOf(r) = "none" /\ StatusOf(r)' = "failed"
         \/ KeepsRow(r) /\ StatusOf(r) = "held" /\ StatusOf(r)' = "shown"
         \/ KeepsRow(r) /\ StatusOf(r) = "held" /\ StatusOf(r)' = "failed"
         \/ /\ TakesRow(r) /\ StatusOf(r) = "none"
            /\ StatusOf(r)' \in {"held", "failed"}
         \/ DropsRow(r) /\ StatusOf(r) = "held" /\ StatusOf(r)' = "failed"
<1> USE DEF TypeOK, Step, KeepsRow, TakesRow, DropsRow, Rowless, Running,
            Holding, Configuring, dbVars, StatusOf
<1>1. CASE Begin(r)
  BY <1>1 DEF Begin
<1>2. CASE WorkerKilled(r)
  BY <1>2 DEF WorkerKilled
<1>3. CASE InsertService(r) \/ ServiceNameTaken(r) \/ InsertServiceFails(r)
  BY <1>3 DEF InsertService, ServiceNameTaken, InsertServiceFails
<1>4. CASE RefreshService(r) \/ SubmitFails(r) \/ RefreshServiceFails(r)
  BY <1>4 DEF RefreshService, SubmitFails, RefreshServiceFails
<1>5. CASE TaskStep(r) \/ PoolJoined(r) \/ PutUser(r) \/ PutPermissions(r)
  BY <1>5 DEF TaskStep, PoolJoined, PutUser, PutPermissions
<1>6. CASE InsertBroker(r) \/ InsertBrokerFails(r) \/ RefreshBroker(r)
  BY <1>6 DEF InsertBroker, InsertBrokerFails, RefreshBroker, DB!InsertBroker
<1>7. CASE \/ Except(r) \/ Rollback(r) \/ RollbackFails(r)
           \/ RollbackFlushFails(r) \/ AnswerFault(r)
  BY <1>7 DEF Except, Rollback, RollbackFails, RollbackFlushFails, AnswerFault
<1>8. QED
  BY <1>1, <1>2, <1>3, <1>4, <1>5, <1>6, <1>7 DEF Handler

LEMMA StatusMapStep ==
  ASSUME TypeOK, NEW r \in Requests, Begin(r) \/ Handler(r) \/ WorkerKilled(r)
  PROVE  StatusMap' = [StatusMap EXCEPT ![r] = StatusOf(r)']
<1>1. \A q \in Requests \ {r} : StatusOf(q)' = StatusOf(q)
  BY RowStep DEF StatusOf
<1>2. QED
  BY <1>1 DEF StatusMap

LEMMA HolderStep ==
  ASSUME TypeOK, LockInv, LockInv', NEW r \in Requests,
         NEW n \in Names, form[r] = n, form' = form
  PROVE  /\ KeepsRow(r) => Holder' = Holder
         /\ TakesRow(r) => /\ Holder[n] = Nobody
                           /\ Holder' = [Holder EXCEPT ![n] = r]
         /\ DropsRow(r) => Holder' = [Holder EXCEPT ![n] = Nobody]
<1>1. /\ \A s \in service : HolderOf(s.service_name) = s.api_key
      /\ \A m \in Names : ~ DB!NameTaken(m) => HolderOf(m) = Nobody
  BY HolderIsRow DEF HolderAgrees
<1>2. /\ \A s \in service' : HolderOf(s.service_name)' = s.api_key
      /\ \A m \in Names : ~ DB!NameTaken(m)' => HolderOf(m)' = Nobody
  BY HolderIsRowNext DEF HolderAgrees
\* A name is held by the same request if the same rows have it.
<1>3. ASSUME NEW m \in Names,
             \A s : s.service_name = m => (s \in service' <=> s \in service)
      PROVE  HolderOf(m)' = HolderOf(m)
  <2>1. CASE DB!NameTaken(m)
    <3>1. PICK s \in service : s.service_name = m
      BY <2>1 DEF DB!NameTaken
    <3>2. s \in service'
      BY <1>3, <3>1
    <3>3. QED
      BY <1>1, <1>2, <3>1, <3>2
  <2>2. CASE ~ DB!NameTaken(m)
    <3>1. ~ DB!NameTaken(m)'
      BY <1>3, <2>2 DEF DB!NameTaken
    <3>2. QED
      BY <1>1, <1>2, <2>2, <3>1
  <2>3. QED
    BY <2>1, <2>2
<1>4. ASSUME KeepsRow(r)
      PROVE  Holder' = Holder
  BY <1>3, <1>4 DEF KeepsRow, Holder
<1>5. ASSUME TakesRow(r)
      PROVE  /\ Holder[n] = Nobody
             /\ Holder' = [Holder EXCEPT ![n] = r]
  <2>1. /\ ~ DB!NameTaken(n)
        /\ service' = service \cup {RowOf(r)}
    BY <1>5 DEF TakesRow, DB!InsertService, RowOf
  <2>2. HolderOf(n)' = r
    <3>1. RowOf(r) \in service'
      BY <2>1
    <3>2. RowOf(r).service_name = n /\ RowOf(r).api_key = r
      BY DEF RowOf
    <3>3. QED
      BY <1>2, <3>1, <3>2
  <2>3. \A m \in Names \ {n} : HolderOf(m)' = HolderOf(m)
    BY <1>3, <2>1 DEF RowOf
  <2>4. QED
    BY <1>1, <2>1, <2>2, <2>3 DEF Holder
<1>6. ASSUME DropsRow(r)
      PROVE  Holder' = [Holder EXCEPT ![n] = Nobody]
  <2>1. service' = {s \in service : s.api_key # r}
    BY <1>6 DEF DropsRow, DB!DeleteService
  <2>2. RowOf(r) \in service
    BY <1>6 DEF DropsRow, LockInv, HoldersHaveRow, Holding
  <2>3. ~ DB!NameTaken(n)'
    BY <2>1, <2>2 DEF DB!NameTaken, LockInv, UniqueName, RowOf
  <2>4. \A s \in service : s.api_key = r => s.service_name = form[r]
    BY DEF LockInv, RowsMatchForms, RowOf
  <2>5. \A m \in Names \ {n} : HolderOf(m)' = HolderOf(m)
    BY <1>3, <2>1, <2>4
  <2>6. QED
    BY <1>2, <2>3, <2>5 DEF Holder
<1>7. QED
  BY <1>4, <1>5, <1>6

LEMMA ReservationInit == Init => Reservation!Init
<1> SUFFICES ASSUME Init
             PROVE  Reservation!Init
  OBVIOUS
<1>1. Holder = [n \in Names |-> Nobody]
  BY DEF Init, DB!DbInit, Holder, HolderOf, DB!NameTaken
<1>2. StatusMap = [r \in Requests |-> "none"]
  <2>1. \A r \in Requests : StatusOf(r) = "none"
    BY DEF Init, StatusOf, Holding, Configuring
  <2>2. QED
    BY <2>1 DEF StatusMap
<1>3. QED
  BY <1>1, <1>2 DEF Init, Reservation!Init, Holder, StatusMap

LEMMA ReservationStep ==
  ASSUME TypeOK, LockInv, LockInv', [Next]_vars
  PROVE  [Reservation!Next]_<<form, Holder, StatusMap>>
<1>1. ASSUME NEW r \in Requests, Begin(r) \/ Handler(r) \/ WorkerKilled(r)
      PROVE  [Reservation!Next]_<<form, Holder, StatusMap>>
  <2>1. /\ form' = form /\ form[r] \in Names
        /\ StatusMap[r] = StatusOf(r)
        /\ StatusMap' = [StatusMap EXCEPT ![r] = StatusOf(r)']
    BY <1>1, RowStep, StatusMapStep DEF TypeOK, StatusMap
  <2>2. /\ KeepsRow(r) => Holder' = Holder
        /\ TakesRow(r) => /\ Holder[form[r]] = Nobody
                          /\ Holder' = [Holder EXCEPT ![form[r]] = r]
        /\ DropsRow(r) => Holder' = [Holder EXCEPT ![form[r]] = Nobody]
    BY <2>1, HolderStep
  <2>3. CASE KeepsRow(r) /\ StatusOf(r)' = StatusOf(r)
    BY <2>1, <2>2, <2>3 DEF StatusMap
  <2>4. CASE /\ KeepsRow(r) /\ StatusOf(r) = "none" /\ StatusOf(r)' = "refused"
             /\ DB!NameTaken(form[r])
    <3>1. Holder[form[r]] # Nobody
      BY <2>1, <2>4, HolderIsRow, ConstantsAssumption
         DEF HolderAgrees, DB!NameTaken, TypeOK, Holder
    <3>2. Reservation!Refuse(r)
      BY <2>1, <2>2, <2>4, <3>1
         DEF Reservation!Refuse, Reservation!Become, Holder, StatusMap
    <3>3. QED
      BY <2>1, <3>2 DEF Reservation!Next
  <2>5. CASE KeepsRow(r) /\ StatusOf(r) = "none" /\ StatusOf(r)' = "failed"
    <3>1. Reservation!FailToReserve(r)
      BY <2>1, <2>2, <2>5
         DEF Reservation!FailToReserve, Reservation!Become, Holder, StatusMap
    <3>2. QED
      BY <2>1, <3>1 DEF Reservation!Next
  <2>6. CASE KeepsRow(r) /\ StatusOf(r) = "held" /\ StatusOf(r)' = "shown"
    <3>1. Reservation!Show(r)
      BY <2>1, <2>2, <2>6
         DEF Reservation!Show, Reservation!Become, Holder, StatusMap
    <3>2. QED
      BY <2>1, <3>1 DEF Reservation!Next
  <2>7. CASE KeepsRow(r) /\ StatusOf(r) = "held" /\ StatusOf(r)' = "failed"
    <3>1. Reservation!FailToProvision(r)
      BY <2>1, <2>2, <2>7
         DEF Reservation!FailToProvision, Reservation!Become, Holder, StatusMap
    <3>2. QED
      BY <2>1, <3>1 DEF Reservation!Next
  <2>8. CASE TakesRow(r) /\ StatusOf(r) = "none" /\ StatusOf(r)' = "held"
    <3>1. Reservation!Reserve(r)
      BY <2>1, <2>2, <2>8
         DEF Reservation!Reserve, Reservation!Become, Holder, StatusMap
    <3>2. QED
      BY <2>1, <3>1 DEF Reservation!Next
  <2>9. CASE TakesRow(r) /\ StatusOf(r) = "none" /\ StatusOf(r)' = "failed"
    <3>1. Reservation!FailToReserve(r)
      BY <2>1, <2>2, <2>9
         DEF Reservation!FailToReserve, Reservation!Become, Holder, StatusMap
    <3>2. QED
      BY <2>1, <3>1 DEF Reservation!Next
  <2>10. CASE DropsRow(r) /\ StatusOf(r) = "held" /\ StatusOf(r)' = "failed"
    <3>1. Reservation!FailToProvision(r)
      BY <2>1, <2>2, <2>10
         DEF Reservation!FailToProvision, Reservation!Become, Holder, StatusMap
    <3>2. QED
      BY <2>1, <3>1 DEF Reservation!Next
  <2>11. QED
    BY <1>1, <2>3, <2>4, <2>5, <2>6, <2>7, <2>8, <2>9, <2>10, StatusStep
<1>2. CASE LatePutLands \/ UNCHANGED vars
  <2>1. UNCHANGED <<service, pc, form>>
    BY <1>2 DEF LatePutLands, vars, dbVars
  <2>2. /\ \A n : HolderOf(n)' = HolderOf(n)
        /\ \A r : StatusOf(r)' = StatusOf(r)
    BY <2>1 DEF HolderOf, StatusOf, DB!NameTaken
  <2>3. QED
    BY <2>1, <2>2 DEF Holder, StatusMap
<1>3. QED
  BY <1>1, <1>2 DEF Next, AllEnded

\* Registration, with every failure and crash, implements the reservation of
\* names: whatever a user is told of a name is true in the abstract.
THEOREM ReservesNamesHolds == Spec => ReservesNames
<1>1. TypeOK /\ LockInv /\ LockInv' /\ [Next]_vars
        => [Reservation!Next]_<<form, Holder, StatusMap>>
  BY ReservationStep
<1>2. QED
  BY <1>1, ReservationInit, LockInvariant, PTL
     DEF Spec, ReservesNames, Reservation!Spec, Holder, StatusMap

\* The promises of NameReservation, for the names and answers of the registration.
Promise == INSTANCE NameReservationProofs WITH
  wants <- form, holder <- Holder, status <- StatusMap

\* A service that is being configured, or was shown, has its name, and with it the
\* row, for itself; only the rollback of its own request gives the name away; and
\* what a user was told of a name is final.
THEOREM PromisesKept ==
  Spec => /\ []Promise!HeldIsReserved
          /\ Promise!OnlyItsHolderReleases
          /\ Promise!AnswersAreFinal
<1>1. Nobody \notin Requests
  BY ConstantsAssumption
<1>2. Promise!Spec => /\ []Promise!HeldIsReserved
                      /\ Promise!OnlyItsHolderReleases
                      /\ Promise!AnswersAreFinal
  BY <1>1, Promise!HeldIsReservedHolds, Promise!OnlyItsHolderReleasesHolds,
     Promise!AnswersAreFinalHolds
<1>3. Reservation!Init => Promise!Init
  BY DEF Reservation!Init, Promise!Init, Holder, StatusMap
<1>4. [Reservation!Next]_<<form, Holder, StatusMap>>
        => [Promise!Next]_<<form, Holder, StatusMap>>
  BY DEF Reservation!Next, Reservation!Reserve, Reservation!Refuse, Reservation!Show,
     Reservation!FailToReserve, Reservation!FailToProvision, Reservation!Become,
     Promise!Next, Promise!Reserve, Promise!Refuse, Promise!Show,
     Promise!FailToReserve, Promise!FailToProvision, Promise!Become,
     Holder, StatusMap
<1>5. ReservesNames => Promise!Spec
  BY <1>3, <1>4, PTL DEF ReservesNames, Reservation!Spec, Promise!Spec, Holder, StatusMap
<1> QED BY <1>2, <1>5, ReservesNamesHolds

-----------------------------------------------------------------------------
(* Action properties.                                                      *)

\* What the two of them say of one password, and the second of permissions.
PasswordKept(n) ==
  \/ password'[n] = password[n]
  \/ <<n, password'[n]>> \in late

PermissionsKept(n) == (n \in topicPerm' <=> n \in topicPerm) \/ n \in latePerm

LEMMA LatePutKeeps ==
  ASSUME TypeOK, LatePutLands, NEW n \in Names
  PROVE  PasswordKept(n) /\ PermissionsKept(n)
<1>1. CASE Broker!LatePermissionsLand
  BY <1>1 DEF Broker!LatePermissionsLand, PasswordKept, PermissionsKept
<1>2. CASE Broker!LateUserLands
  <2> PICK put \in late : password' = [password EXCEPT ![put[1]] = put[2]]
    BY <1>2 DEF Broker!LateUserLands
  <2>1. put = <<put[1], put[2]>> /\ password \in [Names -> Requests \cup {Nobody}]
    BY DEF TypeOK, Broker!BrokerTypeOK
  <2>2. PasswordKept(n)
    <3>1. CASE n = put[1]
      BY <2>1, <3>1 DEF PasswordKept
    <3>2. CASE n # put[1]
      BY <2>1, <3>2 DEF PasswordKept
    <3> QED BY <3>1, <3>2
  <2>3. PermissionsKept(n)
    BY <1>2 DEF Broker!LateUserLands, PermissionsKept
  <2> QED BY <2>2, <2>3
<1> QED BY <1>1, <1>2 DEF LatePutLands, Broker!LatePutLands

LEMMA ShownKept ==
  ASSUME TypeOK, LockInv, [Next]_vars, NEW q \in Requests, pc[q] = "ok"
  PROVE  /\ {s \in service' : s.api_key = q} = {s \in service : s.api_key = q}
         /\ {b \in broker' : b.service = q} = {b \in broker : b.service = q}
         /\ PasswordKept(form[q])
<1>1. ASSUME NEW r \in Requests, Begin(r) \/ Handler(r) \/ WorkerKilled(r)
      PROVE  /\ {s \in service' : s.api_key = q} = {s \in service : s.api_key = q}
             /\ {b \in broker' : b.service = q} = {b \in broker : b.service = q}
             /\ PasswordKept(form[q])
  <2>1. SetsUp(r)
    BY <1>1, UserStep
  <2>2. {s \in service' : s.api_key = q} = {s \in service : s.api_key = q}
    <3>1. CASE KeepsRow(r)
      BY <3>1 DEF KeepsRow
    <3>2. CASE TakesRow(r)
      BY <3>2 DEF TakesRow, DB!InsertService
    <3>3. CASE DropsRow(r)
      BY <3>3 DEF DropsRow, DB!DeleteService
    <3>4. QED
      BY <1>1, <3>1, <3>2, <3>3, RowStep
  <2>3. {b \in broker' : b.service = q} = {b \in broker : b.service = q}
    <3>1. CASE KeepsBrokerRows(r)
      BY <3>1 DEF KeepsBrokerRows
    <3>2. CASE AddsBrokerRow(r)
      BY <3>2 DEF AddsBrokerRow, BrokerRowOf
    <3>3. CASE DropsRow(r)
      BY <3>3 DEF DropsRow, DB!DeleteService
    <3>4. QED
      BY <1>1, <3>1, <3>2, <3>3, BrokerTableStep
  <2>4. password'[form[q]] = password[form[q]]
    <3>1. CASE q = r
      BY <2>1, <3>1 DEF SetsUp
    <3>2. CASE q # r
      <4>1. RowOf(q) \in service
        BY DEF LockInv, HoldersHaveRow
      <4>2. QED
        BY <2>1, <3>2, <4>1, OthersKeepPassword
    <3>3. QED
      BY <3>1, <3>2
  <2>5. QED
    BY <2>2, <2>3, <2>4 DEF PasswordKept
<1>2. CASE LatePutLands
  <2>1. UNCHANGED dbVars /\ form[q] \in Names
    BY <1>2 DEF LatePutLands, TypeOK
  <2> QED BY <1>2, <2>1, LatePutKeeps DEF dbVars
<1>3. CASE UNCHANGED vars
  BY <1>3 DEF vars, dbVars, brokerVars, PasswordKept
<1>4. QED
  BY <1>1, <1>2, <1>3 DEF Next, AllEnded

\* What a user was shown is never taken back by another registration; a late
\* PUT can change the password and nothing else.
THEOREM ShownStaysHolds == Spec => ShownStays
<1>1. TypeOK /\ LockInv /\ [Next]_vars
        => [\A r \in Requests : pc[r] = "ok" =>
              /\ {s \in service' : s.api_key = r} = {s \in service : s.api_key = r}
              /\ {b \in broker' : b.service = r} = {b \in broker : b.service = r}
              /\ \/ password'[form[r]] = password[form[r]]
                 \/ <<form[r], password'[form[r]]>> \in late]_vars
  BY ShownKept DEF PasswordKept
<1>2. QED
  BY <1>1, LockInvariant, PTL DEF Spec, ShownStays

\* What ConfiguredUnderReservation says of one name.
BrokerUnchanged(n) ==
  /\ PasswordKept(n) /\ PermissionsKept(n)
  /\ \A t \in Types : /\ <<n, t>> \in queues' <=> <<n, t>> \in queues
                      /\ <<n, t>> \in bindings' <=> <<n, t>> \in bindings

Reserved(n) ==
  \E r \in Requests : /\ pc[r] \in Configuring
                      /\ [service_name |-> n, api_key |-> r] \in service

LEMMA ConfiguredStep ==
  ASSUME TypeOK, LockInv, ThreadsJoined, [Next]_vars, NEW n \in Names
  PROVE  BrokerUnchanged(n) \/ Reserved(n)
<1>1. ASSUME NEW r \in Requests, Begin(r) \/ Handler(r) \/ WorkerKilled(r)
      PROVE  BrokerUnchanged(n) \/ Reserved(n)
  <2>1. CASE pc[r] \in Configuring /\ form[r] = n
    <3>1. [service_name |-> n, api_key |-> r] \in service
      BY <2>1 DEF LockInv, HoldersHaveRow, Holding, RowOf
    <3>2. QED
      BY <2>1, <3>1 DEF Reserved
  <2>2. CASE form[r] # n
    <3>1. CASE TaskStep(r)
      BY <2>2, <3>1 DEF TaskStep, brokerVars, BrokerUnchanged,
         PasswordKept, PermissionsKept, Protocol!QueueDeclare, Protocol!QueueBind, Protocol!TaskRaises
    <3>2. CASE PutUser(r)
      BY <2>2, <3>2 DEF PutUser, protocolVars, BrokerUnchanged, PasswordKept, PermissionsKept, TypeOK,
         Broker!BrokerTypeOK, Broker!PutUser, Broker!PutUserFails
    <3>3. CASE PutPermissions(r)
      BY <2>2, <3>3 DEF PutPermissions, protocolVars, BrokerUnchanged, PasswordKept, PermissionsKept,
         Broker!PutTopicPermissions, Broker!PutTopicPermissionsFails
    <3>4. CASE UNCHANGED <<queues, bindings, password, topicPerm>>
      BY <3>4 DEF BrokerUnchanged, PasswordKept, PermissionsKept
    <3>5. QED
      BY <1>1, <3>1, <3>2, <3>3, <3>4 DEF Handler, protocolVars, brokerVars,
         Begin, WorkerKilled, InsertService, ServiceNameTaken,
         InsertServiceFails, RefreshService, RefreshServiceFails, PoolJoined,
         InsertBroker, InsertBrokerFails, RefreshBroker, Except, Rollback,
         RollbackFails, RollbackFlushFails, SubmitFails, AnswerFault,
         Protocol!SubmitTasks
  <2>3. CASE pc[r] \notin Configuring
    <3>1. UNCHANGED <<queues, bindings, password, topicPerm>>
      <4>1. ~ TaskStep(r)
        BY <2>3 DEF TaskStep, Types, ThreadsJoined, Configuring,
           Protocol!QueueDeclare, Protocol!QueueBind, Protocol!TaskRaises
      <4>2. ~ PutUser(r) /\ ~ PutPermissions(r)
        BY <2>3 DEF PutUser, PutPermissions, Step, Configuring
      <4>3. QED
        BY <1>1, <4>1, <4>2 DEF Handler, protocolVars, brokerVars,
           Begin, WorkerKilled, InsertService, ServiceNameTaken,
           InsertServiceFails, RefreshService, RefreshServiceFails, PoolJoined,
           InsertBroker, InsertBrokerFails, RefreshBroker, Except, Rollback,
           RollbackFails, RollbackFlushFails, SubmitFails, AnswerFault,
         Protocol!SubmitTasks
    <3>2. QED
      BY <3>1 DEF BrokerUnchanged, PasswordKept, PermissionsKept
  <2>4. QED
    BY <2>1, <2>2, <2>3
<1>2. CASE LatePutLands
  BY <1>2, LatePutKeeps DEF LatePutLands, protocolVars, BrokerUnchanged
<1>3. CASE UNCHANGED vars
  BY <1>3 DEF vars, protocolVars, brokerVars, BrokerUnchanged, PasswordKept, PermissionsKept
<1>4. QED
  BY <1>1, <1>2, <1>3 DEF Next, AllEnded

\* The broker is configured for a name only under the reservation of the name,
\* but for what a late PUT brings: a password, or the permissions of a request
\* that failed to set them.
THEOREM ConfiguredUnderReservationHolds == Spec => ConfiguredUnderReservation
<1>1. TypeOK /\ LockInv /\ ThreadsJoined /\ [Next]_vars
        => [\A n \in Names :
              \/ /\ \/ password'[n] = password[n]
                    \/ <<n, password'[n]>> \in late
                 /\ (n \in topicPerm' <=> n \in topicPerm) \/ n \in latePerm
                 /\ \A t \in Types : /\ <<n, t>> \in queues' <=> <<n, t>> \in queues
                                     /\ <<n, t>> \in bindings' <=> <<n, t>> \in bindings
              \/ \E r \in Requests :
                   /\ pc[r] \in Configuring
                   /\ [service_name |-> n, api_key |-> r] \in service]_vars
  BY ConfiguredStep DEF BrokerUnchanged, PasswordKept, PermissionsKept, Reserved
<1>2. QED
  BY <1>1, LockInvariant, ThreadsInit, ThreadsStep, PTL
     DEF Spec, ConfiguredUnderReservation
=============================================================================
