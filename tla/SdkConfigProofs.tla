--------------------------- MODULE SdkConfigProofs ---------------------------
(***************************************************************************)
(* Proofs about SdkConfig, for any number of requests, names and workers.  *)
(* The readers change nothing that a registration reads, so that what      *)
(* ServiceRegistrationProofs says of the service row holds beside them.    *)
(***************************************************************************)
EXTENDS SdkConfig, ServiceRegistrationProofs

LEMMA RegistrationGoesOn == SdkSpec => Spec
<1>1. SdkInit => Init
  BY DEF SdkInit
<1>2. [SdkNext]_<<vars, sdkVars>> => [Next]_vars
  BY DEF SdkNext, Registering, ListServices, ServiceConfig
<1> QED BY <1>1, <1>2, PTL DEF SdkSpec, Spec

\* The type invariant.
THEOREM SdkTypeCorrect == SdkSpec => []SdkTypeOK
<1>1. SdkInit => SdkTypeOK
  BY TypeInit DEF SdkInit, SdkTypeOK
<1>2. TypeOK /\ SdkTypeOK /\ TypeOK' /\ [SdkNext]_<<vars, sdkVars>> => SdkTypeOK'
  <2> SUFFICES ASSUME TypeOK, SdkTypeOK, TypeOK', [SdkNext]_<<vars, sdkVars>>
               PROVE  SdkTypeOK'
    OBVIOUS
  <2>1. CASE Registering \/ UNCHANGED sdkVars
    BY <2>1 DEF Registering, SdkTypeOK, sdkVars
  <2>2. CASE ListServices
    <3>1. \A s \in service : s.api_key \in Requests
      BY DEF TypeOK, DB!DbTypeOK, DB!ServiceRow
    <3>2. seen' \subseteq Requests /\ UNCHANGED <<answer, rolledBack>>
      BY <2>2, <3>1 DEF ListServices, SdkTypeOK
    <3> QED BY <3>2 DEF SdkTypeOK
  <2>3. ASSUME NEW r \in Requests, ServiceConfig(r) PROVE SdkTypeOK'
    BY <2>3 DEF ServiceConfig, SdkTypeOK
  <2> QED BY <2>1, <2>2, <2>3 DEF SdkNext
<1> QED BY <1>1, <1>2, RegistrationGoesOn, TypeCorrect, PTL DEF SdkSpec

-----------------------------------------------------------------------------
(* Who is refused.  A key can only be lost by its own handler's rollback,  *)
(* and a handler that was there answers, or dies, and makes no more calls. *)

AfterRollback == {"answer", "server_fault", "killed"}

\* A key that was read has its row, or its handler has been through the rollback;
\* whoever was refused belongs to the second kind.
SeenInv ==
  \A r \in Requests :
    /\ r \in seen => RowOf(r) \in service \/ r \in rolledBack
    /\ answer[r] = "forbidden" => r \in rolledBack
    /\ r \in rolledBack => pc[r] \in AfterRollback

LEMMA AfterRollbackStays ==
  ASSUME TypeOK, NEW r \in Requests, pc[r] \in AfterRollback,
         NEW q \in Requests, Begin(q) \/ Handler(q) \/ WorkerKilled(q)
  PROVE  pc'[r] \in AfterRollback
<1>1. CASE q # r
  BY <1>1, RowStep
<1>2. CASE q = r
  BY <1>2 DEF AfterRollback, TypeOK, Step, Running, Holding, Configuring, Begin,
     Handler, WorkerKilled, InsertService, ServiceNameTaken, InsertServiceFails,
     RefreshService, SubmitFails, RefreshServiceFails, TaskStep, PoolJoined,
     PutUser, PutPermissions, InsertBroker, InsertBrokerFails, RefreshBroker,
     Except, Rollback, RollbackFails, RollbackFlushFails, AnswerFault
<1> QED BY <1>1, <1>2

\* Only the rollback of r's own handler removes r's row.
LEMMA RowStays ==
  ASSUME TypeOK, NEW r \in Requests, RowOf(r) \in service,
         NEW q \in Requests, Begin(q) \/ Handler(q) \/ WorkerKilled(q)
  PROVE  RowOf(r)' \in service' \/ (pc[r] = "rollback" /\ pc'[r] = "answer")
<1>1. RowOf(r)' = RowOf(r) /\ RowOf(r).api_key = r
  BY RowStep DEF RowOf
<1>2. CASE KeepsRow(q) \/ TakesRow(q)
  BY <1>1, <1>2 DEF KeepsRow, TakesRow, DB!InsertService
<1>3. CASE DropsRow(q)
  BY <1>1, <1>3 DEF DropsRow, DB!DeleteService
<1> QED BY <1>2, <1>3, RowStep

LEMMA SeenStep ==
  ASSUME TypeOK, LockInv, SeenInv, [SdkNext]_<<vars, sdkVars>>
  PROVE  SeenInv'
<1>1. CASE Registering
  <2>1. /\ UNCHANGED <<seen, answer>>
        /\ rolledBack' = rolledBack \cup
             {r \in Requests : pc[r] = "rollback" /\ pc'[r] = "answer"}
    BY <1>1 DEF Registering
  <2>2. ASSUME NEW q \in Requests, Begin(q) \/ Handler(q) \/ WorkerKilled(q),
               NEW r \in Requests
        PROVE  /\ RowOf(r) \in service => RowOf(r)' \in service' \/ r \in rolledBack'
               /\ pc[r] \in AfterRollback => pc'[r] \in AfterRollback
    BY <2>1, <2>2, RowStays, AfterRollbackStays
  <2>3. CASE UNCHANGED <<service, pc, form>>
    BY <2>1, <2>3 DEF SeenInv, RowOf, AfterRollback
  <2>4. ASSUME NEW q \in Requests, Begin(q) \/ Handler(q) \/ WorkerKilled(q)
        PROVE  SeenInv'
    BY <2>1, <2>2, <2>4 DEF SeenInv, AfterRollback
  <2> QED
    BY <1>1, <2>3, <2>4 DEF Registering, Next, LatePutLands, AllEnded, vars, dbVars
<1>2. CASE UNCHANGED <<service, pc, form, sdkVars>>
  BY <1>2 DEF SeenInv, sdkVars, RowOf
<1>3. CASE ListServices
  <2>1. UNCHANGED <<service, pc, form, answer, rolledBack>>
    BY <1>3 DEF ListServices, vars, dbVars
  <2>2. \A r \in seen' : r \in seen \/ RowOf(r) \in service
    BY <1>3 DEF ListServices, LockInv, RowsMatchForms
  <2> QED BY <2>1, <2>2 DEF SeenInv, RowOf
<1>4. ASSUME NEW q \in Requests, ServiceConfig(q) PROVE SeenInv'
  <2>1. UNCHANGED <<service, pc, form, seen, rolledBack>>
    BY <1>4 DEF ServiceConfig, vars, dbVars
  <2>2. q \in rolledBack \/ HasService(q)
    BY <1>4 DEF ServiceConfig, HasService, SeenInv, LockInv, HoldersHaveRow, RowOf
  <2>3. \A r \in Requests : answer'[r] = "forbidden" =>
          answer[r] = "forbidden" \/ (r = q /\ ~ HasService(q))
    BY <1>4 DEF ServiceConfig
  <2> QED BY <2>1, <2>2, <2>3 DEF SeenInv, RowOf
<1> QED BY <1>1, <1>2, <1>3, <1>4 DEF SdkNext, vars, dbVars

LEMMA SeenInvHolds == SdkSpec => []SeenInv
<1>1. SdkInit => SeenInv
  BY DEF SdkInit, SeenInv
<1> QED
  BY <1>1, SeenStep, RegistrationGoesOn, LockInvariant, PTL DEF SdkSpec

\* A key that its user has read is refused only after its own handler has been
\* through the rollback, which is then answered with an error, or will be, unless
\* the worker died first.
THEOREM RefusedOnlyAfterRollbackHolds == SdkSpec => []RefusedOnlyAfterRollback
<1>1. SeenInv => RefusedOnlyAfterRollback
  BY DEF SeenInv, AfterRollback, RefusedOnlyAfterRollback
<1> QED BY <1>1, SeenInvHolds, PTL
=============================================================================
