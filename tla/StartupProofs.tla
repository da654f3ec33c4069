---------------------------- MODULE StartupProofs ----------------------------
(***************************************************************************)
(* Proofs about Startup, for any number of replicas, any environments, and *)
(* either value of each switch.                                            *)
(*                                                                         *)
(* MigratesOnce rests on the transaction: migrating names exactly the      *)
(* replica that is about to commit, and while there is one the database is *)
(* empty.  ServingIsInitialized rests on the order of main(): at every     *)
(* stage, the effects of all earlier calls are there, and no step of any   *)
(* replica takes an effect back.                                           *)
(***************************************************************************)
EXTENDS Startup, TLAPS

\* The stages of a replica after each of the calls of main().
AfterInitializing == {"lifespan", "serving"}
AfterUser == {"put_client_permissions"} \cup AfterInitializing
AfterExchange == {"put_client_user"} \cup AfterUser
AfterMigrating == {"get_handlers", "declare_exchange"} \cup AfterExchange

TransactionInv ==
  /\ \A p \in Replicas : stage[p] = "commit" <=> migrating = p
  /\ migrating # Nobody => alembic_version = "none"

ClientPasswordKnown ==
  \E q \in Replicas : /\ BROKER_PROTOCOL[q] = "amqp0.9.1"
                      /\ clientPassword = BROKER_CLIENT_PASSWORD[q]

OrderInv ==
  \A p \in Replicas :
    /\ ALEMBIC_RUN_MIGRATIONS /\ stage[p] \in AfterMigrating
         => alembic_version = "head"
    /\ stage[p] \in AfterExchange => exchange /\ BROKER_PROTOCOL[p] = "amqp0.9.1"
    /\ stage[p] \in AfterUser => ClientPasswordKnown
    /\ stage[p] \in AfterInitializing => clientPerm

\* Every reachable state is well typed.
THEOREM TypeCorrect == Spec => []TypeOK
<1>1. Init => TypeOK
  BY StartupAssumption DEF Init, TypeOK, Stages
<1>2. TypeOK /\ [Next]_vars => TypeOK'
  <2> SUFFICES ASSUME TypeOK, [Next]_vars PROVE TypeOK'
    OBVIOUS
  <2> USE StartupAssumption
      DEF TypeOK, Stages, Migrating, Initializing, dbVars, brokerVars, At, Goto,
          GotoOrEnd
  <2>1. CASE UNCHANGED vars
    BY <2>1 DEF vars
  <2>2. ASSUME NEW p \in Replicas, Start(p) \/ ReadVersion(p) \/ CreateTables(p)
        PROVE  TypeOK'
    BY <2>2 DEF Start, ReadVersion, CreateTables
  <2>3. ASSUME NEW p \in Replicas,
               \/ Commit(p) \/ GetHandlers(p) \/ ProtocolNotImplemented(p)
               \/ DeclareExchange(p)
        PROVE  TypeOK'
    BY <2>3 DEF Commit, GetHandlers, ProtocolNotImplemented, DeclareExchange
  <2>4. ASSUME NEW p \in Replicas, PutClientUser(p) PROVE TypeOK'
    BY <2>4 DEF PutClientUser
  <2>5. ASSUME NEW p \in Replicas, PutClientPermissions(p) PROVE TypeOK'
    BY <2>5 DEF PutClientPermissions
  <2>6. ASSUME NEW p \in Replicas, Lifespan(p) \/ WorkerDies(p) \/ ProcessEnds(p)
        PROVE  TypeOK'
    BY <2>6 DEF Lifespan, WorkerDies, ProcessEnds
  <2> QED
    BY <2>1, <2>2, <2>3, <2>4, <2>5, <2>6 DEF Next, Process
<1> QED BY <1>1, <1>2, PTL DEF Spec

\* The transaction of a migration belongs to the replica that is about to commit
\* it, and is open only on a database without tables.
LEMMA TransactionHolds == Spec => []TransactionInv
<1>1. Init => TransactionInv
  BY StartupAssumption DEF Init, TransactionInv
<1>2. TypeOK /\ TransactionInv /\ [Next]_vars => TransactionInv'
  <2> SUFFICES ASSUME TypeOK, TransactionInv, [Next]_vars PROVE TransactionInv'
    OBVIOUS
  <2> USE StartupAssumption DEF TypeOK, TransactionInv, dbVars, At, Goto, GotoOrEnd
  <2>1. CASE UNCHANGED vars
    BY <2>1 DEF vars
  <2>2. ASSUME NEW p \in Replicas, Start(p) PROVE TransactionInv'
    BY <2>2 DEF Start
  <2>3. ASSUME NEW p \in Replicas, ReadVersion(p) PROVE TransactionInv'
    BY <2>3 DEF ReadVersion
  <2>4. ASSUME NEW p \in Replicas, CreateTables(p) PROVE TransactionInv'
    BY <2>4 DEF CreateTables
  <2>5. ASSUME NEW p \in Replicas, Commit(p) PROVE TransactionInv'
    BY <2>5 DEF Commit
  <2>6. ASSUME NEW p \in Replicas,
               \/ GetHandlers(p) \/ ProtocolNotImplemented(p) \/ DeclareExchange(p)
        PROVE  TransactionInv'
    BY <2>6 DEF GetHandlers, ProtocolNotImplemented, DeclareExchange
  <2>7. ASSUME NEW p \in Replicas, PutClientUser(p) PROVE TransactionInv'
    BY <2>7 DEF PutClientUser
  <2>8. ASSUME NEW p \in Replicas, PutClientPermissions(p) PROVE TransactionInv'
    BY <2>8 DEF PutClientPermissions
  <2>9. ASSUME NEW p \in Replicas, Lifespan(p) \/ WorkerDies(p)
        PROVE  TransactionInv'
    BY <2>9 DEF Lifespan, WorkerDies
  <2>10. ASSUME NEW p \in Replicas, ProcessEnds(p) PROVE TransactionInv'
    BY <2>10 DEF ProcessEnds
  <2> QED
    BY <2>1, <2>2, <2>3, <2>4, <2>5, <2>6, <2>7, <2>8, <2>9, <2>10 DEF Next, Process
<1> QED BY <1>1, <1>2, TypeCorrect, PTL DEF Spec

\* Replicas that start together do not apply one migration twice, however many
\* they are and wherever they end.
THEOREM MigratesOnceHolds == Spec => []MigratesOnce
<1>1. TransactionInv => MigratesOnce
  BY StartupAssumption DEF TransactionInv, MigratesOnce, At
<1> QED BY <1>1, TransactionHolds, PTL

\* Whoever waits for the migration's transaction waits for a replica that can end it.
THEOREM WaitsForLivingHolds == Spec => []WaitsForLiving
<1>1. TypeOK /\ TransactionInv => WaitsForLiving
  BY DEF TypeOK, TransactionInv, WaitsForLiving, At
<1> QED BY <1>1, TypeCorrect, TransactionHolds, PTL

\* The effects of a call are there from the moment its caller goes on.
LEMMA OrderHolds == Spec => []OrderInv
<1>1. Init => OrderInv
  BY DEF Init, OrderInv, AfterMigrating, AfterExchange, AfterUser, AfterInitializing
<1>2. TypeOK /\ OrderInv /\ [Next]_vars => OrderInv'
  <2> SUFFICES ASSUME TypeOK, OrderInv, [Next]_vars PROVE OrderInv'
    OBVIOUS
  <2> USE StartupAssumption
      DEF TypeOK, OrderInv, dbVars, brokerVars, AfterMigrating, AfterExchange,
          AfterUser, AfterInitializing, ClientPasswordKnown, At, Goto, GotoOrEnd
  <2>1. CASE UNCHANGED vars
    BY <2>1 DEF vars
  <2>2. ASSUME NEW p \in Replicas, Start(p) PROVE OrderInv'
    BY <2>2 DEF Start
  <2>3. ASSUME NEW p \in Replicas, ReadVersion(p) PROVE OrderInv'
    BY <2>3 DEF ReadVersion
  <2>4. ASSUME NEW p \in Replicas, CreateTables(p) PROVE OrderInv'
    BY <2>4 DEF CreateTables
  <2>5. ASSUME NEW p \in Replicas, Commit(p) PROVE OrderInv'
    BY <2>5 DEF Commit
  <2>6. ASSUME NEW p \in Replicas,
               \/ GetHandlers(p) \/ ProtocolNotImplemented(p) \/ DeclareExchange(p)
        PROVE  OrderInv'
    BY <2>6 DEF GetHandlers, ProtocolNotImplemented, DeclareExchange
  <2>7. ASSUME NEW p \in Replicas, PutClientUser(p) PROVE OrderInv'
    BY <2>7 DEF PutClientUser
  <2>8. ASSUME NEW p \in Replicas, PutClientPermissions(p) PROVE OrderInv'
    BY <2>8 DEF PutClientPermissions
  <2>9. ASSUME NEW p \in Replicas, Lifespan(p) \/ WorkerDies(p) PROVE OrderInv'
    BY <2>9 DEF Lifespan, WorkerDies
  <2>10. ASSUME NEW p \in Replicas, ProcessEnds(p) PROVE OrderInv'
    BY <2>10 DEF ProcessEnds
  <2> QED
    BY <2>1, <2>2, <2>3, <2>4, <2>5, <2>6, <2>7, <2>8, <2>9, <2>10 DEF Next, Process
<1> QED BY <1>1, <1>2, TypeCorrect, PTL DEF Spec

\* A replica serves only on what main() has to initialise, and it stays so,
\* whatever the other replicas do and wherever they fail.
THEOREM ServingIsInitializedHolds == Spec => []ServingIsInitialized
<1>1. OrderInv => ServingIsInitialized
  BY DEF OrderInv, ServingIsInitialized, At, AfterMigrating, AfterExchange,
         AfterUser, AfterInitializing, ClientPasswordKnown
<1> QED BY <1>1, OrderHolds, PTL
=============================================================================
