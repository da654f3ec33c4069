------------------------ MODULE NameReservationProofs ------------------------
(***************************************************************************)
(* What the reservation of names promises, for any number of requests and  *)
(* names.  ServiceRegistrationProofs shows that the registration keeps     *)
(* these promises.                                                         *)
(***************************************************************************)
EXTENDS NameReservation, TLAPS

TypeOK ==
  /\ wants \in [Requests -> Names]
  /\ holder \in [Names -> Requests \cup {Nobody}]
  /\ status \in [Requests -> Status]

Inv == TypeOK /\ HeldIsReserved

LEMMA InvInit == Init => Inv
  BY DEF Init, Inv, TypeOK, Status, HeldIsReserved

LEMMA InvStep ==
  ASSUME Nobody \notin Requests, Inv, [Next]_<<wants, holder, status>>
  PROVE  Inv'
<1> USE DEF Inv, TypeOK, HeldIsReserved, Status, Become
<1>1. ASSUME NEW r \in Requests, UNCHANGED wants, Reserve(r) \/ Refuse(r) \/ Show(r)
      PROVE  Inv'
  BY <1>1 DEF Reserve, Refuse, Show
<1>2. ASSUME NEW r \in Requests, UNCHANGED wants, FailToReserve(r)
      PROVE  Inv'
  BY <1>2 DEF FailToReserve
<1>3. ASSUME NEW r \in Requests, UNCHANGED wants, FailToProvision(r)
      PROVE  Inv'
  BY <1>3 DEF FailToProvision
<1>4. CASE UNCHANGED <<wants, holder, status>>
  BY <1>4
<1> QED BY <1>1, <1>2, <1>3, <1>4 DEF Next

\* A request that is at work, or was shown, has its name.
THEOREM HeldIsReservedHolds ==
  ASSUME Nobody \notin Requests
  PROVE  Spec => []HeldIsReserved
<1>1. Inv => HeldIsReserved
  BY DEF Inv
<1>2. Inv /\ [Next]_<<wants, holder, status>> => Inv'
  BY InvStep
<1> QED BY <1>1, <1>2, InvInit, PTL DEF Spec

\* A name is given back by its holder's failure alone.
THEOREM OnlyItsHolderReleasesHolds ==
  ASSUME Nobody \notin Requests
  PROVE  Spec => OnlyItsHolderReleases
<1>1. Inv /\ [Next]_<<wants, holder, status>> => Inv'
  BY InvStep
<1>2. Inv /\ [Next]_<<wants, holder, status>>
        => [\A n \in Names :
              holder[n] # Nobody /\ holder'[n] # holder[n] =>
                /\ holder'[n] = Nobody
                /\ status[holder[n]] = "held"
                /\ status'[holder[n]] = "failed"]_<<wants, holder, status>>
  <2> SUFFICES ASSUME Inv, NEW r \in Requests, UNCHANGED wants,
                      \/ Reserve(r) \/ Refuse(r) \/ Show(r)
                      \/ FailToReserve(r) \/ FailToProvision(r),
                      NEW n \in Names, holder[n] # Nobody, holder'[n] # holder[n]
               PROVE  /\ holder'[n] = Nobody
                      /\ status[holder[n]] = "held" /\ status'[holder[n]] = "failed"
    BY DEF Next
  <2> USE DEF Inv, TypeOK, HeldIsReserved, Become
  <2>1. FailToProvision(r) /\ n = wants[r]
    BY DEF Reserve, Refuse, Show, FailToReserve, FailToProvision
  <2> QED BY <2>1 DEF FailToProvision
<1> QED BY <1>1, <1>2, InvInit, PTL DEF Spec, OnlyItsHolderReleases

\* What a user was told stays true.
THEOREM AnswersAreFinalHolds ==
  ASSUME Nobody \notin Requests
  PROVE  Spec => AnswersAreFinal
<1>1. Inv /\ [Next]_<<wants, holder, status>> => Inv'
  BY InvStep
<1>2. Inv /\ [Next]_<<wants, holder, status>>
        => [\A r \in Requests :
              /\ status[r] \in {"shown", "refused", "failed"} => status'[r] = status[r]
              /\ status[r] = "shown"
                   => holder'[wants[r]] = holder[wants[r]]]_<<wants, holder, status>>
  <2> SUFFICES ASSUME Inv, NEW q \in Requests, UNCHANGED wants,
                      \/ Reserve(q) \/ Refuse(q) \/ Show(q)
                      \/ FailToReserve(q) \/ FailToProvision(q),
                      Nobody \notin Requests,
                      NEW r \in Requests, status[r] \in {"shown", "refused", "failed"}
               PROVE  /\ status'[r] = status[r]
                      /\ status[r] = "shown" => holder'[wants[r]] = holder[wants[r]]
    BY DEF Next
  <2> USE DEF Inv, TypeOK, HeldIsReserved, Become
  <2>1. q # r
    BY DEF Reserve, Refuse, Show, FailToReserve, FailToProvision
  <2>2. status'[r] = status[r]
    BY <2>1 DEF Reserve, Refuse, Show, FailToReserve, FailToProvision
  <2>3. status[r] = "shown" => holder'[wants[r]] = holder[wants[r]]
    BY <2>1 DEF Reserve, Refuse, Show, FailToReserve, FailToProvision
  <2> QED BY <2>2, <2>3
<1> QED BY <1>1, <1>2, InvInit, PTL DEF Spec, AnswersAreFinal
=============================================================================
