--------------------------- MODULE NameReservation ---------------------------
(***************************************************************************)
(* What registering a service promises, without saying how: a service name *)
(* is reserved by at most one request at a time, and it stays reserved     *)
(* once the request's user was shown the service.  A request may fail at   *)
(* any time before that; the name then becomes free again, or stays        *)
(* reserved for nobody's use until an operator removes it.                 *)
(***************************************************************************)

CONSTANTS Requests, Names, Nobody

VARIABLES
  wants,     \* wants[r]: the name request r asks for
  holder,    \* holder[n]: the request that n is reserved for, or Nobody
  status     \* status[r]: what became of request r

Status == {"none", "held", "shown", "refused", "failed"}

Init ==
  /\ wants \in [Requests -> Names]
  /\ holder = [n \in Names |-> Nobody]
  /\ status = [r \in Requests |-> "none"]

Become(r, from, to) == status[r] = from /\ status' = [status EXCEPT ![r] = to]

Reserve(r) ==
  /\ Become(r, "none", "held")
  /\ holder[wants[r]] = Nobody
  /\ holder' = [holder EXCEPT ![wants[r]] = r]

\* A request is told that its name is taken only if it is.
Refuse(r) ==
  /\ Become(r, "none", "refused")
  /\ holder[wants[r]] # Nobody
  /\ UNCHANGED holder

Show(r) == Become(r, "held", "shown") /\ UNCHANGED holder

\* A failure before the reservation, which may have taken effect all the same.
FailToReserve(r) ==
  /\ Become(r, "none", "failed")
  /\ \/ UNCHANGED holder
     \/ /\ holder[wants[r]] = Nobody
        /\ holder' = [holder EXCEPT ![wants[r]] = r]

\* A failure after it, which may give the name back.
FailToProvision(r) ==
  /\ Become(r, "held", "failed")
  /\ \/ UNCHANGED holder
     \/ holder' = [holder EXCEPT ![wants[r]] = Nobody]

Next ==
  \E r \in Requests :
    /\ \/ Reserve(r) \/ Refuse(r) \/ Show(r)
       \/ FailToReserve(r) \/ FailToProvision(r)
    /\ UNCHANGED wants

Spec == Init /\ [][Next]_<<wants, holder, status>>

-----------------------------------------------------------------------------
(* What follows for whoever relies on a reservation.                       *)

\* A name whose request is at work, or was shown, is reserved for that request and
\* so for no other one.
HeldIsReserved ==
  \A r \in Requests : status[r] \in {"held", "shown"} => holder[wants[r]] = r

\* Only a failure of the request that has a name gives it back, and nothing hands a
\* name over: what was shown stays reserved for its request for ever.
OnlyItsHolderReleases ==
  [][\A n \in Names :
       holder[n] # Nobody /\ holder'[n] # holder[n] =>
         /\ holder'[n] = Nobody
         /\ status[holder[n]] = "held"
         /\ status'[holder[n]] = "failed"]_<<wants, holder, status>>

\* What became of a request that has an answer does not change.
AnswersAreFinal ==
  [][\A r \in Requests :
       /\ status[r] \in {"shown", "refused", "failed"} => status'[r] = status[r]
       /\ status[r] = "shown" => holder'[wants[r]] = holder[wants[r]]]_<<wants, holder, status>>
=============================================================================
