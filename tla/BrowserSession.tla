---------------------------- MODULE BrowserSession ----------------------------
(***************************************************************************)
(* What a session promises the user of a browser, whichever implementation *)
(* of auth/definitions.py:SessionManager provides it: a request is served  *)
(* as the user who logged in last, or as nobody.  A session may end early, *)
(* and after a lost cookie has come back it may go on, but only a login    *)
(* brings in another user, and only a login follows a logout.              *)
(***************************************************************************)

CONSTANTS Users, None

VARIABLES
  current,   \* history: the user who logged in last, if not logged out since
  user       \* whom a request of this moment is served as

Init == current = None /\ user = None

Login(u) == current' = u /\ user' \in {None, u}

Logout == current' = None /\ user' = None

\* The session ends before a logout, or is accepted again.
Change == user' \in {None, current} /\ UNCHANGED current

Next == Logout \/ Change \/ \E u \in Users : Login(u)

Spec == Init /\ [][Next]_<<current, user>>
=============================================================================
