------------------------ MODULE KeycloakSessionProofs ------------------------
(***************************************************************************)
(* Proofs about KeycloakSession, for any number of users, logins and flows *)
(* and answers that arrive in any order.                                   *)
(*                                                                         *)
(* The argument: wherever a session is, in the cookie or on its way, its   *)
(* token and its hash are of the same login (HashInv); and the fingerprint *)
(* cookie, which only login and logout answers touch, is that of the       *)
(* current login or absent (FingerprintInv).  A session that is accepted   *)
(* therefore holds the token of the current login.                         *)
(***************************************************************************)
EXTENDS KeycloakSession, TLAPS

\* A session with a token holds the hash of the same login.
Matched(s) == s.user # None => s.fingerprint_hash = s.user

HashInv ==
  /\ Matched(session)
  /\ \A s \in resent : Matched(s)
  /\ \A a \in answers :
       /\ Matched(a.session)
       /\ a.to = "login" => a.session.user # None

FingerprintInv == fingerprint # None => fingerprint = current

\* Every reachable state is well typed.
THEOREM TypeCorrect == Spec => []TypeOK
<1>1. Init => TypeOK
  BY DEF Init, TypeOK, NoSession, Session
<1>2. TypeOK /\ [Next]_vars => TypeOK'
  <2> SUFFICES ASSUME TypeOK, [Next]_vars PROVE TypeOK'
    OBVIOUS
  <2> USE DEF TypeOK, Session, Answer, NoSession, cookies
  <2>1. CASE UNCHANGED vars
    BY <2>1 DEF vars
  <2>2. CASE Browse
    BY <2>2 DEF Browse
  <2>3. CASE Logout
    BY <2>3 DEF Logout
  <2>4. CASE ResentArrives
    BY <2>4 DEF ResentArrives
  <2>5. CASE AnswerArrives
    <3> PICK a \in answers :
          /\ RedirectArrives(a) \/ LoginArrives(a) \/ LogoutArrives(a)
          /\ answers' = answers \ {a}
          /\ UNCHANGED <<resent, begun, loginUser, expired>>
      BY <2>5 DEF AnswerArrives
    <3>1. CASE RedirectArrives(a)
      <4>1. a.flow \in Flows
        BY <3>1 DEF RedirectArrives
      <4> QED BY <3>1, <4>1 DEF RedirectArrives
    <3>2. CASE LoginArrives(a)
      BY <3>2 DEF LoginArrives
    <3>3. CASE LogoutArrives(a)
      BY <3>3 DEF LogoutArrives
    <3> QED BY <3>1, <3>2, <3>3
  <2>6. CASE CookieExpires
    BY <2>6 DEF CookieExpires
  <2>7. ASSUME NEW f \in Flows, LoginRedirect(f) PROVE TypeOK'
    BY <2>7, SessionAssumption DEF LoginRedirect
  <2>8. ASSUME NEW f \in Flows, LoginCallbackFails(f) PROVE TypeOK'
    BY <2>8 DEF LoginCallbackFails, KeptStates
  <2>9. ASSUME NEW f \in Flows, NEW n \in Logins, NEW u \in Users,
               LoginCallback(f, n, u)
        PROVE  TypeOK'
    BY <2>9 DEF LoginCallback, KeptStates
  <2>10. ASSUME NEW n \in Logins, TokenExpires(n) PROVE TypeOK'
    BY <2>10 DEF TokenExpires
  <2> QED
    BY <2>1, <2>2, <2>3, <2>4, <2>5, <2>6, <2>7, <2>8, <2>9, <2>10 DEF Next
<1> QED BY <1>1, <1>2, PTL DEF Spec

\* Wherever a session is, its token and its hash are of one login.
LEMMA HashHolds == Spec => []HashInv
<1>1. Init => HashInv
  BY DEF Init, HashInv, Matched, NoSession
<1>2. TypeOK /\ HashInv /\ [Next]_vars => HashInv'
  <2> SUFFICES ASSUME TypeOK, HashInv, [Next]_vars PROVE HashInv'
    OBVIOUS
  <2> USE DEF TypeOK, HashInv, Matched, Session, Answer, NoSession, cookies
  <2>1. CASE UNCHANGED vars
    BY <2>1 DEF vars
  <2>2. CASE Browse
    BY <2>2 DEF Browse
  <2>3. CASE Logout
    BY <2>3 DEF Logout
  <2>4. CASE ResentArrives
    BY <2>4 DEF ResentArrives
  <2>5. CASE AnswerArrives
    BY <2>5 DEF AnswerArrives, RedirectArrives, LoginArrives, LogoutArrives
  <2>6. CASE CookieExpires
    BY <2>6 DEF CookieExpires
  <2>7. ASSUME NEW f \in Flows, LoginRedirect(f) PROVE HashInv'
    BY <2>7 DEF LoginRedirect
  <2>8. ASSUME NEW f \in Flows, LoginCallbackFails(f) PROVE HashInv'
    BY <2>8 DEF LoginCallbackFails, KeptStates
  <2>9. ASSUME NEW f \in Flows, NEW n \in Logins, NEW u \in Users,
               LoginCallback(f, n, u)
        PROVE  HashInv'
    BY <2>9, SessionAssumption DEF LoginCallback, KeptStates
  <2>10. ASSUME NEW n \in Logins, TokenExpires(n) PROVE HashInv'
    BY <2>10 DEF TokenExpires
  <2> QED
    BY <2>1, <2>2, <2>3, <2>4, <2>5, <2>6, <2>7, <2>8, <2>9, <2>10 DEF Next
<1> QED BY <1>1, <1>2, TypeCorrect, PTL DEF Spec

\* The fingerprint cookie is that of the current login, or absent.
LEMMA FingerprintHolds == Spec => []FingerprintInv
<1>1. Init => FingerprintInv
  BY DEF Init, FingerprintInv
<1>2. HashInv /\ FingerprintInv /\ [Next]_vars => FingerprintInv'
  <2> SUFFICES ASSUME HashInv, FingerprintInv, [Next]_vars PROVE FingerprintInv'
    OBVIOUS
  <2>1. CASE AnswerArrives
    BY <2>1 DEF HashInv, Matched, FingerprintInv, AnswerArrives, RedirectArrives,
                LoginArrives, LogoutArrives
  <2>2. CASE CookieExpires
    BY <2>2 DEF FingerprintInv, CookieExpires
  <2>3. CASE UNCHANGED <<fingerprint, current>>
    BY <2>3 DEF FingerprintInv
  <2> QED
    BY <2>1, <2>2, <2>3
    DEF Next, vars, cookies, Browse, Logout, ResentArrives, LoginRedirect,
        LoginCallback, LoginCallbackFails, TokenExpires
<1> QED BY <1>1, <1>2, HashHolds, PTL DEF Spec

\* However answers overtake each other, a browser is served as the user of its
\* last login, and as nobody after a logout.
THEOREM IdentitySticksHolds == Spec => []IdentitySticks
<1>1. HashInv /\ FingerprintInv => IdentitySticks
  BY DEF HashInv, FingerprintInv, Matched, IdentitySticks, Authenticated
<1> QED BY <1>1, HashHolds, FingerprintHolds, PTL

\* However answers overtake each other, the current login is served for as long as
\* its token is in the session cookie and valid, and the fingerprint cookie is there.
THEOREM LoginServedHolds == Spec => []LoginServed
<1>1. HashInv /\ FingerprintInv => LoginServed
  BY DEF HashInv, FingerprintInv, Matched, LoginServed, Authenticated
<1> QED BY <1>1, HashHolds, FingerprintHolds, PTL

-----------------------------------------------------------------------------
(* The refinement: every step of KeycloakSession is a step of              *)
(* BrowserSession or leaves its variables alone.                           *)

\* Of a login that is current, or whose answer is on its way, the user is known.
KnownInv ==
  /\ current # None => loginUser[current] # None
  /\ \A a \in answers : a.to = "login" => loginUser[a.session.user] # None

LEMMA KnownHolds == Spec => []KnownInv
<1>1. Init => KnownInv
  BY DEF Init, KnownInv
<1>2. TypeOK /\ HashInv /\ KnownInv /\ [Next]_vars => KnownInv'
  <2> SUFFICES ASSUME TypeOK, HashInv, KnownInv, [Next]_vars PROVE KnownInv'
    OBVIOUS
  <2> USE DEF KnownInv
  <2>1. CASE AnswerArrives
    BY <2>1 DEF AnswerArrives, RedirectArrives, LoginArrives, LogoutArrives
  <2>2. CASE UNCHANGED <<answers, loginUser, current>>
    BY <2>2
  <2>3. CASE Logout
    BY <2>3 DEF Logout
  <2>4. ASSUME NEW f \in Flows, LoginRedirect(f) PROVE KnownInv'
    BY <2>4 DEF LoginRedirect
  <2>5. ASSUME NEW f \in Flows, NEW n \in Logins, NEW u \in Users,
               LoginCallback(f, n, u)
        PROVE  KnownInv'
    <3>1. \A m \in Logins : loginUser[m] # None => loginUser'[m] # None
      BY <2>5 DEF LoginCallback, TypeOK
    <3>2. loginUser'[n] # None
      BY <2>5, SessionAssumption DEF LoginCallback, TypeOK
    <3>3. current' # None => loginUser'[current'] # None
      BY <2>5, <3>1 DEF LoginCallback, TypeOK
    <3>4. ASSUME NEW a \in answers', a.to = "login"
          PROVE  loginUser'[a.session.user] # None
      <4>1. CASE a \in answers
        <5>1. a.session.user \in Logins
          BY <3>4, <4>1 DEF TypeOK, HashInv, Answer, Session
        <5> QED BY <3>1, <3>4, <4>1, <5>1
      <4>2. CASE a \notin answers
        BY <2>5, <3>2, <4>2 DEF LoginCallback
      <4> QED BY <4>1, <4>2
    <3> QED BY <3>3, <3>4
  <2> QED
    BY <2>1, <2>2, <2>3, <2>4, <2>5
    DEF Next, vars, Browse, ResentArrives, CookieExpires, TokenExpires,
        LoginCallbackFails
<1> QED BY <1>1, <1>2, TypeCorrect, HashHolds, PTL DEF Spec

\* Whom a browser is served as changes as BrowserSession allows, whatever answers
\* are on their way and whenever they arrive.
THEOREM ImplementsBrowserSessionHolds == Spec => ImplementsBrowserSession
<1> DEFINE served == IF Authenticated THEN loginUser[session.user] ELSE None
<1>1. Init => Browser!Init
  BY DEF Init, Browser!Init, UserOf, Authenticated, NoSession
<1>2. /\ TypeOK /\ TypeOK' /\ KnownInv /\ IdentitySticks'
      /\ [Next]_vars
      => [Browser!Next]_<<UserOf(current), served>>
  <2> SUFFICES ASSUME TypeOK, TypeOK', KnownInv, IdentitySticks', [Next]_vars
               PROVE  Browser!Next
    BY DEF Browser!Next
  <2>1. served' \in {None, UserOf(current)'}
    BY DEF IdentitySticks, UserOf
  <2>2. ASSUME UNCHANGED UserOf(current) PROVE Browser!Next
    BY <2>1, <2>2 DEF Browser!Next, Browser!Change
  <2>3. CASE AnswerArrives
    <3> PICK a \in answers :
          /\ RedirectArrives(a) \/ LoginArrives(a) \/ LogoutArrives(a)
          /\ UNCHANGED loginUser
      BY <2>3 DEF AnswerArrives
    <3>1. CASE RedirectArrives(a)
      BY <2>2, <3>1 DEF RedirectArrives, UserOf
    <3>2. CASE LoginArrives(a)
      <4>1. current' = a.session.user /\ loginUser'[current'] # None
        BY <3>2 DEF LoginArrives, KnownInv
      <4>2. UserOf(current)' \in Users \cup {None}
        BY DEF TypeOK, UserOf
      <4>3. CASE UserOf(current)' = None
        BY <2>1, <4>3 DEF Browser!Next, Browser!Logout
      <4>4. CASE UserOf(current)' \in Users
        BY <2>1, <4>4 DEF Browser!Next, Browser!Login
      <4> QED BY <4>2, <4>3, <4>4
    <3>3. CASE LogoutArrives(a)
      <4>1. UserOf(current)' = None
        BY <3>3 DEF LogoutArrives, UserOf
      <4> QED BY <2>1, <4>1 DEF Browser!Next, Browser!Logout
    <3> QED BY <3>1, <3>2, <3>3
  <2>4. CASE UNCHANGED <<current, loginUser>>
    BY <2>2, <2>4 DEF UserOf
  <2>5. ASSUME NEW f \in Flows, NEW n \in Logins, NEW u \in Users,
               LoginCallback(f, n, u)
        PROVE  Browser!Next
    <3>1. UNCHANGED UserOf(current)
      BY <2>5 DEF LoginCallback, KnownInv, TypeOK, UserOf
    <3> QED BY <2>2, <3>1
  <2> QED
    BY <2>3, <2>4, <2>5
    DEF Next, vars, Browse, Logout, ResentArrives, CookieExpires, LoginRedirect,
        LoginCallbackFails, TokenExpires
<1> QED
  BY <1>1, <1>2, TypeCorrect, KnownHolds, IdentitySticksHolds, PTL
  DEF Spec, ImplementsBrowserSession, Browser!Spec
=============================================================================
