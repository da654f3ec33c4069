--------------------------- MODULE KeycloakSession ---------------------------
(***************************************************************************)
(* A browser's login session under AUTH_IMPLEMENTATION = 'keycloak'.  The  *)
(* server keeps nothing: the session is a signed cookie, bound to a second *)
(* cookie by the hash of a fingerprint that each login draws afresh        *)
(* (ui/endpoints/login_keycloak.py, auth/impl_keycloak).                   *)
(*                                                                         *)
(* SessionMiddleware (app/main.py) decodes the cookie of a request into    *)
(* request.session, and sends whatever is in it back with every response.  *)
(* Tabs have requests under way at the same time, so an answer computed    *)
(* from an old cookie may arrive after a login or a logout and put the old *)
(* session back.                                                           *)
(*                                                                         *)
(* A login stands for its id token and for its fingerprint, a flow for the *)
(* state parameter that ties a callback to the redirect that began it.     *)
(***************************************************************************)

CONSTANTS
  Users,      \* Keycloak users of this browser
  Logins,     \* successful logins, each with its token and fingerprint
  Flows,      \* visits to Keycloak, each with its state
  None        \* no user, login or flow

ASSUME SessionAssumption == None \notin Users /\ None \notin Logins /\ None \notin Flows

VARIABLES
  session,       \* the session cookie
  fingerprint,   \* the fingerprint cookie
  resent,        \* sessions that an answer on its way may put back
  answers,       \* other answers on their way: they change the session
  begun,         \* flows whose redirect was asked for
  atKeycloak,    \* flows whose tab is at Keycloak
  loginUser,     \* loginUser[n]: the user of login n's token
  expired,       \* logins whose token has expired
  current        \* history: the login whose answer arrived last, if no
                 \* logout's answer has arrived since

cookies == <<session, fingerprint>>
vars == <<cookies, resent, answers, begun, atKeycloak, loginUser, expired, current>>

Session == [user : Logins \cup {None},
            fingerprint_hash : Logins \cup {None},
            states : SUBSET Flows]

\* An answer that sends a tab to Keycloak, for a flow; or one of a login or logout.
Answer ==
  [to : {"keycloak"}, flow : Flows, session : Session] \cup
  [to : {"login", "logout"}, session : Session]

NoSession == [user |-> None, fingerprint_hash |-> None, states |-> {}]

TypeOK ==
  /\ session \in Session
  /\ fingerprint \in Logins \cup {None}
  /\ resent \subseteq Session
  /\ answers \subseteq Answer
  /\ begun \subseteq Flows
  /\ atKeycloak \subseteq Flows
  /\ loginUser \in [Logins -> Users \cup {None}]
  /\ expired \subseteq Logins
  /\ current \in Logins \cup {None}

Init ==
  /\ session = NoSession
  /\ fingerprint = None
  /\ resent = {}
  /\ answers = {}
  /\ begun = {}
  /\ atKeycloak = {}
  /\ loginUser = [n \in Logins |-> None]
  /\ expired = {}
  /\ current = None

\* Mutant: trusts the signature of the session cookie.
AuthenticatedBySession ==
  /\ session.user # None
  /\ session.user \notin expired

\* session_manager accepts a request with the cookies of this moment: there is
\* a token, both halves of the fingerprint match, and the token is valid.
Authenticated ==
  /\ session.user # None
  /\ fingerprint # None
  /\ session.fingerprint_hash # None
  /\ fingerprint = session.fingerprint_hash
  /\ session.user \notin expired

-----------------------------------------------------------------------------
(* Requests.  The handler sees the cookies of the moment it was sent.      *)

\* Any request that leaves its session alone, authenticated or not.
Browse ==
  /\ session # NoSession
  /\ resent' = resent \cup {session}
  /\ UNCHANGED <<cookies, answers, begun, atKeycloak, loginUser, expired, current>>

\* GET /login/redirect saves the state of flow f in the session, next to others.
LoginRedirect(f) ==
  /\ f \notin begun
  /\ begun' = begun \cup {f}
  /\ answers' = answers \cup
       {[to |-> "keycloak", flow |-> f,
         session |-> [session EXCEPT !.states = @ \cup {f}]]}
  /\ UNCHANGED <<cookies, resent, atKeycloak, loginUser, expired, current>>

\* States that a session keeps when flow f's is used: others, if not too old.
KeptStates(f) == SUBSET (session.states \ {f})

\* GET /login/callback after user u authenticated in flow f: a new token and a new
\* fingerprint, whatever the old ones were.
LoginCallback(f, n, u) ==
  /\ f \in atKeycloak
  /\ f \in session.states
  /\ loginUser[n] = None
  /\ loginUser' = [loginUser EXCEPT ![n] = u]
  /\ \E kept \in KeptStates(f) :
       answers' = answers \cup
         {[to |-> "login",
           session |-> [user |-> n, fingerprint_hash |-> n, states |-> kept]]}
  /\ atKeycloak' = atKeycloak \ {f}
  /\ UNCHANGED <<cookies, resent, begun, expired, current>>

\* The session has no such state (an answer to a request sent before the redirect
\* put an older session back), or the token request fails after the state is used.
LoginCallbackFails(f) ==
  /\ f \in atKeycloak
  /\ \E kept \in KeptStates(f) :
       resent' = resent \cup
         IF session = NoSession THEN {} ELSE {[session EXCEPT !.states = kept]}
  /\ atKeycloak' = atKeycloak \ {f}
  /\ UNCHANGED <<cookies, answers, begun, loginUser, expired, current>>

\* POST /logout takes the token out of the session; the hash stays in it, so the
\* middleware sends the session back and only the fingerprint cookie goes.
Logout ==
  /\ Authenticated
  /\ answers' = answers \cup
       {[to |-> "logout", session |-> [session EXCEPT !.user = None]]}
  /\ UNCHANGED <<cookies, resent, begun, atKeycloak, loginUser, expired, current>>

-----------------------------------------------------------------------------
(* Answers arrive, in any order and as late as they like.                  *)

ResentArrives ==
  /\ session' \in resent
  /\ UNCHANGED <<fingerprint, resent, answers, begun, atKeycloak, loginUser,
                 expired, current>>

RedirectArrives(a) ==
  /\ a.to = "keycloak"
  /\ session' = a.session
  /\ atKeycloak' = atKeycloak \cup {a.flow}
  /\ UNCHANGED <<fingerprint, current>>

\* Mutant: sets the fingerprint cookie only if the browser has none.
LoginKeepsFingerprint(a) ==
  /\ a.to = "login"
  /\ session' = a.session
  /\ fingerprint' = IF fingerprint = None THEN a.session.fingerprint_hash ELSE fingerprint
  /\ current' = a.session.user
  /\ UNCHANGED atKeycloak

LoginArrives(a) ==
  /\ a.to = "login"
  /\ session' = a.session
  /\ fingerprint' = a.session.fingerprint_hash
  /\ current' = a.session.user
  /\ UNCHANGED atKeycloak

\* Mutant: the fingerprint cookie is not deleted.
LogoutKeepsFingerprint(a) ==
  /\ a.to = "logout"
  /\ session' = a.session
  /\ current' = None
  /\ UNCHANGED <<fingerprint, atKeycloak>>

LogoutArrives(a) ==
  /\ a.to = "logout"
  /\ session' = a.session
  /\ fingerprint' = None
  /\ current' = None
  /\ UNCHANGED atKeycloak

AnswerArrives ==
  \E a \in answers :
    /\ RedirectArrives(a) \/ LoginArrives(a) \/ LogoutArrives(a)
    /\ answers' = answers \ {a}
    /\ UNCHANGED <<resent, begun, loginUser, expired>>

-----------------------------------------------------------------------------

\* Mutant: remembers the user instead of the token.
TokenExpiresByUser(n) ==
  /\ loginUser[n] # None
  /\ expired' = expired \cup {loginUser[n]}
  /\ UNCHANGED <<cookies, resent, answers, begun, atKeycloak, loginUser, current>>

\* The id token of login n expires, long before the cookies do.
TokenExpires(n) ==
  /\ loginUser[n] # None
  /\ expired' = expired \cup {n}
  /\ UNCHANGED <<cookies, resent, answers, begun, atKeycloak, loginUser, current>>

\* A cookie reaches its max_age, or the browser drops it.
CookieExpires ==
  /\ \/ session' = NoSession /\ UNCHANGED fingerprint
     \/ fingerprint' = None /\ UNCHANGED session
  /\ UNCHANGED <<resent, answers, begun, atKeycloak, loginUser, expired, current>>

Next ==
  \/ Browse \/ Logout \/ ResentArrives \/ AnswerArrives \/ CookieExpires
  \/ \E f \in Flows : LoginRedirect(f) \/ LoginCallbackFails(f)
  \/ \E f \in Flows, n \in Logins, u \in Users : LoginCallback(f, n, u)
  \/ \E n \in Logins : TokenExpires(n)

Spec == Init /\ [][Next]_vars

-----------------------------------------------------------------------------
(* The session as a browser's user sees it (module BrowserSession).         *)

UserOf(n) == IF n = None THEN None ELSE loginUser[n]

Browser == INSTANCE BrowserSession WITH
  current <- UserOf(current),
  user    <- IF Authenticated THEN loginUser[session.user] ELSE None

\* However late and in whatever order answers arrive, only a login's answer
\* changes whom requests are served as, to its user, and after a logout's nobody
\* is served until the next login: an old answer may end a session, or bring back
\* the current one, and no other.
ImplementsBrowserSession == Browser!Spec

\* A request is served as the user of the login whose answer arrived last, and
\* as nobody once a logout's answer has arrived: no old answer that puts an old
\* session back brings back the user of that session.
IdentitySticks ==
  Authenticated => current # None /\ session.user = current

\* And the other way round: while the session cookie holds the current login's
\* token, the fingerprint cookie is there and the token is valid, requests are
\* served.  An old answer loses a login only by putting another session in its
\* place; the two cookies are never of two different logins that are both there.
\* Keycloak's keys are taken to be there: a request for which they cannot be
\* fetched (get_user.py) is served as nobody's, and the next one as before.
LoginServed ==
  /\ current # None
  /\ session.user = current
  /\ fingerprint # None
  /\ current \notin expired
  => Authenticated
=============================================================================
