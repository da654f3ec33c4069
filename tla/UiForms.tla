------------------------------- MODULE UiForms -------------------------------
(***************************************************************************)
(* The pages and forms of the web UI as the users of one browser see them, *)
(* in several tabs: GET / and POST / of ui/endpoints/microservice_user.py, *)
(* and the login and logout of login_rudimentary.py or login_keycloak.py.  *)
(*                                                                         *)
(* Each page with a form carries a CSRF token in it and replaces the one   *)
(* CSRF cookie of the browser.  With Javascript, htmx posts the service    *)
(* form and swaps the answer into the page; the forms for login and logout *)
(* are posted by the browser.  What the registration itself does is in     *)
(* ServiceRegistration, and has a result here.  The session is that of     *)
(* BrowserSession; answers of a login or logout arrive in the step of the  *)
(* request, KeycloakSession has those that are late.                       *)
(***************************************************************************)
EXTENDS Naming

CONSTANTS
  Tabs,
  Users,
  Names,     \* the names users type in
  None       \* no user, form, error or outcome

VARIABLES
  javascript,   \* does the browser run htmx?
  auth,         \* AUTH_IMPLEMENTATION
  owner,        \* owner[n]: the user of the row of service n
  current,      \* history: the user who logged in last, if not logged out since
  user,         \* whom a request of this moment is served as
  landed,       \* history: since that login no page of another user can replace
                \* the cookie, and one of this user has, or the login has unset it
  cookie,       \* the form that the csrf-token cookie fits: its tab and its kind
  stale,        \* is the cookie's token over the library's limit of an hour?
  doc,          \* doc[t]: what tab t is doing or showing
  greeted,      \* greeted[t]: the user its page greets, if it is a service page
  listed,       \* listed[t]: the services in its table
  error,        \* error[t]: the error under its form
  query,        \* query[t]: the error in the URL it is redirected to
  outcome       \* outcome[t]: name and result of its last POST, since its user
                \* last opened a page, logged in or logged out

Session == INSTANCE BrowserSession

sessionVars == <<current, user, landed>>
pageVars == <<greeted, listed, error>>
tabVars == <<doc, pageVars, query, outcome>>
vars == <<javascript, auth, owner, sessionVars, cookie, stale, tabVars>>

Docs == {"blank", "arriving", "page", "login", "posting", "pasted", "redirected",
         "error_page"}

\* The context of _add_new_service_error.
Error == [err_svc : Names, err : BOOLEAN]

Outcome == [service_name : Names,
            result : {"ok", "taken", "server_fault", "internal_error", "refused",
                      "unprocessable", "unauthenticated"}]

ASSUME FormsAssumption ==
  /\ Names \subseteq Name
  /\ None \notin Users \cup Outcome \cup (Tabs \X {"service", "login"})

TypeOK ==
  /\ javascript \in BOOLEAN
  /\ auth \in {"keycloak", "rudimentary"}
  /\ owner \in [Names -> Users \cup {None}]
  /\ current \in Users \cup {None}
  /\ user \in Users \cup {None}
  /\ landed \in BOOLEAN
  /\ cookie \in (Tabs \X {"service", "login"}) \cup {None}
  /\ stale \in BOOLEAN
  /\ doc \in [Tabs -> Docs]
  /\ greeted \in [Tabs -> Users \cup {None}]
  /\ listed \in [Tabs -> SUBSET Names]
  /\ error \in [Tabs -> Error \cup {None}]
  /\ query \in [Tabs -> Error \cup {None}]
  /\ outcome \in [Tabs -> Outcome \cup {None}]

Init ==
  /\ javascript \in BOOLEAN
  /\ auth \in {"keycloak", "rudimentary"}
  /\ owner = [n \in Names |-> None]
  /\ Session!Init
  /\ landed = FALSE
  /\ cookie = None
  /\ stale = FALSE
  /\ doc = [t \in Tabs |-> "blank"]
  /\ greeted = [t \in Tabs |-> None]
  /\ listed = [t \in Tabs |-> {}]
  /\ error = [t \in Tabs |-> None]
  /\ query = [t \in Tabs |-> None]
  /\ outcome = [t \in Tabs |-> None]

Goto(t, d) == doc' = [doc EXCEPT ![t] = d]

Forget(t) == outcome' = [outcome EXCEPT ![t] = None]

-----------------------------------------------------------------------------
(* Pages.  A GET of either URL ends at the service page or, without a      *)
(* session, at the login page; each redirects to the other.                *)

Services(u) == {n \in Names : owner[n] = u /\ u # None}

\* microservice_user_page: the rows of the moment, and the error in the URL.
Request(t) ==
  /\ Goto(t, "arriving")
  /\ greeted' = [greeted EXCEPT ![t] = user]
  /\ listed' = [listed EXCEPT ![t] = Services(user)]
  /\ error' = [error EXCEPT ![t] = IF user = None THEN None ELSE query[t]]
  /\ query' = [query EXCEPT ![t] = None]
  /\ UNCHANGED <<javascript, auth, owner, sessionVars, cookie, stale>>

\* The user opens or reloads the page, and looks at no earlier outcome.
Load(t) ==
  /\ doc[t] \notin {"arriving", "redirected"}
  /\ Request(t)
  /\ Forget(t)

FollowRedirect(t) ==
  /\ doc[t] = "redirected"
  /\ Request(t)
  /\ UNCHANGED outcome

\* Mutant: sets the cookie only if the browser has none.
set_csrf_cookie_once(f) ==
  /\ cookie' = IF cookie = None THEN f ELSE cookie
  /\ stale' = FALSE

\* The cookie fits form f alone.
set_csrf_cookie(f) == cookie' = f /\ stale' = FALSE

unset_csrf_cookie == cookie' = None /\ stale' = FALSE

\* A page of someone other than u is under way, requested before u's login.
Crossing(u) == \E s \in Tabs : doc[s] = "arriving" /\ greeted[s] \notin {None, u}

ServicePageArrives(t) ==
  /\ doc[t] = "arriving"
  /\ greeted[t] # None
  /\ Goto(t, "page")
  /\ set_csrf_cookie(<<t, "service">>)
  /\ landed' = (landed \/ (greeted[t] = current /\ ~ Crossing(current)))
  /\ UNCHANGED <<javascript, auth, owner, current, user, pageVars, query, outcome>>

\* The login page; Keycloak's has a link in place of a form.
login_page(t) ==
  IF auth = "rudimentary" THEN set_csrf_cookie(<<t, "login">>)
                          ELSE UNCHANGED <<cookie, stale>>

LoginPageArrives(t) ==
  /\ doc[t] = "arriving"
  /\ greeted[t] = None
  /\ Goto(t, "login")
  /\ login_page(t)
  /\ UNCHANGED <<javascript, auth, owner, sessionVars, pageVars, query, outcome>>

-----------------------------------------------------------------------------
(* POST /.  The browser posts only a name that fits the pattern.           *)

\* The token in the body and the signed one in the cookie agree and are young.
validate_csrf(t, kind) == cookie = <<t, kind>> /\ ~ stale

\* The service form of tab t is there to be posted.  htmx disables its button while
\* it waits.  Without it the old page stays until the redirect's target is there;
\* the user may press again, and only the last answer is shown.
FormShown(t) ==
  \/ doc[t] \in {"page", "pasted"}
  \/ ~ javascript /\ greeted[t] # None /\ doc[t] \in {"posting", "redirected"}

\* The results of POST / that leave no row.  A name may be taken by someone outside
\* this browser.
ResultsWithoutRow(t, n) ==
  IF user = None THEN {"unauthenticated"}
  ELSE IF ~ HIERARCHY_REGEX(n) THEN {"unprocessable"}
  ELSE IF ~ validate_csrf(t, "service") THEN {"refused"}
  ELSE {"taken", "server_fault", "internal_error"}

\* Those that may leave one: a rollback may fail, and so may the answer.
ResultsWithRow(t, n) ==
  IF /\ user # None /\ HIERARCHY_REGEX(n) /\ validate_csrf(t, "service")
     /\ owner[n] = None /\ ColumnHolds(n)
  THEN {"ok", "server_fault", "internal_error"}
  ELSE {}

Submit(t, n) ==
  /\ FormPattern(n)
  /\ FormShown(t)
  /\ Goto(t, "posting")
  /\ \E r \in ResultsWithoutRow(t, n) \cup ResultsWithRow(t, n) :
       /\ outcome' = [outcome EXCEPT ![t] = [service_name |-> n, result |-> r]]
       /\ \/ r \in ResultsWithoutRow(t, n) /\ UNCHANGED owner
          \/ r \in ResultsWithRow(t, n) /\ owner' = [owner EXCEPT ![n] = user]
  /\ query' = [query EXCEPT ![t] = None]
  /\ UNCHANGED <<javascript, auth, sessionVars, cookie, stale, pageVars>>

-----------------------------------------------------------------------------
(* Answers to a POST.                                                      *)

Answered(t, results) == doc[t] = "posting" /\ outcome[t].result \in results

Registered == {"ok", "taken", "server_fault"}

ErrorOf(o) ==
  IF o.result \in {"taken", "server_fault"}
  THEN [err_svc |-> o.service_name, err |-> o.result = "server_fault"]
  ELSE None

\* Mutant: the partial renders no rows.
NoRowsOf(o) == {}

\* The rows of the partial that answers a POST with result o.
RowsOf(o) == {n \in Names : o = [service_name |-> n, result |-> "ok"]}

\* Mutant: unsets the CSRF cookie as the redirect does.
PartialUnsets(t) ==
  /\ javascript
  /\ Answered(t, Registered)
  /\ Goto(t, "page")
  /\ listed' = [listed EXCEPT ![t] = @ \cup RowsOf(outcome[t])]
  /\ error' = [error EXCEPT ![t] = ErrorOf(outcome[t])]
  /\ unset_csrf_cookie
  /\ UNCHANGED <<javascript, auth, owner, sessionVars, greeted, query, outcome>>

\* htmx: a row for the table and an empty error out of band, or an error alone.
Partial(t) ==
  /\ javascript
  /\ Answered(t, Registered)
  /\ Goto(t, "page")
  /\ listed' = [listed EXCEPT ![t] = @ \cup RowsOf(outcome[t])]
  /\ error' = [error EXCEPT ![t] = ErrorOf(outcome[t])]
  /\ UNCHANGED <<javascript, auth, owner, sessionVars, cookie, stale, greeted, query,
                 outcome>>

\* Mutant: keeps the error's name and not its fields.
url_abspath_for_name(err) == IF err = None THEN None ELSE err.err_svc

\* include_query_params returns a new URL, which url_abspath_for drops.
url_abspath_for(err) == None

\* No Javascript: redirect to the page and unset the CSRF cookie.
Redirect(t) ==
  /\ ~ javascript
  /\ Answered(t, Registered)
  /\ Goto(t, "redirected")
  /\ query' = [query EXCEPT ![t] = url_abspath_for(ErrorOf(outcome[t]))]
  /\ unset_csrf_cookie
  /\ UNCHANGED <<javascript, auth, owner, sessionVars, pageVars, outcome>>

\* handle_unauthenticated redirects to the login page.  htmx follows the redirect
\* itself and swaps that page into the table of this one.
handle_unauthenticated(t) ==
  /\ Answered(t, {"unauthenticated"})
  /\ \/ javascript /\ Goto(t, "pasted") /\ login_page(t)
     \/ ~ javascript /\ Goto(t, "redirected") /\ UNCHANGED <<cookie, stale>>
  /\ UNCHANGED <<javascript, auth, owner, sessionVars, pageVars, query, outcome>>

\* The JSON of csrf_protect_exception_handler, that of a name the server does not
\* accept, or the text of logging_middleware: htmx swaps in no answer of 400 and up,
\* so the page stays; without it the answer is the page.
ErrorAnswer(t) ==
  /\ Answered(t, {"refused", "unprocessable", "internal_error"})
  /\ Goto(t, IF javascript THEN "page" ELSE "error_page")
  /\ UNCHANGED <<javascript, auth, owner, sessionVars, cookie, stale, pageVars, query,
                 outcome>>

-----------------------------------------------------------------------------
(* Logging in and out.                                                     *)

\* Rudimentary login: a form that is not fresh shows an error; a wrong password, and
\* any password of someone logged in elsewhere, changes nothing but the cookie.
login_request(t, u) ==
  /\ auth = "rudimentary"
  /\ doc[t] \in {"login", "pasted"}
  /\ \/ /\ ~ validate_csrf(t, "login")
        /\ Goto(t, "error_page")
        /\ UNCHANGED <<cookie, stale, sessionVars>>
     \/ /\ validate_csrf(t, "login")
        /\ Goto(t, "redirected")
        /\ unset_csrf_cookie
        /\ \/ UNCHANGED sessionVars
           \/ /\ user = None
              /\ Session!Login(u) /\ user' = u
              /\ landed' = ~ Crossing(u)
  /\ Forget(t)
  /\ UNCHANGED <<javascript, auth, owner, pageVars, query>>

\* By way of Keycloak, whose callback asks for no session and leaves the CSRF cookie.
login_callback(t, u) ==
  /\ auth = "keycloak"
  /\ doc[t] \in {"login", "pasted"}
  /\ Session!Login(u)
  /\ landed' = FALSE
  /\ Goto(t, "redirected")
  /\ Forget(t)
  /\ UNCHANGED <<javascript, auth, owner, cookie, stale, pageVars, query>>

\* From a service page.  Without a session there is only the redirect.
logout_request(t) ==
  /\ doc[t] \in {"page", "pasted"}
  /\ \/ user = None /\ UNCHANGED <<current, user, cookie, stale>>
     \/ /\ user # None
        /\ Session!Logout
        /\ IF auth = "keycloak" THEN unset_csrf_cookie ELSE UNCHANGED <<cookie, stale>>
  /\ Goto(t, "redirected")
  /\ Forget(t)
  /\ UNCHANGED <<javascript, auth, owner, landed, pageVars, query>>

\* The session token of 15 minutes runs out; with Keycloak a session may also come
\* back, see KeycloakSession.
SessionChanges ==
  /\ Session!Change
  /\ auth = "rudimentary" => user' = None
  /\ UNCHANGED <<javascript, auth, owner, landed, cookie, stale, tabVars>>

TokenGetsOld ==
  /\ stale' = (cookie # None)
  /\ UNCHANGED <<javascript, auth, owner, sessionVars, cookie, tabVars>>

Next ==
  \/ \E t \in Tabs :
       \/ Load(t) \/ FollowRedirect(t) \/ ServicePageArrives(t) \/ LoginPageArrives(t)
       \/ Partial(t) \/ Redirect(t) \/ handle_unauthenticated(t) \/ ErrorAnswer(t)
       \/ logout_request(t)
       \/ \E n \in Names : Submit(t, n)
       \/ \E u \in Users : login_request(t, u) \/ login_callback(t, u)
  \/ SessionChanges \/ TokenGetsOld

Spec == Init /\ [][Next]_vars

-----------------------------------------------------------------------------

\* Once a POST is answered, its tab shows what came of it: the new service in
\* the table and no error, or the error of that POST.
\* README.md, UI: it "should be functional without Javascript".
OutcomeShown ==
  \A t \in Tabs :
    /\ doc[t] = "page"
    /\ outcome[t] # None
    /\ outcome[t].result \in Registered
    => /\ outcome[t].result = "ok" => outcome[t].service_name \in listed[t]
       /\ error[t] = ErrorOf(outcome[t])

\* With htmx this holds, after any number of tries in any number of tabs, with the
\* session lost and found in between.
HtmxOutcomeShown == javascript => OutcomeShown

\* With htmx, a user who has opened no other tab is refused only for a form that
\* is over an hour old: neither a partial nor a session that ran out, with the login
\* page pasted over the form, leaves a cookie that does not fit the form.
RefusedOnlyIfOld ==
  \A t \in Tabs :
    /\ javascript
    /\ outcome[t] # None
    /\ outcome[t].result = "refused"
    /\ \A s \in Tabs \ {t} : doc[s] = "blank"
    => cookie = <<t, "service">> /\ stale

\* A user who has opened no other tab can post from every page that is there, with
\* and without Javascript, but for its age: its cookie has been set with the form and
\* nothing has unset it since.  The redirect without Javascript unsets it under the
\* old page, and a second press on that one is refused, but the next page sets it.
PageCanPost ==
  \A t \in Tabs :
    /\ doc[t] = "page"
    /\ \A s \in Tabs \ {t} : doc[s] = "blank"
    => cookie = <<t, "service">>

\* Whoever submits a service form and is not refused is the user whom its page
\* greets, though another may have logged in in another tab since the page was
\* there.  The CSRF cookie alone sees to that, once the new user's first page has
\* replaced it and no older page is on its way; with the rudimentary login, whose
\* login page has replaced it before, from the login on.
FormIsForItsUser ==
  \A t \in Tabs :
    FormShown(t) /\ user # None /\ validate_csrf(t, "service") /\ landed
    => greeted[t] = user

\* The limits on names agree: a name that passes the browser is not refused by the
\* server, fits the column, and can be asked for by its service.
NamesFit ==
  /\ \A t \in Tabs : outcome[t] # None =>
       outcome[t].result # "unprocessable" /\ ColumnHolds(outcome[t].service_name)
  /\ \A n \in Names : owner[n] # None => QueryAccepts(n)
=============================================================================
