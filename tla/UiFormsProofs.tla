---------------------------- MODULE UiFormsProofs ----------------------------
(***************************************************************************)
(* Proofs about UiForms, for any number of tabs, users and names, with and *)
(* without Javascript, and for both implementations of the login.          *)
(*                                                                         *)
(* Of FormIsForItsUser the argument is the order in which pages replace    *)
(* the cookie: while landed, no page of another user is on its way, so the *)
(* cookie fits no form of a page that greets another user (CookieInv).     *)
(***************************************************************************)
EXTENDS UiForms, TLAPS

\* A name that passes the browser passes everywhere else.
LEMMA LimitsAgree ==
  ASSUME NEW n \in Name, FormPattern(n)
  PROVE  HIERARCHY_REGEX(n) /\ ColumnHolds(n) /\ QueryAccepts(n)
BY DEF Name, FormPattern, HIERARCHY_REGEX, ColumnHolds, QueryAccepts

-----------------------------------------------------------------------------

\* A POST on its way has an outcome.
TypeInv ==
  /\ TypeOK
  /\ \A t \in Tabs : doc[t] = "posting" => outcome[t] # None

LEMMA TypeInvHolds == Spec => []TypeInv
<1>1. Init => TypeInv
  BY DEF Init, TypeInv, TypeOK, Session!Init, Docs
<1>2. TypeInv /\ [Next]_vars => TypeInv'
  <2> SUFFICES ASSUME TypeInv, [Next]_vars PROVE TypeInv'
    OBVIOUS
  <2> USE FormsAssumption
      DEF TypeInv, TypeOK, Docs, Goto, Forget, sessionVars, pageVars, tabVars,
          unset_csrf_cookie
  <2>1. CASE UNCHANGED vars
    BY <2>1 DEF vars
  <2>2. ASSUME NEW t \in Tabs, Load(t) \/ FollowRedirect(t) PROVE TypeInv'
    BY <2>2 DEF Load, FollowRedirect, Request, Services
  <2>3. ASSUME NEW t \in Tabs, NEW k \in {"service", "login"}
        PROVE  set_csrf_cookie(<<t, k>>)
                 => /\ cookie' \in (Tabs \X {"service", "login"}) \cup {None}
                    /\ stale' \in BOOLEAN
    <3>1. <<t, k>> \in Tabs \X {"service", "login"}
      BY <2>3
    <3> QED BY <3>1, Zenon DEF set_csrf_cookie
  <2>4. ASSUME NEW t \in Tabs, ServicePageArrives(t) PROVE TypeInv'
    <3>1. landed' \in BOOLEAN
      BY <2>4, Zenon DEF ServicePageArrives
    <3> QED BY <2>3, <2>4, <3>1 DEF ServicePageArrives
  <2>5. ASSUME NEW t \in Tabs, login_page(t)
        PROVE  /\ cookie' \in (Tabs \X {"service", "login"}) \cup {None}
               /\ stale' \in BOOLEAN
    BY <2>3, <2>5 DEF login_page
  <2>6. ASSUME NEW t \in Tabs, LoginPageArrives(t) PROVE TypeInv'
    BY <2>5, <2>6 DEF LoginPageArrives
  <2>7. ASSUME NEW t \in Tabs, NEW n \in Names, Submit(t, n) PROVE TypeInv'
    <3> PICK r \in ResultsWithoutRow(t, n) \cup ResultsWithRow(t, n) :
          /\ outcome' = [outcome EXCEPT ![t] = [service_name |-> n, result |-> r]]
          /\ owner' \in {owner, [owner EXCEPT ![n] = user]}
      BY <2>7 DEF Submit
    <3>1. [service_name |-> n, result |-> r] \in Outcome
      BY DEF Outcome, ResultsWithoutRow, ResultsWithRow
    <3> QED BY <2>7, <3>1 DEF Submit
  <2>8. ASSUME NEW t \in Tabs, Answered(t, Registered)
        PROVE  ErrorOf(outcome[t]) \in Error \cup {None}
    BY <2>8 DEF Answered, Registered, ErrorOf, Error, Outcome
  <2>9. ASSUME NEW t \in Tabs, Partial(t) PROVE TypeInv'
    BY <2>8, <2>9 DEF Partial, RowsOf
  <2>10. ASSUME NEW t \in Tabs, Redirect(t) PROVE TypeInv'
    BY <2>10 DEF Redirect, url_abspath_for
  <2>11. ASSUME NEW t \in Tabs, handle_unauthenticated(t) PROVE TypeInv'
    BY <2>5, <2>11 DEF handle_unauthenticated
  <2>12. ASSUME NEW t \in Tabs, ErrorAnswer(t) PROVE TypeInv'
    BY <2>12 DEF ErrorAnswer
  <2>13. ASSUME NEW t \in Tabs, NEW u \in Users, login_request(t, u) PROVE TypeInv'
    <3>1. landed' \in BOOLEAN
      BY <2>13, Zenon DEF login_request, sessionVars, TypeInv, TypeOK
    <3> QED BY <2>13, <3>1 DEF login_request, Session!Login
  <2>14. ASSUME NEW t \in Tabs, NEW u \in Users, login_callback(t, u) PROVE TypeInv'
    BY <2>14 DEF login_callback, Session!Login
  <2>15. ASSUME NEW t \in Tabs, logout_request(t) PROVE TypeInv'
    BY <2>15 DEF logout_request, Session!Logout
  <2>16. CASE SessionChanges
    BY <2>16 DEF SessionChanges, Session!Change
  <2>17. CASE TokenGetsOld
    BY <2>17 DEF TokenGetsOld
  <2> QED
    BY <2>1, <2>2, <2>4, <2>6, <2>7, <2>9, <2>10, <2>11, <2>12, <2>13, <2>14, <2>15,
       <2>16, <2>17
    DEF Next
<1> QED BY <1>1, <1>2, PTL DEF Spec

\* Every reachable state is well typed.
THEOREM TypeCorrect == Spec => []TypeOK
<1>1. TypeInv => TypeOK
  BY DEF TypeInv
<1> QED BY <1>1, TypeInvHolds, PTL

-----------------------------------------------------------------------------
(* Names.                                                                  *)

\* Only names that passed the browser get further.
NamesInv ==
  /\ \A t \in Tabs : outcome[t] # None =>
       outcome[t].result # "unprocessable" /\ FormPattern(outcome[t].service_name)
  /\ \A n \in Names : owner[n] # None => FormPattern(n)

LEMMA NamesInvHolds == Spec => []NamesInv
<1>1. Init => NamesInv
  BY DEF Init, NamesInv
<1>2. TypeInv /\ NamesInv /\ [Next]_vars => NamesInv'
  <2> SUFFICES ASSUME TypeInv, NamesInv, [Next]_vars PROVE NamesInv'
    OBVIOUS
  <2> USE DEF TypeInv, TypeOK, NamesInv
  <2>1. CASE UNCHANGED <<owner, outcome>>
    BY <2>1
  <2>2. ASSUME NEW t \in Tabs, UNCHANGED owner, Forget(t) PROVE NamesInv'
    BY <2>2 DEF Forget
  <2>3. ASSUME NEW t \in Tabs, NEW n \in Names, Submit(t, n) PROVE NamesInv'
    <3> PICK r \in ResultsWithoutRow(t, n) \cup ResultsWithRow(t, n) :
          /\ outcome' = [outcome EXCEPT ![t] = [service_name |-> n, result |-> r]]
          /\ owner' \in {owner, [owner EXCEPT ![n] = user]}
      BY <2>3 DEF Submit
    <3>1. n \in Name /\ FormPattern(n)
      BY <2>3, FormsAssumption DEF Submit
    <3>2. r # "unprocessable"
      BY <3>1, LimitsAgree DEF ResultsWithoutRow, ResultsWithRow
    <3> QED BY <3>1, <3>2
  <2> QED
    BY <2>1, <2>2, <2>3
    DEF Next, vars, tabVars, Load, FollowRedirect, Request, ServicePageArrives,
        LoginPageArrives, Partial, Redirect, handle_unauthenticated, ErrorAnswer,
        login_request, login_callback, logout_request, SessionChanges, TokenGetsOld
<1> QED BY <1>1, <1>2, TypeInvHolds, PTL DEF Spec

\* The four places that limit names agree, on every name.
THEOREM NamesFitHolds == Spec => []NamesFit
<1>1. TypeInv /\ NamesInv => NamesFit
  <2> SUFFICES ASSUME TypeInv, NamesInv PROVE NamesFit
    OBVIOUS
  <2>1. ASSUME NEW t \in Tabs, outcome[t] # None
        PROVE  outcome[t].service_name \in Name
    BY <2>1, FormsAssumption DEF TypeInv, TypeOK, Outcome
  <2> QED
    BY <2>1, LimitsAgree, FormsAssumption DEF NamesInv, NamesFit
<1> QED BY <1>1, TypeInvHolds, NamesInvHolds, PTL

-----------------------------------------------------------------------------
(* Whose form it is.                                                       *)

\* What the cookie fits, if it is a service form that is there, greets the current
\* user; and no page on its way would change that.
CookieInv ==
  /\ user \in {None, current}
  /\ \A t \in Tabs : doc[t] \in {"page", "posting", "pasted"} => greeted[t] # None
  /\ landed /\ current # None =>
       /\ ~ Crossing(current)
       /\ \A t \in Tabs :
            cookie = <<t, "service">> /\ doc[t] # "arriving"
            => greeted[t] \in {None, current}

LEMMA CookieInvHolds == Spec => []CookieInv
<1>1. Init => CookieInv
  BY DEF Init, CookieInv, Session!Init
<1>2. TypeInv /\ CookieInv /\ [Next]_vars => CookieInv'
  <2> SUFFICES ASSUME TypeInv, CookieInv, [Next]_vars PROVE CookieInv'
    OBVIOUS
  <2> USE FormsAssumption
      DEF TypeInv, TypeOK, CookieInv, Crossing, Goto, sessionVars, pageVars, tabVars,
          set_csrf_cookie, unset_csrf_cookie
  <2>1. CASE UNCHANGED vars
    BY <2>1 DEF vars
  <2>2. ASSUME NEW t \in Tabs, Load(t) \/ FollowRedirect(t) PROVE CookieInv'
    BY <2>2 DEF Load, FollowRedirect, Request
  <2>3. ASSUME NEW t \in Tabs, ServicePageArrives(t) PROVE CookieInv'
    BY <2>3 DEF ServicePageArrives
  <2>4. ASSUME NEW t \in Tabs, LoginPageArrives(t) PROVE CookieInv'
    BY <2>4 DEF LoginPageArrives, login_page
  <2>5. ASSUME NEW t \in Tabs, NEW n \in Names, Submit(t, n) PROVE CookieInv'
    BY <2>5 DEF Submit, FormShown
  <2>6. ASSUME NEW t \in Tabs, Partial(t) \/ Redirect(t) \/ ErrorAnswer(t)
        PROVE  CookieInv'
    BY <2>6 DEF Partial, Redirect, ErrorAnswer, Answered
  <2>7. ASSUME NEW t \in Tabs, handle_unauthenticated(t) PROVE CookieInv'
    BY <2>7 DEF handle_unauthenticated, login_page, Answered
  <2>8. ASSUME NEW t \in Tabs, NEW u \in Users, login_request(t, u) PROVE CookieInv'
    <3>1. CASE UNCHANGED sessionVars
      <4>1. cookie' \in {cookie, None} /\ doc'[t] \in {"error_page", "redirected"}
        BY <2>8 DEF login_request
      <4>2. \A s \in Tabs \ {t} : doc'[s] = doc[s]
        BY <2>8 DEF login_request
      <4>3. doc[t] # "arriving" /\ greeted' = greeted
        BY <2>8 DEF login_request
      <4> QED BY <3>1, <4>1, <4>2, <4>3
    <3>2. CASE ~ UNCHANGED sessionVars
      <4>1. current' = u /\ user' = u /\ cookie' = None
        BY <2>8, <3>2 DEF login_request, Session!Login
      <4>2. doc' = [doc EXCEPT ![t] = "redirected"] /\ greeted' = greeted
        BY <2>8, <3>2 DEF login_request
      <4>3. landed' => ~ Crossing(u)
        BY <2>8, <3>2, Zenon DEF login_request
      <4> QED BY <4>1, <4>2, <4>3
    <3> QED BY <3>1, <3>2
  <2>9. ASSUME NEW t \in Tabs, NEW u \in Users, login_callback(t, u) PROVE CookieInv'
    BY <2>9 DEF login_callback, Session!Login
  <2>10. ASSUME NEW t \in Tabs, logout_request(t) PROVE CookieInv'
    BY <2>10 DEF logout_request, Session!Logout
  <2>11. CASE SessionChanges \/ TokenGetsOld
    BY <2>11 DEF SessionChanges, TokenGetsOld, Session!Change
  <2> QED
    BY <2>1, <2>2, <2>3, <2>4, <2>5, <2>6, <2>7, <2>8, <2>9, <2>10, <2>11 DEF Next
<1> QED BY <1>1, <1>2, TypeInvHolds, PTL DEF Spec

\* Once a user's first page is there, or from a rudimentary login on, no form of a
\* page that greets someone else is accepted, in however many tabs.
THEOREM FormIsForItsUserHolds == Spec => []FormIsForItsUser
<1>1. CookieInv => FormIsForItsUser
  BY DEF CookieInv, FormIsForItsUser, FormShown, validate_csrf
<1> QED BY <1>1, CookieInvHolds, PTL

-----------------------------------------------------------------------------
(* What a tab shows.                                                       *)

\* With htmx, a tab that comes from elsewhere remembers no outcome.
ShownInv ==
  javascript =>
    /\ OutcomeShown
    /\ \A t \in Tabs :
         outcome[t] # None => doc[t] \in {"page", "posting", "pasted"}

LEMMA ShownInvHolds == Spec => []ShownInv
<1>1. Init => ShownInv
  BY DEF Init, ShownInv, OutcomeShown
<1>2. TypeInv /\ ShownInv /\ [Next]_vars => ShownInv'
  <2> SUFFICES ASSUME TypeInv, ShownInv, [Next]_vars, javascript' PROVE ShownInv'
    BY DEF ShownInv
  <2>0. javascript
    BY DEF Next, vars, Load, FollowRedirect, Request, ServicePageArrives,
           LoginPageArrives, Submit, Partial, Redirect, handle_unauthenticated,
           ErrorAnswer, login_request, login_callback, logout_request, SessionChanges,
           TokenGetsOld
  <2> USE <2>0, FormsAssumption
      DEF TypeInv, TypeOK, ShownInv, OutcomeShown, Goto, Forget, sessionVars, pageVars,
          tabVars
  <2>1. CASE UNCHANGED tabVars
    BY <2>1
  <2>2. ASSUME NEW t \in Tabs, Load(t) \/ FollowRedirect(t) PROVE ShownInv'
    BY <2>2 DEF Load, FollowRedirect, Request
  <2>3. ASSUME NEW t \in Tabs, ServicePageArrives(t) \/ LoginPageArrives(t)
        PROVE  ShownInv'
    BY <2>3 DEF ServicePageArrives, LoginPageArrives
  <2>4. ASSUME NEW t \in Tabs, NEW n \in Names, Submit(t, n) PROVE ShownInv'
    BY <2>4 DEF Submit
  <2>5. ASSUME NEW t \in Tabs, Partial(t) PROVE ShownInv'
    BY <2>5 DEF Partial, Answered, RowsOf, Outcome
  <2>6. ASSUME NEW t \in Tabs,
               \/ Redirect(t) \/ handle_unauthenticated(t) \/ ErrorAnswer(t)
        PROVE  ShownInv'
    BY <2>6 DEF Redirect, handle_unauthenticated, ErrorAnswer, Answered, Registered
  <2>7. ASSUME NEW t \in Tabs, NEW u \in Users, login_request(t, u) \/ login_callback(t, u)
        PROVE  ShownInv'
    BY <2>7 DEF login_request, login_callback
  <2>8. ASSUME NEW t \in Tabs, logout_request(t) PROVE ShownInv'
    BY <2>8 DEF logout_request
  <2> QED
    BY <2>1, <2>2, <2>3, <2>4, <2>5, <2>6, <2>7, <2>8
    DEF Next, vars, SessionChanges, TokenGetsOld
<1> QED BY <1>1, <1>2, TypeInvHolds, PTL DEF Spec

\* With htmx, however often and in however many tabs users submit, a tab shows what
\* came of its last registration.
THEOREM HtmxOutcomeShownHolds == Spec => []HtmxOutcomeShown
<1>1. ShownInv => HtmxOutcomeShown
  BY DEF ShownInv, HtmxOutcomeShown
<1> QED BY <1>1, ShownInvHolds, PTL

-----------------------------------------------------------------------------
(* Who is refused.                                                         *)

\* The login page is pasted into tab t, or about to be, and nobody is logged in.
LoginPasted(t) ==
  /\ auth = "rudimentary"
  /\ user = None
  /\ doc[t] # "page"
  /\ outcome[t] # None
  /\ outcome[t].result = "unauthenticated"

\* The cookie fits the form of the only tab in use, unless the form for the login
\* has the cookie: then the next submission is no request with a session.  A session
\* that has run out does not come back under a form with the rudimentary login.
FormFits(t) ==
  /\ doc[t] \in {"page", "posting", "pasted"}
       => cookie = <<t, "service">> \/ LoginPasted(t)
  /\ outcome[t] # None /\ outcome[t].result = "unauthenticated"
       => auth = "keycloak" \/ user = None
  /\ outcome[t] # None /\ outcome[t].result = "refused"
       => cookie = <<t, "service">> /\ stale

OnlyTabInv ==
  \A t \in Tabs :
    javascript /\ (\A s \in Tabs \ {t} : doc[s] = "blank") => FormFits(t)

LEMMA OnlyTabInvHolds == Spec => []OnlyTabInv
<1>1. Init => OnlyTabInv
  BY DEF Init, OnlyTabInv, FormFits
<1>2. TypeInv /\ ShownInv /\ OnlyTabInv /\ [Next]_vars => OnlyTabInv'
  <2> SUFFICES ASSUME TypeInv, ShownInv, OnlyTabInv, [Next]_vars,
                      NEW t \in Tabs, javascript',
                      \A s \in Tabs \ {t} : doc'[s] = "blank"
               PROVE  FormFits(t)'
    BY DEF OnlyTabInv
  <2> USE FormsAssumption
      DEF TypeInv, TypeOK, LoginPasted, FormFits, Forget, sessionVars, pageVars,
          tabVars, set_csrf_cookie, unset_csrf_cookie
  <2>1. ASSUME NEW s \in Tabs, NEW d \in Docs \ {"blank"}, Goto(s, d)
        PROVE  s = t /\ doc'[t] = d /\ \A r \in Tabs \ {t} : doc[r] = "blank"
    BY <2>1 DEF Docs, Goto
  <2>2. ASSUME UNCHANGED javascript, \A s \in Tabs \ {t} : doc[s] = "blank"
        PROVE  FormFits(t)
    BY <2>2 DEF OnlyTabInv
  <2>3. CASE UNCHANGED vars
    BY <2>2, <2>3 DEF vars
  <2>4. CASE SessionChanges \/ TokenGetsOld
    <3>1. FormFits(t) /\ UNCHANGED <<auth, doc, outcome, cookie>>
      BY <2>2, <2>4 DEF SessionChanges, TokenGetsOld
    <3>2. CASE SessionChanges
      <4>1. (auth = "rudimentary" => user' = None) /\ stale' = stale
        BY <3>2 DEF SessionChanges
      <4> QED BY <3>1, <4>1
    <3>3. CASE TokenGetsOld
      <4>1. user' = user /\ stale' = (cookie # None)
        BY <3>3 DEF TokenGetsOld
      <4>2. <<t, "service">> # None
        OBVIOUS
      <4>3. cookie = <<t, "service">> => stale'
        BY <4>1, <4>2, Zenon
      <4> QED BY <3>1, <4>1, <4>3
    <3> QED BY <2>4, <3>2, <3>3
  <2>5. ASSUME NEW s \in Tabs, Load(s) \/ FollowRedirect(s) PROVE FormFits(t)'
    <3>1. s = t /\ doc'[t] = "arriving" /\ UNCHANGED javascript
      BY <2>1, <2>5 DEF Load, FollowRedirect, Request, Docs
    <3>2. outcome'[t] = None
      BY <2>5, <3>1 DEF Load, FollowRedirect, ShownInv
    <3> QED BY <3>1, <3>2
  <2>6. ASSUME NEW s \in Tabs, ServicePageArrives(s) \/ LoginPageArrives(s)
        PROVE  FormFits(t)'
    <3>1. s = t /\ doc[t] = "arriving" /\ UNCHANGED <<javascript, outcome>>
      BY <2>1, <2>6 DEF ServicePageArrives, LoginPageArrives, Docs
    <3>2. outcome'[t] = None
      BY <3>1 DEF ShownInv
    <3>3. doc'[t] = "page" => cookie' = <<t, "service">>
      BY <2>1, <2>6, <3>1 DEF ServicePageArrives, LoginPageArrives, Docs
    <3>4. doc'[t] \in {"page", "login"}
      BY <2>1, <2>6 DEF ServicePageArrives, LoginPageArrives, Docs
    <3> QED BY <3>2, <3>3, <3>4
  <2>7. ASSUME NEW s \in Tabs, NEW n \in Names, Submit(s, n) PROVE FormFits(t)'
    <3>1. /\ s = t /\ doc'[t] = "posting"
          /\ UNCHANGED <<javascript, auth, user, cookie, stale>>
          /\ FormFits(t) /\ doc[t] \in {"page", "pasted"}
      BY <2>1, <2>2, <2>7 DEF Submit, Docs, FormShown
    <3>2. PICK r \in ResultsWithoutRow(t, n) \cup ResultsWithRow(t, n) :
            outcome'[t] = [service_name |-> n, result |-> r]
      BY <2>7, <3>1 DEF Submit
    <3>3. CASE user = None
      <4>1. r = "unauthenticated"
        BY <3>2, <3>3 DEF ResultsWithoutRow, ResultsWithRow
      <4>2. outcome'[t] # None
        BY <2>7, <3>1, <3>2, <4>1 DEF Outcome
      <4>3. outcome'[t].result = "unauthenticated"
        BY <3>2, <4>1
      <4> QED BY <3>1, <3>3, <4>2, <4>3
    <3>4. CASE user # None
      <4>1. cookie = <<t, "service">>
        BY <3>1, <3>4
      <4>2. (r = "refused" => stale) /\ r # "unauthenticated"
        BY <3>2, <3>4, <4>1 DEF ResultsWithoutRow, ResultsWithRow, validate_csrf
      <4> QED BY <3>1, <3>2, <4>1, <4>2
    <3> QED BY <3>3, <3>4
  <2>8. ASSUME NEW s \in Tabs, Partial(s) \/ Redirect(s) \/ ErrorAnswer(s)
        PROVE  FormFits(t)'
    <3>1. /\ s = t /\ javascript' = javascript /\ FormFits(t)
          /\ doc[t] = "posting" /\ doc'[t] = "page"
          /\ UNCHANGED <<cookie, stale, outcome>>
          /\ outcome[t].result # "unauthenticated"
      BY <2>1, <2>2, <2>8 DEF Partial, Redirect, ErrorAnswer, Answered, Registered, Docs
    <3> QED BY <3>1
  <2>9. ASSUME NEW s \in Tabs, handle_unauthenticated(s) PROVE FormFits(t)'
    <3>1. /\ s = t /\ doc[t] = "posting" /\ doc'[t] = "pasted"
          /\ login_page(t) /\ FormFits(t)
          /\ UNCHANGED <<auth, user, outcome>>
          /\ outcome[t].result = "unauthenticated"
      BY <2>1, <2>2, <2>9 DEF handle_unauthenticated, Answered, Docs
    <3>2. CASE auth = "rudimentary"
      <4>1. LoginPasted(t)'
        BY <3>1, <3>2
      <4> QED BY <3>1, <4>1
    <3>3. CASE auth # "rudimentary"
      <4>1. UNCHANGED <<cookie, stale>>
        BY <3>1, <3>3 DEF login_page
      <4> QED BY <3>1, <3>3, <4>1
    <3> QED BY <3>2, <3>3
  <2>10. ASSUME NEW s \in Tabs,
                \/ logout_request(s)
                \/ \E u \in Users : login_request(s, u) \/ login_callback(s, u)
         PROVE  FormFits(t)'
    <3>1. s = t /\ doc'[t] \in {"error_page", "redirected"} /\ outcome'[t] = None
      BY <2>1, <2>10 DEF logout_request, login_request, login_callback, Docs
    <3> QED BY <3>1
  <2> QED
    BY <2>3, <2>4, <2>5, <2>6, <2>7, <2>8, <2>9, <2>10 DEF Next
<1> QED BY <1>1, <1>2, TypeInvHolds, ShownInvHolds, PTL DEF Spec

\* With htmx, a user who keeps to one tab is refused only for an old form, whatever
\* happens to the session in between.
THEOREM RefusedOnlyIfOldHolds == Spec => []RefusedOnlyIfOld
<1>1. OnlyTabInv => RefusedOnlyIfOld
  BY DEF OnlyTabInv, FormFits, RefusedOnlyIfOld
<1> QED BY <1>1, OnlyTabInvHolds, PTL

\* Without Javascript only the arrival of a page puts one there.
OnlyPageInv ==
  \A t \in Tabs :
    /\ ~ javascript
    /\ doc[t] = "page"
    /\ \A s \in Tabs \ {t} : doc[s] = "blank"
    => cookie = <<t, "service">>

LEMMA OnlyPageInvHolds == Spec => []OnlyPageInv
<1>1. Init => OnlyPageInv
  BY DEF Init, OnlyPageInv
<1>2. TypeInv /\ OnlyPageInv /\ [Next]_vars => OnlyPageInv'
  <2> SUFFICES ASSUME TypeInv, OnlyPageInv, [Next]_vars,
                      NEW t \in Tabs, ~ javascript', doc'[t] = "page",
                      \A s \in Tabs \ {t} : doc'[s] = "blank"
               PROVE  cookie' = <<t, "service">>
    BY DEF OnlyPageInv
  <2> USE DEF TypeInv, TypeOK
  <2>1. ASSUME NEW s \in Tabs, NEW d \in Docs \ {"blank"}, Goto(s, d)
        PROVE  s = t /\ d = "page"
    BY <2>1 DEF Docs, Goto
  <2>2. CASE UNCHANGED <<javascript, doc, cookie>>
    BY <2>2 DEF OnlyPageInv
  <2>3. ASSUME NEW s \in Tabs, ServicePageArrives(s)
        PROVE  cookie' = <<t, "service">>
    BY <2>1, <2>3 DEF ServicePageArrives, set_csrf_cookie, Docs
  <2>4. ASSUME NEW s \in Tabs
        PROVE  /\ ~ Partial(s) /\ ~ handle_unauthenticated(s) /\ ~ ErrorAnswer(s)
               /\ ~ LoginPageArrives(s) /\ ~ Redirect(s) /\ ~ Load(s)
               /\ ~ FollowRedirect(s) /\ ~ logout_request(s)
    BY <2>1
    DEF Docs, Partial, handle_unauthenticated, ErrorAnswer, LoginPageArrives, Redirect,
        Load, FollowRedirect, Request, logout_request
  <2>5. ASSUME NEW s \in Tabs
        PROVE  /\ \A n \in Names : ~ Submit(s, n)
               /\ \A u \in Users : ~ login_request(s, u) /\ ~ login_callback(s, u)
    BY <2>1 DEF Docs, Submit, login_request, login_callback
  <2> QED
    BY <2>2, <2>3, <2>4, <2>5 DEF Next, vars, tabVars, SessionChanges, TokenGetsOld
<1> QED BY <1>1, <1>2, TypeInvHolds, PTL DEF Spec

\* With and without Javascript, a user who keeps to one tab has a page that can be
\* posted from whenever there is one.
THEOREM PageCanPostHolds == Spec => []PageCanPost
<1>1. OnlyTabInv /\ OnlyPageInv => PageCanPost
  BY DEF OnlyTabInv, OnlyPageInv, FormFits, LoginPasted, PageCanPost
<1> QED BY <1>1, OnlyTabInvHolds, OnlyPageInvHolds, PTL
=============================================================================
