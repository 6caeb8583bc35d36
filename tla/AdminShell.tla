----------------------------- MODULE AdminShell -----------------------------
(***************************************************************************)
(* The frame of the admin panel: signing in and out (auth.tsx), the guard  *)
(* of its pages, the client that every page sends its requests through     *)
(* (apiClient.ts) and the forms, in the tabs of one browser, which share   *)
(* localStorage.  An account stands for its token: Django REST framework   *)
(* keeps one token for each.                                               *)
(***************************************************************************)
EXTENDS Naturals

CONSTANTS
    Tabs,
    Accounts,    \* administrators
    None,        \* null
    MaxClicks    \* bound on what people do

ASSUME AdminShellAssumption == None \notin Accounts /\ MaxClicks \in Nat

VARIABLES
    valid,      \* accounts that the backend knows
    stored,     \* localStorage: admin_access_token and admin_current_user
    token,      \* AuthProvider's state in each tab
    user,
    path,       \* what the router shows: login, home, list or form
    from,       \* the page that ProtectedRoute refused
    login,      \* LoginPage.onFinish under way: whose, and which request
    form,       \* the mounted form: id, whose values it shows, ready
    reqs,       \* requests of each tab in flight
    clicks,
    acted,      \* history: the token of the last request
    foreign,    \* history: another tab signed in or out since this one looked
    jumped      \* history: the forms, by n, whose id was changed, and their saves

session == <<stored, token, user>>
place == <<path, from, form>>
vars == <<valid, session, place, login, reqs, clicks, acted, foreign, jumped>>

Pages == {"home", "list"}
Someone == Accounts \cup {None}
Form == [id : Someone, of : Someone, ready : BOOLEAN, n : Nat]
NoForm == [id |-> None, of |-> None, ready |-> FALSE, n |-> 0]
Attempt == [who : Accounts, stage : {"token", "profile"}]
Request == [n : Nat, kind : {"page", "load", "save"}, as : Someone, id : Someone,
            of : Someone, ans : {"none", "ok", "failed", "401"}]

Click == clicks < MaxClicks /\ clicks' = clicks + 1

-----------------------------------------------------------------------------
(* apiFetch, up to its await: the token is read when the request is sent *)

Req(as, n, kind, id, of) ==
    [n |-> n, kind |-> kind, as |-> as, id |-> id, of |-> of, ans |-> "none"]

\* Mutant: the client sends the token of the tab's state
SendHeld(t, n, kind, id, of) ==
    /\ reqs' = [reqs EXCEPT ![t] = @ \cup {Req(token[t], n, kind, id, of)}]
    /\ acted' = token[t]

Send(t, n, kind, id, of) ==
    /\ reqs' = [reqs EXCEPT ![t] = @ \cup {Req(stored.token, n, kind, id, of)}]
    /\ acted' = stored.token

-----------------------------------------------------------------------------
(* The router *)

\* Mutant: the routes are not behind ProtectedRoute
GoUnguarded(t, p, n, held, as, kept) ==
    /\ form' = [form EXCEPT ![t] = NoForm]
    /\ path' = [path EXCEPT ![t] = p]
    /\ reqs' = [reqs EXCEPT ![t] = kept \cup {Req(as, n, "page", None, None)}]
    /\ acted' = as
    /\ UNCHANGED from

\* App's routes behind ProtectedRoute, for a tab that holds a token or None; the
\* page that is mounted loads as the account that is stored
Go(t, p, n, held, as, kept) ==
    /\ form' = [form EXCEPT ![t] = NoForm]
    /\ IF held = None
       THEN /\ path' = [path EXCEPT ![t] = "login"]
            /\ from' = [from EXCEPT ![t] = p]
            /\ reqs' = [reqs EXCEPT ![t] = kept]
            /\ acted' = acted
       ELSE /\ path' = [path EXCEPT ![t] = p]
            /\ from' = from
            /\ reqs' = [reqs EXCEPT ![t] = kept \cup {Req(as, n, "page", None, None)}]
            /\ acted' = as

\* A link of AdminLayout, HomePage or a list
visit(t, p) ==
    /\ Click /\ path[t] # "login"
    /\ UNCHANGED <<valid, session, login, foreign, jumped>>
    /\ Go(t, p, clicks', token[t], stored.token, reqs[t])

\* A document is loaded: AuthProvider reads the storage, ConfigProvider and the
\* page send their requests; what was in flight is gone
Boot(t, p) ==
    LET out == stored.token = None \/ p = "login" IN
    /\ UNCHANGED <<valid, stored, jumped>>
    /\ token' = [token EXCEPT ![t] = stored.token]
    /\ user' = [user EXCEPT ![t] = stored.user]
    /\ login' = [login EXCEPT ![t] = None]
    /\ form' = [form EXCEPT ![t] = NoForm]
    /\ reqs' = [reqs EXCEPT ![t] =
                  IF out THEN {} ELSE {Req(stored.token, clicks', "page", None, None)}]
    /\ acted' = stored.token
    /\ foreign' = [foreign EXCEPT ![t] = FALSE]
    /\ path' = [path EXCEPT ![t] = IF out THEN "login" ELSE p]
    /\ from' = [from EXCEPT ![t] = IF p = "login" \/ ~out THEN "list" ELSE p]

\* The admin opens or reloads the panel in a tab
open(t, p) == Click /\ Boot(t, p)

-----------------------------------------------------------------------------
(* Signing in and out *)

\* onFinish, login: the button is loading until it is through
onFinish(t, u) ==
    /\ Click /\ path[t] = "login" /\ login[t] = None
    /\ login' = [login EXCEPT ![t] = [who |-> u, stage |-> "token"]]
    /\ UNCHANGED <<valid, session, place, reqs, acted, foreign, jumped>>

\* get_token and current_profile are refused, or fail
refused(t) ==
    /\ login[t] # None
    /\ login' = [login EXCEPT ![t] = None]
    /\ UNCHANGED <<valid, session, place, reqs, clicks, acted, foreign, jumped>>

gotToken(t) ==
    /\ login[t] # None /\ login[t].stage = "token" /\ login[t].who \in valid
    /\ login' = [login EXCEPT ![t].stage = "profile"]
    /\ UNCHANGED <<valid, session, place, reqs, clicks, acted, foreign, jumped>>

\* Another tab holds a state that the storage has left
Shadow(t) == [x \in Tabs |-> IF x = t THEN FALSE ELSE TRUE]

\* The profile is in: both keys, both states, and back to the page
signedIn(t) ==
    LET u == login[t].who IN
    /\ login[t] # None /\ login[t].stage = "profile" /\ u \in valid
    /\ stored' = [token |-> u, user |-> u]
    /\ token' = [token EXCEPT ![t] = u]
    /\ user' = [user EXCEPT ![t] = u]
    /\ login' = [login EXCEPT ![t] = None]
    /\ foreign' = Shadow(t)
    /\ UNCHANGED <<valid, clicks, jumped>>
    /\ Go(t, from[t], clicks, u, u, reqs[t])

\* Mutant: the user stays in localStorage
handleLogoutToken(t) ==
    /\ Click /\ path[t] # "login"
    /\ stored' = [stored EXCEPT !.token = None]
    /\ token' = [token EXCEPT ![t] = None]
    /\ user' = [user EXCEPT ![t] = None]
    /\ foreign' = Shadow(t)
    /\ path' = [path EXCEPT ![t] = "login"]
    /\ UNCHANGED <<valid, from, form, login, reqs, acted, jumped>>

\* Mutant: localStorage is not cleared
handleLogoutState(t) ==
    /\ Click /\ path[t] # "login"
    /\ stored' = stored
    /\ token' = [token EXCEPT ![t] = None]
    /\ user' = [user EXCEPT ![t] = None]
    /\ foreign' = Shadow(t)
    /\ path' = [path EXCEPT ![t] = "login"]
    /\ UNCHANGED <<valid, from, form, login, reqs, acted, jumped>>

\* handleLogout, logout: the state changes at once, navigate in a transition, so
\* ProtectedRoute may still note the page that was shown
handleLogout(t) ==
    /\ Click /\ path[t] # "login"
    /\ stored' = [token |-> None, user |-> None]
    /\ token' = [token EXCEPT ![t] = None]
    /\ user' = [user EXCEPT ![t] = None]
    /\ foreign' = Shadow(t)
    /\ path' = [path EXCEPT ![t] = "login"]
    /\ \E p \in Pages \cap {"list", path[t]} : from' = [from EXCEPT ![t] = p]
    /\ form' = [form EXCEPT ![t] = NoForm]
    /\ UNCHANGED <<valid, login, reqs, acted, jumped>>

-----------------------------------------------------------------------------
(* The forms: one instance per mount, n tells them apart *)

openForm(t, id) ==
    /\ Click /\ path[t] # "login"
    /\ path' = [path EXCEPT ![t] = "form"]
    /\ form' = [form EXCEPT ![t] = [id |-> id, of |-> None, ready |-> id = None,
                                    n |-> clicks']]
    /\ UNCHANGED <<valid, session, from, login, foreign, jumped>>
    /\ IF id = None THEN UNCHANGED <<reqs, acted>>
       ELSE Send(t, clicks', "load", id, None)

\* Back in the history to another id: the instance stays, with its values
jumpForm(t, id) ==
    /\ Click /\ path[t] = "form" /\ form[t].id \notin {None, id}
    /\ form' = [form EXCEPT ![t].id = id]
    /\ jumped' = jumped \cup {form[t].n}
    /\ UNCHANGED <<valid, session, path, from, login, foreign>>
    /\ Send(t, form[t].n, "load", id, None)

\* The button does not wait for an earlier click
submit(t) ==
    /\ Click /\ path[t] = "form" /\ form[t].ready
    /\ jumped' = IF form[t].n \in jumped THEN jumped \cup {clicks'} ELSE jumped
    /\ UNCHANGED <<valid, session, place, login, foreign>>
    /\ Send(t, clicks', "save", form[t].id, form[t].of)

-----------------------------------------------------------------------------
(* Answers *)

\* The backend, or the network, answers
Answered(t, r, ans) ==
    /\ r.ans = "none"
    /\ ans = "401" <=> r.as \notin valid
    /\ reqs' = [reqs EXCEPT ![t] = (@ \ {r}) \cup {[r EXCEPT !.ans = ans]}]
    /\ UNCHANGED <<valid, session, place, login, clicks, acted, foreign, jumped>>

\* 401: removeToken removes another key, and the document is loaded anew
unauthorized(t, r) ==
    /\ r.ans = "401"
    /\ clicks' = clicks
    /\ Boot(t, "login")

\* Mutant: the values of a late load reach the form that is shown now
loadedLate(t, r) ==
    /\ r.kind = "load" /\ r.ans = "ok"
    /\ reqs' = [reqs EXCEPT ![t] = @ \ {r}]
    /\ form' = [form EXCEPT ![t].of = r.id, ![t].ready = TRUE]
    /\ UNCHANGED <<valid, session, path, from, login, clicks, acted, foreign, jumped>>

\* setFieldsValue and setLoading reach the instance that asked
loaded(t, r) ==
    /\ r.kind = "load" /\ r.ans = "ok"
    /\ reqs' = [reqs EXCEPT ![t] = @ \ {r}]
    /\ form' = IF r.n = form[t].n
               THEN [form EXCEPT ![t].of = r.id, ![t].ready = TRUE] ELSE form
    /\ UNCHANGED <<valid, session, path, from, login, clicks, acted, foreign, jumped>>

\* navigate() of a form that could not load or has saved, mounted or not
leave(t, r) ==
    /\ \/ r.kind = "load" /\ r.ans = "failed"
       \/ r.kind = "save" /\ r.ans = "ok"
    /\ Go(t, "list", r.n, token[t], stored.token, reqs[t] \ {r})
    /\ UNCHANGED <<valid, session, login, clicks, foreign, jumped>>

\* A list is shown, or an error message
noted(t, r) ==
    /\ \/ r.kind = "page" /\ r.ans \in {"ok", "failed"}
       \/ r.kind = "save" /\ r.ans = "failed"
    /\ reqs' = [reqs EXCEPT ![t] = @ \ {r}]
    /\ UNCHANGED <<valid, session, place, login, clicks, acted, foreign, jumped>>

\* An account is deleted, or made
changeAccount(u) ==
    /\ Click
    /\ valid' = IF u \in valid THEN valid \ {u} ELSE valid \cup {u}
    /\ UNCHANGED <<session, place, login, reqs, acted, foreign, jumped>>

-----------------------------------------------------------------------------
Init ==
    /\ valid = Accounts /\ stored = [token |-> None, user |-> None]
    /\ token = [t \in Tabs |-> None] /\ user = [t \in Tabs |-> None]
    /\ path = [t \in Tabs |-> "login"] /\ from = [t \in Tabs |-> "list"]
    /\ login = [t \in Tabs |-> None] /\ form = [t \in Tabs |-> NoForm]
    /\ reqs = [t \in Tabs |-> {}]
    /\ clicks = 0 /\ acted = None
    /\ foreign = [t \in Tabs |-> FALSE] /\ jumped = {}

TabNext(t) ==
    \/ \E p \in Pages : visit(t, p) \/ open(t, p)
    \/ \E u \in Accounts : onFinish(t, u)
    \/ refused(t) \/ gotToken(t) \/ signedIn(t) \/ handleLogout(t)
    \/ \E id \in Someone : openForm(t, id)
    \/ \E id \in Accounts : jumpForm(t, id)
    \/ submit(t)
    \/ \E r \in reqs[t] :
          \/ \E ans \in {"ok", "failed", "401"} : Answered(t, r, ans)
          \/ unauthorized(t, r) \/ loaded(t, r) \/ leave(t, r) \/ noted(t, r)

Next == (\E t \in Tabs : TabNext(t)) \/ \E u \in Accounts : changeAccount(u)

Spec == Init /\ [][Next]_vars

-----------------------------------------------------------------------------
\* Every variable holds what the panel puts there.
TypeOK ==
    /\ valid \subseteq Accounts /\ stored \in [token : Someone, user : Someone]
    /\ token \in [Tabs -> Someone] /\ user \in [Tabs -> Someone]
    /\ path \in [Tabs -> Pages \cup {"login", "form"}] /\ from \in [Tabs -> Pages]
    /\ login \in [Tabs -> Attempt \cup {None}]
    /\ form \in [Tabs -> Form]
    /\ reqs \in [Tabs -> SUBSET Request]
    /\ clicks \in Nat /\ acted \in Someone
    /\ foreign \in [Tabs -> BOOLEAN] /\ jumped \subseteq Nat

\* The token and the user belong together, in localStorage and in every tab,
\* whichever tabs sign in, sign out, reload and are thrown out in between.
PairCoherent ==
    /\ stored.token = stored.user
    /\ \A t \in Tabs : token[t] = user[t]

\* Only a tab that holds a token shows a page behind ProtectedRoute, also when a
\* late answer sends it there.
Guarded == \A t \in Tabs : path[t] # "login" => token[t] # None

\* A tab shows the account in whose name it acts, unless another tab has signed
\* in or out since.
InStep == \A t \in Tabs : foreign[t] \/ token[t] = stored.token

\* A form saves the values of the record that it was opened for, whatever loads
\* are late and whatever became of the forms before it, unless its own id was
\* changed under it.
SavedOwn ==
    \A t \in Tabs : \A r \in reqs[t] :
        r.kind = "save" => r.of = r.id \/ r.n \in jumped

\* The tabs together behave as one session of one account.
Account == INSTANCE OneAccount WITH who <- stored.user, acting <- acted
OneSession == Account!Spec
=============================================================================
