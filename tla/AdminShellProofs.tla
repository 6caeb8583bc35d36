-------------------------- MODULE AdminShellProofs --------------------------
(***************************************************************************)
(* The session of the admin panel for any number of tabs, accounts and     *)
(* clicks: the token and the user stay together, protected pages are shown *)
(* to tabs that hold a token, and the tabs implement OneAccount.           *)
(***************************************************************************)
EXTENDS AdminShell, TLAPS

\* What the router does keeps the types of what it writes.
LEMMA GoTypes ==
    ASSUME TypeOK, NEW t \in Tabs, NEW p \in Pages, NEW n \in Nat,
           NEW held \in Someone, NEW as \in Someone, NEW kept \in SUBSET Request,
           Go(t, p, n, held, as, kept)
    PROVE  /\ path' \in [Tabs -> Pages \cup {"login", "form"}] /\ from' \in [Tabs -> Pages]
           /\ form' \in [Tabs -> Form]
           /\ reqs' \in [Tabs -> SUBSET Request] /\ acted' \in Someone
  <1>1. NoForm \in Form
    BY DEF NoForm, Form, Someone
  <1>2. Req(as, n, "page", None, None) \in Request
    BY DEF Req, Request, Someone
  <1>3. kept \cup {Req(as, n, "page", None, None)} \in SUBSET Request
    BY <1>2
  <1>4. form' \in [Tabs -> Form]
    BY <1>1 DEF Go, TypeOK
  <1>5. CASE held = None
    <2>1. path' = [path EXCEPT ![t] = "login"] /\ from' = [from EXCEPT ![t] = p]
      BY <1>5 DEF Go
    <2>2. reqs' = [reqs EXCEPT ![t] = kept] /\ acted' = acted
      BY <1>5 DEF Go
    <2>3. path' \in [Tabs -> Pages \cup {"login", "form"}] /\ from' \in [Tabs -> Pages]
      BY <2>1 DEF TypeOK
    <2>4. reqs' \in [Tabs -> SUBSET Request] /\ acted' \in Someone
      BY <2>2 DEF TypeOK
    <2>5. QED
      BY <1>4, <2>3, <2>4
  <1>6. CASE held # None
    <2>1. path' = [path EXCEPT ![t] = p] /\ from' = from
      BY <1>6 DEF Go
    <2>2. /\ reqs' = [reqs EXCEPT ![t] = kept \cup {Req(as, n, "page", None, None)}]
          /\ acted' = as
      BY <1>6 DEF Go
    <2>3. path' \in [Tabs -> Pages \cup {"login", "form"}] /\ from' \in [Tabs -> Pages]
      BY <2>1 DEF TypeOK
    <2>4. reqs' \in [Tabs -> SUBSET Request] /\ acted' \in Someone
      BY <1>3, <2>2 DEF TypeOK
    <2>5. QED
      BY <1>4, <2>3, <2>4
  <1>7. QED
    BY <1>5, <1>6

\* A document that is loaded has a state of the right types.
LEMMA BootTypes ==
    ASSUME TypeOK, NEW t \in Tabs, NEW p \in Pages \cup {"login"}, Boot(t, p),
           clicks' \in Nat
    PROVE  TypeOK'
  <1>1. NoForm \in Form
    BY DEF NoForm, Form, Someone
  <1>2. stored.token \in Someone /\ stored.user \in Someone
    BY DEF TypeOK
  <1>3. path' \in [Tabs -> Pages \cup {"login", "form"}] /\ from' \in [Tabs -> Pages]
    BY DEF Boot, TypeOK, Pages
  <1>4. /\ token' \in [Tabs -> Someone] /\ user' \in [Tabs -> Someone]
        /\ login' \in [Tabs -> Attempt \cup {None}]
        /\ form' \in [Tabs -> Form]
    BY <1>1, <1>2 DEF Boot, TypeOK
  <1>5. reqs' \in [Tabs -> SUBSET Request]
    <2>1. Req(stored.token, clicks', "page", None, None) \in Request
      BY <1>2 DEF Req, Request, Someone
    <2>2. (IF stored.token = None \/ p = "login" THEN {}
           ELSE {Req(stored.token, clicks', "page", None, None)}) \in SUBSET Request
      BY <2>1
    <2>3. QED
      BY <2>2 DEF Boot, TypeOK
  <1>6. QED
    BY <1>2, <1>3, <1>4, <1>5 DEF Boot, TypeOK

\* Sending a request keeps the types of what it writes.
LEMMA SendTypes ==
    ASSUME TypeOK, NEW t \in Tabs, NEW n \in Nat, NEW kind \in {"page", "load", "save"},
           NEW id \in Someone, NEW of \in Someone, Send(t, n, kind, id, of)
    PROVE  reqs' \in [Tabs -> SUBSET Request] /\ acted' \in Someone
  <1>1. Req(stored.token, n, kind, id, of) \in Request
    BY DEF Req, Request, TypeOK
  <1>2. QED
    BY <1>1 DEF Send, TypeOK

\* A step of a tab keeps the types.
LEMMA TabTypes ==
    ASSUME TypeOK, NEW t \in Tabs, TabNext(t)
    PROVE  TypeOK'
  <1> USE DEF session, place
  <1>0. NoForm \in Form
    BY DEF NoForm, Form, Someone
  <1>1. ASSUME NEW p \in Pages, visit(t, p) PROVE TypeOK'
    <2>1. clicks' \in Nat /\ Go(t, p, clicks', token[t], stored.token, reqs[t])
      BY <1>1 DEF visit, Click, TypeOK
    <2>2. token[t] \in Someone /\ stored.token \in Someone /\ reqs[t] \in SUBSET Request
      BY DEF TypeOK
    <2>3. /\ path' \in [Tabs -> Pages \cup {"login", "form"}] /\ from' \in [Tabs -> Pages]
          /\ form' \in [Tabs -> Form]
          /\ reqs' \in [Tabs -> SUBSET Request] /\ acted' \in Someone
      BY <2>1, <2>2, GoTypes
    <2>4. QED
      BY <1>1, <2>1, <2>3 DEF visit, TypeOK
  <1>2. ASSUME NEW p \in Pages, open(t, p) PROVE TypeOK'
    BY <1>2, BootTypes DEF open, Click, TypeOK
  <1>3. ASSUME NEW u \in Accounts, onFinish(t, u) PROVE TypeOK'
    BY <1>3 DEF onFinish, Click, TypeOK, Attempt
  <1>4. CASE refused(t)
    BY <1>4 DEF refused, TypeOK
  <1>5. CASE gotToken(t)
    <2>1. login[t] \in Attempt
      BY <1>5 DEF gotToken, TypeOK
    <2>2. [login[t] EXCEPT !.stage = "profile"] \in Attempt
      BY <2>1 DEF Attempt
    <2>3. login' \in [Tabs -> Attempt \cup {None}]
      BY <1>5, <2>2 DEF gotToken, TypeOK
    <2>4. QED
      BY <1>5, <2>3 DEF gotToken, TypeOK
  <1>6. CASE signedIn(t)
    <2>1. login[t].who \in Accounts
      BY <1>6 DEF signedIn, TypeOK
    <2>2. /\ Go(t, from[t], clicks, login[t].who, login[t].who, reqs[t])
          /\ from[t] \in Pages /\ clicks \in Nat /\ reqs[t] \in SUBSET Request
          /\ login[t].who \in Someone
      BY <1>6, <2>1 DEF signedIn, TypeOK, Someone
    <2>3. /\ path' \in [Tabs -> Pages \cup {"login", "form"}] /\ from' \in [Tabs -> Pages]
          /\ form' \in [Tabs -> Form]
          /\ reqs' \in [Tabs -> SUBSET Request] /\ acted' \in Someone
      BY <2>2, GoTypes
    <2>4. QED
      BY <1>6, <2>2, <2>3 DEF signedIn, TypeOK, Shadow
  <1>7. CASE handleLogout(t)
    BY <1>0, <1>7 DEF handleLogout, Click, TypeOK, Someone, Shadow, Pages
  <1>8. ASSUME NEW id \in Someone, openForm(t, id) PROVE TypeOK'
    <2>1. clicks' \in Nat
      BY <1>8 DEF openForm, Click, TypeOK
    <2>2. reqs' \in [Tabs -> SUBSET Request] /\ acted' \in Someone
      <3>1. CASE id = None
        BY <1>8, <3>1 DEF openForm, TypeOK
      <3>2. CASE id # None
        BY <1>8, <2>1, <3>2, SendTypes DEF openForm, Someone
      <3>3. QED
        BY <3>1, <3>2
    <2>3. path' \in [Tabs -> Pages \cup {"login", "form"}]
      BY <1>8 DEF openForm, TypeOK
    <2>4. [id |-> id, of |-> None, ready |-> id = None, n |-> clicks']
              \in Form
      BY <2>1 DEF Someone, Form
    <2>5. form' \in [Tabs -> Form]
      BY <1>8, <2>4 DEF openForm, TypeOK
    <2>6. QED
      BY <1>8, <2>1, <2>2, <2>3, <2>5 DEF openForm, TypeOK
  <1>9. ASSUME NEW id \in Accounts, jumpForm(t, id) PROVE TypeOK'
    <2>1. id \in Someone /\ None \in Someone /\ form[t].n \in Nat
      BY DEF Someone, Form, TypeOK
    <2>2. reqs' \in [Tabs -> SUBSET Request] /\ acted' \in Someone
      BY <1>9, <2>1, SendTypes DEF jumpForm
    <2>3. form' \in [Tabs -> Form]
      <3> DEFINE f == form[t]
      <3>1. f \in Form
        BY DEF TypeOK
      <3>2. [f EXCEPT !.id = id] \in Form
        <4> HIDE DEF f
        <4>1. QED
          BY <2>1, <3>1 DEF Form
      <3>3. QED
        BY <1>9, <3>2 DEF jumpForm, TypeOK
    <2>4. jumped' \subseteq Nat
      BY <1>9, <2>1 DEF jumpForm, TypeOK
    <2>5. QED
      BY <1>9, <2>2, <2>3, <2>4 DEF jumpForm, Click, TypeOK
  <1>10. CASE submit(t)
    <2>1. form[t].id \in Someone /\ form[t].of \in Someone /\ clicks' \in Nat
      BY <1>10 DEF submit, Click, TypeOK, Form
    <2>2. reqs' \in [Tabs -> SUBSET Request] /\ acted' \in Someone
      BY <1>10, <2>1, SendTypes DEF submit
    <2>3. QED
      BY <1>10, <2>1, <2>2 DEF submit, TypeOK
  <1>11. ASSUME NEW r \in reqs[t], NEW ans \in {"ok", "failed", "401"},
                Answered(t, r, ans)
         PROVE TypeOK'
    <2>1. [r EXCEPT !.ans = ans] \in Request
      BY DEF TypeOK, Request
    <2>2. reqs' \in [Tabs -> SUBSET Request]
      BY <1>11, <2>1 DEF Answered, TypeOK
    <2>3. QED
      BY <1>11, <2>2 DEF Answered, TypeOK
  <1>12. ASSUME NEW r \in reqs[t], unauthorized(t, r) PROVE TypeOK'
    BY <1>12, BootTypes DEF unauthorized, TypeOK
  <1>13. ASSUME NEW r \in reqs[t], loaded(t, r) PROVE TypeOK'
    <2>1. r.id \in Someone /\ reqs' \in [Tabs -> SUBSET Request]
      BY <1>13 DEF loaded, TypeOK, Request
    <2>2. form' \in [Tabs -> Form]
      <3> DEFINE f == form[t]
      <3>1. f \in Form
        BY DEF TypeOK
      <3>2. [f EXCEPT !.of = r.id, !.ready = TRUE] \in Form
        <4> HIDE DEF f
        <4>1. QED
          BY <2>1, <3>1 DEF Form
      <3>3. QED
        BY <1>13, <3>2 DEF loaded, TypeOK
    <2>3. QED
      BY <1>13, <2>1, <2>2 DEF loaded, TypeOK
  <1>14. ASSUME NEW r \in reqs[t], leave(t, r) PROVE TypeOK'
    <2>1. /\ r.n \in Nat /\ token[t] \in Someone /\ stored.token \in Someone
          /\ reqs[t] \ {r} \in SUBSET Request /\ "list" \in Pages
      BY DEF TypeOK, Request, Pages
    <2>2. Go(t, "list", r.n, token[t], stored.token, reqs[t] \ {r})
      BY <1>14 DEF leave
    <2>3. /\ path' \in [Tabs -> Pages \cup {"login", "form"}] /\ from' \in [Tabs -> Pages]
          /\ form' \in [Tabs -> Form]
          /\ reqs' \in [Tabs -> SUBSET Request] /\ acted' \in Someone
      BY <2>1, <2>2, GoTypes
    <2>4. QED
      BY <1>14, <2>3 DEF leave, TypeOK
  <1>15. ASSUME NEW r \in reqs[t], noted(t, r) PROVE TypeOK'
    BY <1>15 DEF noted, TypeOK
  <1>16. QED
    BY <1>1, <1>2, <1>3, <1>4, <1>5, <1>6, <1>7, <1>8, <1>9, <1>10, <1>11, <1>12,
       <1>13, <1>14, <1>15 DEF TabNext

\* Whatever a tab or the backend does keeps the types.
LEMMA NextTypes ==
    ASSUME TypeOK, [Next]_vars
    PROVE  TypeOK'
  <1>1. ASSUME NEW u \in Accounts, changeAccount(u) PROVE TypeOK'
    BY <1>1 DEF changeAccount, Click, session, place, TypeOK
  <1>2. CASE UNCHANGED vars
    BY <1>2 DEF vars, session, place, TypeOK
  <1>3. QED
    BY <1>1, <1>2, TabTypes DEF Next

\* The first state has the right types.
LEMMA InitTypes == ASSUME Init PROVE TypeOK
  <1>1. NoForm \in Form /\ None \in Someone
    BY DEF NoForm, Form, Someone
  <1>2. QED
    BY <1>1 DEF Init, TypeOK, Pages

-----------------------------------------------------------------------------
\* The router shows a protected page only to a tab that holds a token.
LEMMA GoGuarded ==
    ASSUME TypeOK, Guarded, NEW t \in Tabs, NEW p \in Pages, NEW n, NEW held, NEW as,
           NEW kept, Go(t, p, n, held, as, kept), token' = [token EXCEPT ![t] = held]
    PROVE  Guarded'
  <1>1. \A x \in Tabs \ {t} : path'[x] = path[x] /\ token'[x] = token[x]
    BY DEF Go, TypeOK
  <1>2. token'[t] = held /\ path'[t] = IF held = None THEN "login" ELSE p
    BY DEF Go, TypeOK
  <1>3. QED
    BY <1>1, <1>2 DEF Guarded

\* A document that is loaded takes both keys, and the guard looks at them.
LEMMA BootSession ==
    ASSUME TypeOK, PairCoherent, Guarded, InStep, NEW t \in Tabs,
           NEW p \in Pages \cup {"login"}, Boot(t, p)
    PROVE  PairCoherent' /\ Guarded' /\ InStep'
  <1>1. \A x \in Tabs \ {t} : /\ path'[x] = path[x] /\ token'[x] = token[x]
                              /\ user'[x] = user[x] /\ foreign'[x] = foreign[x]
    BY DEF Boot, TypeOK
  <1>2. token'[t] = stored.token /\ user'[t] = stored.user /\ stored' = stored
    BY DEF Boot, TypeOK
  <1>3. path'[t] # "login" => stored.token # None
    BY DEF Boot, TypeOK
  <1>4. QED
    BY <1>1, <1>2, <1>3 DEF PairCoherent, Guarded, InStep

\* A step that leaves the session and the page alone keeps what is said of them.
LEMMA SameSession ==
    ASSUME PairCoherent, Guarded, InStep, UNCHANGED <<session, foreign>>,
           \A x \in Tabs : path'[x] = path[x] \/ path[x] # "login"
    PROVE  PairCoherent' /\ Guarded' /\ InStep'
  BY DEF session, PairCoherent, Guarded, InStep

\* A step of a tab keeps the session coherent.
LEMMA TabSession ==
    ASSUME TypeOK, PairCoherent, Guarded, InStep, NEW t \in Tabs, TabNext(t)
    PROVE  PairCoherent' /\ Guarded' /\ InStep'
  <1>1. ASSUME NEW p \in Pages, visit(t, p) PROVE PairCoherent' /\ Guarded' /\ InStep'
    <2>1. token' = [token EXCEPT ![t] = token[t]] /\ UNCHANGED <<session, foreign>>
      BY <1>1 DEF visit, session, TypeOK
    <2>2. Guarded'
      BY <1>1, <2>1, GoGuarded DEF visit
    <2>3. QED
      BY <2>1, <2>2 DEF session, PairCoherent, InStep
  <1>2. ASSUME NEW p \in Pages, open(t, p) PROVE PairCoherent' /\ Guarded' /\ InStep'
    BY <1>2, BootSession DEF open
  <1>3. CASE (\E u \in Accounts : onFinish(t, u)) \/ refused(t) \/ gotToken(t) \/ submit(t)
    BY <1>3, SameSession DEF onFinish, refused, gotToken, submit, place
  <1>4. CASE signedIn(t)
    <2>1. /\ stored' = [token |-> login[t].who, user |-> login[t].who]
          /\ token' = [token EXCEPT ![t] = login[t].who]
          /\ user' = [user EXCEPT ![t] = login[t].who] /\ foreign' = Shadow(t)
      BY <1>4 DEF signedIn
    <2>2. Guarded'
      <3>1. from[t] \in Pages
        BY DEF TypeOK
      <3>2. QED
        BY <1>4, <2>1, <3>1, GoGuarded DEF signedIn
    <2>3. QED
      BY <2>1, <2>2 DEF PairCoherent, InStep, Shadow, TypeOK
  <1>5. CASE handleLogout(t)
    <2>1. /\ stored' = [token |-> None, user |-> None]
          /\ token' = [token EXCEPT ![t] = None] /\ user' = [user EXCEPT ![t] = None]
          /\ path' = [path EXCEPT ![t] = "login"] /\ foreign' = Shadow(t)
      BY <1>5 DEF handleLogout
    <2>2. QED
      BY <2>1 DEF PairCoherent, Guarded, InStep, Shadow, TypeOK
  <1>6. ASSUME NEW id \in Someone, openForm(t, id)
        PROVE  PairCoherent' /\ Guarded' /\ InStep'
    BY <1>6, SameSession DEF openForm, TypeOK
  <1>7. ASSUME NEW id \in Accounts, jumpForm(t, id)
        PROVE  PairCoherent' /\ Guarded' /\ InStep'
    BY <1>7, SameSession DEF jumpForm
  <1>8. ASSUME NEW r \in reqs[t],
               (\E ans \in {"ok", "failed", "401"} : Answered(t, r, ans))
               \/ loaded(t, r) \/ noted(t, r)
        PROVE  PairCoherent' /\ Guarded' /\ InStep'
    BY <1>8, SameSession DEF Answered, loaded, noted, place
  <1>9. ASSUME NEW r \in reqs[t], unauthorized(t, r)
        PROVE  PairCoherent' /\ Guarded' /\ InStep'
    BY <1>9, BootSession DEF unauthorized
  <1>10. ASSUME NEW r \in reqs[t], leave(t, r)
         PROVE  PairCoherent' /\ Guarded' /\ InStep'
    <2>1. token' = [token EXCEPT ![t] = token[t]] /\ UNCHANGED <<session, foreign>>
      BY <1>10 DEF leave, session, TypeOK
    <2>2. Guarded'
      BY <1>10, <2>1, GoGuarded DEF leave, Pages
    <2>3. QED
      BY <2>1, <2>2 DEF session, PairCoherent, InStep
  <1>11. QED
    BY <1>1, <1>2, <1>3, <1>4, <1>5, <1>6, <1>7, <1>8, <1>9, <1>10 DEF TabNext

\* The inductive invariant of the session: each of its parts needs the types.
LEMMA SessionInvariant == Spec => [](TypeOK /\ PairCoherent /\ Guarded /\ InStep)
  <1> DEFINE Inv == TypeOK /\ PairCoherent /\ Guarded /\ InStep
  <1>1. Init => Inv
    <2>1. ASSUME Init PROVE PairCoherent /\ Guarded /\ InStep
      BY <2>1 DEF Init, PairCoherent, Guarded, InStep
    <2>2. QED
      BY <2>1, InitTypes
  <1>2. Inv /\ [Next]_vars => Inv'
    <2>1. SUFFICES ASSUME Inv, [Next]_vars PROVE PairCoherent' /\ Guarded' /\ InStep'
      BY NextTypes
    <2>2. ASSUME NEW u \in Accounts, changeAccount(u)
          PROVE  PairCoherent' /\ Guarded' /\ InStep'
      BY <2>1, <2>2, SameSession DEF changeAccount, place
    <2>3. CASE UNCHANGED vars
      BY <2>1, <2>3, SameSession DEF vars, place
    <2>4. QED
      BY <2>1, <2>2, <2>3, TabSession DEF Next
  <1>3. QED
    BY <1>1, <1>2, PTL DEF Spec

\* Every variable holds what the panel puts there.
THEOREM TypeCorrect == Spec => []TypeOK
  BY SessionInvariant, PTL

\* The token and the user belong together, in localStorage and in every tab.
THEOREM SessionCoherent == Spec => []PairCoherent
  BY SessionInvariant, PTL

\* Only a tab that holds a token shows a page behind ProtectedRoute.
THEOREM PagesGuarded == Spec => []Guarded
  BY SessionInvariant, PTL

\* A tab that no other tab has overtaken acts for the account it shows.
THEOREM TabsInStep == Spec => []InStep
  BY SessionInvariant, PTL

-----------------------------------------------------------------------------
\* Every step of a tab is a step of OneAccount, or none.
LEMMA TabRefines ==
    ASSUME TypeOK, PairCoherent, NEW t \in Tabs, TabNext(t)
    PROVE  [Account!Next]_(Account!vars)
  <1>1. ASSUME NEW p, NEW n, NEW kept, UNCHANGED session,
               Go(t, p, n, token[t], stored.token, kept)
        PROVE  [Account!Next]_(Account!vars)
    BY <1>1 DEF Go, session, PairCoherent, Account!Next, Account!Act, Account!vars
  <1>2. ASSUME NEW n, NEW kind, NEW id, NEW of, UNCHANGED session, Send(t, n, kind, id, of)
        PROVE  [Account!Next]_(Account!vars)
    BY <1>2 DEF Send, session, PairCoherent, Account!Next, Account!Act, Account!vars
  <1>3. ASSUME NEW p, Boot(t, p) PROVE [Account!Next]_(Account!vars)
    BY <1>3 DEF Boot, PairCoherent, Account!Next, Account!Act, Account!vars
  <1>4. ASSUME UNCHANGED <<session, acted>> PROVE [Account!Next]_(Account!vars)
    BY <1>4 DEF session, Account!vars
  <1>5. CASE signedIn(t)
    <2>1. login[t].who \in Accounts /\ login[t].who # None
      BY <1>5, AdminShellAssumption DEF signedIn, TypeOK, Attempt
    <2>2. stored'.user = login[t].who /\ acted' = login[t].who
      BY <1>5, <2>1 DEF signedIn, Go
    <2>3. QED
      BY <2>1, <2>2 DEF Account!Next, Account!SignIn, Account!vars
  <1>6. CASE handleLogout(t)
    BY <1>6 DEF handleLogout, Account!Next, Account!SignOut, Account!vars
  <1>7. ASSUME NEW id \in Someone, openForm(t, id) PROVE [Account!Next]_(Account!vars)
    BY <1>2, <1>4, <1>7 DEF openForm
  <1>8. QED
    BY <1>1, <1>2, <1>3, <1>4, <1>5, <1>6, <1>7
       DEF TabNext, visit, open, onFinish, refused, gotToken, jumpForm, submit, Answered,
           unauthorized, loaded, leave, noted

\* The panel implements OneAccount: whichever tabs sign in, sign out, reload and send,
\* every request of the client goes out in the name of the account that is signed in.
THEOREM ShellImplementsOneAccount == Spec => OneSession
  <1>1. Init => Account!Init
    BY DEF Init, Account!Init
  <1>2. TypeOK /\ PairCoherent /\ [Next]_vars => [Account!Next]_(Account!vars)
    <2>1. SUFFICES ASSUME TypeOK, PairCoherent, [Next]_vars
                   PROVE  [Account!Next]_(Account!vars)
      OBVIOUS
    <2>2. ASSUME NEW u \in Accounts, changeAccount(u) PROVE [Account!Next]_(Account!vars)
      BY <2>2 DEF changeAccount, session, Account!vars
    <2>3. CASE UNCHANGED vars
      BY <2>3 DEF vars, session, Account!vars
    <2>4. QED
      BY <2>1, <2>2, <2>3, TabRefines DEF Next
  <1>3. QED
    BY <1>1, <1>2, SessionInvariant, PTL DEF Spec, OneSession, Account!Spec

-----------------------------------------------------------------------------
\* Why a form saves its own record: a form that is mounted has a number of its own, so
\* that the answers to the loads of earlier forms never reach it.
OwnForm(t) ==
    /\ form[t].n <= clicks /\ (form[t].n = 0 => form[t].id = None)
    /\ form[t].n \in jumped \/ (form[t].ready => form[t].of = form[t].id)

OwnReq(t, r) ==
    /\ r.n <= clicks
    /\ r.kind = "load" => /\ r.n # 0
                          /\ r.n = form[t].n => r.n \in jumped \/ r.id = form[t].id
    /\ r.kind = "save" => r.n \in jumped \/ r.of = r.id

FormsOwn == \A t \in Tabs : OwnForm(t) /\ \A r \in reqs[t] : OwnReq(t, r)

\* A form that stays as it is keeps its record, and so do requests that stay.
LEMMA SameForm ==
    ASSUME TypeOK, FormsOwn, NEW x \in Tabs, clicks' \in Nat, clicks' >= clicks,
           form'[x] = form[x], jumped \subseteq jumped'
    PROVE  OwnForm(x)' /\ \A r \in reqs[x] : OwnReq(x, r)'
  <1>1. form[x].n \in Nat /\ clicks \in Nat /\ \A r \in reqs[x] : r.n \in Nat
    BY DEF TypeOK, Form, Request
  <1>2. OwnForm(x)'
    BY <1>1 DEF FormsOwn, OwnForm
  <1>3. ASSUME NEW r \in reqs[x] PROVE OwnReq(x, r)'
    BY <1>1 DEF FormsOwn, OwnReq
  <1>4. QED
    BY <1>2, <1>3

\* When a form is unmounted, no load in flight can reach what is mounted.
LEMMA NoFormLeft ==
    ASSUME TypeOK, FormsOwn, NEW x \in Tabs, clicks' \in Nat, clicks' >= clicks,
           form'[x] = NoForm, jumped \subseteq jumped'
    PROVE  OwnForm(x)' /\ \A r \in reqs[x] : OwnReq(x, r)'
  <1>1. clicks \in Nat /\ \A r \in reqs[x] : r.n \in Nat
    BY DEF TypeOK, Request
  <1>2. OwnForm(x)'
    BY DEF OwnForm, NoForm
  <1>3. ASSUME NEW r \in reqs[x] PROVE OwnReq(x, r)'
    BY <1>1 DEF FormsOwn, OwnReq, NoForm
  <1>4. QED
    BY <1>2, <1>3

\* The request that a page sends is nobody's load and nobody's save.
LEMMA PageReq ==
    ASSUME NEW x \in Tabs, NEW as, NEW n, n <= clicks'
    PROVE  OwnReq(x, Req(as, n, "page", None, None))'
  BY DEF OwnReq, Req

\* The load of a form asks for the form's record.
LEMMA LoadReq ==
    ASSUME NEW x \in Tabs, NEW as, NEW n, NEW id, n <= clicks', n # 0,
           n = form'[x].n => n \in jumped' \/ id = form'[x].id
    PROVE  OwnReq(x, Req(as, n, "load", id, None))'
  BY DEF OwnReq, Req

\* A form that shows its record saves it.
LEMMA SaveReq ==
    ASSUME NEW x \in Tabs, NEW as, NEW n, NEW id, NEW of, n <= clicks',
           n \in jumped' \/ of = id
    PROVE  OwnReq(x, Req(as, n, "save", id, of))'
  BY DEF OwnReq, Req

\* The router unmounts the form.
LEMMA GoOwn ==
    ASSUME TypeOK, FormsOwn, NEW t \in Tabs, NEW p, NEW n, NEW held, NEW as,
           NEW kept \in SUBSET reqs[t], Go(t, p, n, held, as, kept),
           clicks' \in Nat, clicks' >= clicks, n <= clicks', jumped \subseteq jumped'
    PROVE  OwnForm(t)' /\ \A r \in reqs'[t] : OwnReq(t, r)'
  <1>1. form'[t] = NoForm
    BY DEF Go, TypeOK
  <1>2. reqs'[t] \subseteq kept \cup {Req(as, n, "page", None, None)}
    BY DEF Go, TypeOK
  <1>3. QED
    BY <1>1, <1>2, NoFormLeft, PageReq

\* A document that is loaded has no form.
LEMMA BootOwn ==
    ASSUME TypeOK, FormsOwn, NEW t \in Tabs, NEW p, Boot(t, p), clicks' \in Nat,
           clicks' >= clicks
    PROVE  OwnForm(t)' /\ \A r \in reqs'[t] : OwnReq(t, r)'
  <1>1. form'[t] = NoForm /\ jumped' = jumped
    BY DEF Boot, TypeOK
  <1>2. reqs'[t] \subseteq {Req(stored.token, clicks', "page", None, None)}
    BY DEF Boot, TypeOK
  <1>3. QED
    BY <1>1, <1>2, NoFormLeft, PageReq

\* A step of a tab keeps its own form and requests.
LEMMA TabOwn ==
    ASSUME TypeOK, FormsOwn, NEW t \in Tabs, TabNext(t), clicks' \in Nat, clicks' >= clicks
    PROVE  OwnForm(t)' /\ \A r \in reqs'[t] : OwnReq(t, r)'
  <1> DEFINE Kept == OwnForm(t)' /\ \A r \in reqs'[t] : OwnReq(t, r)'
  <1> USE DEF session, place
  <1>0. clicks \in Nat /\ reqs[t] \in SUBSET reqs[t]
    BY DEF TypeOK
  <1>1. ASSUME NEW p \in Pages, visit(t, p) PROVE Kept
    BY <1>0, <1>1, GoOwn DEF visit
  <1>2. ASSUME NEW p \in Pages, open(t, p) PROVE Kept
    BY <1>2, BootOwn DEF open
  <1>3. CASE (\E u \in Accounts : onFinish(t, u)) \/ refused(t) \/ gotToken(t)
    BY <1>3, SameForm DEF onFinish, refused, gotToken
  <1>4. CASE signedIn(t)
    BY <1>0, <1>4, GoOwn DEF signedIn
  <1>5. CASE handleLogout(t)
    <2>1. form'[t] = NoForm /\ jumped' = jumped /\ reqs' = reqs
      BY <1>5 DEF handleLogout, TypeOK
    <2>2. QED
      BY <2>1, NoFormLeft
  <1>6. ASSUME NEW id \in Someone, openForm(t, id) PROVE Kept
    <2>1. /\ form'[t].id = id /\ form'[t].of = None /\ (form'[t].ready => id = None)
          /\ form'[t].n = clicks' /\ jumped' = jumped /\ clicks' = clicks + 1
      <3>1. form'[t] = [id |-> id, of |-> None, ready |-> id = None, n |-> clicks']
        BY <1>6 DEF openForm, TypeOK
      <3>2. form'[t].id = id /\ form'[t].of = None /\ form'[t].n = clicks'
        BY <3>1
      <3>3. form'[t].ready = (id = None)
        <4> DEFINE new == id = None
        <4>1. form'[t] = [id |-> id, of |-> None, ready |-> new, n |-> clicks']
          BY <3>1
        <4> HIDE DEF new
        <4>2. form'[t].ready = new
          BY <4>1
        <4>3. QED
          BY <4>2, Zenon DEF new
      <3>4. jumped' = jumped /\ clicks' = clicks + 1
        BY <1>6 DEF openForm, Click
      <3>5. QED
        BY <3>2, <3>3, <3>4, Zenon
    <2>2. OwnForm(t)'
      BY <1>0, <2>1 DEF OwnForm
    <2>3. ASSUME NEW r \in reqs[t] PROVE OwnReq(t, r)'
      <3>1. r.n <= clicks /\ r.n \in Nat
        BY DEF FormsOwn, OwnReq, TypeOK, Request
      <3>2. QED
        BY <1>0, <2>1, <3>1 DEF FormsOwn, OwnReq
    <2>4. reqs'[t] \subseteq reqs[t] \cup {Req(stored.token, clicks', "load", id, None)}
      BY <1>6 DEF openForm, Send, TypeOK
    <2>5. clicks' <= clicks' /\ clicks' # 0
      BY <1>0, <2>1
    <2>6. QED
      BY <2>1, <2>2, <2>3, <2>4, <2>5, LoadReq
  <1>7. ASSUME NEW id \in Accounts, jumpForm(t, id) PROVE Kept
    <2>1. /\ form'[t] = [form[t] EXCEPT !.id = id] /\ jumped' = jumped \cup {form[t].n}
          /\ clicks' = clicks + 1 /\ form[t].id # None
      BY <1>7 DEF jumpForm, Click, TypeOK
    <2>2. form[t] \in Form /\ OwnForm(t) /\ form[t].n \in Nat
      BY DEF TypeOK, Form, FormsOwn
    <2>3. form'[t].n = form[t].n /\ form[t].n # 0 /\ form[t].n <= clicks'
      BY <1>0, <2>1, <2>2 DEF Form, OwnForm
    <2>4. OwnForm(t)'
      BY <2>1, <2>3 DEF OwnForm
    <2>5. ASSUME NEW r \in reqs[t] PROVE OwnReq(t, r)'
      <3>1. r.n \in Nat
        BY DEF TypeOK, Request
      <3>2. QED
        BY <1>0, <2>1, <3>1 DEF FormsOwn, OwnReq
    <2>6. reqs'[t] = reqs[t] \cup {Req(stored.token, form[t].n, "load", id, None)}
      BY <1>7 DEF jumpForm, Send, TypeOK
    <2>7. QED
      BY <2>1, <2>3, <2>4, <2>5, <2>6, LoadReq
  <1>8. CASE submit(t)
    <2>1. /\ form' = form /\ jumped \subseteq jumped' /\ form[t].ready
          /\ form[t].n \in jumped => clicks' \in jumped'
          /\ reqs'[t] = reqs[t]
                \cup {Req(stored.token, clicks', "save", form[t].id, form[t].of)}
      BY <1>8 DEF submit, Send, TypeOK
    <2>2. (clicks' \in jumped' \/ form[t].of = form[t].id) /\ clicks' <= clicks'
      BY <2>1 DEF FormsOwn, OwnForm
    <2>3. QED
      BY <2>1, <2>2, SameForm, SaveReq
  <1>9. ASSUME NEW r \in reqs[t], NEW ans \in {"ok", "failed", "401"}, Answered(t, r, ans)
        PROVE  Kept
    <2>1. /\ form' = form /\ jumped' = jumped
          /\ reqs'[t] = (reqs[t] \ {r}) \cup {[r EXCEPT !.ans = ans]}
      BY <1>9 DEF Answered, TypeOK
    <2>2. r \in Request /\ OwnReq(t, r)'
      BY <2>1, SameForm DEF TypeOK
    <2>3. OwnReq(t, [r EXCEPT !.ans = ans])'
      BY <2>2 DEF OwnReq, Request
    <2>4. QED
      BY <2>1, <2>3, SameForm
  <1>10. ASSUME NEW r \in reqs[t], unauthorized(t, r) PROVE Kept
    BY <1>10, BootOwn DEF unauthorized
  <1>11. ASSUME NEW r \in reqs[t], loaded(t, r) PROVE Kept
    <2>1. /\ reqs'[t] = reqs[t] \ {r} /\ jumped' = jumped /\ r.kind = "load"
          /\ form'[t] = IF r.n = form[t].n
                        THEN [form[t] EXCEPT !.of = r.id, !.ready = TRUE] ELSE form[t]
      BY <1>11 DEF loaded, TypeOK
    <2>2. CASE r.n # form[t].n
      BY <2>1, <2>2, SameForm
    <2>3. CASE r.n = form[t].n
      <3>1. form[t] \in Form /\ OwnReq(t, r) /\ OwnForm(t)
        BY DEF TypeOK, FormsOwn
      <3>2. /\ form'[t].n = form[t].n /\ form'[t].id = form[t].id /\ form'[t].of = r.id
            /\ form[t].n \in Nat
        BY <2>1, <2>3, <3>1 DEF Form
      <3>3. OwnForm(t)'
        BY <1>0, <2>1, <2>3, <3>1, <3>2 DEF OwnForm, OwnReq
      <3>4. ASSUME NEW q \in reqs[t] PROVE OwnReq(t, q)'
        <4>1. q.n \in Nat
          BY DEF TypeOK, Request
        <4>2. QED
          BY <1>0, <2>1, <3>2, <4>1 DEF FormsOwn, OwnReq
      <3>5. QED
        BY <2>1, <3>3, <3>4
    <2>4. QED
      BY <2>2, <2>3
  <1>12. ASSUME NEW r \in reqs[t], leave(t, r) PROVE Kept
    <2>1. r.n <= clicks' /\ reqs[t] \ {r} \in SUBSET reqs[t]
      BY <1>12 DEF leave, FormsOwn, OwnReq
    <2>2. QED
      BY <1>12, <2>1, GoOwn DEF leave
  <1>13. ASSUME NEW r \in reqs[t], noted(t, r) PROVE Kept
    <2>1. form' = form /\ jumped' = jumped /\ reqs'[t] = reqs[t] \ {r}
      BY <1>13 DEF noted, TypeOK
    <2>2. QED
      BY <2>1, SameForm
  <1>14. QED
    BY <1>1, <1>2, <1>3, <1>4, <1>5, <1>6, <1>7, <1>8, <1>9, <1>10, <1>11, <1>12, <1>13
       DEF TabNext

\* People's clicks are counted up.
LEMMA TabClicks ==
    ASSUME TypeOK, NEW t \in Tabs, TabNext(t)
    PROVE  clicks' \in Nat /\ clicks' >= clicks
  <1>1. clicks \in Nat
    BY DEF TypeOK
  <1>2. clicks' \in {clicks, clicks + 1}
    BY DEF TabNext, visit, open, onFinish, refused, gotToken, signedIn, handleLogout, openForm,
           jumpForm, submit, Answered, unauthorized, loaded, leave, noted, Click
  <1>3. QED
    BY <1>1, <1>2

\* A step of a tab leaves the forms and the requests of the others.
LEMMA TabAlone ==
    ASSUME TypeOK, NEW t \in Tabs, TabNext(t), NEW x \in Tabs, x # t
    PROVE  form'[x] = form[x] /\ reqs'[x] = reqs[x] /\ jumped \subseteq jumped'
  <1> USE DEF session, place
  <1>1. form'[x] = form[x]
    BY ZenonT(60)
       DEF TabNext, visit, open, onFinish, refused, gotToken, signedIn, handleLogout, openForm,
           jumpForm, submit, Answered, unauthorized, loaded, leave, noted, Go, Boot, TypeOK
  <1>2. reqs'[x] = reqs[x]
    <2>1. \E q : reqs' = [reqs EXCEPT ![t] = q] \/ reqs' = reqs
      BY DEF TabNext, visit, open, onFinish, refused, gotToken, signedIn, handleLogout,
             openForm, jumpForm, submit, Answered, unauthorized, loaded, leave, noted, Go,
             Boot, Send
    <2>2. QED
      BY <2>1 DEF TypeOK
  <1>3. jumped \subseteq jumped'
    BY DEF TabNext, visit, open, onFinish, refused, gotToken, signedIn, handleLogout, openForm,
           jumpForm, submit, Answered, unauthorized, loaded, leave, noted, Boot, TypeOK
  <1>4. QED
    BY <1>1, <1>2, <1>3

\* A form saves the values of the record that it was opened for, whatever loads are late
\* and whatever became of the forms before it, unless its own id was changed under it.
THEOREM FormsSaveTheirOwn == Spec => []SavedOwn
  <1>1. Init => FormsOwn
    <2>1. SUFFICES ASSUME Init, NEW t \in Tabs PROVE OwnForm(t) /\ reqs[t] = {}
      BY DEF FormsOwn
    <2>2. form[t] = NoForm /\ clicks = 0 /\ reqs[t] = {}
      BY <2>1 DEF Init
    <2>3. NoForm.n = 0 /\ NoForm.id = None /\ NoForm.of = None
      BY DEF NoForm
    <2>4. QED
      BY <2>2, <2>3 DEF OwnForm
  <1>2. TypeOK /\ FormsOwn /\ [Next]_vars => FormsOwn'
    <2>1. SUFFICES ASSUME TypeOK, FormsOwn, [Next]_vars PROVE FormsOwn'
      OBVIOUS
    <2>2. ASSUME NEW t \in Tabs, TabNext(t) PROVE FormsOwn'
      <3>1. clicks' \in Nat /\ clicks' >= clicks
        BY <2>1, <2>2, TabClicks
      <3>2. OwnForm(t)' /\ \A r \in reqs'[t] : OwnReq(t, r)'
        BY <2>1, <2>2, <3>1, TabOwn
      <3>3. ASSUME NEW x \in Tabs, x # t
            PROVE  OwnForm(x)' /\ \A r \in reqs'[x] : OwnReq(x, r)'
        <4>1. form'[x] = form[x] /\ reqs'[x] = reqs[x] /\ jumped \subseteq jumped'
          BY <2>1, <2>2, <3>3, TabAlone
        <4>2. QED
          BY <2>1, <3>1, <4>1, SameForm
      <3>4. QED
        BY <3>2, <3>3 DEF FormsOwn
    <2>3. ASSUME UNCHANGED <<form, reqs, jumped>>, clicks' \in {clicks, clicks + 1}
          PROVE  FormsOwn'
      <3>1. clicks' \in Nat /\ clicks' >= clicks
        BY <2>1, <2>3 DEF TypeOK
      <3>2. QED
        BY <2>1, <2>3, <3>1, SameForm DEF FormsOwn
    <2>4. QED
      BY <2>1, <2>2, <2>3 DEF Next, changeAccount, Click, vars, place
  <1>3. FormsOwn => SavedOwn
    BY DEF FormsOwn, OwnReq, SavedOwn
  <1>4. QED
    BY <1>1, <1>2, <1>3, SessionInvariant, PTL DEF Spec
=============================================================================
