----------------------------- MODULE OneAccount -----------------------------
(***************************************************************************)
(* What the sign-in of the admin panel promises a browser, however many    *)
(* tabs it has: at any time it is signed in as one account or as nobody,   *)
(* and every request goes out in the name of that account.                 *)
(***************************************************************************)
CONSTANTS Accounts, None

VARIABLES
    who,     \* the account the browser is signed in as
    acting   \* the account in whose name the last request went out

vars == <<who, acting>>

Init == who = None /\ acting = None

\* Whoever signs in may be sent on to a page that loads
SignIn(u) == who' = u /\ acting' \in {acting, u}

SignOut == who' = None /\ acting' = acting

Act == who' = who /\ acting' = who

Next == (\E u \in Accounts : SignIn(u)) \/ SignOut \/ Act

Spec == Init /\ [][Next]_vars
=============================================================================
