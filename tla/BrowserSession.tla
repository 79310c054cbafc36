--------------------------- MODULE BrowserSession ---------------------------
(***************************************************************************)
(* Who is signed in, in one browser tab: AuthStore and the page of         *)
(* /auth/callback.                                                         *)
(*                                                                         *)
(* The tokens are in sessionStorage and survive a load of the app; the     *)
(* store does not.  Every load starts `init`, which looks at the stored    *)
(* session; a load of /auth/callback also exchanges the code of the URL    *)
(* for tokens.  The two run side by side.  The access token runs out; the  *)
(* refresh token, kept with it, can renew it.                              *)
(***************************************************************************)
EXTENDS Naturals

CONSTANTS
    Budgets  \* bound: how often the rare things may happen, see Rare

\* The app is loaded again, the access token runs out, the user opens another
\* page, the owner sends a request again, a call fails, the tab is hidden, an
\* attempt leaves its record; and how many calls run at once, never spent.
Rare == {"loads", "expiries", "visits", "resends", "failures", "hides", "records",
         "slots"}

ASSUME SessionAssumption == Budgets \subseteq [Rare -> Nat]

VARIABLES
    session,         \* AuthStore.status
    sessionExpired,  \* AuthStore.sessionExpired: the API rejected the token
    stored,          \* the user in sessionStorage: "none", "valid" or "expired"
    init,            \* where init() is, and the user it holds
    callback,        \* where the sign-in of /auth/callback is
    left             \* what is left of the budget this behaviour began with

sessionVars == <<session, sessionExpired, stored, init, callback>>

Spend(what) == left[what] > 0 /\ left' = [left EXCEPT ![what] = @ - 1]

Users == {"none", "valid", "expired"}

SessionTypeOK ==
    /\ session \in {"loading", "authenticated", "anonymous"}
    /\ sessionExpired \in BOOLEAN
    /\ stored \in Users
    /\ init \in [phase : {"reading", "renewing", "settling", "done"}, user : Users]
    /\ callback \in {"none", "exchanging", "stored", "done", "failed"}
    /\ left \in [Rare -> Nat]

InitReading == [phase |-> "reading", user |-> "none"]

SessionInit ==
    /\ session = "loading" /\ sessionExpired = FALSE
    /\ stored \in Users
    /\ init = InitReading
    /\ callback = "none"
    /\ left \in Budgets

SetUser(user) == session' = IF user = "none" THEN "anonymous" ELSE "authenticated"

-----------------------------------------------------------------------------
(* init: the session left from before the load. *)

\* An unreadable session is no session; one that ran out is renewed first.
InitReads ==
    /\ init.phase = "reading"
    /\ \E user \in {stored, "none"} :
           init' = [phase |-> IF user = "expired" THEN "renewing" ELSE "settling",
                    user |-> user]
    /\ UNCHANGED <<session, sessionExpired, stored, callback, left>>

\* signinSilent stores the new tokens, or fails and init goes on with nobody.
InitRenews ==
    /\ init.phase = "renewing"
    /\ \/ /\ stored' = "valid"
          /\ init' = [phase |-> "settling", user |-> "valid"]
       \/ /\ UNCHANGED stored
          /\ init' = [phase |-> "settling", user |-> "none"]
    /\ UNCHANGED <<session, sessionExpired, callback, left>>

\* A slip in InitSettles: init overwrites whatever is known by now.
InitSettlesAlways ==
    /\ init.phase = "settling"
    /\ SetUser(init.user)
    /\ init' = [phase |-> "done", user |-> "none"]
    /\ UNCHANGED <<sessionExpired, stored, callback, left>>

\* A sign-in that finished while init was reading is not overwritten.
InitSettles ==
    /\ init.phase = "settling"
    /\ IF session = "loading" THEN SetUser(init.user) ELSE UNCHANGED session
    /\ init' = [phase |-> "done", user |-> "none"]
    /\ UNCHANGED <<sessionExpired, stored, callback, left>>

-----------------------------------------------------------------------------
(* The page of /auth/callback. *)

\* The code of the URL is exchanged once: the tokens are stored, or Cognito
\* reports an error and the page offers to sign in again.
CodeExchanged ==
    /\ callback = "exchanging"
    /\ \/ stored' = "valid" /\ callback' = "stored"
       \/ UNCHANGED stored /\ callback' = "failed"
    /\ UNCHANGED <<session, sessionExpired, init, left>>

SignInCompletes ==
    /\ callback = "stored"
    /\ SetUser("valid")
    /\ sessionExpired' = FALSE
    /\ callback' = "done"
    /\ UNCHANGED <<stored, init, left>>

-----------------------------------------------------------------------------
(* Loads of the app: a reload, a sign-in through the hosted UI, a sign-out. *)

Load(at, user) ==
    /\ Spend("loads")
    /\ session' = "loading" /\ sessionExpired' = FALSE
    /\ init' = InitReading
    /\ callback' = at
    /\ stored' = user

SignIn  == (session = "anonymous" \/ callback = "failed") /\ Load("exchanging", stored)
Reload  == callback \in {"none", "done"} /\ Load("none", stored)
SignOut == session = "authenticated" /\ Load("none", "none")

-----------------------------------------------------------------------------
(* The token. *)

TokenExpires ==
    /\ stored = "valid"
    /\ Spend("expiries")
    /\ stored' = "expired"
    /\ UNCHANGED <<session, sessionExpired, init, callback>>

\* oidc-client-ts renews in the background.
TokenRenewed ==
    /\ stored = "expired"
    /\ init.phase = "done"
    /\ stored' = "valid"
    /\ UNCHANGED <<session, sessionExpired, init, callback, left>>

HasToken == stored = "valid"

\* The API rejected the token, or there was none to send.
HandleUnauthorized ==
    /\ stored' = "none"
    /\ session' = "anonymous"
    /\ sessionExpired' = TRUE
    /\ UNCHANGED <<init, callback, left>>

-----------------------------------------------------------------------------
(* Whoever completed the sign-in stays signed in until the API rejects the *)
(* token: an init that still works on the session of before does not put   *)
(* the sign-in page in front of them.                                      *)
SignInIsKept == callback = "done" /\ session # "authenticated" => sessionExpired
=============================================================================
