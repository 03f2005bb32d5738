------------------------------ MODULE AuthStore ------------------------------
(***************************************************************************)
(* The session as the browser keeps it                                     *)
(* (src/frontend/src/store/auth-store.ts). Every set() also writes the     *)
(* kept fields to localStorage, so the store and its copy never differ.    *)
(* Answers may arrive in another order than the calls were made, and after *)
(* the user has logged out. What matters of a field is whether it is null. *)
(* persist's migrate is left out: it is called for a copy of a version     *)
(* other than 1, the only one that this code stores.                       *)
(***************************************************************************)
CONSTANTS Calls   \* the calls that may wait for an answer at a time

VARIABLES
  store,    \* the fields that are set: not null, or true
  call,     \* [Calls -> "none" or the action that waits]
  stray     \* history: an answer filled the store of a user logged out

storeVars == <<store, call, stray>>

Fields == {"user", "token", "refreshToken", "isAuthenticated"}

AuthStoreInit ==
  /\ store = {}
  /\ call = [c \in Calls |-> "none"]
  /\ stray = FALSE

Asks(c, action) ==
  /\ call[c] = "none"
  /\ call' = [call EXCEPT ![c] = action]
  /\ UNCHANGED <<store, stray>>

Answers(c, action) ==
  /\ call[c] = action
  /\ call' = [call EXCEPT ![c] = "none"]

\* set() of all kept fields, or of none.
Whole(new) == store' = new /\ stray' = FALSE

\* login, loginWithSSO and register.
Login(c) == Asks(c, "login")

LoggedIn(c) == Answers(c, "login") /\ Whole(Fields)

\* logout waits for the server if there is a token, and clears the store
\* whatever the server answers.
Logout(c) == "token" \in store /\ Asks(c, "logout")

LoggedOut(c) == Answers(c, "logout") /\ Whole({})

LogoutWithout == "token" \notin store /\ Whole({}) /\ UNCHANGED call

\* refreshSession
RefreshSession(c) == "refreshToken" \in store /\ Asks(c, "refreshSession")

RefreshWithout ==
  /\ "refreshToken" \notin store
  /\ store' = store \ {"isAuthenticated"}
  /\ UNCHANGED <<call, stray>>

\* Mutant: a new token makes the user authenticated.
Authenticates == {"token", "refreshToken", "isAuthenticated"}

Refreshes == {"token", "refreshToken"}

Refreshed(c) ==
  /\ Answers(c, "refreshSession")
  /\ store' = store \cup Refreshes
  /\ stray' = (stray \/ "isAuthenticated" \notin store)

\* Mutant: a failed refresh leaves the user.
TokensOnly == {"token", "refreshToken", "isAuthenticated"}

Cleared == Fields

RefreshFailed(c) ==
  /\ Answers(c, "refreshSession")
  /\ store' = store \ Cleared
  /\ stray' = FALSE

\* fetchProfile
FetchProfile(c) == "token" \in store /\ Asks(c, "fetchProfile")

ProfileFetched(c) ==
  /\ Answers(c, "fetchProfile")
  /\ store' = store \cup {"user"}
  /\ stray' = (stray \/ "isAuthenticated" \notin store)

\* A login or a profile that fails only sets the error, which is not kept.
FailCallToServer(c) ==
  /\ call[c] \in {"login", "fetchProfile"}
  /\ call' = [call EXCEPT ![c] = "none"]
  /\ UNCHANGED <<store, stray>>

\* onRehydrateStorage: a user without a token is logged out.
Rehydrated == IF "user" \in store /\ "token" \notin store THEN {} ELSE store

\* The page is loaded again: the calls that waited are forgotten.
Reload ==
  /\ store' = Rehydrated
  /\ call' = [c \in Calls |-> "none"]
  /\ stray' = (stray /\ store' # {})

AuthStoreNext ==
  \/ LogoutWithout \/ RefreshWithout \/ Reload
  \/ \E c \in Calls :
       \/ Login(c) \/ LoggedIn(c) \/ Logout(c) \/ LoggedOut(c)
       \/ RefreshSession(c) \/ Refreshed(c) \/ RefreshFailed(c)
       \/ FetchProfile(c) \/ ProfileFetched(c) \/ FailCallToServer(c)

AuthStoreSpec == AuthStoreInit /\ [][AuthStoreNext]_storeVars

-----------------------------------------------------------------------------
\* In whatever order the answers come, the page of an authenticated user (the
\* AuthGuard asks only for that flag) has a user and both tokens.
AuthenticatedWhole == "isAuthenticated" \in store => store = Fields

\* The store is otherwise empty: only the answer to a refresh or a profile
\* that arrives after the user was logged out fills a part of it.
TornOnlyByStray == store \notin {{}, Fields} => stray

\* The types of the variables.
AuthStoreTypeOK ==
  /\ store \subseteq Fields
  /\ call \in [Calls -> {"none", "login", "logout", "refreshSession", "fetchProfile"}]
  /\ stray \in BOOLEAN
=============================================================================
