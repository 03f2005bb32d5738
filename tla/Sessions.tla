------------------------------ MODULE Sessions ------------------------------
(***************************************************************************)
(* The account of one user: logins with their count of failed attempts,    *)
(* sessions, and password resets (src/backend/src/routes/auth.ts and       *)
(* services/auth-service.ts). A login is up to five statements,            *)
(*                                                                         *)
(*    read the user -> wrong: read the count -> write it                   *)
(*                  -> right: clear the count -> insert the session        *)
(*                                                                         *)
(* and a reset is four: read the token -> password -> token -> sessions.   *)
(***************************************************************************)
EXTENDS Naturals, FiniteSets

CONSTANTS
  Clients,       \* the requests served at a time
  MAX_ATTEMPTS,  \* failed attempts that lock the account
  MaxPasswords,  \* bound on the passwords the user has had
  MaxSessions,   \* bound on the sessions opened
  MaxResets      \* bound on password_resets

ASSUME SessionsAssumption ==
  /\ MAX_ATTEMPTS \in Nat \ {0}
  /\ MaxPasswords \in Nat \ {0} /\ MaxSessions \in Nat /\ MaxResets \in Nat

VARIABLES
  password,    \* users.password: the number of the current one
  attempts,    \* users.failed_login_attempts
  locked,      \* users.locked_until is in the future
  sessions,    \* sessions: the rows by id
  resets,      \* password_resets: [ids -> "none", "open" or "used"]
  client,      \* [Clients -> the local variables]
  earlier,     \* history: the logins that read the user before it was locked
  late,        \* history: sessions opened with a password that was replaced
  halfway      \* history: a reset stopped after it had changed the password

sessionVars ==
  <<password, attempts, locked, sessions, resets, client, earlier, late, halfway>>

SessionIds == 1..MaxSessions
ResetIds == 1..MaxResets

\* known: the password the user was read with; id: of a session or reset;
\* count: the attempts that were read.
Free == [pc |-> "free", known |-> 0, id |-> 0, count |-> 0]

Client ==
  [pc : {"free", "clear", "count", "fail", "open", "renew", "password", "use", "purge"},
   known : 0..MaxPasswords, id : Nat, count : 0..MAX_ATTEMPTS]

\* A session remembers the password it was opened with.
Session == [id : SessionIds, known : 1..MaxPasswords]

SessionsInit ==
  /\ password = 1 /\ attempts = 0 /\ locked = FALSE
  /\ sessions = {} /\ resets = [r \in ResetIds |-> "none"]
  /\ client = [c \in Clients |-> Free]
  /\ earlier = {} /\ late = {} /\ halfway = FALSE

\* The id a new row gets: the least that is free.
IsNew(id, taken) == id \notin taken /\ 1..(id - 1) \subseteq taken

Does(c, pc) == client[c].pc = pc

Goes(c, pc) == client' = [client EXCEPT ![c].pc = pc]

Done(c) == client' = [client EXCEPT ![c] = Free]

-----------------------------------------------------------------------------
(* POST /login                                                             *)

\* Mutant: the lock is not looked at.
NotChecked == TRUE

MayTry == ~locked

\* The SELECT of the user and isAccountLocked; a client either knows the
\* password of this moment or does not.
ReadUser(c) ==
  /\ Does(c, "free") /\ MayTry
  /\ \E right \in BOOLEAN :
       client' = [client EXCEPT ![c] =
         [Free EXCEPT !.pc = IF right THEN "clear" ELSE "count", !.known = password]]
  /\ UNCHANGED <<password, attempts, locked, sessions, resets, earlier, late, halfway>>

\* incrementFailedAttempts: its SELECT ...
ReadAttempts(c) ==
  /\ Does(c, "count")
  /\ client' = [client EXCEPT ![c] = [@ EXCEPT !.pc = "fail", !.count = attempts]]
  /\ UNCHANGED <<password, attempts, locked, sessions, resets, earlier, late, halfway>>

\* ... and its UPDATE, which locks the account when there were enough. A count
\* past that is kept as MAX_ATTEMPTS: nothing asks for more.
WriteAttempts(c) ==
  LET n == IF client[c].count < MAX_ATTEMPTS THEN client[c].count + 1 ELSE MAX_ATTEMPTS
  IN  /\ Does(c, "fail")
      /\ attempts' = n
      /\ locked' = (locked \/ n >= MAX_ATTEMPTS)
      /\ earlier' = IF n >= MAX_ATTEMPTS
                    THEN {d \in Clients : Does(d, "clear")} ELSE earlier
      /\ Done(c)
      /\ UNCHANGED <<password, sessions, resets, late, halfway>>

\* resetFailedAttempts, which also lifts the lock.
ClearAttempts(c) ==
  /\ Does(c, "clear")
  /\ attempts' = 0 /\ locked' = FALSE
  /\ Goes(c, "open")
  /\ UNCHANGED <<password, sessions, resets, earlier, late, halfway>>

\* The INSERT of the session.
OpenSession(c) ==
  /\ Does(c, "open")
  /\ \E id \in SessionIds :
       /\ IsNew(id, {s.id : s \in sessions})
       /\ sessions' = sessions \cup {[id |-> id, known |-> client[c].known]}
       /\ late' = IF client[c].known # password THEN late \cup {id} ELSE late \ {id}
  /\ Done(c)
  /\ UNCHANGED <<password, attempts, locked, resets, earlier, halfway>>

\* Half an hour later. The count stays as it is.
LockExpires ==
  /\ locked /\ locked' = FALSE
  /\ UNCHANGED <<password, attempts, sessions, resets, client, earlier, late, halfway>>

-----------------------------------------------------------------------------
(* POST /refresh and POST /logout                                          *)

\* The SELECT of the session; the UPDATE of its tokens changes nothing kept
\* here, and nothing at all when the row is gone by then.
ReadSession(c) ==
  /\ Does(c, "free")
  /\ \E s \in sessions : client' = [client EXCEPT ![c] = [Free EXCEPT !.pc = "renew", !.id = s.id]]
  /\ UNCHANGED <<password, attempts, locked, sessions, resets, earlier, late, halfway>>

RenewSession(c) ==
  /\ Does(c, "renew") /\ Done(c)
  /\ UNCHANGED <<password, attempts, locked, sessions, resets, earlier, late, halfway>>

EndSession ==
  /\ \E s \in sessions : sessions' = sessions \ {s}
  /\ UNCHANGED <<password, attempts, locked, resets, client, earlier, late, halfway>>

-----------------------------------------------------------------------------
(* POST /forgot-password and POST /reset-password                          *)

ForgotPassword ==
  /\ \E r \in ResetIds :
       /\ IsNew(r, {old \in ResetIds : resets[old] # "none"})
       /\ resets' = [resets EXCEPT ![r] = "open"]
  /\ UNCHANGED <<password, attempts, locked, sessions, client, earlier, late, halfway>>

\* The SELECT of the token and its tests.
ReadReset(c) ==
  /\ Does(c, "free")
  /\ \E r \in ResetIds :
       /\ resets[r] = "open"
       /\ client' = [client EXCEPT ![c] = [Free EXCEPT !.pc = "password", !.id = r]]
  /\ UNCHANGED <<password, attempts, locked, sessions, resets, earlier, late, halfway>>

SetPassword(c) ==
  /\ Does(c, "password") /\ password < MaxPasswords
  /\ password' = password + 1
  /\ Goes(c, "use")
  /\ UNCHANGED <<attempts, locked, sessions, resets, earlier, late, halfway>>

UseReset(c) ==
  /\ Does(c, "use")
  /\ resets' = [resets EXCEPT ![client[c].id] = "used"]
  /\ Goes(c, "purge")
  /\ UNCHANGED <<password, attempts, locked, sessions, earlier, late, halfway>>

\* Mutant: the sessions are left alone.
LeftAlone(all) == all

Kept(all) == {}

\* The DELETE of the user's sessions.
PurgeSessions(c) ==
  /\ Does(c, "purge")
  /\ sessions' = Kept(sessions)
  /\ Done(c)
  /\ UNCHANGED <<password, attempts, locked, resets, earlier, late, halfway>>

-----------------------------------------------------------------------------
\* A statement fails: 500, and what was written stays.
FailRequest(c) ==
  /\ ~Does(c, "free") /\ Done(c)
  /\ halfway' = (halfway \/ client[c].pc \in {"use", "purge"})
  /\ UNCHANGED <<password, attempts, locked, sessions, resets, earlier, late>>

SessionsNext ==
  \/ LockExpires \/ EndSession \/ ForgotPassword
  \/ \E c \in Clients :
       \/ ReadUser(c) \/ ReadAttempts(c) \/ WriteAttempts(c) \/ ClearAttempts(c)
       \/ OpenSession(c) \/ ReadSession(c) \/ RenewSession(c) \/ ReadReset(c) \/ SetPassword(c)
       \/ UseReset(c) \/ PurgeSessions(c) \/ FailRequest(c)

SessionsSpec == SessionsInit /\ [][SessionsNext]_sessionVars

-----------------------------------------------------------------------------
(* Properties.                                                             *)

SessionsTypeOK ==
  /\ password \in 1..MaxPasswords
  /\ attempts \in 0..MAX_ATTEMPTS /\ locked \in BOOLEAN
  /\ sessions \subseteq Session
  /\ resets \in [ResetIds -> {"none", "open", "used"}]
  /\ client \in [Clients -> Client]
  /\ earlier \subseteq Clients /\ late \subseteq SessionIds /\ halfway \in BOOLEAN

Resetting == \E c \in Clients : client[c].pc \in {"use", "purge"}

\* A reset ends the sessions that were opened before it. One of an older
\* password is left only while a reset is between its statements, after one
\* stopped there, or when its login had verified the old password before the
\* reset and inserted the session after (auth.ts:202, 556).
OldSessionsExplained ==
  \A s \in sessions :
    s.known # password => Resetting \/ halfway \/ s.id \in late

\* While the account is locked the only logins under way that will lift the
\* lock again are those that had read the user before the lock was written
\* (auth.ts:158 tests what was read, auth-service.ts:304 clears what is there).
LockedAgainstLater ==
  locked => {c \in Clients : Does(c, "clear")} \subseteq earlier
=============================================================================
