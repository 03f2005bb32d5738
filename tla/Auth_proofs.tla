----------------------------- MODULE Auth_proofs -----------------------------
(***************************************************************************)
(* The account, its browser and its limiter: the lock and the resets of an *)
(* account, the session store of the browser, and the limiter in front of  *)
(* the authentication routes, for any number of requests, calls, sessions, *)
(* resets and attempts.                                                    *)
(***************************************************************************)
EXTENDS Sessions, AuthStore, AuthRateLimit, FiniteSetTheorems, TLAPS

-----------------------------------------------------------------------------
(* The account: Sessions.                                                  *)

\* A session is opened with a password the client had given.
Types ==
  /\ SessionsTypeOK
  /\ \A c \in Clients : client[c].pc \in {"clear", "open"} => client[c].known \in 1..MaxPasswords
  /\ \A c \in Clients : client[c].pc \in {"password", "use"} => client[c].id \in ResetIds

\* One request's variables are set.
LEMMA OneClient ==
  ASSUME Types, NEW c \in Clients, NEW new \in Client,
         new.pc \in {"clear", "open"} => new.known \in 1..MaxPasswords,
         new.pc \in {"password", "use"} => new.id \in ResetIds,
         client' = [client EXCEPT ![c] = new]
  PROVE  /\ client' \in [Clients -> Client]
         /\ \A d \in Clients : client'[d].pc \in {"clear", "open"} => client'[d].known \in 1..MaxPasswords
         /\ \A d \in Clients : client'[d].pc \in {"password", "use"} => client'[d].id \in ResetIds
         /\ client'[c] = new
         /\ \A d \in Clients : d # c => client'[d] = client[d]
BY DEF Types, SessionsTypeOK

\* A request slot that is free has locals of the right type.
LEMMA FreeOK == Free \in Client /\ Free.pc = "free"
BY SessionsAssumption DEF Free, Client

\* What each kind of step makes of the client that takes it.
Sets(c, new) ==
  /\ new \in Client
  /\ new.pc \in {"clear", "open"} => new.known \in 1..MaxPasswords
  /\ new.pc \in {"password", "use"} => new.id \in ResetIds
  /\ client' = [client EXCEPT ![c] = new]

\* A request that ends.
LEMMA DoneSets ==
  ASSUME NEW c \in Clients, Done(c)
  PROVE  Sets(c, Free)
BY FreeOK DEF Done, Sets

\* A login goes on with the count or the reset of its attempts.
LEMMA ReadUserSets ==
  ASSUME Types, NEW c \in Clients, ReadUser(c)
  PROVE  \E new : Sets(c, new) /\ new.pc \in {"clear", "count"}
<1>1. PICK right \in BOOLEAN : client' = [client EXCEPT ![c] =
         [Free EXCEPT !.pc = IF right THEN "clear" ELSE "count", !.known = password]]
  BY DEF ReadUser
<1> DEFINE pc == IF right THEN "clear" ELSE "count"
           new == [Free EXCEPT !.pc = pc, !.known = password]
<1>2. pc \in {"clear", "count"} /\ password \in 1..MaxPasswords
  BY DEF Types, SessionsTypeOK
<1>3. client' = [client EXCEPT ![c] = new]
  BY <1>1
<1> HIDE DEF pc
<1>4. [Free EXCEPT !.pc = pc] \in Client
  BY <1>2, FreeOK DEF Client
<1>5. new \in Client
  <2>1. password \in 0..MaxPasswords
    BY <1>2, SessionsAssumption
  <2>2. QED
    BY <1>4, <2>1 DEF Client
<1>6. new.pc = pc /\ new.known = password
  BY FreeOK DEF Client
<1>7. QED
  BY <1>2, <1>3, <1>5, <1>6 DEF Sets

\* A failed login has read the count it will write.
LEMMA ReadAttemptsSets ==
  ASSUME Types, NEW c \in Clients, ReadAttempts(c)
  PROVE  \E new : Sets(c, new) /\ new.pc = "fail"
<1> DEFINE l == client[c]
           new == [l EXCEPT !.pc = "fail", !.count = attempts]
<1>1. l \in Client /\ attempts \in 0..MAX_ATTEMPTS
  BY DEF Types, SessionsTypeOK
<1>2. client' = [client EXCEPT ![c] = new]
  BY DEF ReadAttempts
<1> HIDE DEF l
<1>3. [l EXCEPT !.pc = "fail"] \in Client
  BY <1>1 DEF Client
<1>4. new \in Client
  BY <1>1, <1>3 DEF Client
<1>5. new.pc = "fail"
  BY <1>1 DEF Client
<1>6. QED
  BY <1>2, <1>4, <1>5 DEF Sets

\* A step that only moves on to the next statement.
LEMMA GoesSets ==
  ASSUME Types, NEW c \in Clients, NEW pc \in {"open", "use", "purge"}, Goes(c, pc),
         pc = "open" => Does(c, "clear"),
         pc = "use" => Does(c, "password")
  PROVE  \E new : Sets(c, new) /\ new.pc = pc
<1> DEFINE l == client[c]
           new == [l EXCEPT !.pc = pc]
<1>1. l \in Client /\ (pc = "open" => l.known \in 1..MaxPasswords) /\ (pc = "use" => l.id \in ResetIds)
  BY DEF Types, SessionsTypeOK, Does
<1>2. client' = [client EXCEPT ![c] = new]
  BY DEF Goes
<1> HIDE DEF l
<1>3. new \in Client /\ new.pc = pc /\ new.known = l.known /\ new.id = l.id
  BY <1>1 DEF Client
<1>4. QED
  BY <1>1, <1>2, <1>3 DEF Sets

\* A request that goes on with the row it has read.
LEMMA ByIdSets ==
  ASSUME NEW c \in Clients, NEW pc \in {"renew", "password"}, NEW id \in Nat,
         pc = "password" => id \in ResetIds,
         client' = [client EXCEPT ![c] = [Free EXCEPT !.pc = pc, !.id = id]]
  PROVE  \E new : Sets(c, new) /\ new.pc = pc /\ new.id = id
<1> DEFINE new == [Free EXCEPT !.pc = pc, !.id = id]
<1>1. [Free EXCEPT !.pc = pc] \in Client
  BY FreeOK DEF Client
<1>2. new \in Client
  BY <1>1 DEF Client
<1>3. new.pc = pc /\ new.id = id
  BY FreeOK DEF Client
<1>4. QED
  BY <1>2, <1>3 DEF Sets

\* The SELECTs of a session and of a reset token.
LEMMA IdReadSets ==
  ASSUME Types, NEW c \in Clients, ReadSession(c) \/ ReadReset(c)
  PROVE  \E new : Sets(c, new) /\ (new.pc = "renew" \/ new.pc = "password")
<1>1. CASE ReadSession(c)
  <2>1. PICK s \in sessions : client' = [client EXCEPT ![c] = [Free EXCEPT !.pc = "renew", !.id = s.id]]
    BY <1>1 DEF ReadSession
  <2>2. s.id \in Nat
    BY <2>1, SessionsAssumption DEF Types, SessionsTypeOK, Session, SessionIds
  <2>3. \E new : Sets(c, new) /\ new.pc = "renew"
    BY <2>1, <2>2, ByIdSets
  <2>4. QED
    BY <2>3
<1>2. CASE ReadReset(c)
  <2>1. PICK r \in ResetIds : client' = [client EXCEPT ![c] = [Free EXCEPT !.pc = "password", !.id = r]]
    BY <1>2 DEF ReadReset
  <2>2. r \in Nat
    BY <2>1, SessionsAssumption DEF ResetIds
  <2>3. \E new : Sets(c, new) /\ new.pc = "password"
    BY <2>1, <2>2, ByIdSets
  <2>4. QED
    BY <2>3
<1>3. QED
  BY <1>1, <1>2

-----------------------------------------------------------------------------
\* What a request does next: every step of one sets its variables so.
StepOf(c) ==
  \/ ReadUser(c) \/ ReadAttempts(c) \/ WriteAttempts(c) \/ ClearAttempts(c)
  \/ OpenSession(c) \/ ReadSession(c) \/ RenewSession(c) \/ ReadReset(c) \/ SetPassword(c)
  \/ UseReset(c) \/ PurgeSessions(c) \/ FailRequest(c)

\* Every step of a request leaves it locals of the right type.
LEMMA StepSets ==
  ASSUME Types, NEW c \in Clients, StepOf(c)
  PROVE  \E new : Sets(c, new)
<1>1. CASE ReadUser(c)
  BY <1>1, ReadUserSets
<1>2. CASE ReadAttempts(c)
  BY <1>2, ReadAttemptsSets
<1>3. CASE WriteAttempts(c) \/ OpenSession(c) \/ RenewSession(c) \/ PurgeSessions(c) \/ FailRequest(c)
  <2>1. Done(c)
    BY <1>3 DEF WriteAttempts, OpenSession, RenewSession, PurgeSessions, FailRequest
  <2>2. QED
    BY <2>1, DoneSets
<1>4. CASE ClearAttempts(c)
  BY <1>4, GoesSets DEF ClearAttempts
<1>5. CASE SetPassword(c)
  BY <1>5, GoesSets DEF SetPassword
<1>6. CASE UseReset(c)
  BY <1>6, GoesSets DEF UseReset
<1>7. CASE ReadSession(c) \/ ReadReset(c)
  BY <1>7, IdReadSets
<1>8. QED
  BY <1>1, <1>2, <1>3, <1>4, <1>5, <1>6, <1>7 DEF StepOf

\* The tables and histories keep their types.
LEMMA TablesTyped ==
  ASSUME Types, SessionsNext
  PROVE  /\ password' \in 1..MaxPasswords
         /\ attempts' \in 0..MAX_ATTEMPTS /\ locked' \in BOOLEAN
         /\ sessions' \subseteq Session
         /\ resets' \in [ResetIds -> {"none", "open", "used"}]
         /\ earlier' \subseteq Clients /\ late' \subseteq SessionIds /\ halfway' \in BOOLEAN
<1> DEFINE Goal == /\ password' \in 1..MaxPasswords
                   /\ attempts' \in 0..MAX_ATTEMPTS /\ locked' \in BOOLEAN
                   /\ sessions' \subseteq Session
                   /\ resets' \in [ResetIds -> {"none", "open", "used"}]
                   /\ earlier' \subseteq Clients /\ late' \subseteq SessionIds /\ halfway' \in BOOLEAN
<1> SUFFICES Goal
  OBVIOUS
<1>1. CASE LockExpires \/ EndSession \/ ForgotPassword
  BY <1>1 DEF LockExpires, EndSession, ForgotPassword, Types, SessionsTypeOK
<1>2. ASSUME NEW c \in Clients, WriteAttempts(c) PROVE Goal
  <2> DEFINE n == IF client[c].count < MAX_ATTEMPTS THEN client[c].count + 1 ELSE MAX_ATTEMPTS
  <2>1. client[c].count \in 0..MAX_ATTEMPTS
    BY DEF Types, SessionsTypeOK, Client
  <2>2. n \in 0..MAX_ATTEMPTS
    BY <2>1, SessionsAssumption
  <2>3. attempts' = n /\ locked' \in BOOLEAN /\ earlier' \subseteq Clients
    BY <1>2 DEF WriteAttempts, Types, SessionsTypeOK
  <2> HIDE DEF n
  <2>4. QED
    BY <1>2, <2>2, <2>3 DEF WriteAttempts, Types, SessionsTypeOK
<1>3. ASSUME NEW c \in Clients, OpenSession(c) PROVE Goal
  <2>1. client[c].known \in 1..MaxPasswords
    BY <1>3 DEF OpenSession, Does, Types
  <2>2. PICK id \in SessionIds :
          /\ sessions' = sessions \cup {[id |-> id, known |-> client[c].known]}
          /\ late' = IF client[c].known # password THEN late \cup {id} ELSE late \ {id}
    BY <1>3 DEF OpenSession
  <2>3. [id |-> id, known |-> client[c].known] \in Session
    BY <2>1, <2>2 DEF Session
  <2>4. QED
    BY <1>3, <2>2, <2>3 DEF OpenSession, Types, SessionsTypeOK
<1>4. ASSUME NEW c \in Clients, SetPassword(c) PROVE Goal
  <2>1. password + 1 \in 1..MaxPasswords
    BY <1>4, SessionsAssumption DEF SetPassword, Types, SessionsTypeOK
  <2>2. QED
    BY <1>4, <2>1 DEF SetPassword, Types, SessionsTypeOK
<1>5. ASSUME NEW c \in Clients,
             \/ ReadUser(c) \/ ReadAttempts(c) \/ ReadSession(c) \/ RenewSession(c) \/ ReadReset(c)
             \/ FailRequest(c)
      PROVE  Goal
  BY <1>5 DEF ReadUser, ReadAttempts, ReadSession, RenewSession, ReadReset, FailRequest,
              Types, SessionsTypeOK
<1>6. ASSUME NEW c \in Clients, ClearAttempts(c) PROVE Goal
  <2>1. 0 \in 0..MAX_ATTEMPTS
    BY SessionsAssumption
  <2>2. QED
    BY <1>6, <2>1 DEF ClearAttempts, Types, SessionsTypeOK
<1>7. ASSUME NEW c \in Clients, UseReset(c) PROVE Goal
  BY <1>7 DEF UseReset, Types, SessionsTypeOK
<1>8. ASSUME NEW c \in Clients, PurgeSessions(c) PROVE Goal
  BY <1>8 DEF PurgeSessions, Kept, Types, SessionsTypeOK
<1> HIDE DEF Goal
<1>9. ASSUME NEW c \in Clients, StepOf(c) PROVE Goal
  BY <1>2, <1>3, <1>4, <1>5, <1>6, <1>7, <1>8, <1>9 DEF StepOf
<1>10. QED
  BY <1>1, <1>9 DEF SessionsNext, StepOf

\* The types of the tables and of every request's variables.
THEOREM SessionsTypes == SessionsSpec => []Types
<1>1. SessionsInit => Types
  <2> SUFFICES ASSUME SessionsInit PROVE Types
    OBVIOUS
  <2>1. client \in [Clients -> Client] /\ \A c \in Clients : client[c].pc = "free"
    BY FreeOK DEF SessionsInit
  <2>2. 1 \in 1..MaxPasswords /\ 0 \in 0..MAX_ATTEMPTS
    BY SessionsAssumption
  <2>3. SessionsTypeOK
    BY <2>1, <2>2 DEF SessionsInit, SessionsTypeOK
  <2>4. QED
    BY <2>1, <2>3 DEF Types
<1>2. Types /\ [SessionsNext]_sessionVars => Types'
  <2> SUFFICES ASSUME Types, [SessionsNext]_sessionVars PROVE Types'
    OBVIOUS
  <2>1. CASE UNCHANGED sessionVars
    BY <2>1 DEF sessionVars, Types, SessionsTypeOK
  <2>2. CASE SessionsNext
    <3> DEFINE Kinds == /\ client' \in [Clients -> Client]
                        /\ \A d \in Clients : client'[d].pc \in {"clear", "open"} => client'[d].known \in 1..MaxPasswords
                        /\ \A d \in Clients : client'[d].pc \in {"password", "use"} => client'[d].id \in ResetIds
    <3>1. ASSUME NEW c \in Clients, StepOf(c) PROVE Kinds
      BY <3>1, StepSets, OneClient DEF Sets
    <3>2. ASSUME LockExpires \/ EndSession \/ ForgotPassword PROVE Kinds
      <4>1. client' = client
        BY <3>2 DEF LockExpires, EndSession, ForgotPassword
      <4>2. QED
        BY <4>1 DEF Types, SessionsTypeOK
    <3> HIDE DEF Kinds
    <3>3. Kinds
      BY <2>2, <3>1, <3>2 DEF SessionsNext, StepOf
    <3>4. QED
      BY <2>2, <3>3, TablesTyped DEF Types, SessionsTypeOK, Client, Kinds
  <2>3. QED
    BY <2>1, <2>2
<1>3. QED
  BY <1>1, <1>2, PTL DEF SessionsSpec

-----------------------------------------------------------------------------
\* What a request does is seen by the others only through the tables.
LEMMA OnlyOneMoves ==
  ASSUME Types, NEW c \in Clients, NEW new, Sets(c, new)
  PROVE  client'[c] = new /\ \A d \in Clients : d # c => client'[d] = client[d]
BY DEF Sets, Types, SessionsTypeOK

\* A lock that is written names the logins that had read the user before; none
\* is added while it holds.
LEMMA LockKeeps ==
  ASSUME Types, LockedAgainstLater, SessionsNext
  PROVE  LockedAgainstLater'
<1>1. ASSUME NEW c \in Clients, ReadUser(c) PROVE LockedAgainstLater'
  BY <1>1 DEF ReadUser, MayTry, LockedAgainstLater
<1>2. ASSUME NEW c \in Clients, NEW new, Sets(c, new), new.pc # "clear",
             earlier' = earlier, locked' = locked
      PROVE  LockedAgainstLater'
  BY <1>2, OnlyOneMoves DEF LockedAgainstLater, Does
<1>3. ASSUME NEW c \in Clients, WriteAttempts(c) PROVE LockedAgainstLater'
  <2>1. Sets(c, Free)
    BY <1>3, DoneSets DEF WriteAttempts
  <2>2. \A d \in Clients : Does(d, "clear")' => Does(d, "clear")
    BY <2>1, OnlyOneMoves, FreeOK DEF Does
  <2>3. \/ earlier' = {d \in Clients : Does(d, "clear")}
        \/ earlier' = earlier /\ locked' = locked
    BY <1>3 DEF WriteAttempts, Types, SessionsTypeOK
  <2>4. QED
    BY <2>2, <2>3 DEF LockedAgainstLater
<1>4. ASSUME NEW c \in Clients, ClearAttempts(c) PROVE LockedAgainstLater'
  BY <1>4 DEF ClearAttempts, LockedAgainstLater
<1>5. ASSUME NEW c \in Clients,
             OpenSession(c) \/ RenewSession(c) \/ PurgeSessions(c) \/ FailRequest(c)
      PROVE  LockedAgainstLater'
  <2>1. Sets(c, Free) /\ earlier' = earlier /\ locked' = locked
    BY <1>5, DoneSets DEF OpenSession, RenewSession, PurgeSessions, FailRequest
  <2>2. QED
    BY <1>2, <2>1, FreeOK
<1>6. ASSUME NEW c \in Clients, SetPassword(c) \/ UseReset(c) PROVE LockedAgainstLater'
  <2>1. \E new : Sets(c, new) /\ new.pc # "clear"
    BY <1>6, GoesSets DEF SetPassword, UseReset
  <2>2. QED
    BY <1>2, <1>6, <2>1 DEF SetPassword, UseReset
<1>7. ASSUME NEW c \in Clients, ReadAttempts(c) PROVE LockedAgainstLater'
  BY <1>2, <1>7, ReadAttemptsSets DEF ReadAttempts
<1>8. ASSUME NEW c \in Clients, ReadSession(c) \/ ReadReset(c) PROVE LockedAgainstLater'
  <2>1. PICK new : Sets(c, new) /\ (new.pc = "renew" \/ new.pc = "password")
    BY <1>8, IdReadSets
  <2>2. QED
    BY <1>2, <1>8, <2>1 DEF ReadSession, ReadReset
<1>9. CASE LockExpires \/ EndSession \/ ForgotPassword
  BY <1>9 DEF LockExpires, EndSession, ForgotPassword, LockedAgainstLater, Does
<1>10. QED
  BY <1>1, <1>3, <1>4, <1>5, <1>6, <1>7, <1>8, <1>9 DEF SessionsNext

\* LockedAgainstLater, for any number of attempts and of logins at a time.
THEOREM LocksHold == SessionsSpec => []LockedAgainstLater
<1>1. SessionsInit => LockedAgainstLater
  BY DEF SessionsInit, LockedAgainstLater
<1>2. Types /\ LockedAgainstLater /\ [SessionsNext]_sessionVars => LockedAgainstLater'
  <2> SUFFICES ASSUME Types, LockedAgainstLater, [SessionsNext]_sessionVars
               PROVE  LockedAgainstLater'
    OBVIOUS
  <2>1. CASE UNCHANGED sessionVars
    BY <2>1 DEF sessionVars, LockedAgainstLater, Does
  <2>2. QED
    BY <2>1, LockKeeps
<1>3. QED
  BY <1>1, <1>2, SessionsTypes, PTL DEF SessionsSpec

-----------------------------------------------------------------------------
\* A step of a request that is not resetting, or of none, keeps the sessions
\* explained if it opens none and changes no password.
LEMMA StillExplained ==
  ASSUME Types, OldSessionsExplained,
         \A c \in Clients : client[c].pc \in {"use", "purge"} => client'[c] = client[c],
         sessions' \subseteq sessions, UNCHANGED <<password, late>>, halfway => halfway'
  PROVE  OldSessionsExplained'
<1>1. Resetting => Resetting'
  BY DEF Resetting
<1>2. QED
  BY <1>1 DEF OldSessionsExplained

\* A session of a replaced password is recorded as late.
LEMMA OpenExplained ==
  ASSUME Types, OldSessionsExplained, NEW c \in Clients, OpenSession(c)
  PROVE  OldSessionsExplained'
<1>1. PICK id \in SessionIds :
        /\ IsNew(id, {s.id : s \in sessions})
        /\ sessions' = sessions \cup {[id |-> id, known |-> client[c].known]}
        /\ late' = IF client[c].known # password THEN late \cup {id} ELSE late \ {id}
  BY DEF OpenSession
<1>2. Sets(c, Free) /\ Does(c, "open") /\ password' = password /\ halfway' = halfway
  BY DoneSets DEF OpenSession
<1>3. Resetting => Resetting'
  BY <1>2, OnlyOneMoves DEF Resetting, Does
<1>4. ASSUME NEW s \in sessions, s.known # password PROVE Resetting' \/ halfway' \/ s.id \in late'
  <2>1. s.id # id
    BY <1>1 DEF IsNew
  <2>2. QED
    BY <1>1, <1>2, <1>3, <1>4, <2>1 DEF OldSessionsExplained
<1>5. client[c].known # password => id \in late'
  BY <1>1
<1>6. QED
  BY <1>1, <1>2, <1>4, <1>5 DEF OldSessionsExplained

\* Between a new password and the end of the sessions a reset is under way.
LEMMA ResetExplained ==
  ASSUME Types, OldSessionsExplained, NEW c \in Clients,
         SetPassword(c) \/ UseReset(c) \/ PurgeSessions(c)
  PROVE  OldSessionsExplained'
<1>1. CASE SetPassword(c) \/ UseReset(c)
  <2>1. \E new : Sets(c, new) /\ (new.pc = "use" \/ new.pc = "purge")
    <3>1. CASE SetPassword(c)
      <4>1. \E new : Sets(c, new) /\ new.pc = "use"
        BY <3>1, GoesSets DEF SetPassword
      <4>2. QED
        BY <4>1
    <3>2. CASE UseReset(c)
      <4>1. \E new : Sets(c, new) /\ new.pc = "purge"
        BY <3>2, GoesSets DEF UseReset
      <4>2. QED
        BY <4>1
    <3>3. QED
      BY <1>1, <3>1, <3>2
  <2>2. client'[c].pc \in {"use", "purge"}
    BY <2>1, OnlyOneMoves
  <2>3. Resetting'
    BY <2>2 DEF Resetting
  <2>4. QED
    BY <2>3 DEF OldSessionsExplained
<1>2. CASE PurgeSessions(c)
  BY <1>2 DEF PurgeSessions, Kept, OldSessionsExplained
<1>3. QED
  BY <1>1, <1>2

\* A reset that stops there is recorded.
LEMMA FailExplained ==
  ASSUME Types, OldSessionsExplained, NEW c \in Clients, FailRequest(c)
  PROVE  OldSessionsExplained'
<1>1. CASE client[c].pc \in {"use", "purge"}
  BY <1>1 DEF FailRequest, OldSessionsExplained
<1>2. CASE client[c].pc \notin {"use", "purge"}
  <2>1. Sets(c, Free)
    BY DoneSets DEF FailRequest
  <2>2. \A d \in Clients : client[d].pc \in {"use", "purge"} => client'[d] = client[d]
    BY <1>2, <2>1, OnlyOneMoves
  <2>3. QED
    BY <2>2, StillExplained DEF FailRequest
<1>3. QED
  BY <1>1, <1>2

\* Steps that only read, count or remove.
LEMMA OthersExplained ==
  ASSUME Types, OldSessionsExplained, NEW c \in Clients,
         \/ ReadUser(c) \/ ReadAttempts(c) \/ WriteAttempts(c) \/ ClearAttempts(c)
         \/ ReadSession(c) \/ RenewSession(c) \/ ReadReset(c)
  PROVE  OldSessionsExplained'
<1>1. PICK new : Sets(c, new)
  BY StepSets DEF StepOf
<1>2. client[c].pc \notin {"use", "purge"}
  BY DEF ReadUser, ReadAttempts, WriteAttempts, ClearAttempts, ReadSession, RenewSession,
         ReadReset, Does
<1>3. \A d \in Clients : client[d].pc \in {"use", "purge"} => client'[d] = client[d]
  BY <1>1, <1>2, OnlyOneMoves
<1>4. sessions' = sessions /\ password' = password /\ late' = late /\ halfway' = halfway
  BY DEF ReadUser, ReadAttempts, WriteAttempts, ClearAttempts, ReadSession, RenewSession,
         ReadReset
<1>5. QED
  BY <1>3, <1>4, StillExplained

\* OldSessionsExplained, for any number of sessions, passwords and resets.
THEOREM OldSessions == SessionsSpec => []OldSessionsExplained
<1>1. SessionsInit => OldSessionsExplained
  BY DEF SessionsInit, OldSessionsExplained
<1>2. Types /\ OldSessionsExplained /\ [SessionsNext]_sessionVars => OldSessionsExplained'
  <2> SUFFICES ASSUME Types, OldSessionsExplained, [SessionsNext]_sessionVars
               PROVE  OldSessionsExplained'
    OBVIOUS
  <2>1. CASE UNCHANGED sessionVars
    BY <2>1 DEF sessionVars, OldSessionsExplained, Resetting
  <2>2. CASE LockExpires \/ EndSession \/ ForgotPassword
    <3>1. sessions' \subseteq sessions /\ UNCHANGED <<client, password, late, halfway>>
      BY <2>2 DEF LockExpires, EndSession, ForgotPassword
    <3>2. QED
      BY <3>1, StillExplained
  <2>3. ASSUME NEW c \in Clients, StepOf(c) PROVE OldSessionsExplained'
    BY <2>3, OthersExplained, OpenExplained, ResetExplained, FailExplained DEF StepOf
  <2>4. QED
    BY <2>1, <2>2, <2>3 DEF SessionsNext, StepOf
<1>3. QED
  BY <1>1, <1>2, SessionsTypes, PTL DEF SessionsSpec

-----------------------------------------------------------------------------
(* The session store of the browser: AuthStore.                            *)

\* Both properties hold of the variables alone, but each step of a refresh needs
\* the other: the invariant is their conjunction.
StoreInv ==
  /\ store \subseteq Fields /\ stray \in BOOLEAN
  /\ AuthenticatedWhole
  /\ TornOnlyByStray

\* A step that sets all kept fields, or clears them.
LEMMA WholeKeeps ==
  ASSUME NEW new \in {{}, Fields}, Whole(new)
  PROVE  StoreInv'
BY DEF Whole, StoreInv, AuthenticatedWhole, TornOnlyByStray, Fields

\* The answer to a refresh or a profile that adds fields other than the flag.
LEMMA AddingKeeps ==
  ASSUME StoreInv, NEW fields \in SUBSET (Fields \ {"isAuthenticated"}),
         store' = store \cup fields,
         stray' = (stray \/ "isAuthenticated" \notin store)
  PROVE  StoreInv'
<1>1. CASE "isAuthenticated" \in store
  <2>1. store' = Fields
    BY <1>1 DEF StoreInv, AuthenticatedWhole
  <2>2. QED
    BY <2>1 DEF StoreInv, AuthenticatedWhole, TornOnlyByStray
<1>2. CASE "isAuthenticated" \notin store
  <2>1. stray' /\ "isAuthenticated" \notin store' /\ store' \subseteq Fields
    BY <1>2 DEF StoreInv
  <2>2. QED
    BY <2>1 DEF StoreInv, AuthenticatedWhole, TornOnlyByStray
<1>3. QED
  BY <1>1, <1>2

\* A step of one call.
LEMMA CallKeeps ==
  ASSUME StoreInv, NEW c \in Calls,
         \/ Login(c) \/ LoggedIn(c) \/ Logout(c) \/ LoggedOut(c)
         \/ RefreshSession(c) \/ Refreshed(c) \/ RefreshFailed(c)
         \/ FetchProfile(c) \/ ProfileFetched(c) \/ FailCallToServer(c)
  PROVE  StoreInv'
<1>1. CASE LoggedIn(c) \/ LoggedOut(c)
  BY <1>1, WholeKeeps DEF LoggedIn, LoggedOut
<1>2. CASE Refreshed(c)
  BY <1>2, AddingKeeps DEF Refreshed, Refreshes, Fields
<1>3. CASE ProfileFetched(c)
  BY <1>3, AddingKeeps DEF ProfileFetched, Fields
<1>4. CASE RefreshFailed(c)
  <2>1. store' = {} /\ stray' = FALSE
    BY <1>4 DEF RefreshFailed, Cleared, StoreInv
  <2>2. QED
    BY <2>1, WholeKeeps DEF Whole
<1>5. CASE \/ Login(c) \/ Logout(c) \/ RefreshSession(c) \/ FetchProfile(c)
           \/ FailCallToServer(c)
  BY <1>5 DEF Login, Logout, RefreshSession, FetchProfile, Asks, FailCallToServer,
              StoreInv, AuthenticatedWhole, TornOnlyByStray
<1>6. QED
  BY <1>1, <1>2, <1>3, <1>4, <1>5

\* A step of no call.
LEMMA OthersKeep ==
  ASSUME StoreInv, LogoutWithout \/ RefreshWithout \/ Reload
  PROVE  StoreInv'
<1>1. CASE LogoutWithout
  BY <1>1, WholeKeeps DEF LogoutWithout
<1>2. CASE RefreshWithout
  <2>1. store' = store /\ stray' = stray
    BY <1>2 DEF RefreshWithout, StoreInv, AuthenticatedWhole, Fields
  <2>2. QED
    BY <2>1 DEF StoreInv, AuthenticatedWhole, TornOnlyByStray
<1>3. CASE Reload
  <2>1. \/ store' = {} /\ stray' = FALSE
        \/ store' = store /\ stray' = stray
        \/ store' = store /\ store = {} /\ stray' = FALSE
    BY <1>3 DEF Reload, Rehydrated, StoreInv
  <2>2. QED
    BY <2>1, WholeKeeps DEF Whole, StoreInv, AuthenticatedWhole, TornOnlyByStray
<1>4. QED
  BY <1>1, <1>2, <1>3

\* The store is whole or empty but for stray answers, and whole whenever the
\* user is authenticated.
THEOREM StoreInvariant == AuthStoreSpec => []StoreInv
<1>1. AuthStoreInit => StoreInv
  BY DEF AuthStoreInit, StoreInv, AuthenticatedWhole, TornOnlyByStray
<1>2. StoreInv /\ [AuthStoreNext]_storeVars => StoreInv'
  <2> SUFFICES ASSUME StoreInv, [AuthStoreNext]_storeVars PROVE StoreInv'
    OBVIOUS
  <2>1. CASE UNCHANGED storeVars
    BY <2>1 DEF storeVars, StoreInv, AuthenticatedWhole, TornOnlyByStray
  <2>2. CASE AuthStoreNext
    BY <2>2, CallKeeps, OthersKeep DEF AuthStoreNext
  <2>3. QED
    BY <2>1, <2>2
<1>3. QED
  BY <1>1, <1>2, PTL DEF AuthStoreSpec

\* AuthenticatedWhole, for any number of calls.
THEOREM AuthenticatedIsWhole == AuthStoreSpec => []AuthenticatedWhole
<1>1. StoreInv => AuthenticatedWhole
  BY DEF StoreInv
<1>2. QED
  BY <1>1, StoreInvariant, PTL

\* TornOnlyByStray, for any number of calls.
THEOREM TornIsStray == AuthStoreSpec => []TornOnlyByStray
<1>1. StoreInv => TornOnlyByStray
  BY DEF StoreInv
<1>2. QED
  BY <1>1, StoreInvariant, PTL

-----------------------------------------------------------------------------
(* The limiter: AuthRateLimit.                                             *)

Call == [pc : {"idle", "insert", "add", "clean"}, window : Minutes]

\* The calls that are at a statement of a minute's window, and their number.
CallsAt(calls, pc, w) == {c \in Callers : calls[c].pc = pc /\ calls[c].window = w}

Number(calls, pc, w) == Cardinality(CallsAt(calls, pc, w))

RateTypeOK ==
  /\ minute \in Minutes
  /\ counters \in [Minutes -> Seq(Nat)]
  /\ caller \in [Callers -> Call]
  /\ admitted \in [Minutes -> Nat]

\* A call is through within the minute after its own.
InTime ==
  \A c \in Callers :
    caller[c].pc # "idle" => caller[c].window <= minute /\ minute <= caller[c].window + 1

\* The counters of a minute, and what the first of them says.
Length(cs, w) == Len(cs[w])

First(cs, w) == Head(cs[w])

Passed(as, w) == as[w]

\* What a minute has counted: all that were let through or still will be; and
\* what it may count yet, from the calls that read the counter but did not write.
CountsAll(w) ==
  Passed(admitted, w) + Number(caller, "clean", w) <= Length(counters, w) + First(counters, w) - 1

InsertsBounded(w) ==
  Length(counters, w) + Number(caller, "insert", w) <= Cardinality(Callers)

AddsBounded(w) ==
  First(counters, w) + Number(caller, "add", w) <= MAX_REQUESTS + Cardinality(Callers) - 1

\* A minute without a counter: nothing was counted yet, or all is over.
NoneCounted(w) ==
  /\ Number(caller, "add", w) = 0
  /\ minute <= w + 1 => admitted[w] = 0 /\ Number(caller, "clean", w) = 0

WindowInv(w) ==
  /\ counters[w] = << >> => NoneCounted(w)
  /\ counters[w] # << >> => CountsAll(w) /\ InsertsBounded(w) /\ AddsBounded(w)
  /\ admitted[w] <= MAX_REQUESTS + 2 * (Cardinality(Callers) - 1)

RateInv == RateTypeOK /\ InTime /\ \A w \in Minutes : WindowInv(w)

\* The calls at a statement are some of all calls.
LEMMA NumberBounds ==
  ASSUME NEW calls, NEW pc, NEW w
  PROVE  /\ Cardinality(Callers) \in Nat \ {0}
         /\ Number(calls, pc, w) \in Nat /\ Number(calls, pc, w) <= Cardinality(Callers)
         /\ Number(calls, pc, w) = 0 <=> CallsAt(calls, pc, w) = {}
         /\ IsFiniteSet(CallsAt(calls, pc, w))
<1>1. CallsAt(calls, pc, w) \in SUBSET Callers
  BY DEF CallsAt
<1>2. IsFiniteSet(CallsAt(calls, pc, w)) /\ Number(calls, pc, w) <= Cardinality(Callers)
  BY <1>1, FS_Subset, RateAssumption DEF Number
<1>3. Cardinality(Callers) \in Nat /\ Number(calls, pc, w) \in Nat
  BY <1>2, FS_CardinalityType, RateAssumption DEF Number
<1>4. Cardinality(Callers) # 0
  BY FS_EmptySet, RateAssumption
<1>5. Number(calls, pc, w) = 0 <=> CallsAt(calls, pc, w) = {}
  BY <1>2, FS_EmptySet DEF Number
<1>6. QED
  BY <1>2, <1>3, <1>4, <1>5

\* No call but c moves.
OnlyMoves(c) ==
  caller' \in [Callers -> Call] /\ \A d \in Callers \ {c} : caller'[d] = caller[d]

\* A call that moves on is the only one to.
LEMMA SetsOne ==
  ASSUME RateTypeOK, NEW c \in Callers, NEW new \in Call, caller' = [caller EXCEPT ![c] = new]
  PROVE  OnlyMoves(c) /\ caller'[c] = new
BY DEF RateTypeOK, OnlyMoves

\* Whether a call is at a statement of a minute, as a number.
Counted(one, pc, w) == IF one.pc = pc /\ one.window = w THEN 1 ELSE 0

\* One call moves from its statement to another.
LEMMA NumbersAfter ==
  ASSUME NEW c \in Callers, OnlyMoves(c), NEW pc, NEW w
  PROVE  /\ Number(caller, pc, w) \in Nat /\ Number(caller', pc, w) \in Nat
         /\ Number(caller', pc, w) =
              Number(caller, pc, w) - Counted(caller[c], pc, w) + Counted(caller'[c], pc, w)
<1> DEFINE before == CallsAt(caller, pc, w)
           without == before \ {c}
<1>1. /\ IsFiniteSet(before) /\ Number(caller, pc, w) \in Nat /\ Number(caller', pc, w) \in Nat
  BY NumberBounds
<1>2. Cardinality(before) = Number(caller, pc, w)
  BY DEF Number
<1>3. c \in before <=> Counted(caller[c], pc, w) = 1
  BY DEF CallsAt, Counted
<1>4. CallsAt(caller', pc, w) =
        IF Counted(caller'[c], pc, w) = 1 THEN without \cup {c} ELSE without
  BY DEF CallsAt, Counted, OnlyMoves
<1>5. Counted(caller'[c], pc, w) \in {0, 1} /\ Counted(caller[c], pc, w) \in {0, 1}
  BY DEF Counted
<1> HIDE DEF before
<1>6. IsFiniteSet(without) /\ Cardinality(without) = Number(caller, pc, w) - Counted(caller[c], pc, w)
  BY <1>1, <1>2, <1>3, <1>5, FS_RemoveElement
<1>7. Cardinality(without \cup {c}) = Cardinality(without) + 1
  BY <1>6, FS_AddElement
<1> HIDE DEF without
<1>8. QED
  BY <1>1, <1>4, <1>5, <1>6, <1>7 DEF Number

\* The SELECT counts nothing; who finds the counter full is refused.
LEMMA ReadKeepsRateInv ==
  ASSUME RateInv, NEW c \in Callers, ReadCounter(c)
  PROVE  RateInv'
<1>1. /\ OnlyMoves(c) /\ caller[c].pc = "idle" /\ caller'[c].pc # "clean"
      /\ caller'[c].pc # "idle" => caller'[c].window = minute
      /\ caller'[c].pc = "insert" => counters[minute] = << >>
      /\ caller'[c].pc = "add" => counters[minute] # << >> /\ ~Refuses(Head(counters[minute]))
  <2> DEFINE new == IF counters[minute] = << >> THEN [pc |-> "insert", window |-> minute]
                    ELSE IF Refuses(Head(counters[minute])) THEN NoCall
                    ELSE [pc |-> "add", window |-> minute]
  <2>1. caller' = [caller EXCEPT ![c] = new] /\ caller[c].pc = "idle"
    BY DEF ReadCounter
  <2>2. minute \in Minutes /\ 0 \in Minutes
    BY RateAssumption DEF RateInv, RateTypeOK, Minutes
  <2>3. /\ new \in Call /\ new.pc # "clean"
        /\ new.pc # "idle" => new.window = minute
        /\ new.pc = "insert" => counters[minute] = << >>
        /\ new.pc = "add" => counters[minute] # << >> /\ ~Refuses(Head(counters[minute]))
    BY <2>2 DEF NoCall, Call
  <2> HIDE DEF new
  <2>4. OnlyMoves(c) /\ caller'[c] = new
    BY <2>1, <2>3, SetsOne DEF RateInv
  <2>5. QED
    BY <2>1, <2>3, <2>4
<1>2. minute' = minute /\ counters' = counters /\ admitted' = admitted /\ minute \in Nat
  BY DEF ReadCounter, RateInv, RateTypeOK, Minutes
<1>3. RateTypeOK' /\ InTime'
  BY <1>1, <1>2 DEF RateInv, RateTypeOK, InTime, OnlyMoves
<1>4. ASSUME NEW w \in Minutes PROVE WindowInv(w)'
  <2>1. /\ Number(caller', "clean", w) = Number(caller, "clean", w)
        /\ Number(caller', "insert", w) = Number(caller, "insert", w) \/ counters[w] = << >>
        /\ \/ Number(caller', "add", w) = Number(caller, "add", w)
           \/ counters[w] # << >> /\ ~Refuses(Head(counters[w]))
    <3>1. \A pc \in {"clean", "insert", "add"} :
            \/ Number(caller', pc, w) = Number(caller, pc, w)
            \/ caller'[c].pc = pc /\ w = minute
      <4> TAKE pc \in {"clean", "insert", "add"}
      <4>1. Counted(caller[c], pc, w) = 0
        BY <1>1 DEF Counted
      <4>2. \/ Counted(caller'[c], pc, w) = 0
            \/ caller'[c].pc = pc /\ w = minute
        BY <1>1 DEF Counted
      <4>3. QED
        BY <1>1, <4>1, <4>2, NumbersAfter
    <3>2. QED
      BY <1>1, <3>1
  <2>2. CASE counters[w] = << >>
    BY <1>2, <2>1, <2>2 DEF RateInv, WindowInv, NoneCounted
  <2>3. CASE counters[w] # << >>
    <3>1. AddsBounded(w)'
      <4>1. CASE Number(caller', "add", w) = Number(caller, "add", w)
        BY <1>2, <2>3, <4>1 DEF RateInv, WindowInv, AddsBounded
      <4>2. CASE ~Refuses(Head(counters[w]))
        <5>1. Number(caller', "add", w) \in Nat /\ Number(caller', "add", w) <= Cardinality(Callers)
          BY NumberBounds
        <5>2. First(counters, w) \in Nat /\ First(counters, w) <= MAX_REQUESTS - 1
          <6>1. Head(counters[w]) \in Nat /\ ~(Head(counters[w]) >= MAX_REQUESTS)
            BY <2>3, <4>2 DEF RateInv, RateTypeOK, Refuses
          <6>2. QED
            BY <6>1, RateAssumption DEF First
        <5>3. QED
          BY <1>2, <5>1, <5>2, NumberBounds, RateAssumption DEF AddsBounded
      <4>3. QED
        BY <2>1, <4>1, <4>2
    <3>2. QED
      BY <1>2, <2>1, <2>3, <3>1 DEF RateInv, WindowInv, CountsAll, InsertsBounded
  <2>4. QED
    BY <2>2, <2>3
<1>5. QED
  BY <1>3, <1>4 DEF RateInv

\* A call goes on, or ends: it stays in time, and changes only the numbers of
\* its own window.
LEMMA CallGoesOn ==
  ASSUME RateInv, NEW c \in Callers, OnlyMoves(c), minute' = minute, caller[c].pc # "idle",
         caller'[c].pc # "idle" => caller'[c].window = caller[c].window
  PROVE  /\ InTime'
         /\ \A pc \in {"insert", "add", "clean"}, w \in Minutes :
              /\ Number(caller, pc, w) \in Nat /\ Number(caller', pc, w) \in Nat
              /\ w # caller[c].window => Number(caller', pc, w) = Number(caller, pc, w)
              /\ w = caller[c].window => Number(caller', pc, w) = Number(caller, pc, w)
                   - (IF caller[c].pc = pc THEN 1 ELSE 0) + (IF caller'[c].pc = pc THEN 1 ELSE 0)
<1>1. InTime'
  BY DEF RateInv, InTime, OnlyMoves
<1>2. ASSUME NEW pc \in {"insert", "add", "clean"}, NEW w \in Minutes
      PROVE  /\ Number(caller, pc, w) \in Nat /\ Number(caller', pc, w) \in Nat
             /\ w # caller[c].window => Number(caller', pc, w) = Number(caller, pc, w)
             /\ w = caller[c].window => Number(caller', pc, w) = Number(caller, pc, w)
                  - (IF caller[c].pc = pc THEN 1 ELSE 0) + (IF caller'[c].pc = pc THEN 1 ELSE 0)
  <2>1. /\ Number(caller, pc, w) \in Nat /\ Number(caller', pc, w) \in Nat
        /\ Number(caller', pc, w) =
             Number(caller, pc, w) - Counted(caller[c], pc, w) + Counted(caller'[c], pc, w)
    BY NumbersAfter
  <2>2. QED
    BY <2>1 DEF Counted
<1>3. QED
  BY <1>1, <1>2

\* A call at the UPDATE has found a counter, and one that is about to be let
\* through has been counted: its window is not cleaned up yet.
LEMMA CalledOnCounter ==
  ASSUME RateInv, NEW c \in Callers, caller[c].pc \in {"add", "clean"}
  PROVE  /\ caller[c].window \in Minutes
         /\ counters[caller[c].window] # << >>
         /\ Number(caller, caller[c].pc, caller[c].window) > 0
<1> DEFINE w == caller[c].window
<1>1. w \in Minutes /\ minute <= w + 1
  BY DEF RateInv, RateTypeOK, InTime, Call
<1>2. c \in CallsAt(caller, caller[c].pc, w)
  BY DEF CallsAt
<1>3. /\ Number(caller, caller[c].pc, w) \in Nat
      /\ Number(caller, caller[c].pc, w) # 0
  BY <1>2, NumberBounds
<1>4. counters[w] # << >>
  BY <1>1, <1>3 DEF RateInv, WindowInv, NoneCounted
<1>5. QED
  BY <1>1, <1>3, <1>4

\* The numbers a window is judged by are numbers.
LEMMA WindowNumbers ==
  ASSUME RateInv, NEW w \in Minutes
  PROVE  /\ Passed(admitted, w) \in Nat
         /\ Cardinality(Callers) \in Nat \ {0} /\ MAX_REQUESTS \in Nat
         /\ counters[w] # << >> =>
              Length(counters, w) \in Nat \ {0} /\ First(counters, w) \in Nat
         /\ Number(caller, "insert", w) \in Nat /\ Number(caller', "insert", w) \in Nat
         /\ Number(caller, "add", w) \in Nat /\ Number(caller', "add", w) \in Nat
         /\ Number(caller, "clean", w) \in Nat /\ Number(caller', "clean", w) \in Nat
<1>1. /\ admitted[w] \in Nat /\ MAX_REQUESTS \in Nat
      /\ counters[w] # << >> => Len(counters[w]) \in Nat \ {0} /\ Head(counters[w]) \in Nat
  BY RateAssumption DEF RateInv, RateTypeOK
<1>2. QED
  BY <1>1, NumberBounds DEF Length, First, Passed

\* A window whose counters and admissions stay, while calls may leave it.
LEMMA WindowLeft ==
  ASSUME RateInv, NEW w \in Minutes, minute' = minute,
         counters'[w] = counters[w], admitted'[w] = admitted[w],
         Number(caller', "insert", w) <= Number(caller, "insert", w),
         Number(caller', "add", w) <= Number(caller, "add", w),
         Number(caller', "clean", w) <= Number(caller, "clean", w)
  PROVE  WindowInv(w)'
<1>1. CASE counters[w] = << >>
  BY <1>1, WindowNumbers DEF RateInv, WindowInv, NoneCounted
<1>2. CASE counters[w] # << >>
  <2>1. CountsAll(w) /\ InsertsBounded(w) /\ AddsBounded(w)
    BY <1>2 DEF RateInv, WindowInv
  <2>2. /\ Length(counters', w) = Length(counters, w) /\ First(counters', w) = First(counters, w)
        /\ Passed(admitted', w) = Passed(admitted, w)
    BY DEF Length, First, Passed
  <2>3. CountsAll(w)'
    BY <1>2, <2>1, <2>2, WindowNumbers DEF CountsAll
  <2>4. InsertsBounded(w)'
    BY <1>2, <2>1, <2>2, WindowNumbers DEF InsertsBounded
  <2>5. AddsBounded(w)'
    BY <1>2, <2>1, <2>2, WindowNumbers DEF AddsBounded
  <2>6. QED
    BY <1>2, <2>3, <2>4, <2>5 DEF RateInv, WindowInv
<1>3. QED
  BY <1>1, <1>2

\* The UPDATE, on the counters of one minute.
LEMMA AddRaises ==
  ASSUME NEW old \in Seq(Nat), old # << >>
  PROVE  LET raised == [i \in DOMAIN old |-> old[i] + 1]
         IN  /\ raised \in Seq(Nat) /\ raised # << >>
             /\ Len(raised) = Len(old) /\ Head(raised) = Head(old) + 1
<1> DEFINE raised == [i \in DOMAIN old |-> old[i] + 1]
<1>1. /\ Len(old) \in Nat /\ DOMAIN old = 1..Len(old) /\ Len(old) # 0
      /\ \A i \in 1..Len(old) : old[i] \in Nat
  OBVIOUS
<1>2. raised \in [1..Len(old) -> Nat]
  BY <1>1
<1>3. raised \in Seq(Nat) /\ Len(raised) = Len(old)
  BY <1>1, <1>2
<1>4. raised # << >> /\ Head(raised) = raised[1] /\ Head(old) = old[1]
  BY <1>1, <1>3
<1>5. QED
  BY <1>1, <1>3, <1>4

\* The UPDATE raises what the first counter says, and so what may pass.
LEMMA AddKeepsRateInv ==
  ASSUME RateInv, NEW c \in Callers, AddOne(c)
  PROVE  RateInv'
<1> DEFINE v == caller[c].window
           old == counters[v]
<1>1. /\ caller[c].pc = "add" /\ minute' = minute /\ admitted' = admitted
      /\ OnlyMoves(c) /\ caller'[c].pc = "clean" /\ caller'[c].window = v
  <2>1. [caller[c] EXCEPT !.pc = "clean"] \in Call
    BY DEF RateInv, RateTypeOK, Call
  <2>2. QED
    BY <2>1, SetsOne DEF AddOne, RateInv, RateTypeOK, Call
<1>2. v \in Minutes /\ old \in Seq(Nat) /\ old # << >>
  BY <1>1, CalledOnCounter DEF RateInv, RateTypeOK
<1>3. /\ counters' \in [Minutes -> Seq(Nat)] /\ counters'[v] # << >>
      /\ \A w \in Minutes \ {v} : counters'[w] = counters[w]
      /\ Len(counters'[v]) = Len(old) /\ Head(counters'[v]) = Head(old) + 1
  <2> DEFINE raised == [i \in DOMAIN old |-> old[i] + 1]
  <2>1. /\ raised \in Seq(Nat) /\ raised # << >>
        /\ Len(raised) = Len(old) /\ Head(raised) = Head(old) + 1
    BY <1>2, AddRaises
  <2>2. counters' = [counters EXCEPT ![v] = raised]
    BY DEF AddOne
  <2> HIDE DEF raised, old, v
  <2>3. QED
    BY <1>2, <2>1, <2>2 DEF RateInv, RateTypeOK
<1>4. /\ InTime'
      /\ \A pc \in {"insert", "add", "clean"}, w \in Minutes :
           /\ Number(caller, pc, w) \in Nat /\ Number(caller', pc, w) \in Nat
           /\ w # v => Number(caller', pc, w) = Number(caller, pc, w)
           /\ w = v => Number(caller', pc, w) = Number(caller, pc, w)
                - (IF caller[c].pc = pc THEN 1 ELSE 0) + (IF caller'[c].pc = pc THEN 1 ELSE 0)
  BY <1>1, CallGoesOn
<1>5. RateTypeOK'
  BY <1>1, <1>3 DEF RateInv, RateTypeOK, OnlyMoves
<1>6. ASSUME NEW w \in Minutes, w # v PROVE WindowInv(w)'
  <2>1. /\ Number(caller', "insert", w) <= Number(caller, "insert", w)
        /\ Number(caller', "add", w) <= Number(caller, "add", w)
        /\ Number(caller', "clean", w) <= Number(caller, "clean", w)
    BY <1>4, <1>6
  <2>2. counters'[w] = counters[w] /\ admitted'[w] = admitted[w] /\ minute' = minute
    BY <1>1, <1>3, <1>6
  <2> HIDE DEF v, old
  <2>3. QED
    BY <2>1, <2>2, WindowLeft
<1>7. ASSUME NEW w \in Minutes, w = v PROVE WindowInv(w)'
  <2>1. /\ Number(caller', "add", w) = Number(caller, "add", w) - 1
        /\ Number(caller', "clean", w) = Number(caller, "clean", w) + 1
        /\ Number(caller', "insert", w) = Number(caller, "insert", w)
    BY <1>1, <1>4, <1>7
  <2>2. CountsAll(w) /\ InsertsBounded(w) /\ AddsBounded(w)
    BY <1>2, <1>7 DEF RateInv, WindowInv
  <2>3. w \in Minutes /\ counters[w] # << >> /\ counters'[w] # << >>
    BY <1>2, <1>3, <1>7
  <2>4. /\ Length(counters', w) = Length(counters, w)
        /\ First(counters', w) = First(counters, w) + 1
        /\ Passed(admitted', w) = Passed(admitted, w)
    BY <1>1, <1>3, <1>7 DEF Length, First, Passed
  <2> HIDE DEF v, old
  <2>5. CountsAll(w)'
    BY <2>1, <2>2, <2>3, <2>4, WindowNumbers DEF CountsAll
  <2>6. InsertsBounded(w)'
    BY <2>1, <2>2, <2>3, <2>4, WindowNumbers DEF InsertsBounded
  <2>7. AddsBounded(w)'
    BY <2>1, <2>2, <2>3, <2>4, WindowNumbers DEF AddsBounded
  <2>8. admitted'[w] <= MAX_REQUESTS + 2 * (Cardinality(Callers) - 1)
    BY <1>1, <2>3 DEF RateInv, WindowInv
  <2>9. QED
    BY <2>3, <2>5, <2>6, <2>7, <2>8 DEF WindowInv
<1>8. QED
  <2>1. \A w \in Minutes : WindowInv(w)'
    BY <1>6, <1>7
  <2>2. QED
    BY <1>4, <1>5, <2>1 DEF RateInv

\* The INSERT, on the counters of one minute.
LEMMA AppendOne ==
  ASSUME NEW old \in Seq(Nat)
  PROVE  /\ Append(old, 1) \in Seq(Nat) /\ Append(old, 1) # << >>
         /\ Len(Append(old, 1)) = Len(old) + 1
         /\ old = << >> => Len(old) = 0 /\ Head(Append(old, 1)) = 1
         /\ old # << >> => Head(Append(old, 1)) = Head(old)
<1> DEFINE new == Append(old, 1)
<1>1. /\ Len(old) \in Nat /\ new \in Seq(Nat) /\ Len(new) = Len(old) + 1
      /\ \A i \in 1..Len(old) : new[i] = old[i]
      /\ new[Len(old) + 1] = 1
  OBVIOUS
<1>2. new # << >> /\ Head(new) = new[1]
  BY <1>1
<1>3. old = << >> => Len(old) = 0
  OBVIOUS
<1>4. old # << >> => 1 \in 1..Len(old) /\ Head(old) = old[1]
  BY <1>1
<1> HIDE DEF new
<1>5. /\ old = << >> => Head(new) = 1
      /\ old # << >> => Head(new) = Head(old)
  BY <1>1, <1>2, <1>3, <1>4
<1>6. QED
  BY <1>1, <1>2, <1>3, <1>5 DEF new

\* A first counter starts with the call that inserts it, a further one adds none.
LEMMA InsertKeepsRateInv ==
  ASSUME RateInv, NEW c \in Callers, InsertCounter(c)
  PROVE  RateInv'
<1> DEFINE v == caller[c].window
           old == counters[v]
<1>1. /\ caller[c].pc = "insert" /\ minute' = minute /\ admitted' = admitted
      /\ OnlyMoves(c) /\ caller'[c].pc = "clean" /\ caller'[c].window = v
      /\ v \in Minutes /\ minute <= v + 1
  <2>1. [caller[c] EXCEPT !.pc = "clean"] \in Call
    BY DEF RateInv, RateTypeOK, Call
  <2>2. QED
    BY <2>1, SetsOne DEF InsertCounter, RateInv, RateTypeOK, InTime, Call
<1>2. old \in Seq(Nat)
  BY <1>1 DEF RateInv, RateTypeOK
<1>3. /\ counters' \in [Minutes -> Seq(Nat)]
      /\ \A w \in Minutes \ {v} : counters'[w] = counters[w]
      /\ counters'[v] # << >> /\ Len(counters'[v]) = Len(old) + 1
      /\ old = << >> => Len(old) = 0 /\ Head(counters'[v]) = 1
      /\ old # << >> => Head(counters'[v]) = Head(old)
  <2> DEFINE new == Append(old, 1)
  <2>1. /\ new \in Seq(Nat) /\ new # << >> /\ Len(new) = Len(old) + 1
        /\ old = << >> => Len(old) = 0 /\ Head(new) = 1
        /\ old # << >> => Head(new) = Head(old)
    BY <1>2, AppendOne
  <2>2. counters' = [counters EXCEPT ![v] = new]
    BY DEF InsertCounter
  <2> HIDE DEF new, old, v
  <2>3. QED
    BY <1>1, <2>1, <2>2 DEF RateInv, RateTypeOK
<1>4. /\ InTime'
      /\ \A pc \in {"insert", "add", "clean"}, w \in Minutes :
           /\ Number(caller, pc, w) \in Nat /\ Number(caller', pc, w) \in Nat
           /\ w # v => Number(caller', pc, w) = Number(caller, pc, w)
           /\ w = v => Number(caller', pc, w) = Number(caller, pc, w)
                - (IF caller[c].pc = pc THEN 1 ELSE 0) + (IF caller'[c].pc = pc THEN 1 ELSE 0)
  BY <1>1, CallGoesOn
<1>5. RateTypeOK'
  BY <1>1, <1>3 DEF RateInv, RateTypeOK, OnlyMoves
<1>6. ASSUME NEW w \in Minutes, w # v PROVE WindowInv(w)'
  <2>1. /\ Number(caller', "insert", w) <= Number(caller, "insert", w)
        /\ Number(caller', "add", w) <= Number(caller, "add", w)
        /\ Number(caller', "clean", w) <= Number(caller, "clean", w)
    BY <1>4, <1>6
  <2>2. counters'[w] = counters[w] /\ admitted'[w] = admitted[w] /\ minute' = minute
    BY <1>1, <1>3, <1>6
  <2> HIDE DEF v, old
  <2>3. QED
    BY <2>1, <2>2, WindowLeft
<1>7. ASSUME NEW w \in Minutes, w = v PROVE WindowInv(w)'
  <2>1. /\ Number(caller', "add", w) = Number(caller, "add", w)
        /\ Number(caller', "clean", w) = Number(caller, "clean", w) + 1
        /\ Number(caller', "insert", w) = Number(caller, "insert", w) - 1
    BY <1>1, <1>4, <1>7
  <2>2. /\ counters'[w] # << >> /\ Length(counters', w) = Length(counters, w) + 1
        /\ Passed(admitted', w) = Passed(admitted, w)
        /\ counters[w] = << >> => Length(counters, w) = 0 /\ First(counters', w) = 1
        /\ counters[w] # << >> => First(counters', w) = First(counters, w)
        /\ minute <= w + 1
    BY <1>1, <1>3, <1>7 DEF Length, First, Passed
  <2>3. CountsAll(w)' /\ InsertsBounded(w)' /\ AddsBounded(w)'
    <3>1. CASE counters[w] = << >>
      <4>1. Number(caller, "add", w) = 0 /\ Passed(admitted, w) = 0 /\ Number(caller, "clean", w) = 0
        BY <2>2, <3>1 DEF RateInv, WindowInv, NoneCounted, Passed
      <4>2. Number(caller, "insert", w) <= Cardinality(Callers)
        BY NumberBounds
      <4>3. MAX_REQUESTS >= 1
        BY RateAssumption
      <4> HIDE DEF v, old
      <4>4. CountsAll(w)'
        BY <2>1, <2>2, <3>1, <4>1, WindowNumbers DEF CountsAll
      <4>5. InsertsBounded(w)'
        BY <2>1, <2>2, <3>1, <4>2, WindowNumbers DEF InsertsBounded
      <4>6. AddsBounded(w)'
        BY <2>1, <2>2, <3>1, <4>1, <4>3, WindowNumbers DEF AddsBounded
      <4>7. QED
        BY <4>4, <4>5, <4>6
    <3>2. CASE counters[w] # << >>
      <4>1. CountsAll(w) /\ InsertsBounded(w) /\ AddsBounded(w)
        BY <1>7, <3>2 DEF RateInv, WindowInv
      <4> HIDE DEF v, old
      <4>2. CountsAll(w)'
        BY <2>1, <2>2, <3>2, <4>1, WindowNumbers DEF CountsAll
      <4>3. InsertsBounded(w)'
        BY <2>1, <2>2, <3>2, <4>1, WindowNumbers DEF InsertsBounded
      <4>4. AddsBounded(w)'
        BY <2>1, <2>2, <3>2, <4>1, WindowNumbers DEF AddsBounded
      <4>5. QED
        BY <4>2, <4>3, <4>4
    <3>3. QED
      BY <3>1, <3>2
  <2>4. admitted'[w] <= MAX_REQUESTS + 2 * (Cardinality(Callers) - 1)
    BY <1>1 DEF RateInv, WindowInv
  <2>5. QED
    BY <2>2, <2>3, <2>4 DEF WindowInv
<1>8. QED
  <2>1. \A w \in Minutes : WindowInv(w)'
    BY <1>6, <1>7
  <2>2. QED
    BY <1>4, <1>5, <2>1 DEF RateInv

\* What is counted bounds what is let through.
LEMMA CountedBoundsAdmitted ==
  ASSUME NEW len \in Nat, NEW first \in Nat, NEW done \in Nat, NEW inserts \in Nat,
         NEW adds \in Nat, NEW cleans \in Nat, NEW n \in Nat, NEW max \in Nat,
         done + cleans <= len + first - 1, len + inserts <= n, first + adds <= max + n - 1,
         cleans >= 1
  PROVE  done + 1 <= max + 2 * (n - 1)
OBVIOUS

\* The DELETE takes counters of windows no call is in any more, and what the
\* minute has counted bounds what it lets through.
LEMMA CleanUpKeepsRateInv ==
  ASSUME RateInv, NEW c \in Callers, CleanUp(c)
  PROVE  RateInv'
<1> DEFINE v == caller[c].window
<1>1. /\ caller[c].pc = "clean" /\ minute' = minute
      /\ OnlyMoves(c) /\ caller'[c].pc = "idle"
      /\ v \in Minutes /\ v <= minute /\ counters[v] # << >>
  <2>1. NoCall \in Call /\ NoCall.pc = "idle"
    BY RateAssumption DEF NoCall, Call, Minutes
  <2>2. OnlyMoves(c) /\ caller'[c].pc = "idle"
    BY <2>1, SetsOne DEF CleanUp, RateInv
  <2>3. QED
    BY <2>2, CalledOnCounter DEF CleanUp, RateInv, RateTypeOK, InTime, Call
<1>2. /\ counters' \in [Minutes -> Seq(Nat)]
      /\ \A w \in Minutes : counters'[w] = IF w \in Old(v) THEN << >> ELSE counters[w]
  BY DEF CleanUp, RateInv, RateTypeOK
<1>3. /\ admitted' \in [Minutes -> Nat] /\ admitted'[v] = admitted[v] + 1
      /\ \A w \in Minutes \ {v} : admitted'[w] = admitted[w]
  BY <1>1 DEF CleanUp, RateInv, RateTypeOK
<1>4. /\ InTime'
      /\ \A pc \in {"insert", "add", "clean"}, w \in Minutes :
           /\ Number(caller, pc, w) \in Nat /\ Number(caller', pc, w) \in Nat
           /\ w # v => Number(caller', pc, w) = Number(caller, pc, w)
           /\ w = v => Number(caller', pc, w) = Number(caller, pc, w)
                - (IF caller[c].pc = pc THEN 1 ELSE 0) + (IF caller'[c].pc = pc THEN 1 ELSE 0)
  BY <1>1, CallGoesOn
<1>5. RateTypeOK'
  BY <1>1, <1>2, <1>3 DEF RateInv, RateTypeOK, OnlyMoves
<1>6. ASSUME NEW w \in Minutes, w # v PROVE WindowInv(w)'
  <2>1. /\ Number(caller', "insert", w) <= Number(caller, "insert", w)
        /\ Number(caller', "add", w) <= Number(caller, "add", w)
        /\ Number(caller', "clean", w) <= Number(caller, "clean", w)
        /\ Number(caller', "add", w) = Number(caller, "add", w)
    BY <1>4, <1>6
  <2>2. admitted'[w] = admitted[w] /\ minute' = minute
    BY <1>1, <1>3, <1>6
  <2>3. CASE w \in Old(v)
    <3>1. w \in Int /\ v \in Int /\ minute \in Int /\ w + 2 <= v /\ v <= minute
      BY <1>1, <2>3 DEF Old, Minutes, RateInv, RateTypeOK
    <3>2. ~(minute <= w + 1)
      BY <3>1
    <3>3. CallsAt(caller, "add", w) = {}
      BY <3>2 DEF CallsAt, RateInv, InTime
    <3>4. Number(caller', "add", w) = 0
      BY <2>1, <3>3, NumberBounds
    <3>5. counters'[w] = << >>
      BY <1>2, <2>3
    <3>6. QED
      BY <2>2, <3>2, <3>4, <3>5 DEF RateInv, WindowInv, NoneCounted
  <2>4. CASE w \notin Old(v)
    <3>1. counters'[w] = counters[w]
      BY <1>2, <2>4
    <3> HIDE DEF v
    <3>2. QED
      BY <2>1, <2>2, <3>1, WindowLeft
  <2>5. QED
    BY <2>3, <2>4
<1>7. ASSUME NEW w \in Minutes, w = v PROVE WindowInv(w)'
  <2>1. /\ Number(caller', "add", w) = Number(caller, "add", w)
        /\ Number(caller', "clean", w) = Number(caller, "clean", w) - 1
        /\ Number(caller', "insert", w) = Number(caller, "insert", w)
    BY <1>1, <1>4, <1>7
  <2>2. CountsAll(w) /\ InsertsBounded(w) /\ AddsBounded(w) /\ counters[w] # << >>
    BY <1>1, <1>7 DEF RateInv, WindowInv
  <2>3. counters'[w] = counters[w]
    BY <1>2, <1>7 DEF Old, Minutes
  <2>4. /\ Length(counters', w) = Length(counters, w)
        /\ First(counters', w) = First(counters, w)
        /\ Passed(admitted', w) = Passed(admitted, w) + 1
        /\ Passed(admitted', w) = admitted'[w]
    BY <1>3, <1>7, <2>3 DEF Length, First, Passed
  <2> HIDE DEF v
  <2>5. CountsAll(w)'
    BY <2>1, <2>2, <2>4, WindowNumbers DEF CountsAll
  <2>6. InsertsBounded(w)'
    BY <2>1, <2>2, <2>4, WindowNumbers DEF InsertsBounded
  <2>7. AddsBounded(w)'
    BY <2>1, <2>2, <2>4, WindowNumbers DEF AddsBounded
  <2>8. Passed(admitted', w) <= MAX_REQUESTS + 2 * (Cardinality(Callers) - 1)
    <3>1. /\ Passed(admitted, w) + Number(caller, "clean", w)
                <= Length(counters, w) + First(counters, w) - 1
          /\ Length(counters, w) + Number(caller, "insert", w) <= Cardinality(Callers)
          /\ First(counters, w) + Number(caller, "add", w) <= MAX_REQUESTS + Cardinality(Callers) - 1
      BY <2>2 DEF CountsAll, InsertsBounded, AddsBounded
    <3>2. Number(caller, "clean", w) >= 1
      BY <2>1, WindowNumbers
    <3>3. Passed(admitted, w) + 1 <= MAX_REQUESTS + 2 * (Cardinality(Callers) - 1)
      <4>1. /\ Length(counters, w) \in Nat /\ First(counters, w) \in Nat
            /\ Passed(admitted, w) \in Nat /\ Number(caller, "insert", w) \in Nat
            /\ Number(caller, "add", w) \in Nat /\ Number(caller, "clean", w) \in Nat
            /\ Cardinality(Callers) \in Nat /\ MAX_REQUESTS \in Nat
        BY <2>2, WindowNumbers
      <4>2. QED
        BY <3>1, <3>2, <4>1, CountedBoundsAdmitted
    <3>4. QED
      BY <2>4, <3>3
  <2>9. QED
    BY <2>2, <2>3, <2>4, <2>5, <2>6, <2>7, <2>8 DEF WindowInv
<1>8. QED
  <2>1. \A w \in Minutes : WindowInv(w)'
    BY <1>6, <1>7
  <2>2. QED
    BY <1>4, <1>5, <2>1 DEF RateInv

\* A call that fails leaves its window with one call less.
LEMMA FailKeepsRateInv ==
  ASSUME RateInv, NEW c \in Callers, FailCall(c)
  PROVE  RateInv'
<1> DEFINE v == caller[c].window
<1>1. /\ caller[c].pc # "idle" /\ minute' = minute /\ counters' = counters /\ admitted' = admitted
      /\ OnlyMoves(c) /\ caller'[c].pc = "idle"
  <2>1. NoCall \in Call /\ NoCall.pc = "idle"
    BY RateAssumption DEF NoCall, Call, Minutes
  <2>2. OnlyMoves(c) /\ caller'[c].pc = "idle"
    BY <2>1, SetsOne DEF FailCall, RateInv
  <2>3. QED
    BY <2>2 DEF FailCall
<1>2. /\ InTime'
      /\ \A pc \in {"insert", "add", "clean"}, w \in Minutes :
           /\ Number(caller, pc, w) \in Nat /\ Number(caller', pc, w) \in Nat
           /\ w # v => Number(caller', pc, w) = Number(caller, pc, w)
           /\ w = v => Number(caller', pc, w) = Number(caller, pc, w)
                - (IF caller[c].pc = pc THEN 1 ELSE 0) + (IF caller'[c].pc = pc THEN 1 ELSE 0)
  BY <1>1, CallGoesOn
<1>3. RateTypeOK'
  BY <1>1 DEF RateInv, RateTypeOK, OnlyMoves
<1>4. ASSUME NEW w \in Minutes PROVE WindowInv(w)'
  <2>1. /\ Number(caller', "insert", w) <= Number(caller, "insert", w)
        /\ Number(caller', "add", w) <= Number(caller, "add", w)
        /\ Number(caller', "clean", w) <= Number(caller, "clean", w)
    BY <1>1, <1>2
  <2> HIDE DEF v
  <2>2. QED
    BY <1>1, <2>1, WindowLeft
<1>5. QED
  BY <1>2, <1>3, <1>4 DEF RateInv

\* A request is never passed by two turns of the minute.
LEMMA MinuteKeepsRateInv ==
  ASSUME RateInv, NextMinute
  PROVE  RateInv'
<1>1. /\ minute \in Nat /\ minute' = minute + 1 /\ minute' \in Minutes
      /\ counters' = counters /\ caller' = caller /\ admitted' = admitted
  BY RateAssumption DEF NextMinute, RateInv, RateTypeOK, Minutes
<1>2. RateTypeOK'
  BY <1>1 DEF RateInv, RateTypeOK
<1>3. InTime'
  BY <1>1 DEF NextMinute, RequestMinutes, RateInv, RateTypeOK, InTime, Call, Minutes
<1>4. ASSUME NEW w \in Minutes PROVE WindowInv(w)'
  <2>1. WindowInv(w) /\ (minute' <= w + 1 => minute <= w + 1)
    BY <1>1 DEF RateInv, Minutes
  <2>2. QED
    BY <1>1, <2>1 DEF WindowInv, NoneCounted, CountsAll, InsertsBounded, AddsBounded
<1>5. QED
  BY <1>2, <1>3, <1>4 DEF RateInv

\* Of the requests of a minute no more are let through than the limit, plus two
\* for every other request under way: whoever reads a counter before another
\* has counted is one more that inserts, or one more that adds. Every counter
\* that is inserted and every call of the UPDATE lets one request through.
THEOREM Admitted == RateSpec => []AdmittedBounded
<1>1. RateInit => RateInv
  <2> SUFFICES ASSUME RateInit PROVE RateInv
    OBVIOUS
  <2>1. RateTypeOK /\ InTime
    BY RateAssumption DEF RateInit, RateTypeOK, InTime, NoCall, Call, Minutes
  <2>2. ASSUME NEW w \in Minutes PROVE WindowInv(w)
    <3>1. CallsAt(caller, "add", w) = {} /\ CallsAt(caller, "clean", w) = {}
      BY DEF RateInit, NoCall, CallsAt
    <3>2. Number(caller, "add", w) = 0 /\ Number(caller, "clean", w) = 0
      BY <3>1, NumberBounds
    <3>3. 0 <= MAX_REQUESTS + 2 * (Cardinality(Callers) - 1)
      BY NumberBounds, RateAssumption
    <3>4. counters[w] = << >> /\ admitted[w] = 0
      BY DEF RateInit
    <3>5. QED
      BY <3>2, <3>3, <3>4 DEF WindowInv, NoneCounted
  <2>3. QED
    BY <2>1, <2>2 DEF RateInv
<1>2. RateInv /\ [RateNext]_rateVars => RateInv'
  <2> SUFFICES ASSUME RateInv, [RateNext]_rateVars PROVE RateInv'
    OBVIOUS
  <2>1. CASE UNCHANGED rateVars
    BY <2>1 DEF rateVars, RateInv, RateTypeOK, InTime, WindowInv, NoneCounted, CountsAll,
                InsertsBounded, AddsBounded
  <2>2. CASE NextMinute
    BY <2>2, MinuteKeepsRateInv
  <2>3. ASSUME NEW c \in Callers,
               ReadCounter(c) \/ AddOne(c) \/ InsertCounter(c) \/ CleanUp(c) \/ FailCall(c)
        PROVE  RateInv'
    BY <2>3, ReadKeepsRateInv, AddKeepsRateInv, InsertKeepsRateInv, CleanUpKeepsRateInv,
       FailKeepsRateInv
  <2>4. QED
    BY <2>1, <2>2, <2>3 DEF RateNext
<1>3. RateInv => AdmittedBounded
  BY DEF RateInv, WindowInv, AdmittedBounded
<1>4. QED
  BY <1>1, <1>2, <1>3, PTL DEF RateSpec
=============================================================================
