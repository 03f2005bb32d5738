---------------------------- MODULE AuthRateLimit ----------------------------
(***************************************************************************)
(* The limiter in front of the authentication routes (rateLimit of         *)
(* src/backend/src/middleware/auth.ts), for one client and one endpoint:   *)
(*                                                                         *)
(*    read the counter of the minute -> refuse, add one, or insert         *)
(*                                   -> delete the counters of old minutes *)
(*                                                                         *)
(* No index keeps the counter of a minute single: requests that both find  *)
(* none insert one each.                                                   *)
(***************************************************************************)
EXTENDS Naturals, Sequences, FiniteSets

CONSTANTS
  Callers,       \* the requests under way at a time
  MAX_REQUESTS,  \* requests allowed per minute
  MaxMinute      \* bound on the clock

Minutes == 0..MaxMinute

\* A request is through with its statements within this many minutes.
RequestMinutes == 1

ASSUME RateAssumption ==
  /\ IsFiniteSet(Callers) /\ Callers # {}
  /\ MAX_REQUESTS \in Nat \ {0} /\ MaxMinute \in Nat

VARIABLES
  minute,      \* the clock
  counters,    \* rate_limits: [Minutes -> the counters of that window_start]
  caller,      \* [Callers -> the local variables]
  admitted     \* history: [Minutes -> the requests let through]

rateVars == <<minute, counters, caller, admitted>>

NoCall == [pc |-> "idle", window |-> 0]

RateInit ==
  /\ minute = 0
  /\ counters = [w \in Minutes |-> << >>]
  /\ caller = [c \in Callers |-> NoCall]
  /\ admitted = [w \in Minutes |-> 0]

\* Mutant: the request after the last one is let through as well.
RefusesLate(count) == count > MAX_REQUESTS

Refuses(count) == count >= MAX_REQUESTS

\* The SELECT: the first counter of the minute, none, or too high a one.
ReadCounter(c) ==
  /\ caller[c].pc = "idle"
  /\ caller' = [caller EXCEPT ![c] =
       IF counters[minute] = << >> THEN [pc |-> "insert", window |-> minute]
       ELSE IF Refuses(Head(counters[minute])) THEN NoCall
       ELSE [pc |-> "add", window |-> minute]]
  /\ UNCHANGED <<minute, counters, admitted>>

\* The UPDATE adds one to every counter of the minute.
AddOne(c) ==
  /\ caller[c].pc = "add"
  /\ counters' = [counters EXCEPT ![caller[c].window] = [i \in DOMAIN @ |-> @[i] + 1]]
  /\ caller' = [caller EXCEPT ![c].pc = "clean"]
  /\ UNCHANGED <<minute, admitted>>

InsertCounter(c) ==
  /\ caller[c].pc = "insert"
  /\ counters' = [counters EXCEPT ![caller[c].window] = Append(@, 1)]
  /\ caller' = [caller EXCEPT ![c].pc = "clean"]
  /\ UNCHANGED <<minute, admitted>>

\* window_start < two minutes before the request.
Old(window) == {w \in Minutes : w + 2 <= window}

\* The DELETE, and on to the route.
CleanUp(c) ==
  /\ caller[c].pc = "clean"
  /\ counters' = [w \in Minutes |-> IF w \in Old(caller[c].window) THEN << >> ELSE counters[w]]
  /\ admitted' = [admitted EXCEPT ![caller[c].window] = @ + 1]
  /\ caller' = [caller EXCEPT ![c] = NoCall]
  /\ UNCHANGED minute

\* A statement fails: the request ends with 500.
FailCall(c) ==
  /\ caller[c].pc # "idle"
  /\ caller' = [caller EXCEPT ![c] = NoCall]
  /\ UNCHANGED <<minute, counters, admitted>>

NextMinute ==
  /\ minute < MaxMinute
  /\ \A c \in Callers : caller[c].pc # "idle" => minute < caller[c].window + RequestMinutes
  /\ minute' = minute + 1
  /\ UNCHANGED <<counters, caller, admitted>>

RateNext ==
  \/ NextMinute
  \/ \E c \in Callers :
       ReadCounter(c) \/ AddOne(c) \/ InsertCounter(c) \/ CleanUp(c) \/ FailCall(c)

RateSpec == RateInit /\ [][RateNext]_rateVars

-----------------------------------------------------------------------------
\* Of the requests of a minute no more are let through than the limit, plus one
\* for every other request that found no counter together with the first, plus
\* one for every other that read the counter together with the last: reading
\* the counter and counting are two statements.
AdmittedBounded ==
  \A w \in Minutes : admitted[w] <= MAX_REQUESTS + 2 * (Cardinality(Callers) - 1)
=============================================================================
