------------------------- MODULE Transactions_proofs -------------------------
(***************************************************************************)
(* Entering and deleting trades: the invariants and action properties of   *)
(* Transactions, and what they rest on, the sum over a set of trades.      *)
(*                                                                         *)
(* The sum is a fold, which recurses over the subsets of the set. Where a  *)
(* fact about it is shown by induction, the proof takes a least            *)
(* counterexample: a set, all of whose proper subsets are none.            *)
(***************************************************************************)
EXTENDS Transactions, FiniteSetTheorems, WellFoundedInduction, TLAPS

-----------------------------------------------------------------------------
(* The sum of the lots of a set of trades.                                 *)

\* Among subsets of a finite set one is least.
LEMMA LeastSet ==
  ASSUME NEW S, IsFiniteSet(S), NEW B, B \subseteq SUBSET S, B # {}
  PROVE  \E u \in B : \A v \in B : v \subseteq u => v = u
<1>1. IsWellFoundedOn(StrictSubsetOrdering(S), FiniteSubsetsOf(S))
  BY FS_StrictSubsetOrderingWellFounded
<1>2. FiniteSubsetsOf(S) = SUBSET S
  BY FS_FiniteSubsetsOfFinite
<1>3. \E u \in B : \A v \in B : ~(<<v, u>> \in StrictSubsetOrdering(S))
  BY <1>1, <1>2, WFMin
<1>4. PICK u \in B : \A v \in B : ~(<<v, u>> \in StrictSubsetOrdering(S))
  BY <1>3
<1>5. ASSUME NEW v \in B, v \subseteq u PROVE v = u
  BY <1>4, <1>5 DEF StrictSubsetOrdering
<1>6. QED
  BY <1>5

\* Among natural numbers one is least.
LEMMA LeastNumber ==
  ASSUME NEW B, B \subseteq Nat, B # {}
  PROVE  \E n \in B : \A m \in B : n <= m
<1>1. \E n \in B : \A m \in B : ~(<<m, n>> \in OpToRel(<, Nat))
  BY NatLessThanWellFounded, WFMin
<1>2. PICK n \in B : \A m \in B : ~(<<m, n>> \in OpToRel(<, Nat))
  BY <1>1
<1>3. ASSUME NEW m \in B PROVE n <= m
  <2>1. m \in Nat /\ n \in Nat /\ ~(m < n)
    BY <1>2 DEF OpToRel
  <2>2. QED
    BY <2>1
<1>4. QED
  BY <1>3

\* The trade the fold takes from a set, and the fold's recursion.
Some(s) == CHOOSE x \in s : TRUE

Sums(S) ==
  CHOOSE g : g = [s \in SUBSET S |-> IF s = {} THEN 0 ELSE Some(s).lots + g[s \ {Some(s)}]]

\* The sum is the recursive function at the whole set.
LEMMA SumLotsIsSums ==
  ASSUME NEW S
  PROVE  SumLots(S) = Sums(S)[S]
BY DEF SumLots, MapThenSumSet, MapThenFoldSet, Sums, Some

\* g sums the subsets of S with no more than n trades.
SumsUpTo(g, S, n) ==
  \A s \in SUBSET S : Cardinality(s) <= n =>
    g[s] = IF s = {} THEN 0 ELSE Some(s).lots + g[s \ {Some(s)}]

\* The trade taken is of the set, and one fewer remain.
LEMMA SomeTaken ==
  ASSUME NEW S, IsFiniteSet(S), NEW s \in SUBSET S, s # {}
  PROVE  /\ Some(s) \in s /\ s \ {Some(s)} \in SUBSET S
         /\ Cardinality(s) \in Nat \ {0} /\ Cardinality(s \ {Some(s)}) = Cardinality(s) - 1
<1>1. Some(s) \in s
  BY DEF Some
<1>2. IsFiniteSet(s)
  BY FS_Subset
<1>3. Cardinality(s) \in Nat \ {0}
  BY <1>2, FS_CardinalityType, FS_EmptySet
<1>4. Cardinality(s \ {Some(s)}) = Cardinality(s) - 1
  BY <1>1, <1>2, FS_RemoveElement
<1>5. QED
  BY <1>1, <1>3, <1>4

\* One trade more can be summed.
LEMMA SumsFurther ==
  ASSUME NEW S, IsFiniteSet(S), NEW k \in Nat, NEW g, SumsUpTo(g, S, k)
  PROVE  \E h : SumsUpTo(h, S, k + 1)
<1> DEFINE h == [s \in SUBSET S |-> IF s = {} THEN 0 ELSE Some(s).lots + g[s \ {Some(s)}]]
<1>1. ASSUME NEW s \in SUBSET S, Cardinality(s) <= k + 1
      PROVE  h[s] = IF s = {} THEN 0 ELSE Some(s).lots + h[s \ {Some(s)}]
  <2>1. CASE s = {}
    BY <2>1
  <2>2. CASE s # {}
    <3> DEFINE t == s \ {Some(s)}
    <3>1. t \in SUBSET S /\ Cardinality(t) <= k
      BY <1>1, <2>2, SomeTaken
    <3>2. g[t] = IF t = {} THEN 0 ELSE Some(t).lots + g[t \ {Some(t)}]
      BY <3>1 DEF SumsUpTo
    <3>3. h[t] = g[t]
      BY <3>1, <3>2
    <3>4. h[s] = Some(s).lots + g[t]
      BY <2>2
    <3> HIDE DEF t, h
    <3>5. QED
      BY <2>2, <3>3, <3>4 DEF t
  <2>3. QED
    BY <2>1, <2>2
<1> HIDE DEF h
<1>2. SumsUpTo(h, S, k + 1)
  BY <1>1 DEF SumsUpTo
<1>3. QED
  BY <1>2

\* There are sums of the subsets of any size.
LEMMA SumsReach ==
  ASSUME NEW S, IsFiniteSet(S), NEW n \in Nat
  PROVE  \E g : SumsUpTo(g, S, n)
<1> DEFINE B == {m \in Nat : ~\E g : SumsUpTo(g, S, m)}
<1>1. SUFFICES ASSUME B # {} PROVE FALSE
  OBVIOUS
<1>2. PICK m \in B : \A k \in B : m <= k
  BY <1>1, LeastNumber
<1>3. m # 0
  <2> DEFINE zero == [s \in SUBSET S |-> 0]
  <2>1. ASSUME NEW s \in SUBSET S, Cardinality(s) <= 0 PROVE s = {} /\ zero[s] = 0
    <3>1. Cardinality(s) \in Nat /\ IsFiniteSet(s)
      BY FS_Subset, FS_CardinalityType
    <3>2. QED
      BY <2>1, <3>1, FS_EmptySet
  <2> HIDE DEF zero
  <2>2. SumsUpTo(zero, S, 0)
    BY <2>1 DEF SumsUpTo
  <2>3. QED
    BY <1>2, <2>2
<1>4. m - 1 \in Nat /\ m - 1 \notin B
  BY <1>2, <1>3
<1>5. PICK g : SumsUpTo(g, S, m - 1)
  BY <1>4
<1>6. \E h : SumsUpTo(h, S, (m - 1) + 1)
  BY <1>4, <1>5, SumsFurther
<1>7. (m - 1) + 1 = m
  BY <1>2
<1>8. QED
  BY <1>2, <1>6, <1>7

\* The fold's recursion has a solution.
LEMMA SumsSolves ==
  ASSUME NEW S, IsFiniteSet(S)
  PROVE  /\ \A s \in SUBSET S : s # {} => Sums(S)[s] = Some(s).lots + Sums(S)[s \ {Some(s)}]
         /\ Sums(S)[{}] = 0
<1>1. Cardinality(S) \in Nat
  BY FS_CardinalityType
<1>2. PICK g : SumsUpTo(g, S, Cardinality(S))
  BY <1>1, SumsReach
<1> DEFINE h == [s \in SUBSET S |-> g[s]]
<1>3. \A s \in SUBSET S : h[s] = IF s = {} THEN 0 ELSE Some(s).lots + h[s \ {Some(s)}]
  <2> TAKE s \in SUBSET S
  <2>1. Cardinality(s) <= Cardinality(S)
    BY FS_Subset
  <2>2. g[s] = IF s = {} THEN 0 ELSE Some(s).lots + g[s \ {Some(s)}]
    BY <1>2, <2>1 DEF SumsUpTo
  <2>3. s \ {Some(s)} \in SUBSET S
    OBVIOUS
  <2>4. QED
    BY <2>2, <2>3
<1>4. h = [s \in SUBSET S |-> IF s = {} THEN 0 ELSE Some(s).lots + h[s \ {Some(s)}]]
  BY <1>3
<1> HIDE DEF h
<1>5. Sums(S) = [s \in SUBSET S |-> IF s = {} THEN 0
                                    ELSE Some(s).lots + Sums(S)[s \ {Some(s)}]]
  BY <1>4 DEF Sums
<1> DEFINE k == Sums(S)
<1> HIDE DEF k
<1>6. k = [s \in SUBSET S |-> IF s = {} THEN 0 ELSE Some(s).lots + k[s \ {Some(s)}]]
  BY <1>5 DEF k
<1>7. /\ \A s \in SUBSET S : s # {} => k[s] = Some(s).lots + k[s \ {Some(s)}]
      /\ k[{}] = 0
  BY <1>6
<1>8. QED
  BY <1>7 DEF k

\* The fold of a subset is the sum of that subset.
LEMMA SumsAgree ==
  ASSUME NEW S, IsFiniteSet(S), NEW T \in SUBSET S
  PROVE  Sums(S)[T] = SumLots(T)
<1>1. IsFiniteSet(T)
  BY FS_Subset
<1> DEFINE B == {u \in SUBSET T : Sums(S)[u] # Sums(T)[u]}
<1>2. SUFFICES ASSUME B # {} PROVE FALSE
  BY SumLotsIsSums
<1>0. B \subseteq SUBSET T
  OBVIOUS
<1> HIDE DEF B
<1>3. PICK u \in B : \A v \in B : v \subseteq u => v = u
  BY <1>0, <1>1, <1>2, LeastSet
<1> USE DEF B
<1>4. u # {}
  BY <1>1, <1>3, SumsSolves
<1> DEFINE v == u \ {Some(u)}
<1>5. v \in SUBSET T /\ v # u /\ v \subseteq u
  BY <1>3, <1>4, <1>1, SomeTaken
<1>6. Sums(S)[v] = Sums(T)[v]
  BY <1>3, <1>5
<1>7. Sums(S)[u] = Some(u).lots + Sums(S)[v] /\ Sums(T)[u] = Some(u).lots + Sums(T)[v]
  BY <1>1, <1>3, <1>4, SumsSolves
<1>8. QED
  BY <1>3, <1>6, <1>7

\* No trades, no position.
LEMMA SumNone == SumLots({}) = 0
BY FS_EmptySet, SumsSolves, SumLotsIsSums

\* The sum is the trade taken and the sum of the others.
LEMMA SumChosen ==
  ASSUME NEW S, IsFiniteSet(S), S # {}
  PROVE  SumLots(S) = Some(S).lots + SumLots(S \ {Some(S)})
<1>1. Sums(S)[S] = Some(S).lots + Sums(S)[S \ {Some(S)}]
  BY SumsSolves
<1>2. Sums(S)[S \ {Some(S)}] = SumLots(S \ {Some(S)})
  BY SumsAgree
<1>3. QED
  BY <1>1, <1>2, SumLotsIsSums

\* A sum of integers is an integer.
LEMMA SumType ==
  ASSUME NEW S, IsFiniteSet(S), \A r \in S : r.lots \in Int
  PROVE  SumLots(S) \in Int
<1> DEFINE B == {u \in SUBSET S : SumLots(u) \notin Int}
<1>1. SUFFICES ASSUME B # {} PROVE FALSE
  OBVIOUS
<1>0. B \subseteq SUBSET S
  OBVIOUS
<1> HIDE DEF B
<1>2. PICK u \in B : \A v \in B : v \subseteq u => v = u
  BY <1>0, <1>1, LeastSet
<1> USE DEF B
<1>3. u # {} /\ IsFiniteSet(u)
  <2>1. SumLots({}) \in Int
    BY SumNone
  <2>2. u \in SUBSET S
    BY <1>2
  <2>3. QED
    BY <1>2, <2>1, <2>2, FS_Subset
<1>4. SumLots(u) = Some(u).lots + SumLots(u \ {Some(u)})
  BY <1>3, SumChosen
<1>5. Some(u) \in u /\ u \ {Some(u)} # u
  BY <1>2, <1>3, SomeTaken
<1>6. SumLots(u \ {Some(u)}) \in Int /\ Some(u).lots \in Int
  BY <1>2, <1>5
<1>7. QED
  BY <1>2, <1>4, <1>6

\* Whichever trade is taken away, the sum falls by its lots.
LEMMA SumRemove ==
  ASSUME NEW S, IsFiniteSet(S), \A r \in S : r.lots \in Int, NEW y \in S
  PROVE  SumLots(S) = y.lots + SumLots(S \ {y})
<1> DEFINE Right(u) == \A z \in u : SumLots(u) = z.lots + SumLots(u \ {z})
           B == {u \in SUBSET S : ~Right(u)}
<1>1. SUFFICES ASSUME B # {} PROVE FALSE
  OBVIOUS
<1>0. B \subseteq SUBSET S
  OBVIOUS
<1> HIDE DEF B
<1>2. PICK u \in B : \A v \in B : v \subseteq u => v = u
  BY <1>0, <1>1, LeastSet
<1> USE DEF B
<1>3. PICK z \in u : SumLots(u) # z.lots + SumLots(u \ {z})
  BY <1>2
<1>4. u \in SUBSET S /\ IsFiniteSet(u)
  BY <1>2, FS_Subset
<1> DEFINE x == Some(u)
<1>5. x \in u /\ SumLots(u) = x.lots + SumLots(u \ {x}) /\ x # z
  BY <1>3, <1>4, SumChosen, SomeTaken
<1> HIDE DEF x
<1>6. Right(u \ {x}) /\ Right(u \ {z})
  BY <1>2, <1>3, <1>4, <1>5
<1>7. /\ SumLots(u \ {x}) = z.lots + SumLots((u \ {x}) \ {z})
      /\ SumLots(u \ {z}) = x.lots + SumLots((u \ {z}) \ {x})
  BY <1>3, <1>5, <1>6
<1>8. (u \ {x}) \ {z} = (u \ {z}) \ {x}
  OBVIOUS
<1>9. IsFiniteSet((u \ {z}) \ {x}) /\ \A r \in (u \ {z}) \ {x} : r.lots \in Int
  BY <1>4, FS_Subset
<1>10. SumLots((u \ {z}) \ {x}) \in Int /\ x.lots \in Int /\ z.lots \in Int
  BY <1>3, <1>4, <1>5, <1>9, SumType
<1>11. SumLots(u) = x.lots + (z.lots + SumLots((u \ {z}) \ {x}))
  BY <1>5, <1>7, <1>8
<1>12. SumLots(u) # z.lots + (x.lots + SumLots((u \ {z}) \ {x}))
  BY <1>3, <1>7
<1>13. QED
  BY <1>10, <1>11, <1>12

\* Adding a trade that was not there adds its lots.
LEMMA SumAdd ==
  ASSUME NEW S, IsFiniteSet(S), \A r \in S : r.lots \in Int, NEW y, y \notin S, y.lots \in Int
  PROVE  SumLots(S \cup {y}) = SumLots(S) + y.lots
<1>1. IsFiniteSet(S \cup {y}) /\ \A r \in S \cup {y} : r.lots \in Int
  BY FS_AddElement
<1>2. SumLots(S \cup {y}) = y.lots + SumLots((S \cup {y}) \ {y})
  BY <1>1, SumRemove
<1>3. (S \cup {y}) \ {y} = S
  OBVIOUS
<1>4. SumLots(S) \in Int
  BY SumType
<1>5. SumLots(S \cup {y}) = y.lots + SumLots(S)
  BY <1>2, <1>3
<1>6. QED
  BY <1>4, <1>5

-----------------------------------------------------------------------------
(* The invariant of the single requests.                                   *)

Local == [pc : {"idle", "sum", "check", "insert", "delete"}, lots : Lots \cup {0},
          booked : BOOLEAN, category : Categories,
          seen : Int, drift : Int, id : Nat, found : Nat]

\* What a handler has seen, together with what others have moved since, is what
\* the position would be with its trade; past the check what it has seen is
\* within the limits; and the row it has found is the row with its id.
LocalOK(me) ==
  /\ me \in Local
  /\ me.pc = "sum" => me.drift = 0
  /\ me.pc \in {"check", "insert"} => me.seen + me.drift = Position + me.lots
  /\ me.pc = "insert" => \A limit \in HardLimits(me.category) : Size(me.seen) <= limit
  /\ me.pc = "delete" => me.id = me.found

\* An id is the number of the row's INSERT.
RowsOK ==
  /\ rows \subseteq Row /\ IsFiniteSet(rows)
  /\ \A r \in rows : r.id = r.nth /\ r.id <= entered
  /\ \A r, s \in rows : r.id = s.id => r = s

TradesInv ==
  /\ rules \in RuleBooks /\ entered \in 0..MaxRows /\ removed \in Nat
  /\ RowsOK
  /\ handler = [h \in Handlers |-> handler[h]]
  /\ \A h \in Handlers : LocalOK(handler[h])

\* The booked trades are a finite set of trades with integer lots.
LEMMA BookedFinite ==
  ASSUME RowsOK
  PROVE  /\ IsFiniteSet(Booked) /\ \A r \in Booked : r.lots \in Int
         /\ Position \in Int
<1>1. IsFiniteSet(Booked)
  BY FS_Subset DEF RowsOK, Booked
<1>2. \A r \in Booked : r.lots \in Int
  BY DEF RowsOK, Booked, Row
<1>3. QED
  BY <1>1, <1>2, SumType DEF Position

\* Only handler h moves.
Moves(h) ==
  /\ handler' = [g \in Handlers |-> handler'[g]]
  /\ \A g \in Handlers \ {h} : handler'[g] = handler[g]

\* A handler whose variables change is the only one to move.
LEMMA MovesOne ==
  ASSUME TradesInv, NEW h \in Handlers, NEW new, handler' = [handler EXCEPT ![h] = new]
  PROVE  Moves(h) /\ handler'[h] = new
BY DEF TradesInv, Moves

\* A handler's own step: its new variables are all there is to show.
LEMMA OwnStep ==
  ASSUME TradesInv, NEW h \in Handlers, Moves(h), LocalOK(handler'[h]),
         UNCHANGED <<rules, rows, entered, removed>>
  PROVE  TradesInv'
<1>1. Position' = Position /\ \A c : HardLimits(c)' = HardLimits(c)
  BY DEF Position, Booked, HardLimits
<1>2. ASSUME NEW g \in Handlers PROVE LocalOK(handler[g])'
  <2>1. LocalOK(handler'[g])
    BY DEF Moves, TradesInv
  <2>2. QED
    BY <1>1, <2>1 DEF LocalOK
<1>3. RowsOK'
  BY DEF TradesInv, RowsOK
<1>4. handler' = [g \in Handlers |-> handler'[g]]
  BY DEF Moves
<1>5. QED
  BY <1>2, <1>3, <1>4 DEF TradesInv

\* A handler's lots are those of a trade, or none yet.
LEMMA LotsAreInt == \A lots : lots \in Lots \cup {0} => lots \in Int
BY TransactionsAssumption

\* A handler without anything to do knows nothing it could be wrong about.
LEMMA IdleOK == LocalOK(Idle)
BY DEF LocalOK, Local, Idle, Categories

\* The days to expiry give one of the three categories.
LEMMA CategoryType == \A days : Category(days) \in Categories
BY DEF Category, Categories

\* The steps that move no position keep TradesInv: taking up a POST, ...
LEMMA StartPostKeeps ==
  ASSUME TradesInv, NEW h \in Handlers, StartPost(h)
  PROVE  TradesInv' /\ Moves(h) /\ handler'[h].pc = "sum"
<1>1. PICK lots \in Lots, days \in Days, booked \in BOOLEAN :
        handler' = [handler EXCEPT ![h] =
          [Idle EXCEPT !.pc = "sum", !.lots = lots, !.booked = booked,
                       !.category = Category(days)]]
  BY DEF StartPost
<1> DEFINE new == [Idle EXCEPT !.pc = "sum", !.lots = lots, !.booked = booked,
                               !.category = Category(days)]
<1>a. new \in Local /\ new.pc = "sum" /\ new.drift = 0
  <2>1. Category(days) \in Categories
    BY CategoryType
  <2>2. Idle \in Local /\ Idle.drift = 0
    BY IdleOK DEF LocalOK, Idle
  <2>3. new \in Local
    BY <2>1, <2>2 DEF Local
  <2>4. new.pc = "sum" /\ new.drift = Idle.drift
    BY <2>2 DEF Local
  <2>5. QED
    BY <2>2, <2>3, <2>4
<1> HIDE DEF new
<1>2. LocalOK(new) /\ new.pc = "sum"
  BY <1>a DEF LocalOK
<1>3. Moves(h) /\ handler'[h] = new
  BY <1>1, MovesOne DEF new
<1>4. QED
  BY <1>2, <1>3, OwnStep DEF StartPost

\* ... summing, after which the handler has seen the position with its trade, ...
LEMMA SumPositionKeeps ==
  ASSUME TradesInv, NEW h \in Handlers, SumPosition(h)
  PROVE  /\ TradesInv' /\ Moves(h)
         /\ handler[h].pc = "sum"
         /\ handler'[h] = [handler[h] EXCEPT !.pc = "check", !.seen = Position + handler[h].lots]
<1> DEFINE me == handler[h]
           new == [me EXCEPT !.pc = "check", !.seen = Position + me.lots]
<1>1. me.pc = "sum" /\ LocalOK(me) /\ Position \in Int /\ me.lots \in Int
  BY BookedFinite, TransactionsAssumption DEF SumPosition, At, TradesInv, LocalOK, Local
<1>2. handler' = [handler EXCEPT ![h] = new]
  BY DEF SumPosition, SummedFor, TradesInv
<1>a. Position + me.lots \in Int /\ me \in Local
  BY <1>1 DEF LocalOK
<1> HIDE DEF me
<1>3. new \in Local
  BY <1>a DEF Local
<1>4. /\ new.pc = "check" /\ new.seen = Position + me.lots /\ new.drift = 0
      /\ new.lots = me.lots
  BY <1>1 DEF LocalOK, Local
<1> HIDE DEF new
<1>5. LocalOK(new)
  BY <1>1, <1>3, <1>4 DEF LocalOK
<1>6. Moves(h) /\ handler'[h] = new
  BY <1>2, MovesOne
<1>7. TradesInv'
  BY <1>5, <1>6, OwnStep DEF SumPosition
<1>8. QED
  BY <1>1, <1>6, <1>7 DEF new, me

\* Whoever passes the check has seen a position within the blocking limits.
LEMMA PassedCheck ==
  ASSUME NEW c, NEW lots, ~Refused(c, lots), NEW limit \in HardLimits(c),
         rules[c] \subseteq Rule, lots \in Int
  PROVE  Size(lots) <= limit
<1>1. PICK r \in rules[c] : r.type = "position_limit" /\ r.action = "block_trade"
                            /\ r.limit = limit
  BY DEF HardLimits
<1>2. SUFFICES ASSUME Exceeds(r, lots) PROVE FALSE
  <2>1. r.limit \in Int /\ Size(lots) \in Int
    BY <1>1 DEF Rule, Size
  <2>2. QED
    BY <1>1, <2>1 DEF Exceeds
<1>3. r \in Critical(rules[c], lots)
  BY <1>1, <1>2 DEF Critical
<1>4. Enforcement(rules[c], lots) = "block_trade"
  BY <1>1, <1>3 DEF Enforcement
<1>5. QED
  BY <1>3, <1>4 DEF Refused, Compliant

\* ... checking, which ends in a refusal or at the INSERT, ...
LEMMA CheckRulesKeeps ==
  ASSUME TradesInv, NEW h \in Handlers, CheckRules(h)
  PROVE  /\ TradesInv' /\ Moves(h)
         /\ handler[h].pc = "check"
         /\ \/ handler'[h] = Idle
            \/ handler'[h] = [handler[h] EXCEPT !.pc = "insert"]
<1> DEFINE me == handler[h]
           new == [me EXCEPT !.pc = "insert"]
<1>1. me.pc = "check" /\ LocalOK(me)
  BY DEF CheckRules, At, TradesInv
<1>2. CASE Refused(me.category, me.seen)
  <2>1. Moves(h) /\ handler'[h] = Idle
    BY <1>2, MovesOne DEF CheckRules
  <2>2. QED
    BY <1>1, <2>1, IdleOK, OwnStep DEF CheckRules
<1>3. CASE ~Refused(me.category, me.seen)
  <2>1. Moves(h) /\ handler'[h] = new
    BY <1>3, MovesOne DEF CheckRules
  <2>2. rules[me.category] \subseteq Rule /\ me.seen \in Int /\ me \in Local
    BY <1>1, TransactionsAssumption DEF TradesInv, LocalOK, Local
  <2>3. \A limit \in HardLimits(me.category) : Size(me.seen) <= limit
    BY <1>3, <2>2, PassedCheck
  <2> HIDE DEF me
  <2>4. /\ new \in Local /\ new.pc = "insert" /\ new.seen = me.seen /\ new.drift = me.drift
        /\ new.lots = me.lots /\ new.category = me.category
    BY <2>2 DEF Local
  <2> HIDE DEF new
  <2>5. LocalOK(new)
    BY <1>1, <2>3, <2>4 DEF LocalOK
  <2>6. TradesInv'
    BY <2>1, <2>5, OwnStep DEF CheckRules
  <2>7. QED
    BY <1>1, <2>1, <2>6 DEF me, new
<1>4. QED
  BY <1>2, <1>3

\* ... finding the row to delete, ...
LEMMA FindKeeps ==
  ASSUME TradesInv, NEW h \in Handlers, Find(h)
  PROVE  TradesInv' /\ Moves(h) /\ handler'[h].pc = "delete"
<1>1. PICK r \in rows : handler' = [handler EXCEPT ![h] =
                          [Idle EXCEPT !.pc = "delete", !.id = r.id, !.found = r.nth]]
  BY DEF Find
<1> DEFINE new == [Idle EXCEPT !.pc = "delete", !.id = r.id, !.found = r.nth]
<1>2. r.id \in Nat /\ r.nth \in Nat /\ r.id = r.nth
  BY DEF TradesInv, RowsOK, Row
<1>a. new \in Local /\ new.pc = "delete" /\ new.id = new.found
  <2>1. Idle \in Local
    BY IdleOK DEF LocalOK
  <2>2. new \in Local
    BY <1>2, <2>1 DEF Local
  <2>3. new.pc = "delete" /\ new.id = r.id /\ new.found = r.nth
    BY <2>1 DEF Local
  <2>4. QED
    BY <1>2, <2>2, <2>3
<1> HIDE DEF new
<1>3. LocalOK(new) /\ new.pc = "delete"
  BY <1>a DEF LocalOK
<1>4. Moves(h) /\ handler'[h] = new
  BY <1>1, MovesOne DEF new
<1>5. QED
  BY <1>3, <1>4, OwnStep DEF Find

\* ... and failing.
LEMMA FailKeeps ==
  ASSUME TradesInv, NEW h \in Handlers, Fail(h)
  PROVE  TradesInv' /\ Moves(h) /\ handler'[h] = Idle
<1>1. Moves(h) /\ handler'[h] = Idle
  BY MovesOne DEF Fail
<1>2. QED
  BY <1>1, IdleOK, OwnStep DEF Fail

-----------------------------------------------------------------------------
(* Rows come and go: the position moves, and every sum becomes that stale. *)

\* Handler h is done, and the position has moved by lots.
MovedBy(h, lots) ==
  /\ handler' = After(h, lots)
  /\ Position' = Position + lots

\* The others' sums are out of date by what the position has moved.
LEMMA DriftsBy ==
  ASSUME TradesInv, NEW h, NEW lots \in Int, MovedBy(h, lots), rules' = rules
  PROVE  /\ handler' = [g \in Handlers |-> handler'[g]]
         /\ \A g \in Handlers : LocalOK(handler[g])'
<1>1. handler' = [g \in Handlers |-> handler'[g]]
  BY DEF MovedBy, After
<1>2. \A c : HardLimits(c)' = HardLimits(c)
  BY DEF HardLimits
<1>3. ASSUME NEW g \in Handlers PROVE LocalOK(handler[g])'
  <2> DEFINE me == handler[g]
             new == [me EXCEPT !.drift = me.drift + lots]
  <2>1. LocalOK(me) /\ Position \in Int
    BY BookedFinite DEF TradesInv
  <2>a. /\ g = h => handler'[g] = Idle
        /\ g # h /\ me.pc \notin {"check", "insert"} => handler'[g] = me
        /\ g # h /\ me.pc \in {"check", "insert"} => handler'[g] = new
    BY DEF MovedBy, After
  <2>2. CASE g = h
    <3>1. handler'[g] = Idle
      BY <2>2, <2>a
    <3>2. Idle \in Local /\ Idle.pc = "idle"
      BY IdleOK DEF LocalOK, Idle
    <3>3. QED
      BY <3>1, <3>2 DEF LocalOK
  <2>3. CASE g # h /\ me.pc \notin {"check", "insert"}
    <3>1. handler'[g] = me
      BY <2>3, <2>a
    <3>2. QED
      BY <2>1, <2>3, <3>1 DEF LocalOK
  <2>4. CASE g # h /\ me.pc \in {"check", "insert"}
    <3>1. handler'[g] = new
      BY <2>4, <2>a
    <3>a. me \in Local
      BY <2>1 DEF LocalOK
    <3> HIDE DEF me
    <3>b. me.drift \in Int /\ me.seen \in Int /\ me.lots \in Int
      <4>1. me.drift \in Int /\ me.seen \in Int /\ me.lots \in Lots \cup {0}
        BY <3>a DEF Local
      <4>2. QED
        BY <4>1, LotsAreInt
    <3>2. me \in Local /\ me.drift + lots \in Int
      BY <3>a, <3>b
    <3> HIDE DEF me
    <3>3. /\ new \in Local /\ new.pc = me.pc /\ new.seen = me.seen /\ new.lots = me.lots
          /\ new.category = me.category /\ new.drift = me.drift + lots
      BY <3>2 DEF Local
    <3> HIDE DEF new
    <3>4. new.seen + new.drift = Position' + new.lots
      <4>1. me.seen + me.drift = Position + me.lots
        BY <2>1, <2>4 DEF LocalOK
      <4>2. Position' = Position + lots
        BY DEF MovedBy
      <4>3. /\ new.seen + new.drift = me.seen + (me.drift + lots)
            /\ Position' + new.lots = (Position + lots) + me.lots
        BY <3>3, <4>2
      <4>4. me.seen + (me.drift + lots) = (Position + lots) + me.lots
        BY <2>1, <3>b, <4>1
      <4>5. QED
        BY <4>3, <4>4
    <3>5. QED
      BY <1>2, <2>1, <2>4, <3>1, <3>3, <3>4 DEF LocalOK
  <2>5. QED
    BY <2>2, <2>3, <2>4
<1>4. QED
  BY <1>1, <1>3

\* A new row: its id is new, and the position moves by it if it is booked.
LEMMA RowAdded ==
  ASSUME TradesInv, entered < MaxRows, entered' = entered + 1, NEW row \in Row,
         row.id = entered + 1, row.nth = entered + 1, rows' = rows \cup {row}
  PROVE  /\ RowsOK' /\ entered' \in 0..MaxRows
         /\ Position' = Position + (IF row.booked THEN row.lots ELSE 0)
<1>1. RowsOK /\ entered \in Nat /\ MaxRows \in Nat
  BY TransactionsAssumption DEF TradesInv
<1>2. row \notin rows
  <2> SUFFICES ASSUME row \in rows PROVE FALSE
    OBVIOUS
  <2>1. entered + 1 <= entered
    BY <1>1 DEF RowsOK
  <2>2. QED
    BY <1>1, <2>1
<1>3. RowsOK'
  <2>1. IsFiniteSet(rows \cup {row})
    BY <1>1, FS_AddElement DEF RowsOK
  <2>2. \A r \in rows : r.id \in Nat /\ r.id <= entered
    BY <1>1 DEF RowsOK, Row
  <2>3. \A r \in rows : r.id # row.id /\ r.id <= entered'
    BY <1>1, <2>2
  <2>4. row.id <= entered' /\ row.id = row.nth
    BY <1>1
  <2>5. QED
    BY <1>1, <2>1, <2>3, <2>4 DEF RowsOK
<1>4. Position' = SumLots(Booked')
  BY DEF Position
<1>5. CASE row.booked
  <2>1. Booked' = Booked \cup {row} /\ row \notin Booked
    BY <1>2, <1>5 DEF Booked
  <2>2. row.lots \in Int
    BY DEF Row
  <2>3. SumLots(Booked \cup {row}) = SumLots(Booked) + row.lots
    BY <1>1, <2>1, <2>2, BookedFinite, SumAdd
  <2>4. QED
    BY <1>1, <1>3, <1>4, <1>5, <2>1, <2>3 DEF Position
<1>6. CASE ~row.booked
  <2>1. Booked' = Booked
    BY <1>6 DEF Booked
  <2>2. Position \in Int
    BY <1>1, BookedFinite
  <2>3. QED
    BY <1>1, <1>3, <1>4, <1>6, <2>1, <2>2 DEF Position
<1>7. QED
  BY <1>5, <1>6

\* An INSERT moves the position by the lots of a booked trade, ...
LEMMA InsertKeeps ==
  ASSUME TradesInv, NEW h \in Handlers, Insert(h)
  PROVE  /\ TradesInv' /\ At(h, "insert")
         /\ MovedBy(h, IF handler[h].booked THEN handler[h].lots ELSE 0)
<1> DEFINE me == handler[h]
           row == [id |-> entered + 1, lots |-> me.lots, booked |-> me.booked,
                   category |-> me.category, nth |-> entered + 1]
           moved == IF me.booked THEN me.lots ELSE 0
<1>1. me \in Local /\ me.lots \in Int /\ entered \in Nat
  BY TransactionsAssumption DEF TradesInv, LocalOK, Local
<1>2. row \in Row /\ row.id = entered + 1 /\ row.nth = entered + 1
      /\ row.booked = me.booked /\ row.lots = me.lots
  BY <1>1 DEF Row, Local
<1>3. /\ entered < MaxRows /\ entered' = entered + 1 /\ rows' = rows \cup {row}
      /\ handler' = After(h, moved) /\ rules' = rules /\ removed' = removed /\ At(h, "insert")
  BY DEF Insert, NewId
<1> HIDE DEF row, me
<1>4. /\ RowsOK' /\ entered' \in 0..MaxRows
      /\ Position' = Position + (IF row.booked THEN row.lots ELSE 0)
  BY <1>2, <1>3, RowAdded
<1>5. MovedBy(h, moved) /\ moved \in Int
  BY <1>1, <1>2, <1>3, <1>4 DEF MovedBy
<1> HIDE DEF moved
<1>6. /\ handler' = [g \in Handlers |-> handler'[g]]
      /\ \A g \in Handlers : LocalOK(handler[g])'
  BY <1>3, <1>5, DriftsBy
<1>7. TradesInv'
  BY <1>3, <1>4, <1>6 DEF TradesInv
<1>8. QED
  BY <1>3, <1>5, <1>7 DEF moved, me

\* ... and an imported row, which names no exchange, by none.
LEMMA ImportKeeps ==
  ASSUME TradesInv, ImportRow
  PROVE  TradesInv' /\ Position' = Position
<1>1. PICK lots \in Lots, days \in Days :
        rows' = rows \cup {[id |-> NewId, lots |-> lots, booked |-> FALSE,
                            category |-> Category(days), nth |-> entered + 1]}
  BY DEF ImportRow
<1> DEFINE row == [id |-> entered + 1, lots |-> lots, booked |-> FALSE,
                   category |-> Category(days), nth |-> entered + 1]
<1>2. lots \in Int /\ entered \in Nat /\ Category(days) \in Categories
  BY CategoryType, TransactionsAssumption DEF TradesInv
<1>3. row \in Row /\ row.id = entered + 1 /\ row.nth = entered + 1 /\ ~row.booked
  BY <1>2 DEF Row
<1>4. rows' = rows \cup {row}
  BY <1>1 DEF NewId
<1>5. entered < MaxRows /\ entered' = entered + 1 /\ UNCHANGED <<rules, removed, handler>>
  BY DEF ImportRow
<1> HIDE DEF row
<1>6. /\ RowsOK' /\ entered' \in 0..MaxRows
      /\ Position' = Position + (IF row.booked THEN row.lots ELSE 0)
  BY <1>3, <1>4, <1>5, RowAdded
<1>7. Position \in Int
  BY BookedFinite DEF TradesInv
<1>8. Position' = Position
  BY <1>3, <1>6, <1>7
<1>9. \A g \in Handlers : LocalOK(handler[g])'
  BY <1>5, <1>8 DEF TradesInv, LocalOK, HardLimits
<1>10. QED
  BY <1>5, <1>6, <1>8, <1>9 DEF TradesInv

\* The rows with an id are one at most; the position falls by the lots of it.
LEMMA DeleteKeeps ==
  ASSUME TradesInv, NEW h \in Handlers, Delete(h)
  PROVE  /\ TradesInv' /\ At(h, "delete")
         /\ \E lots \in Int : MovedBy(h, -lots) /\ removed' = removed + Size(lots)
<1> DEFINE gone == {r \in rows : r.id = handler[h].id}
           lots == SumLots(gone \cap Booked)
<1>1. /\ At(h, "delete") /\ rows' = rows \ gone /\ removed' = removed + Size(lots)
      /\ handler' = After(h, -lots) /\ rules' = rules /\ entered' = entered
  BY DEF Delete
<1>2. RowsOK /\ IsFiniteSet(Booked) /\ Position \in Int /\ \A r \in Booked : r.lots \in Int
  BY BookedFinite DEF TradesInv
<1>3. RowsOK'
  BY <1>1, <1>2, FS_Subset DEF RowsOK
<1>4. Booked' = Booked \ gone
  BY <1>1 DEF Booked
<1>5. lots \in Int /\ Position' = Position - lots
  <2>1. CASE gone \cap Booked = {}
    <3>1. Booked' = Booked /\ lots = 0
      BY <1>4, <2>1, SumNone
    <3>2. Position' = Position
      BY <3>1 DEF Position
    <3>3. QED
      BY <1>2, <3>1, <3>2
  <2>2. CASE gone \cap Booked # {}
    <3>1. PICK r \in gone \cap Booked : TRUE
      BY <2>2
    <3>2. gone \cap Booked = {r}
      BY <1>2, <3>1 DEF RowsOK, Booked
    <3>3. Booked' = Booked \ {r} /\ r \in Booked /\ r.lots \in Int
      BY <1>2, <1>4, <3>1, <3>2
    <3>4. SumLots({r}) = r.lots + SumLots({})
      <4>1. IsFiniteSet({r}) /\ {r} \ {r} = {}
        BY FS_Singleton
      <4>2. QED
        BY <3>3, <4>1, SumRemove
    <3>5. lots = r.lots
      <4>1. lots = SumLots({r})
        BY <3>2
      <4>2. SumLots({r}) = r.lots + 0
        BY <3>4, SumNone
      <4> HIDE DEF lots
      <4>3. QED
        BY <3>3, <4>1, <4>2
    <3>6. SumLots(Booked) = r.lots + SumLots(Booked \ {r})
      BY <1>2, <3>3, SumRemove
    <3>7. SumLots(Booked \ {r}) \in Int
      <4>1. IsFiniteSet(Booked \ {r}) /\ \A q \in Booked \ {r} : q.lots \in Int
        BY <1>2, FS_RemoveElement
      <4>2. QED
        BY <4>1, SumType
    <3>8. Position' = SumLots(Booked \ {r}) /\ Position = SumLots(Booked)
      BY <3>3 DEF Position
    <3> HIDE DEF lots, gone
    <3>9. QED
      BY <3>3, <3>5, <3>6, <3>7, <3>8
  <2>3. QED
    BY <2>1, <2>2
<1> HIDE DEF lots, gone
<1>6. MovedBy(h, -lots) /\ -lots \in Int
  BY <1>1, <1>2, <1>5 DEF MovedBy
<1>7. /\ handler' = [g \in Handlers |-> handler'[g]]
      /\ \A g \in Handlers : LocalOK(handler[g])'
  BY <1>1, <1>6, DriftsBy
<1>8. removed' \in Nat
  BY <1>1, <1>5 DEF TradesInv, Size
<1>9. TradesInv'
  BY <1>1, <1>3, <1>7, <1>8 DEF TradesInv
<1>10. QED
  BY <1>1, <1>5, <1>6, <1>9

\* One step of the routes keeps the invariant.
LEMMA TradesStep ==
  ASSUME TradesInv, [Next]_vars
  PROVE  TradesInv'
<1>1. CASE UNCHANGED vars
  BY <1>1 DEF vars, TradesInv, RowsOK, LocalOK, Position, Booked, HardLimits
<1>2. CASE ImportRow
  BY <1>2, ImportKeeps
<1>3. ASSUME NEW h \in Handlers,
             \/ StartPost(h) \/ SumPosition(h) \/ CheckRules(h) \/ Insert(h)
             \/ Find(h) \/ Delete(h) \/ Fail(h)
      PROVE  TradesInv'
  BY <1>3, StartPostKeeps, SumPositionKeeps, CheckRulesKeeps, InsertKeeps, FindKeeps,
     DeleteKeeps, FailKeeps
<1>4. QED
  BY <1>1, <1>2, <1>3 DEF Next

\* Whatever the requests, the sizes of the trades and the rule books: a handler
\* past its sum knows the position up to what the others have moved since, one
\* past its check has seen a position within the blocking limits, and ids are
\* never handed out twice.
THEOREM TradesInvariant == Spec => []TradesInv
<1>1. Init => TradesInv
  <2> SUFFICES ASSUME Init PROVE TradesInv
    OBVIOUS
  <2>1. RowsOK /\ entered \in 0..MaxRows /\ removed \in Nat /\ rules \in RuleBooks
    BY FS_EmptySet, TransactionsAssumption DEF Init, RowsOK
  <2>2. \A h \in Handlers : handler[h] = Idle
    BY DEF Init
  <2>3. handler = [h \in Handlers |-> handler[h]]
    BY DEF Init
  <2>4. QED
    BY <2>1, <2>2, <2>3, IdleOK DEF TradesInv
<1>2. TradesInv /\ [Next]_vars => TradesInv'
  BY TradesStep
<1>3. QED
  BY <1>1, <1>2, PTL DEF Spec

\* The types of the rows and of the handlers' variables, and distinct ids.
THEOREM TradesTypes == Spec => []TypeOK
<1>1. TradesInv => TypeOK
  BY DEF TradesInv, RowsOK, LocalOK, Local, TypeOK
<1>2. QED
  BY <1>1, TradesInvariant, PTL

\* A booked trade takes the position beyond a blocking limit of its category
\* only by what other requests moved it between the sum and the INSERT.
THEOREM InsertsWithinLimit == Spec => InsertWithinLimit
<1>1. ASSUME TradesInv, [Next]_vars, NEW h \in Handlers, InsertsBooked(h),
             NEW limit \in HardLimits(handler[h].category)
      PROVE  Size(Position' - handler[h].drift) <= limit
  <2> DEFINE me == handler[h]
  <2>1. /\ me.pc = "insert" /\ me.booked /\ entered' = entered + 1 /\ handler'[h] = Idle
        /\ LocalOK(me) /\ Position \in Int /\ entered \in Nat
    BY <1>1, BookedFinite DEF InsertsBooked, At, TradesInv
  <2>2. Idle.pc = "idle"
    BY DEF Idle
  <2>3. Insert(h)
    <3>1. entered' # entered
      BY <2>1
    <3>2. ~ImportRow
      BY <2>1, <2>2 DEF ImportRow
    <3>3. ASSUME NEW g \in Handlers, Insert(g) PROVE g = h
      <4>1. At(g, "insert") /\ MovedBy(g, IF handler[g].booked THEN handler[g].lots ELSE 0)
        BY <1>1, <3>3, InsertKeeps
      <4>2. handler' = After(g, IF handler[g].booked THEN handler[g].lots ELSE 0)
        BY <4>1 DEF MovedBy
      <4>3. g # h => handler'[h].pc = "insert"
        BY <1>1, <2>1, <4>2 DEF After, TradesInv, LocalOK, Local
      <4>4. QED
        BY <2>1, <2>2, <4>3
    <3>4. QED
      BY <1>1, <3>1, <3>2, <3>3
         DEF Next, vars, StartPost, SumPosition, CheckRules, Find, Delete, Fail
  <2>4. Position' = Position + me.lots
    BY <1>1, <2>1, <2>3, InsertKeeps DEF MovedBy
  <2>5. me.seen + me.drift = Position + me.lots /\ Size(me.seen) <= limit
    BY <1>1, <2>1 DEF LocalOK
  <2>6. me.seen \in Int /\ me.drift \in Int /\ me.lots \in Int
    BY <2>1, TransactionsAssumption DEF LocalOK, Local
  <2> HIDE DEF me
  <2>7. Position' - me.drift = me.seen
    BY <2>1, <2>4, <2>5, <2>6
  <2>8. QED
    BY <2>5, <2>7 DEF me
<1>2. TradesInv /\ [Next]_vars =>
        [\A h \in Handlers : InsertsBooked(h) =>
           \A limit \in HardLimits(handler[h].category) :
             Size(Position' - handler[h].drift) <= limit]_vars
  BY <1>1
<1>3. QED
  BY <1>2, TradesInvariant, PTL DEF Spec, InsertWithinLimit

\* A DELETE takes the row it found, whatever came between its two statements.
THEOREM DeletesFound == Spec => DeletesWhatItFound
<1>1. ASSUME TradesInv, [Next]_vars, NEW r \in rows \ rows'
      PROVE  \E h \in Handlers : At(h, "delete") /\ handler[h].found = r.nth
  <2>1. PICK h \in Handlers : Delete(h)
    BY <1>1 DEF Next, vars, ImportRow, StartPost, SumPosition, CheckRules, Insert, Find, Fail
  <2>2. At(h, "delete") /\ r.id = handler[h].id
    BY <1>1, <2>1 DEF Delete
  <2>3. handler[h].id = handler[h].found /\ r.id = r.nth
    BY <1>1, <2>2 DEF At, TradesInv, LocalOK, RowsOK
  <2>4. QED
    BY <2>2, <2>3
<1>2. TradesInv /\ [Next]_vars =>
        [\A r \in rows \ rows' : \E h \in Handlers :
           At(h, "delete") /\ handler[h].found = r.nth]_vars
  BY <1>1
<1>3. QED
  BY <1>2, TradesInvariant, PTL DEF Spec, DeletesWhatItFound

-----------------------------------------------------------------------------
(* How far concurrent requests overshoot.                                  *)

\* The least of a set of limits, the largest of a finite set of sizes.
LEMMA MinIsLeast ==
  ASSUME NEW S, S \subseteq Nat, S # {}
  PROVE  Min(S) \in S
BY LeastNumber DEF Min

\* A finite set of integers has a largest.
LEMMA MaxIsLargest ==
  ASSUME NEW S, IsFiniteSet(S), S # {}
  PROVE  S \subseteq Int => Max(S) \in S /\ \A x \in S : x <= Max(S)
<1> DEFINE Top(u) == \E m \in u : \A x \in u : m >= x
           B == {u \in SUBSET S : u # {} /\ ~Top(u)}
<1>1. B \subseteq SUBSET S
  OBVIOUS
<1>2. S \subseteq Int => B = {}
  <2> HIDE DEF B
  <2>1. B # {} => \E u \in B : \A v \in B : v \subseteq u => v = u
    BY <1>1, LeastSet
  <2>0. SUFFICES ASSUME S \subseteq Int,
                        NEW u \in B, \A v \in B : v \subseteq u => v = u
                 PROVE  FALSE
    BY <2>1
  <2> USE DEF B
  <2>2. PICK x \in u : TRUE
    BY <2>0
  <2>3. u \ {x} = {} \/ Top(u \ {x})
    <3>1. u \ {x} # u /\ u \ {x} \subseteq u /\ u \ {x} \in SUBSET S
      BY <2>0, <2>2
    <3>2. u \ {x} \notin B
      BY <2>0, <3>1
    <3> HIDE DEF Top
    <3>3. QED
      BY <3>1, <3>2
  <2>4. u \subseteq Int
    BY <2>0
  <2>5. ~Top(u)
    BY <2>0
  <2>6. CASE u \ {x} = {}
    BY <2>2, <2>4, <2>5, <2>6
  <2>7. ASSUME NEW m \in u \ {x}, \A y \in u \ {x} : m >= y PROVE FALSE
    <3>1. m >= x \/ x >= m
      BY <2>2, <2>4
    <3>2. m >= x => \A y \in u : m >= y
      BY <2>7
    <3>3. x >= m => \A y \in u : x >= y
      BY <2>2, <2>4, <2>7
    <3>4. QED
      BY <2>2, <2>5, <3>1, <3>2, <3>3
  <2>8. QED
    BY <2>3, <2>6, <2>7
<1>3. S \subseteq Int => Top(S)
  BY <1>2
<1>4. S \subseteq Int => Max(S) \in S /\ \A x \in S : Max(S) >= x
  BY <1>3 DEF Max
<1>5. QED
  BY <1>4

\* The size of the largest trade, and what k trades add to at most.
Largest == Max({Size(lots) : lots \in Lots})

Load(k) == k * Largest

\* No trade is larger than the largest.
LEMMA LargestTrade ==
  /\ Largest \in Nat
  /\ \A lots \in Lots \cup {0} : Size(lots) <= Largest
<1> DEFINE sizes == {Size(lots) : lots \in Lots}
           size == [lots \in Lots |-> Size(lots)]
<1>1. size \in Surjection(Lots, sizes)
  BY DEF Surjection
<1>2. IsFiniteSet(sizes)
  BY <1>1, FS_Surjection, TransactionsAssumption
<1>3. \A lots \in Lots \cup {0} : Size(lots) \in Nat
  BY LotsAreInt DEF Size
<1>4. sizes \subseteq Int /\ sizes # {} /\ sizes \subseteq Nat
  <2>1. Lots # {}
    BY TransactionsAssumption
  <2>2. \A lots \in Lots : Size(lots) \in Nat /\ Size(lots) \in Int
    BY <1>3
  <2>3. QED
    BY <2>1, <2>2
<1>5. Max(sizes) \in sizes /\ \A x \in sizes : x <= Max(sizes)
  <2> HIDE DEF sizes
  <2>1. QED
    BY <1>2, <1>4, MaxIsLargest
<1>6. Largest \in Nat /\ \A lots \in Lots : Size(lots) <= Largest
  BY <1>4, <1>5 DEF Largest
<1>7. Size(0) = 0
  BY DEF Size
<1>8. QED
  BY <1>6, <1>7

\* Each further handler adds the largest trade to the load.
LEMMA LoadGrows ==
  ASSUME NEW k \in Nat
  PROVE  Load(k) \in Nat /\ Load(k + 1) = Load(k) + Largest
<1>1. Largest \in Nat
  BY LargestTrade
<1>2. QED
  BY <1>1 DEF Load

\* More handlers, more load.
LEMMA LoadMonotone ==
  ASSUME NEW k \in Nat, NEW m \in Nat, k <= m
  PROVE  Load(k) <= Load(m)
<1> DEFINE n == Largest
<1>1. n \in Nat
  BY LargestTrade
<1> HIDE DEF n
<1>2. k * n <= m * n
  BY <1>1
<1>3. QED
  BY <1>2 DEF Load, n

\* Every category has a blocking limit; the largest of the least of them.
Limited == \A category \in Categories : HardLimits(category) # {}

MaxLimit == Max({Min(HardLimits(category)) : category \in Categories})

\* Where each category has a hard limit, one is no larger than MaxLimit.
LEMMA LimitsBelow ==
  ASSUME rules \in RuleBooks, Limited
  PROVE  /\ MaxLimit \in Nat
         /\ \A category \in Categories :
              \E limit \in HardLimits(category) : limit \in Nat /\ limit <= MaxLimit
<1> DEFINE least(category) == Min(HardLimits(category))
           S == {least(category) : category \in Categories}
<1>1. ASSUME NEW category \in Categories
      PROVE  /\ HardLimits(category) \subseteq Nat
             /\ least(category) \in HardLimits(category)
  <2>1. rules[category] \subseteq Rule
    BY TransactionsAssumption
  <2>2. HardLimits(category) \subseteq Nat
    BY <2>1 DEF HardLimits, Rule
  <2>3. HardLimits(category) # {}
    BY DEF Limited
  <2>4. QED
    BY <2>2, <2>3, MinIsLeast
<1> HIDE DEF least
<1>2. \A category \in Categories : least(category) \in Nat
  BY <1>1
<1>3. IsFiniteSet(S)
  <2> DEFINE a == least("spot_month")
             b == least("single_month")
             c == least("all_month")
  <2>1. S = ({a} \cup {b}) \cup {c}
    BY DEF Categories
  <2> HIDE DEF S, a, b, c
  <2>2. IsFiniteSet({a}) /\ IsFiniteSet({a} \cup {b}) /\ IsFiniteSet(({a} \cup {b}) \cup {c})
    BY FS_Singleton, FS_AddElement
  <2>3. QED
    BY <2>1, <2>2
<1>4. S # {} /\ S \subseteq Int
  BY <1>2 DEF Categories
<1>5. Max(S) \in S /\ \A x \in S : x <= Max(S)
  <2> HIDE DEF S
  <2>1. QED
    BY <1>3, <1>4, MaxIsLargest
<1>6. MaxLimit = Max(S)
  BY DEF MaxLimit, least
<1>7. MaxLimit \in Nat /\ \A category \in Categories : least(category) <= MaxLimit
  BY <1>2, <1>5, <1>6
<1>8. QED
  BY <1>1, <1>2, <1>7

\* A size in one of the two directions.
Toward(up, x) == IF up THEN x ELSE -x

\* What the removed lots leave of the position, in that direction.
Reach(position, gone, up) == Toward(up, position) - gone

\* The handlers that have yet to add to it, and saw it within the limits.
Pending(calls, max, up) ==
  {h \in Handlers :
     /\ calls[h].pc \in {"check", "insert"} /\ calls[h].booked
     /\ Toward(up, calls[h].lots) > 0 /\ Toward(up, calls[h].seen) <= max}

Cap(max) == max + Load(Cardinality(Handlers) - 1)

\* What the pending handlers may still add keeps below the cap, or one of them
\* has its own lots counted in what it has seen.
Over(reach, calls, max, up) ==
  \/ reach + Load(Cardinality(Pending(calls, max, up))) <= Cap(max)
  \/ \E h \in Pending(calls, max, up) :
       reach + Toward(up, calls[h].lots) + Load(Cardinality(Pending(calls, max, up)) - 1)
         <= Cap(max)

OverInv ==
  Limited => \A up \in BOOLEAN : Over(Reach(Position, removed, up), handler, MaxLimit, up)

\* The numbers the overshoot is counted in.
LEMMA PendingNumbers ==
  ASSUME NEW calls, NEW max, NEW up
  PROVE  /\ IsFiniteSet(Pending(calls, max, up)) /\ Cardinality(Pending(calls, max, up)) \in Nat
         /\ Cardinality(Handlers) \in Nat /\ Cardinality(Handlers) - 1 \in Nat
         /\ Cardinality(Pending(calls, max, up)) <= Cardinality(Handlers)
         /\ Pending(calls, max, up) # {} => Cardinality(Pending(calls, max, up)) - 1 \in Nat
         /\ \A h \in Pending(calls, max, up) :
              Cardinality(Pending(calls, max, up) \ {h}) = Cardinality(Pending(calls, max, up)) - 1
<1> DEFINE P == Pending(calls, max, up)
<1>1. P \in SUBSET Handlers
  BY DEF Pending
<1> HIDE DEF P
<1>2. IsFiniteSet(Handlers) /\ Handlers # {}
  BY TransactionsAssumption
<1>3. IsFiniteSet(P) /\ Cardinality(P) <= Cardinality(Handlers)
  BY <1>1, <1>2, FS_Subset
<1>4. Cardinality(P) \in Nat /\ Cardinality(Handlers) \in Nat
  BY <1>2, <1>3, FS_CardinalityType
<1>5. Cardinality(Handlers) # 0 /\ (P # {} => Cardinality(P) # 0)
  BY <1>2, <1>3, FS_EmptySet
<1>6. \A h \in P : Cardinality(P \ {h}) = Cardinality(P) - 1
  BY <1>3, FS_RemoveElement
<1>7. QED
  BY <1>3, <1>4, <1>5, <1>6 DEF P

\* The numbers a direction is counted in.
LEMMA ReachNumbers ==
  ASSUME TradesInv, NEW up \in BOOLEAN
  PROVE  /\ Reach(Position, removed, up) \in Int /\ Position \in Int
         /\ \A h \in Handlers : /\ Toward(up, handler[h].lots) \in Int
                                /\ Toward(up, handler[h].lots) <= Largest
                                /\ Toward(up, handler[h].seen) \in Int
<1>1. Position \in Int /\ removed \in Nat
  BY BookedFinite DEF TradesInv
<1>2. Toward(up, Position) \in Int
  BY <1>1 DEF Toward
<1>3. ASSUME NEW h \in Handlers
      PROVE  /\ Toward(up, handler[h].lots) \in Int /\ Toward(up, handler[h].lots) <= Largest
             /\ Toward(up, handler[h].seen) \in Int
  <2> DEFINE lots == handler[h].lots
             seen == handler[h].seen
  <2>1. lots \in Lots \cup {0} /\ seen \in Int
    BY DEF TradesInv, LocalOK, Local
  <2> HIDE DEF lots, seen
  <2>2. lots \in Int /\ Size(lots) <= Largest /\ Largest \in Nat
    BY <2>1, LotsAreInt, LargestTrade
  <2>3. Toward(up, lots) \in Int /\ Toward(up, seen) \in Int /\ Toward(up, lots) <= Size(lots)
    BY <2>1, <2>2 DEF Toward, Size
  <2>4. Size(lots) \in Int
    BY <2>2 DEF Size
  <2>5. Toward(up, lots) <= Largest
    BY <2>2, <2>3, <2>4
  <2>6. QED
    BY <2>3, <2>5 DEF lots, seen
<1>4. QED
  BY <1>1, <1>2, <1>3 DEF Reach

\* A handler that is pending no more has added its lots, or less.
LEMMA Leaves ==
  ASSUME TradesInv, NEW h \in Handlers, NEW max \in Nat, NEW up \in BOOLEAN,
         NEW reach \in Int, NEW after \in Int, Over(reach, handler, max, up),
         Pending(handler', max, up) = Pending(handler, max, up) \ {h},
         \A g \in Pending(handler, max, up) \ {h} : handler'[g].lots = handler[g].lots,
         IF h \in Pending(handler, max, up) THEN after <= reach + Toward(up, handler[h].lots)
                                            ELSE after <= reach
  PROVE  Over(after, handler', max, up)
<1> DEFINE P == Pending(handler, max, up)
           Q == Pending(handler', max, up)
           n == Cardinality(P)
           cap == Cap(max)
           lots(g) == Toward(up, handler[g].lots)
<1>1. n \in Nat /\ Load(n) \in Nat /\ Largest \in Nat /\ cap \in Int
  BY PendingNumbers, LoadGrows, LargestTrade DEF Cap
<1>2. \A g \in P : lots(g) \in Int /\ lots(g) > 0 /\ lots(g) <= Largest
  BY ReachNumbers DEF Pending
<1>3. \/ reach + Load(n) <= cap
      \/ \E g \in P : reach + lots(g) + Load(n - 1) <= cap
  BY DEF Over
<1>4. CASE h \notin P
  <2>1. Q = P /\ Cardinality(Q) = n /\ after <= reach
    BY <1>4
  <2>2. CASE reach + Load(n) <= cap
    <3>1. after + Load(n) <= cap
      <4> HIDE DEF n, cap, P, Q
      <4>1. QED
        BY <1>1, <2>1, <2>2
    <3>2. QED
      BY <2>1, <3>1 DEF Over
  <2>3. ASSUME NEW g \in P, reach + lots(g) + Load(n - 1) <= cap
        PROVE  Over(after, handler', max, up)
    <3>1. n - 1 \in Nat /\ Load(n - 1) \in Nat
      BY <2>3, PendingNumbers, LoadGrows
    <3>2. after + lots(g) + Load(n - 1) <= cap
      <4>1. lots(g) \in Int
        BY <1>2, <2>3
      <4> HIDE DEF n, cap, P, Q, lots
      <4>2. QED
        BY <1>1, <2>1, <2>3, <3>1, <4>1
    <3>3. handler'[g].lots = handler[g].lots /\ g \in Q
      BY <1>4, <2>1, <2>3
    <3>4. QED
      BY <2>1, <3>2, <3>3 DEF Over
  <2>4. QED
    BY <1>3, <2>2, <2>3
<1>5. CASE h \in P
  <2>1. /\ Q = P \ {h} /\ Cardinality(Q) = n - 1 /\ after <= reach + lots(h)
        /\ lots(h) \in Int /\ lots(h) > 0 /\ lots(h) <= Largest
    BY <1>2, <1>5, PendingNumbers
  <2>2. n - 1 \in Nat /\ Load(n - 1) \in Nat /\ Load((n - 1) + 1) = Load(n - 1) + Largest
    BY <1>5, PendingNumbers, LoadGrows
  <2>3. (n - 1) + 1 = n
    BY <1>1
  <2>4. CASE reach + Load(n) <= cap \/ reach + lots(h) + Load(n - 1) <= cap
    <3>1. after + Load(n - 1) <= cap
      <4> HIDE DEF n, cap, P, Q, lots
      <4>1. QED
        BY <1>1, <2>1, <2>2, <2>3, <2>4
    <3>2. QED
      BY <2>1, <3>1 DEF Over
  <2>5. ASSUME NEW g \in P, g # h, reach + lots(g) + Load(n - 1) <= cap
        PROVE  Over(after, handler', max, up)
    <3>1. g \in Q /\ handler'[g].lots = handler[g].lots
      BY <2>1, <2>5
    <3>2. (n - 1) - 1 \in Nat /\ Load(((n - 1) - 1) + 1) = Load((n - 1) - 1) + Largest
      <4>1. Cardinality(Q) - 1 \in Nat
        BY <3>1, PendingNumbers
      <4> HIDE DEF n, P, Q
      <4>2. (n - 1) - 1 \in Nat
        BY <2>1, <4>1
      <4>3. QED
        BY <4>2, LoadGrows
    <3>3. ((n - 1) - 1) + 1 = n - 1
      BY <1>1
    <3>4. lots(g) \in Int /\ Load((n - 1) - 1) \in Nat
      BY <1>2, <2>5, <3>2, LoadGrows
    <3>5. after + lots(g) + Load((n - 1) - 1) <= cap
      <4> HIDE DEF n, cap, P, Q, lots
      <4>1. QED
        BY <1>1, <2>1, <2>5, <3>2, <3>3, <3>4
    <3>6. QED
      BY <2>1, <3>1, <3>5 DEF Over
  <2>6. QED
    BY <1>3, <2>4, <2>5
<1>6. QED
  BY <1>4, <1>5

\* Handlers that stay pending keep what they have.
LEMMA Stays ==
  ASSUME TradesInv, NEW max \in Nat, NEW up \in BOOLEAN, NEW reach,
         Over(reach, handler, max, up),
         Pending(handler', max, up) = Pending(handler, max, up),
         \A g \in Pending(handler, max, up) : handler'[g].lots = handler[g].lots
  PROVE  Over(reach, handler', max, up)
BY DEF Over

\* A handler that becomes pending has just seen the position with its trade.
LEMMA Joins ==
  ASSUME NEW h \in Handlers, NEW max \in Nat, NEW up \in BOOLEAN, NEW reach \in Int,
         h \in Pending(handler', max, up), Toward(up, handler'[h].lots) \in Int,
         reach + Toward(up, handler'[h].lots) <= max
  PROVE  Over(reach, handler', max, up)
<1> DEFINE n == Cardinality(Pending(handler', max, up))
           lots == Toward(up, handler'[h].lots)
<1>1. /\ n - 1 \in Nat /\ Cardinality(Handlers) - 1 \in Nat /\ n <= Cardinality(Handlers)
      /\ n \in Nat /\ Cardinality(Handlers) \in Nat
  BY PendingNumbers
<1>2. n - 1 <= Cardinality(Handlers) - 1
  <2> HIDE DEF n
  <2>1. QED
    BY <1>1
<1>3. /\ Load(n - 1) <= Load(Cardinality(Handlers) - 1)
      /\ Load(n - 1) \in Nat /\ Load(Cardinality(Handlers) - 1) \in Nat
  BY <1>1, <1>2, LoadGrows, LoadMonotone
<1>4. reach + lots + Load(n - 1) <= Cap(max)
  <2> HIDE DEF n, lots
  <2>1. lots \in Int /\ reach + lots <= max
    BY DEF lots
  <2>2. QED
    BY <1>3, <2>1 DEF Cap
<1>5. QED
  BY <1>4 DEF Over

\* What is pending of the handlers other than h stays.
Others(h) ==
  \A g \in Handlers \ {h} :
    /\ handler'[g].pc = handler[g].pc /\ handler'[g].booked = handler[g].booked
    /\ handler'[g].lots = handler[g].lots /\ handler'[g].seen = handler[g].seen

\* A step that is one handler's leaves what is pending of the others.
LEMMA MovesOthers ==
  ASSUME NEW h, Moves(h)
  PROVE  Others(h)
BY DEF Moves, Others

\* So does one that moves the position, which only adds to their drift.
LEMMA MovedOthers ==
  ASSUME TradesInv, NEW h, NEW lots, MovedBy(h, lots)
  PROVE  Others(h) /\ (h \in Handlers => handler'[h] = Idle)
<1>1. handler' = After(h, lots)
  BY DEF MovedBy
<1>2. ASSUME NEW g \in Handlers \ {h}
      PROVE  /\ handler'[g].pc = handler[g].pc /\ handler'[g].booked = handler[g].booked
             /\ handler'[g].lots = handler[g].lots /\ handler'[g].seen = handler[g].seen
  <2> DEFINE me == handler[g]
  <2>1. me \in Local
    BY DEF TradesInv, LocalOK
  <2>2. handler'[g] = me \/ handler'[g] = [me EXCEPT !.drift = me.drift + lots]
    BY <1>1 DEF After
  <2> HIDE DEF me
  <2>3. QED
    BY <2>1, <2>2 DEF Local, me
<1>3. h \in Handlers => handler'[h] = Idle
  BY <1>1 DEF After
<1>4. QED
  BY <1>2, <1>3 DEF Others

\* A handler that stays pending, or is none, changes nothing about who else is.
LEMMA PendingAfter ==
  ASSUME NEW h \in Handlers, Others(h), NEW max, NEW up
  PROVE  /\ h \notin Pending(handler', max, up) =>
              Pending(handler', max, up) = Pending(handler, max, up) \ {h}
         /\ h \in Pending(handler', max, up) /\ h \in Pending(handler, max, up) =>
              Pending(handler', max, up) = Pending(handler, max, up)
         /\ \A g \in Pending(handler, max, up) \ {h} : handler'[g].lots = handler[g].lots
BY DEF Pending, Others

\* The overshoot in one direction, before and after a step.
OverNow(up) == Over(Reach(Position, removed, up), handler, MaxLimit, up)

OverThen(up) == Over(Reach(Position', removed', up), handler', MaxLimit, up)

\* A handler ends, or changes without becoming pending; the position may have
\* moved by its lots if it was pending, and not further away if it was not.
LEMMA OverLeaves ==
  ASSUME TradesInv, TradesInv', Limited, NEW up \in BOOLEAN, OverNow(up), Position' \in Int,
         NEW h \in Handlers, Others(h), h \notin Pending(handler', MaxLimit, up),
         h \in Pending(handler, MaxLimit, up) =>
           Reach(Position', removed', up)
             <= Reach(Position, removed, up) + Toward(up, handler[h].lots),
         h \notin Pending(handler, MaxLimit, up) =>
           Reach(Position', removed', up) <= Reach(Position, removed, up)
  PROVE  OverThen(up)
<1> DEFINE reach == Reach(Position, removed, up)
           after == Reach(Position', removed', up)
           max == MaxLimit
<1>1. max \in Nat
  BY LimitsBelow DEF TradesInv
<1>2. reach \in Int
  BY ReachNumbers
<1>3. after \in Int
  <2>1. Position' \in Int /\ removed' \in Nat
    BY DEF TradesInv
  <2>2. QED
    BY <2>1 DEF Reach, Toward
<1>4. Over(reach, handler, max, up)
  BY DEF OverNow
<1>5. /\ Pending(handler', max, up) = Pending(handler, max, up) \ {h}
      /\ \A g \in Pending(handler, max, up) \ {h} : handler'[g].lots = handler[g].lots
      /\ IF h \in Pending(handler, max, up) THEN after <= reach + Toward(up, handler[h].lots)
                                            ELSE after <= reach
  BY PendingAfter
<1> HIDE DEF reach, after, max
<1>6. Over(after, handler', max, up)
  BY <1>1, <1>2, <1>3, <1>4, <1>5, Leaves
<1>7. QED
  BY <1>6 DEF OverThen, after, max

\* A step that is not about the position: the handler ends, or is not pending.
LEMMA OverQuiet ==
  ASSUME TradesInv, TradesInv', Limited, NEW up \in BOOLEAN, OverNow(up),
         NEW h \in Handlers, Others(h), h \notin Pending(handler', MaxLimit, up),
         Position' = Position, removed' = removed
  PROVE  OverThen(up)
<1>1. Reach(Position', removed', up) = Reach(Position, removed, up)
  OBVIOUS
<1>2. Reach(Position, removed, up) \in Int /\ Toward(up, handler[h].lots) \in Int
  BY ReachNumbers
<1>3. h \in Pending(handler, MaxLimit, up) => Toward(up, handler[h].lots) > 0
  BY DEF Pending
<1>4. h \in Pending(handler, MaxLimit, up) =>
        Reach(Position', removed', up)
          <= Reach(Position, removed, up) + Toward(up, handler[h].lots)
  BY <1>1, <1>2, <1>3
<1>5. Reach(Position', removed', up) <= Reach(Position, removed, up)
  BY <1>1, <1>2
<1>6. Position' \in Int
  BY BookedFinite DEF TradesInv
<1>7. QED
  BY <1>4, <1>5, <1>6, OverLeaves

\* The steps that move no position keep the overshoot in bounds.
LEMMA OverOwnSteps ==
  ASSUME TradesInv, TradesInv', Limited, NEW up \in BOOLEAN, OverNow(up), NEW h \in Handlers,
         StartPost(h) \/ Find(h) \/ Fail(h) \/ SumPosition(h) \/ CheckRules(h)
  PROVE  OverThen(up)
<1>1. Position' = Position /\ removed' = removed
  BY DEF StartPost, Find, Fail, SumPosition, CheckRules, Position, Booked
<1>2. ASSUME Others(h), handler'[h].pc \notin {"check", "insert"} PROVE OverThen(up)
  <2>1. h \notin Pending(handler', MaxLimit, up)
    BY <1>2 DEF Pending
  <2>2. QED
    BY <1>1, <1>2, <2>1, OverQuiet
<1>3. Idle.pc = "idle"
  BY DEF Idle
<1>4. CASE StartPost(h)
  BY <1>2, <1>4, StartPostKeeps, MovesOthers
<1>5. CASE Find(h)
  BY <1>2, <1>5, FindKeeps, MovesOthers
<1>6. CASE Fail(h)
  BY <1>2, <1>3, <1>6, FailKeeps, MovesOthers
<1>7. CASE SumPosition(h)
  <2>1. /\ Others(h)
        /\ handler'[h] = [handler[h] EXCEPT !.seen = Position + handler[h].lots, !.pc = "check"]
    BY <1>7, SumPositionKeeps, MovesOthers
  <2>2. CASE h \notin Pending(handler', MaxLimit, up)
    BY <1>1, <2>1, <2>2, OverQuiet
  <2>3. CASE h \in Pending(handler', MaxLimit, up)
    <3> DEFINE lots == handler[h].lots
               reach == Reach(Position, removed, up)
    <3>1. handler[h] \in Local
      BY DEF TradesInv, LocalOK
    <3>2. handler'[h].lots = lots /\ handler'[h].seen = Position + lots
      BY <2>1, <3>1 DEF Local
    <3>3. lots \in Int /\ Position \in Int /\ removed \in Nat
      BY <3>1, LotsAreInt, BookedFinite DEF Local, TradesInv
    <3>4. MaxLimit \in Nat
      BY LimitsBelow DEF TradesInv
    <3>5. Toward(up, handler'[h].seen) <= MaxLimit
      BY <2>3 DEF Pending
    <3>6. reach + Toward(up, lots) <= MaxLimit /\ reach \in Int /\ Toward(up, lots) \in Int
      <4>1. Toward(up, Position + lots) <= MaxLimit
        BY <3>2, <3>5
      <4> HIDE DEF lots
      <4>2. QED
        BY <3>3, <3>4, <4>1 DEF Toward, Reach
    <3>7. Over(reach, handler', MaxLimit, up)
      <4> HIDE DEF lots, reach
      <4>1. QED
        BY <2>3, <3>2, <3>4, <3>6, Joins
    <3>8. QED
      BY <1>1, <3>7 DEF OverThen
  <2>4. QED
    BY <2>2, <2>3
<1>8. CASE CheckRules(h)
  <2>1. Others(h)
    BY <1>8, CheckRulesKeeps, MovesOthers
  <2>2. CASE handler'[h] = Idle
    BY <1>2, <1>3, <2>1, <2>2
  <2>3. CASE handler'[h] = [handler[h] EXCEPT !.pc = "insert"]
    <3>1. handler[h] \in Local /\ handler[h].pc = "check"
      BY <1>8, CheckRulesKeeps DEF TradesInv, LocalOK
    <3>2. /\ handler'[h].pc = "insert" /\ handler'[h].lots = handler[h].lots
          /\ handler'[h].booked = handler[h].booked /\ handler'[h].seen = handler[h].seen
      BY <2>3, <3>1 DEF Local
    <3>3. /\ Pending(handler', MaxLimit, up) = Pending(handler, MaxLimit, up)
          /\ \A g \in Pending(handler, MaxLimit, up) : handler'[g].lots = handler[g].lots
      BY <2>1, <3>1, <3>2 DEF Others, Pending
    <3>4. Over(Reach(Position, removed, up), handler', MaxLimit, up)
      BY <3>3 DEF Over, OverNow
    <3>5. QED
      BY <1>1, <3>4 DEF OverThen
  <2>4. QED
    BY <1>8, <2>2, <2>3, CheckRulesKeeps
<1>9. QED
  BY <1>4, <1>5, <1>6, <1>7, <1>8

\* An INSERT of a trade in the other direction, or of one that is not booked,
\* takes the position no further; any other one was pending.
LEMMA OverInsert ==
  ASSUME TradesInv, TradesInv', Limited, NEW up \in BOOLEAN, OverNow(up), NEW h \in Handlers,
         Insert(h)
  PROVE  OverThen(up)
<1> DEFINE me == handler[h]
           moved == IF me.booked THEN me.lots ELSE 0
<1>1. me.pc = "insert" /\ MovedBy(h, moved) /\ removed' = removed
  BY InsertKeeps DEF At, Insert
<1>2. Others(h) /\ handler'[h] = Idle
  BY <1>1, MovedOthers
<1>3. h \notin Pending(handler', MaxLimit, up)
  BY <1>2 DEF Pending, Idle
<1>4. LocalOK(me) /\ me \in Local /\ removed \in Nat /\ Position \in Int
  BY BookedFinite DEF TradesInv, LocalOK
<1>5. me.lots \in Int /\ me.seen \in Int /\ me.booked \in BOOLEAN /\ me.category \in Categories
  BY <1>4, LotsAreInt DEF Local
<1>6. Position' = Position + moved
  BY <1>1 DEF MovedBy
<1>7. me.booked => Toward(up, me.seen) <= MaxLimit
  <2>1. PICK limit \in HardLimits(me.category) : limit \in Nat /\ limit <= MaxLimit
    BY <1>5, LimitsBelow DEF TradesInv
  <2>2. Size(me.seen) <= limit /\ MaxLimit \in Nat
    BY <1>1, <1>4, LimitsBelow DEF LocalOK, TradesInv
  <2> HIDE DEF me
  <2>3. Toward(up, me.seen) <= Size(me.seen) /\ Size(me.seen) \in Int /\ Toward(up, me.seen) \in Int
    BY <1>5 DEF Toward, Size
  <2>4. QED
    BY <2>1, <2>2, <2>3
<1>8. h \in Pending(handler, MaxLimit, up) <=> me.booked /\ Toward(up, me.lots) > 0
  BY <1>1, <1>7 DEF Pending
<1> HIDE DEF me
<1>9. h \in Pending(handler, MaxLimit, up) =>
        Reach(Position', removed', up) <= Reach(Position, removed, up) + Toward(up, me.lots)
  BY <1>1, <1>4, <1>5, <1>6, <1>8 DEF Reach, Toward
<1>10. h \notin Pending(handler, MaxLimit, up) =>
         Reach(Position', removed', up) <= Reach(Position, removed, up)
  BY <1>1, <1>4, <1>5, <1>6, <1>8 DEF Reach, Toward
<1>11. Position' \in Int
  BY <1>4, <1>5, <1>6
<1>12. QED
  BY <1>2, <1>3, <1>9, <1>10, <1>11, OverLeaves DEF me

\* What a DELETE gives the position in one direction it also removes.
LEMMA OverDelete ==
  ASSUME TradesInv, TradesInv', Limited, NEW up \in BOOLEAN, OverNow(up), NEW h \in Handlers,
         Delete(h)
  PROVE  OverThen(up)
<1>1. PICK lots \in Int : MovedBy(h, -lots) /\ removed' = removed + Size(lots)
  BY DeleteKeeps
<1>2. Others(h) /\ handler'[h] = Idle
  BY <1>1, MovedOthers
<1>3. h \notin Pending(handler', MaxLimit, up) /\ h \notin Pending(handler, MaxLimit, up)
  BY <1>2, DeleteKeeps DEF Pending, Idle, At
<1>4. Position \in Int /\ removed \in Nat /\ Position' = Position - lots
  BY <1>1, BookedFinite DEF TradesInv, MovedBy
<1>5. Reach(Position', removed', up) <= Reach(Position, removed, up)
  BY <1>1, <1>4 DEF Reach, Toward, Size
<1>6. Position' \in Int
  BY <1>4
<1>7. QED
  BY <1>2, <1>3, <1>5, <1>6, OverLeaves

\* Every step keeps OverInv.
LEMMA OverStep ==
  ASSUME TradesInv, OverInv, [Next]_vars
  PROVE  OverInv'
<1>1. TradesInv'
  BY TradesStep
<1>2. rules' = rules
  BY DEF Next, vars, ImportRow, StartPost, SumPosition, CheckRules, Insert, Find, Delete, Fail
<1>3. Limited' = Limited /\ MaxLimit' = MaxLimit
  BY <1>2 DEF Limited, MaxLimit, HardLimits
<1>4. SUFFICES ASSUME Limited, NEW up \in BOOLEAN PROVE OverThen(up)
  BY <1>3 DEF OverInv, OverThen
<1>5. OverNow(up)
  BY <1>4 DEF OverInv, OverNow
<1>6. CASE UNCHANGED vars
  <2>1. Position' = Position /\ removed' = removed /\ handler' = handler
    BY <1>6 DEF vars, Position, Booked
  <2>2. QED
    BY <1>5, <2>1 DEF OverNow, OverThen
<1>7. CASE ImportRow
  <2>1. Position' = Position /\ removed' = removed /\ handler' = handler
    BY <1>7, ImportKeeps DEF ImportRow
  <2>2. QED
    BY <1>5, <2>1 DEF OverNow, OverThen
<1>8. ASSUME NEW h \in Handlers,
             \/ StartPost(h) \/ SumPosition(h) \/ CheckRules(h) \/ Insert(h)
             \/ Find(h) \/ Delete(h) \/ Fail(h)
      PROVE  OverThen(up)
  BY <1>1, <1>4, <1>5, <1>8, OverOwnSteps, OverInsert, OverDelete
<1>9. QED
  BY <1>6, <1>7, <1>8 DEF Next

\* What OverInv says of the position, both ways.
LEMMA OverBounds ==
  ASSUME TradesInv, OverInv
  PROVE  OvershootBounded
<1>1. SUFFICES ASSUME Limited
               PROVE  Size(Position) <= MaxLimit + (Cardinality(Handlers) - 1) * Largest + removed
  BY DEF OvershootBounded, Limited, MaxLimit, Largest
<1>2. Cap(MaxLimit) = MaxLimit + (Cardinality(Handlers) - 1) * Largest
  BY DEF Cap, Load
<1>3. Cap(MaxLimit) \in Int
  BY <1>1, LimitsBelow, PendingNumbers, LoadGrows DEF Cap, TradesInv
<1>4. ASSUME NEW up \in BOOLEAN PROVE Reach(Position, removed, up) <= Cap(MaxLimit)
  <2> DEFINE P == Pending(handler, MaxLimit, up)
             reach == Reach(Position, removed, up)
  <2>1. reach \in Int /\ Cardinality(P) \in Nat /\ Load(Cardinality(P)) \in Nat
    BY ReachNumbers, PendingNumbers, LoadGrows
  <2>2. CASE reach + Load(Cardinality(P)) <= Cap(MaxLimit)
    <3> HIDE DEF P, reach
    <3>1. reach <= Cap(MaxLimit)
      BY <1>3, <2>1, <2>2
    <3>2. QED
      BY <3>1 DEF reach
  <2>3. ASSUME NEW h \in P,
               reach + Toward(up, handler[h].lots) + Load(Cardinality(P) - 1) <= Cap(MaxLimit)
        PROVE  reach <= Cap(MaxLimit)
    <3>1. /\ Toward(up, handler[h].lots) > 0 /\ Toward(up, handler[h].lots) \in Int
          /\ Cardinality(P) - 1 \in Nat /\ Load(Cardinality(P) - 1) \in Nat
      <4>1. h \in Handlers /\ Toward(up, handler[h].lots) > 0
        BY <2>3 DEF Pending
      <4>2. Toward(up, handler[h].lots) \in Int
        BY <4>1, ReachNumbers
      <4>3. Cardinality(P) - 1 \in Nat
        BY <2>3, PendingNumbers
      <4>4. QED
        BY <4>1, <4>2, <4>3, LoadGrows
    <3> HIDE DEF P, reach
    <3>2. QED
      BY <1>3, <2>1, <2>3, <3>1
  <2>4. QED
    BY <1>1, <2>2, <2>3 DEF OverInv, Over
<1>5. Position \in Int /\ removed \in Nat
  BY BookedFinite DEF TradesInv
<1>6. Position - removed <= Cap(MaxLimit) /\ -Position - removed <= Cap(MaxLimit)
  BY <1>4 DEF Reach, Toward
<1>7. QED
  BY <1>2, <1>3, <1>5, <1>6 DEF Size

\* However many requests check at once, the position overshoots the limits by
\* no more than a largest trade for every request but one, plus what deletions
\* took away. A request that checked before others inserted has its own trade
\* in the sum it checked, so that of those under way at a time one counts
\* within the limit, and each of the others adds one trade.
THEOREM OvershootIsBounded == Spec => []OvershootBounded
<1>1. TradesInv /\ Init => OverInv
  <2> SUFFICES ASSUME TradesInv, Init, Limited, NEW up \in BOOLEAN
               PROVE  Over(Reach(Position, removed, up), handler, MaxLimit, up)
    BY DEF OverInv
  <2>1. Position = 0 /\ removed = 0
    <3>1. Booked = {}
      BY DEF Init, Booked
    <3>2. QED
      BY <3>1, SumNone DEF Init, Position
  <2>2. Reach(Position, removed, up) = 0
    <3>1. Toward(up, 0) = 0
      <4>1. \A x \in Int : x <= 0 /\ 0 <= x => Toward(up, x) = 0
        BY DEF Toward
      <4>2. QED
        BY <4>1
    <3>2. Reach(0, 0, up) = 0
      BY <3>1 DEF Reach
    <3>3. QED
      BY <2>1, <3>2
  <2>3. Pending(handler, MaxLimit, up) = {}
    BY DEF Init, Pending, Idle
  <2>4. Cardinality(Pending(handler, MaxLimit, up)) = 0
    BY <2>3, FS_EmptySet
  <2>5. Load(0) = 0
    BY LargestTrade DEF Load
  <2>6. Cap(MaxLimit) \in Nat
    BY LimitsBelow, PendingNumbers, LoadGrows DEF Cap, TradesInv
  <2>7. Reach(Position, removed, up) + Load(Cardinality(Pending(handler, MaxLimit, up)))
          <= Cap(MaxLimit)
    BY <2>2, <2>4, <2>5, <2>6
  <2>8. QED
    BY <2>7 DEF Over
<1>2. TradesInv /\ OverInv /\ [Next]_vars => OverInv'
  BY OverStep
<1>3. TradesInv /\ OverInv => OvershootBounded
  BY OverBounds
<1>4. QED
  BY <1>1, <1>2, <1>3, TradesInvariant, PTL DEF Spec
=============================================================================
