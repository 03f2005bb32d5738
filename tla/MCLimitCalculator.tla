------------------------- MODULE MCLimitCalculator -------------------------
(***************************************************************************)
(* Small instances of LimitCalculator: a commodity P, a commodity C that   *)
(* reports under it, and in the orphan instance a second one, D. The feed  *)
(* of the main instance holds P and C or, after an import, only the child, *)
(* which leaves P an orphan.                                               *)
(***************************************************************************)
EXTENDS LimitCalculator, TLC

CONSTANTS r1, r2, P, C, D, here, there

MCRuns == {r1, r2}
MCCodes == {P, C}
MCAgg1 == P :> P @@ C :> P
MCAgg2 == P :> NULL @@ C :> NULL

\* P is mapped at two market locations, as migrations 0002 and 0027 map NG.
MCLocations == P :> {here, there} @@ C :> {here} @@ D :> {here}

Held(c, m, q) == [code |-> c, month |-> m, qty |-> q]

MCFeeds == {{Held(P, 1, 5), Held(C, 1, 3), Held(C, 2, 2), Held(C, 3, 4)}, {Held(C, 1, 3)}}

SeedRow(child, code, qty) ==
  [child |-> child, code |-> code, lt |-> 1, month |-> 1, asOf |-> 0, created |-> 0,
   upd |-> qty, pos |-> qty, kids |-> {}, parent |-> child = code, active |-> TRUE,
   prev |-> 0, by |-> NULL]

MCSeeds == {<< >>, <<SeedRow(P, P, 4), SeedRow(C, P, 1)>>}

MCSymmetry == Permutations(MCRuns)
-----------------------------------------------------------------------------
\* One run at a time over one unchanging feed.
OneFeed == {{Held(P, 1, 5), Held(C, 1, 3)}}
NoSeeds == {<< >>}

\* Two children and no parent: C reports positively, D negatively.
ThreeCodes == {P, C, D}
ThreeAgg1 == P :> P @@ C :> P @@ D :> NULL
ThreeAgg2 == P :> NULL @@ C :> NULL @@ D :> P
ChildFeed == {{Held(C, 1, 3), Held(D, 1, 2)}}
=============================================================================
