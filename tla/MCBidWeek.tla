------------------------------ MODULE MCBidWeek ------------------------------
(***************************************************************************)
(* Two requests over the turn of the year 2026/27. New Year's Eve and      *)
(* Friday 29 January are days that may become holidays; 30 and 31 January  *)
(* are a weekend after the last business day.                              *)
(***************************************************************************)
EXTENDS BidWeek, TLC

CONSTANTS q1, q2

MCRequests == {q1, q2}
MCExchanges == {"CME"}
December == MonthNo(2026, 12)
January == MonthNo(2027, 1)
MCMonths == {December, January}
MCHolidayDates == {DateNo(December, 31), DateNo(January, 29)}
MCBulkImports == {[i \in 1..2 |-> [exch |-> "CME", date |-> <<DateNo(December, 31), DateNo(January, 29)>>[i],
                                   status |-> "active"]]}
MCCheckDates == {DateNo(December, 28), DateNo(January, 29), DateNo(January, 31)}
MCClockDates == {DateNo(December, 1), DateNo(January, 31)}

\* Two holidays leave December and January far more days than a bid week needs.
ASSUME MCTradingDays == EnoughTradingDays

MCSymmetry == Permutations(MCRequests)
=============================================================================
