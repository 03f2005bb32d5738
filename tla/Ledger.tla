------------------------------- MODULE Ledger -------------------------------
(***************************************************************************)
(* What the financial records promise: a payment moves its amount once at  *)
(* most, out of one account and into another.                              *)
(***************************************************************************)
EXTENDS Integers

CONSTANTS
  Accounts,   \* the bank accounts
  Payments,   \* the payments
  Amounts,    \* what a payment may move
  Outside     \* the other side of a deposit or a fee: none of the accounts

VARIABLES
  balance,    \* [Accounts -> current_balance]
  settled     \* the payments whose amount has moved

ledgerVars == <<balance, settled>>

Parties == Accounts \cup {Outside}

\* The balances after "amount" went from one party to another.
Moved(from, to, amount) ==
  [a \in Accounts |-> balance[a] - (IF from = a THEN amount ELSE 0)
                                 + (IF to = a THEN amount ELSE 0)]

LedgerInit ==
  /\ balance = [a \in Accounts |-> 0]
  /\ settled = {}

Settle(p) ==
  /\ p \notin settled
  /\ settled' = settled \cup {p}
  /\ \E from, to \in Parties, amount \in Amounts : balance' = Moved(from, to, amount)

LedgerNext == \E p \in Payments : Settle(p)

LedgerSpec == LedgerInit /\ [][LedgerNext]_ledgerVars
=============================================================================
