-------------------------- MODULE FinancialRecords --------------------------
(***************************************************************************)
(* Financial transactions (src/backend/src/routes/financial.ts) and the    *)
(* trigger that books them (migrations/0016_complete_system.sql). The      *)
(* request to complete one may be repeated; the UPDATE does not ask for    *)
(* the status, the trigger does.                                           *)
(***************************************************************************)
EXTENDS Integers

CONSTANTS
  Accounts,          \* bank_accounts
  TransactionIds,    \* the transactions that may be created
  Amounts,           \* their amounts
  NoAccount          \* NULL: the other side is none of our accounts

VARIABLES
  balance,           \* [Accounts -> current_balance]
  transactions       \* [TransactionIds -> [status, from, to, amount]]

financialVars == <<balance, transactions>>

Party == Accounts \cup {NoAccount}

Transaction == [status : {"none", "pending", "completed"}, from : Party, to : Party,
                amount : Amounts \cup {0}]

NoTransaction == [status |-> "none", from |-> NoAccount, to |-> NoAccount, amount |-> 0]

FinancialInit ==
  /\ balance = [a \in Accounts |-> 0]
  /\ transactions = [t \in TransactionIds |-> NoTransaction]

\* POST /transactions
CreateTransaction(t, from, to, amount) ==
  /\ transactions[t].status = "none"
  /\ transactions' = [transactions EXCEPT ![t] =
       [status |-> "pending", from |-> from, to |-> to, amount |-> amount]]
  /\ UNCHANGED balance

\* Mutant: the trigger without its test of OLD.status.
BooksAlways(old) == TRUE

\* WHEN NEW.status = 'completed' AND OLD.status != 'completed'
Books(old) == old.status # "completed"

\* The trigger's debit and credit: an account that is NULL matches no row.
Booked(old) ==
  [a \in Accounts |-> balance[a] - (IF old.from = a THEN old.amount ELSE 0)
                                 + (IF old.to = a THEN old.amount ELSE 0)]

\* POST /transactions/:id/complete, at any time and as often as it is sent; the
\* trigger runs within the statement.
CompleteTransaction(t) ==
  /\ transactions[t].status # "none"
  /\ transactions' = [transactions EXCEPT ![t].status = "completed"]
  /\ balance' = IF Books(transactions[t]) THEN Booked(transactions[t]) ELSE balance

FinancialNext ==
  \E t \in TransactionIds :
    \/ \E from, to \in Party, amount \in Amounts : CreateTransaction(t, from, to, amount)
    \/ CompleteTransaction(t)

FinancialSpec == FinancialInit /\ [][FinancialNext]_financialVars

-----------------------------------------------------------------------------
\* Completing a transaction again, as a retry or a second click does, moves no
\* money: the records implement the ledger, where a payment settles once.
AsLedger ==
  INSTANCE Ledger WITH
    Payments <- TransactionIds, Outside <- NoAccount,
    settled <- {t \in TransactionIds : transactions[t].status = "completed"}

MovesMoneyOnce == AsLedger!LedgerSpec
=============================================================================
