--------------------------- MODULE MCTransactions ---------------------------
(***************************************************************************)
(* Two people with accounts and one without. Tokens carry the ten-digit    *)
(* form; rows of older releases and of groups may spell a number with its  *)
(* country code.                                                           *)
(***************************************************************************)
EXTENDS TransactionLedger

CONSTANTS Asha, Bina, Chetan, Ten, CountryCode, Dinner

A == <<Asha, Ten>>
B == <<Bina, Ten>>

MCPeople == {Asha, Bina, Chetan}
MCRegistered == {Asha, Bina}
MCForms == {Ten, CountryCode}
MCExpenses == {Dinner}
BothCallers == {A, B}

LegacyRow ==
  [from |-> <<Bina, CountryCode>>, to |-> A, type |-> "receive", amount |-> 2,
   note |-> 1, expense |-> Personal, by |-> Nobody,
   live |-> TRUE, deleted |-> FALSE, archived |-> FALSE]
GroupRow ==
  [from |-> A, to |-> <<Bina, CountryCode>>, type |-> "give", amount |-> 1,
   note |-> 1, expense |-> Dinner, by |-> A,
   live |-> TRUE, deleted |-> FALSE, archived |-> FALSE]

\* Asha confirmed a payment: the row is hers, and the payer's type.
ConfirmedRow ==
  [from |-> <<Chetan, Ten>>, to |-> A, type |-> "give", amount |-> 1,
   note |-> 1, expense |-> Personal, by |-> A,
   live |-> TRUE, deleted |-> FALSE, archived |-> FALSE]

MixedRows == {<<LegacyRow>>, <<GroupRow>>, <<LegacyRow, ConfirmedRow>>}

=============================================================================
