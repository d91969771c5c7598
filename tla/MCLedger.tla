------------------------------- MODULE MCLedger --------------------------------
(***************************************************************************)
(* Small instances of Ledger.                                              *)
(***************************************************************************)
EXTENDS LedgerReports

CONSTANTS w1, w2, w3, x, y, stranger

\* Two wallets start with a coin each, the last of the file with none.
TwoEqual == w1 :> <<x>> @@ w2 :> <<y>> @@ w3 :> <<>>

\* An ID between those of the wallets.
MCRank == w2 :> 1 @@ w1 :> 2 @@ stranger :> 3 @@ w3 :> 4
================================================================================
