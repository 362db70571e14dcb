--------------------------- MODULE MCFinanceLedger ---------------------------
(***************************************************************************)
(* The ledger on two sources of any kind and two dates of one month.       *)
(***************************************************************************)
EXTENDS FinanceLedgerProps, TLC

CONSTANTS d1, d2, m1, i1, i2

MCDates == 1..2
MCOneId == {i1}
MCIds == {i1, i2}
MCAllKinds == {"document", "expense", "deposit", "manual_entry", "inventory"}
MCPeriods == {d1, d2, m1}
MCDaysOf == d1 :> {1} @@ d2 :> {2} @@ m1 :> {1, 2}

MCLegacyDocuments ==
    {[kind |-> "document", type |-> "expense", status |-> "pending",
      date |-> date, amount |-> 1, lines |-> {}] : date \in {NULL, 1}}

MCDocumentForms == [type: DocumentTypes, amount: Amounts, lines: SUBSET Lines]

MCInvoiceForms == {[type |-> "expense", amount |-> 1, lines |-> {}]}

(* A full form, and cash expenses alone.                                   *)
MCRecordForms ==
    {[f \in AllPaidFields |-> 1],
     [f \in AllPaidFields |-> IF f = "expenses_in_cash" THEN 1 ELSE 0]}

MCSymmetry == Permutations(MCIds)
=============================================================================
