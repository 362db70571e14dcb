----------------------------- MODULE MCFigures -----------------------------
(***************************************************************************)
(* The screens over every pair of rows of the forms below, on two days of  *)
(* a week and one in the month after.                                      *)
(***************************************************************************)
EXTENDS ScreensAgree, TLC

CONSTANTS i1, i2

MCIds == {i1, i2}
MCDates == {8, 9, 30}
MCSymmetry == Permutations(MCIds)

MCPaid(pos, cash, bank, withdrawn, spent) ==
    [f \in AllPaidFields |->
       CASE f = "pos_payments" -> pos
         [] f = "cash_payments" -> cash
         [] f = "bank_transfer_payments" -> bank
         [] f = "cash_withdrawals" -> withdrawn
         [] f = "expenses_in_cash" -> spent
         [] OTHER -> 0]

(* A day of sales by each method, a register that closes below what it     *)
(* opened with, cash spent that was not taken, and bank transfers alone.   *)
MCRecords(d) ==
    {Record("method_1", d, MCPaid(2, 0, 0, 1, 1), 3, 4, 0, 0),
     Record("method_1", d, MCPaid(0, 0, 0, 0, 0), 2, 0, 0, 0),
     Record("method_2", d, MCPaid(2, 3, 1, 0, 1), 1, 2, 1, 2),
     Record("method_2", d, MCPaid(0, 1, 0, 0, 3), 2, 0, 0, 0),
     Record("method_2", d, MCPaid(0, 0, 2, 0, 0), 0, 0, 2, 1)}

MCDocument(type, amount, vat, d) ==
    [kind |-> "document", type |-> type, status |-> "processed", date |-> d,
     amount |-> amount, total |-> amount, vat |-> vat, lines |-> {}]

MCDocuments(d) ==
    {MCDocument("expense", 2, 0, d), MCDocument("expense", 3, 30, d),
     MCDocument("cash", 1, 0, d), MCDocument("revenue", 3, 20, d),
     MCDocument("profit", 1, 0, d), MCDocument("unknown", 0, 0, d)}

MCExpense(kind, section, food, amount, d) ==
    [kind |-> kind, section |-> section, food |-> food, amount |-> amount, date |-> d]

MCExpenses(d) ==
    {MCExpense("expense", "cash", FALSE, 1, d), MCExpense("expense", "bank", TRUE, 2, d),
     MCExpense("food_cost_manual", "bank", TRUE, 3, d),
     MCExpense("inventory", "cash", TRUE, 1, d)}

MCDeposit(kind, type, amount, lunch, dinner, d) ==
    [kind |-> kind, type |-> type, amount |-> amount, lunch |-> lunch, dinner |-> dinner, date |-> d]

MCDeposits(d) ==
    {MCDeposit("deposit", "bank_deposit", 2, 0, 0, d), MCDeposit("deposit", "cash_deposit", 1, 0, 0, d),
     MCDeposit("revenue_entry", "cash_in", 3, 1, 0, d)}

MCForms == UNION {MCRecords(d) \cup MCDocuments(d) \cup MCExpenses(d) \cup MCDeposits(d) : d \in MCDates}
=============================================================================
