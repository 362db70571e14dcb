------------------------------ MODULE Screens ------------------------------
(***************************************************************************)
(* The screens of services/restaurant.py that show figures: home, cash,    *)
(* daily data, expenses, analytics and VAT.  Home and the analytics read   *)
(* the snapshots of the days; the cash overview and the daily data read    *)
(* the rows themselves.                                                    *)
(***************************************************************************)
EXTENDS Figures

(* _resolve_home_activity_anchor_date: the latest day anything is dated.   *)
Anchor == IF Days = {} THEN 0 ELSE Max(Days)

(* _resolve_home_date_range: a period ends at its anchor a, unless the     *)
(* reader names a first or a last day.                                     *)
PeriodDays == [today |-> 1, weekly |-> 7, monthly |-> 30]

Window(period, from, to, a) ==
    IF from = NULL /\ to = NULL
    THEN (a - PeriodDays[period] + 1)..a
    ELSE {d \in Dates : (from # NULL => d >= from) /\ (to # NULL => d <= to)}

(* _resolve_comparison_date_ranges: a missing bound is the other one, and  *)
(* the days compared with are as many, up to the day before.               *)
First(period, from, to, a) ==
    CASE from # NULL -> from
      [] from = NULL /\ to # NULL -> to
      [] OTHER -> a - PeriodDays[period] + 1

Last(from, to, a) == IF to # NULL THEN to ELSE IF from # NULL THEN from ELSE a

Current(period, from, to, a) == First(period, from, to, a)..Last(from, to, a)

(* Mutant: the day the period starts with is compared with itself.         *)
PreviousOverlapping(period, from, to, a) ==
    LET first == First(period, from, to, a)
        days == Last(from, to, a) - first + 1
    IN  (first - (IF days > 1 THEN days ELSE 1))..first

Previous(period, from, to, a) ==
    LET first == First(period, from, to, a)
        days == Last(from, to, a) - first + 1
    IN  (first - (IF days > 1 THEN days ELSE 1))..(first - 1)

-----------------------------------------------------------------------------
(* Mutant: the money is added to the sales it comes from.                  *)
DayRevenueAdded(d) == Revenue({d}) + BankDeposits({d})

(* Home: the revenue of a day is its bank money when it has no sales, and  *)
(* the revenue entries are added to the days.                              *)
DayRevenue(d) == IF Revenue({d}) > 0 THEN Revenue({d}) ELSE BankDeposits({d})

HomeRevenue(P) == Sum(DayRevenue, P \cap Days) + RevenueEntries(P)

(* The analytics add the days alone.                                       *)
AnalyticsRevenue(P) == Sum(LAMBDA d : Revenue({d}), P \cap Days)

DaysExpenses(P) == Sum(LAMBDA d : ExpensesIn({d}), P \cap Days)
DaysProfit(P) == Sum(LAMBDA d : Profit({d}), P \cap Days)

(* _is_food_cost_expense: by its source, else by its category.             *)
IsFoodCost(i) ==
    \/ rows[i].kind \in {"document", "inventory", "food_cost_manual"}
    \/ rows[i].kind = "expense" /\ rows[i].food

FoodCost(P) == Sum(LAMBDA i : ExpenseRow(i).amount, {i \in ExpenseRows(P) : IsFoodCost(i)})
OtherExpense(P) == Sum(LAMBDA i : ExpenseRow(i).amount, {i \in ExpenseRows(P) : ~IsFoodCost(i)})

(* The expense list of the days P.                                         *)
ExpenseTotal(P) == Sum(LAMBDA i : ExpenseRow(i).amount, ExpenseRows(P))

HandEnteredFoodCost(P) == Sum(LAMBDA i : rows[i].amount, Of({"food_cost_manual"}, P))

(* The bars of the revenue chart: one per day of the week up to the        *)
(* anchor, or four times seven days from the first of the thirty.          *)
WeeklyBars(a) ==
    [k \in 1..7 |-> HomeRevenue({a - 7 + k})]

Segment(a, k) == (a - 29 + 7 * (k - 1))..(a - 29 + 7 * k - 1)

MonthlyBars(a) == [k \in 1..4 |-> HomeRevenue(Segment(a, k))]

-----------------------------------------------------------------------------
(* Cash: from the snapshots on home when it is asked for some days, and    *)
(* from the records on the overview.                                       *)
AllDeposits(P) == Sum(LAMBDA x : x[2].amount, DepositRows(P))

HomeBank(P) ==
    LET days == Sum(LAMBDA d : BankDeposits({d}), P \cap Days)
    IN  IF days = 0 THEN AllDeposits(P) ELSE days

HomeAvailable(P) == Sum(LAMBDA d : Available({d}), P \cap Days)

RecordsOf(P, method) == {i \in Of({"manual_entry"}, P) : rows[i].method = method}

OverviewAvailable(P) ==
    Sum(LAMBDA i : rows[i].closing, RecordsOf(P, "method_1"))
      + Pos(Sum(LAMBDA i : CashFlow(rows[i]), RecordsOf(P, "method_2")))

(* A record has no total of bank deposits, so the rows are added up.       *)
OverviewBank(P) == AllDeposits(P)

(* get_cash_management.                                                   *)
OverviewCollected(P) == OverviewAvailable(P) + OverviewBank(P)

(* The movements of the record i the overview adds to the rows of the      *)
(* list: those no row stands for.                                          *)
DerivedMovements(i) ==
    {f \in PaidFields(rows[i].method) :
       rows[i].paid[f] > 0 /\ ~\E d \in DepositRowsOf(i) : d.subtype = f}

(* What leaves is listed below zero.                                       *)
Outflows == {"cash_withdrawal", "cash_out", "cash_expense"}
Listed(type, amount) == IF type \in Outflows THEN -amount ELSE amount

-----------------------------------------------------------------------------
(* Daily data: a bucket for each record and one for each day with anything *)
(* else, added up over the days P.                                         *)
DocumentSales(i) == IF rows[i].type \in {"cash", "revenue"} THEN rows[i].amount ELSE 0
DocumentExpense(i) == IF rows[i].type = "expense" THEN rows[i].amount ELSE 0

DetailRevenue(P) ==
    Sum(LAMBDA i : TotalRevenue(rows[i]), Of({"manual_entry"}, P))
      + Sum(DocumentSales, Of({"document"}, P))

DetailExpenses(P) ==
    Paid(P, "expenses_in_cash")
      + Sum(LAMBDA i : ExpenseRow(i).amount,
            {i \in ExpenseRows(P) : rows[i].kind \in ExpenseKinds})
      + Sum(DocumentExpense, Of({"document"}, P))

(* The sections of the detail.                                             *)
SectionSales(P) ==
    Paid(P, "pos_payments")
      + Sum(LAMBDA i : rows[i].paid["cash_payments"] + rows[i].paid["bank_transfer_payments"],
            RecordsOf(P, "method_2"))

SectionExpenses(P) ==
    Paid(P, "expenses_in_cash")
      + Sum(LAMBDA i : rows[i].amount, Of(ExpenseKinds, P))
      + Sum(DocumentExpense, Of({"document"}, P))

(* The list of a day: one item for each record.                            *)
ListedRevenue(P) == Sum(LAMBDA i : TotalRevenue(rows[i]), Of({"manual_entry"}, P))

-----------------------------------------------------------------------------
(* VAT: that of the lines of documents, when some carry any, else rates.   *)
LineVat(types) ==
    Sum(LAMBDA i : rows[i].vat, {i \in Of({"document"}, Dates) : rows[i].type \in types})

VatPayable ==
    IF LineVat({"revenue", "cash"}) > 0
    THEN LineVat({"revenue", "cash"})
    ELSE AnalyticsRevenue(Dates) * RevenueVat

VatReceivable ==
    IF LineVat({"expense"}) > 0 THEN LineVat({"expense"}) ELSE DaysExpenses(Dates) * ExpenseVat

VatOverview == VatPayable - VatReceivable

HomeVat(P) == HomeRevenue(P) * RevenueVat - DaysExpenses(P) * ExpenseVat

-----------------------------------------------------------------------------
(* Covers: those of the days, else those of the latest day with any.       *)
Covers(d) == Lunches({d}) + Dinners({d})
WithCovers == {d \in Days : Covers(d) > 0}

ShownCovers(P) ==
    IF Lunches(P) + Dinners(P) > 0 \/ WithCovers = {}
    THEN [lunch |-> Lunches(P), dinner |-> Dinners(P)]
    ELSE [lunch |-> Lunches({Max(WithCovers)}), dinner |-> Dinners({Max(WithCovers)})]

PeakHour(P) ==
    LET c == ShownCovers(P)
    IN  CASE c.lunch + c.dinner = 0 -> "N/A"
          [] c.dinner >= c.lunch -> "Dinner"
          [] OTHER -> "Lunch"
=============================================================================
