---------------------------- MODULE ScreensAgree ----------------------------
(***************************************************************************)
(* What the screens of Screens owe each other.                             *)
(***************************************************************************)
EXTENDS Screens

(* A row has the shape of its kind, whichever edits it went through.       *)
RowsOfForms == Forms \cup UNION {{EditedRow(f, g) : g \in EditForms(f)} : f \in Forms}

TypeOK == rows \in [Ids -> {NULL} \cup RowsOfForms]

(* Whatever was entered, edited and removed, the revenue of a snapshot is  *)
(* each sale once: the sales of the records, the documents of money        *)
(* received and the revenue entries, although a revenue entry is also a    *)
(* deposit and a transaction, and may have been retyped by an edit.        *)
Sale(i) ==
    CASE rows[i].kind = "manual_entry" -> TotalRevenue(rows[i])
      [] rows[i].kind = "revenue_entry" -> rows[i].amount
      [] rows[i].kind = "document" -> DocumentSales(i)
      [] OTHER -> 0

Periods == {{d} : d \in Dates} \cup {Week(d) : d \in Dates} \cup {Month(d) : d \in Dates}

Entered(P) == {i \in Ids : rows[i] # NULL /\ rows[i].date \in P}

RevenueOfSales == \A P \in Periods : Revenue(P) = Sum(Sale, Entered(P))

(* The figures of a week and of a month are those of their days; cash is   *)
(* cut off at zero day by day, so a period may only show less; and there   *)
(* is a peak hour if any day has covers.                                   *)
FiguresOfDays ==
    \A P \in Periods :
       /\ Revenue(P) = AnalyticsRevenue(P)
       /\ Profit(P) = DaysProfit(P)
       /\ BankDeposits(P) = Sum(LAMBDA d : BankDeposits({d}), P \cap Days)
       /\ Available(P) <= HomeAvailable(P)
       /\ Lunches(P) = Sum(LAMBDA d : Lunches({d}), P \cap Days)
       /\ WithCovers # {} => PeakHour(P) # "N/A"

(* The expense list, the cards of home and the snapshots tell one story:   *)
(* the list exceeds the expenses of the snapshots by the food costs entered*)
(* by hand and by nothing else, the two cards split the list, and the      *)
(* profit card is what is left of the sales.                               *)
ExpensesAgree ==
    \A P \in Periods :
       /\ ExpenseTotal(P) = DaysExpenses(P) + HandEnteredFoodCost(P)
       /\ FoodCost(P) + OtherExpense(P) = ExpenseTotal(P)
       /\ HandEnteredFoodCost(P) <= FoodCost(P)
       /\ DaysProfit(P) = AnalyticsRevenue(P) - (ExpenseTotal(P) - HandEnteredFoodCost(P))

(* The detail of some days, computed from the rows, shows the figures of   *)
(* their snapshots but for the revenue entries and the food costs entered  *)
(* by hand; its sections add up to its totals.                             *)
DetailMatchesSnapshot ==
    \A P \in Periods :
       /\ DetailRevenue(P) + RevenueEntries(P) = Revenue(P)
       /\ DetailExpenses(P) = ExpensesIn(P) + HandEnteredFoodCost(P)
       /\ SectionExpenses(P) = DetailExpenses(P)
       /\ Of({"document"}, P) \cup RecordsOf(P, "method_1") = {} => SectionSales(P) = DetailRevenue(P)
       /\ Of({"document"}, P) = {} => ListedRevenue(P) = DetailRevenue(P)

(* With no revenue entry, and sales on every day money reached the bank,   *)
(* home and the analytics show one revenue.                                *)
PlainDays(P) ==
    /\ Of({"revenue_entry"}, P) = {}
    /\ \A d \in P \cap Days : BankDeposits({d}) = 0 \/ Revenue({d}) > 0

HomeMatchesAnalytics ==
    \A period \in DOMAIN PeriodDays :
       LET P == Window(period, NULL, NULL, Anchor)
       IN  PlainDays(P)
           /\ (\A d \in P \cap Days : Revenue({d}) >= 0) => HomeRevenue(P) = AnalyticsRevenue(P)

(* The bars of the week are the revenue of the week.  Those of the month   *)
(* leave out its last two days.                                            *)
BarsAddUp ==
    /\ Sum(LAMBDA k : WeeklyBars(Anchor)[k], 1..7) = HomeRevenue(Window("weekly", NULL, NULL, Anchor))
    /\ Sum(LAMBDA k : MonthlyBars(Anchor)[k], 1..4) + HomeRevenue({Anchor - 1, Anchor})
         = HomeRevenue(Window("monthly", NULL, NULL, Anchor))

(* A movement of cash is listed once: a record's is never derived beside   *)
(* the row that stands for it, and what is listed of a record's cash is    *)
(* what its register kept.                                                 *)
MovementsListedOnce ==
    \A i \in Of({"manual_entry"}, Dates) :
       /\ DerivedMovements(i) = {}
       /\ rows[i].method = "method_2" =>
            Sum(LAMBDA d : Listed(d.type, d.amount),
                {d \in DepositRowsOf(i) : d.type \notin {"pos_payment", "bank_transfer_payment"}})
              = CashFlow(rows[i])

(* The percentage of a card compares the days the card adds up with those  *)
(* right before, when the reader names both ends or none: no sale is in    *)
(* both, and none in between is in neither.                                *)
ComparisonMatchesCard ==
    \A period \in DOMAIN PeriodDays, from \in Dates \cup {NULL}, to \in Dates \cup {NULL} :
       (from = NULL) = (to = NULL) /\ (from # NULL => from <= to) =>
          LET current == Current(period, from, to, Anchor)
              previous == Previous(period, from, to, Anchor)
          IN  /\ AnalyticsRevenue(current) = AnalyticsRevenue(Window(period, from, to, Anchor))
              /\ AnalyticsRevenue(previous) + AnalyticsRevenue(current)
                   = AnalyticsRevenue(Min(previous)..Max(current))

(* With no VAT on any line and every row within the period, the VAT screen *)
(* shows the balance of home when home shows the revenue of the analytics. *)
VatAgrees ==
    LineVat({"revenue", "cash", "expense"}) = 0 /\ HomeRevenue(Dates) = AnalyticsRevenue(Dates)
      => VatOverview = HomeVat(Dates)

(* Where only records were entered, none of which paid out more cash than  *)
(* it took, home and the overview agree on the cash that is available; and *)
(* where only deposits were, on the money that was collected.              *)
CashAgrees ==
    \A P \in Periods :
       /\ Entered(P) = Of({"manual_entry"}, P)
            /\ (\A i \in RecordsOf(P, "method_2") : CashFlow(rows[i]) >= 0)
            => HomeAvailable(P) = OverviewAvailable(P)
       /\ Entered(P) = Of({"deposit"}, P) => HomeAvailable(P) + HomeBank(P) = OverviewCollected(P)

(* A sale counts once, in the figures and in the list of movements.        *)
SalesCountOnce == RevenueOfSales /\ MovementsListedOnce

(* Weeks, months, the bars of home and the periods it compares add up to   *)
(* their days: no day counts twice, and only the two the bars leave out do *)
(* not count.                                                              *)
PeriodsAddUp == FiguresOfDays /\ BarsAddUp /\ ComparisonMatchesCard

(* Daily data and expenses, added up from the rows, and the snapshots of   *)
(* the days differ by what is named there, and by nothing else.            *)
RowsMatchSnapshots == ExpensesAgree /\ DetailMatchesSnapshot

(* Home shows the revenue, VAT and cash of the analytics, the VAT screen   *)
(* and the cash overview wherever only such rows were entered that each    *)
(* pair of them counts alike.                                              *)
HomeAgrees == HomeMatchesAnalytics /\ VatAgrees /\ CashAgrees

(* Home, analytics, daily data, expenses, VAT and cash overview, each with *)
(* code of its own, from rows or from snapshots, tell one story of what    *)
(* was entered, but for the rows that some of them count and some do not.  *)
ScreensMatch == RowsMatchSnapshots /\ HomeAgrees
=============================================================================
