-------------------------------- MODULE Plans --------------------------------
(***************************************************************************)
(* The subscription plans administrators keep, and what they earn.  A plan *)
(* is the default one, which every start of a worker sets back to the      *)
(* settings, or one created later.                                         *)
(***************************************************************************)
EXTENDS TenantRequests

CONSTANTS
    LowerCase,      \* [names of plans -> the same in lower case]
    DefaultPlan,    \* the plan of the settings
    PlanForms,      \* what create_plan may be given: [name, price, active, best]
    PlanEdits       \* what update_plan may be given: some of these fields

ASSUME FormsAssumption ==
    /\ \A form \in PlanForms \cup {DefaultPlan} :
          {"name", "price", "active", "best"} \subseteq DOMAIN form /\ form.best \in BOOLEAN
    /\ \A updates \in PlanEdits : "best" \in DOMAIN updates => updates.best \in BOOLEAN

(* The key of the default plan is nobody's to give or take.                *)
ASSUME PlanKeysAssumption ==
    \A form \in PlanEdits \cup {DefaultPlan} : "singleton_key" \notin DOMAIN form

ASSUME PricesAssumption ==
    /\ \A form \in PlanForms \cup {DefaultPlan} : "price" \in DOMAIN form /\ form.price \in Nat
    /\ \A updates \in PlanEdits : "price" \in DOMAIN updates => updates.price \in Nat

VARIABLE plans      \* subscription_plan, in order of creation

PlansInit == plans = <<With(DefaultPlan, [singleton_key |-> "default_plan"])>>

Flagged == {i \in DOMAIN plans : plans[i].best}
NameFree(name, except) ==
    \A i \in DOMAIN plans \ except : LowerCase[plans[i].name] # LowerCase[name]

-----------------------------------------------------------------------------
(* create_plan, update_plan.                                               *)

AfterCheck(best, next) == IF best THEN "read_best" ELSE next

(* A name that is taken is a ConflictException.                            *)
BeginCreatePlan(r, form) ==
    /\ NameFree(form.name, {})
    /\ Begin(r, [pc |-> AfterCheck(form.best, "insert_plan"), plan |-> 0, form |-> form, next |-> "insert_plan"])
    /\ UNCHANGED plans

BeginUpdatePlan(r, i, updates) ==
    /\ "name" \in DOMAIN updates => NameFree(updates.name, {i})
    /\ Begin(r, [pc |-> AfterCheck("best" \in DOMAIN updates /\ updates.best, "write_plan"),
                 plan |-> i, form |-> updates, next |-> "write_plan"])
    /\ UNCHANGED plans

(* Mutant: the plans are not cleared of the flag.                          *)
ReadNoBest(r) ==
    /\ At(r, "read_best")
    /\ Goto(r, req[r].next)
    /\ UNCHANGED plans

(* _clear_best_plan_flag: get_plans, then one update for each flagged plan.*)
ReadBest(r) ==
    LET others == Flagged \ {req[r].plan} IN
    /\ At(r, "read_best")
    /\ IF others = {}
       THEN Goto(r, req[r].next)
       ELSE Keep(r, With(req[r], [todo |-> others, pc |-> "clear_plan"]))
    /\ UNCHANGED plans

(* In order of creation.                                                   *)
ClearPlan(r) ==
    LET next == Min(req[r].todo)
        rest == req[r].todo \ {next} IN
    /\ At(r, "clear_plan")
    /\ plans' = [plans EXCEPT ![next].best = FALSE]
    /\ Keep(r, [req[r] EXCEPT !.todo = rest, !.pc = IF rest = {} THEN req[r].next ELSE "clear_plan"])

(* The index on singleton_key is unique and not sparse, so that one plan   *)
(* may go without a key: a second is a duplicate key, an error.            *)
InsertPlan(r) ==
    LET taken == \E i \in DOMAIN plans : plans[i].singleton_key = NULL IN
    /\ At(r, "insert_plan")
    /\ plans' = IF taken THEN plans ELSE Append(plans, With(req[r].form, [singleton_key |-> NULL]))
    /\ Done(r)

WritePlan(r) ==
    /\ At(r, "write_plan")
    /\ plans' = [plans EXCEPT ![req[r].plan] = With(@, req[r].form)]
    /\ Done(r)

(* A worker starts: ensure_default_subscription_plan finds the oldest plan *)
BeginStart(r) ==
    /\ Begin(r, [pc |-> "write_default"])
    /\ UNCHANGED plans

(* and gives it the name, price and flags of the settings.                 *)
WriteDefault(r) ==
    /\ At(r, "write_default")
    /\ plans' = [plans EXCEPT ![1] = With(@, DefaultPlan)]
    /\ Done(r)

PlansArrive(r) ==
    \/ \E form \in PlanForms : BeginCreatePlan(r, form)
    \/ \E i \in DOMAIN plans, updates \in PlanEdits : BeginUpdatePlan(r, i, updates)
    \/ BeginStart(r)

PlansStep(r) ==
    ReadBest(r) \/ ClearPlan(r) \/ InsertPlan(r) \/ WritePlan(r) \/ WriteDefault(r)

-----------------------------------------------------------------------------
(* What a subscriber brings in.  Users keep the name of their plan.        *)

Active == {i \in DOMAIN plans : plans[i].active}

(* Of the plans with one name, the last of get_active_plans, which come    *)
(* with the best first and then in order of creation.                      *)
LastNamed(name) ==
    LET named == {i \in Active : plans[i].name = name}
        last  == IF named \subseteq Flagged THEN named ELSE named \ Flagged IN
    CHOOSE i \in last : \A j \in last : j <= i

(* _get_plan_map: the price under each name.                               *)
PlanMap ==
    IF Active = {} THEN [n \in {DefaultPlan.name} |-> DefaultPlan.price]
    ELSE [n \in {plans[i].name : i \in Active} |-> plans[LastNamed(n)].price]

(* The price of the subscriber's plan, or of the only one.                 *)
PriceOf(name, unknown) ==
    CASE name \in DOMAIN PlanMap -> PlanMap[name]
      [] name \notin DOMAIN PlanMap /\ Cardinality(DOMAIN PlanMap) = 1 ->
            PlanMap[CHOOSE n \in DOMAIN PlanMap : TRUE]
      [] OTHER -> unknown

(* The overview of subscriptions counts nothing for an unknown plan, the   *)
(* dashboard thirty a month.                                               *)
OverviewRevenue(name) == PriceOf(name, 0)
DashboardRevenue(name) == PriceOf(name, 30)
=============================================================================
