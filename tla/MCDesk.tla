------------------------------- MODULE MCDesk -------------------------------
EXTENDS OfficeProps

MCNormal == [t \in Typed |-> IF t \in {"Bank", "bank "} THEN "bank" ELSE "other"]
MCDeposited == <<"Bank", "bank ", "other">>

Form(stock, supplier) ==
    [stock_quantity |-> stock, alert_threshold |-> 1, category |-> "Bank", supplier_name |-> supplier]
MCForms == {Form(2, NULL), Form(1, "other")}
MCEdits == {[stock_quantity |-> 2], [alert_threshold |-> 2], [category |-> "bank ", supplier_name |-> "other"]}

MCOldDevices == <<[device_id |-> "phone", token |-> "token"]>>

MCLanguages == <<"alerts_en", "alerts_it">>
MCTexts == {<<"down">>, <<"down", "volatile">>}

(* A message and its reply, from before replies had translations, and a    *)
(* message whose request did not end.                                      *)
MCOldMessage(role, m, translated) == [role |-> role, reply_to |-> m, version |-> 0, translated |-> translated]
MCOldMessages ==
    {<<>>, <<MCOldMessage("user", 0, TRUE), MCOldMessage("assistant", 1, FALSE)>>,
     <<MCOldMessage("user", 0, TRUE)>>}

MCLowerCase == [n \in {"Core", "core", "Pro"} |-> IF n = "Pro" THEN "pro" ELSE "core"]
MCDefaultPlan == [name |-> "Core", price |-> 2, active |-> TRUE, best |-> FALSE]
MCPlanForms == {[name |-> n, price |-> 3, active |-> TRUE, best |-> b] : n \in {"core", "Pro"}, b \in BOOLEAN}
MCPlanEdits ==
    {[name |-> n] : n \in {"Core", "core", "Pro"}} \cup {[best |-> b] : b \in BOOLEAN} \cup {[active |-> FALSE]}

MCUpperCase == [c \in {"spring", "SPRING"} |-> "SPRING"]
Coupon(code, percentage, value, expires) ==
    [code |-> code, percentage |-> percentage, value |-> value, usage_limit |-> 1, expires |-> expires,
     status |-> "active"]
MCCouponForms ==
    {Coupon("spring", TRUE, 150, NULL), Coupon("SPRING", FALSE, 1, "past"), Coupon("SPRING", FALSE, 3, "future")}
MCCouponEdits ==
    {[status |-> "active"], [status |-> "paused"], [usage_count |-> 1], [expires |-> "past"], [value |-> 2]}

(* As the tests store them: with a date.                                   *)
MCOldCoupons ==
    {<<>>, <<[usage_count |-> 0, dated |-> TRUE] @@ Coupon("SPRING", FALSE, 1, "past")>>}

MCOldSettings ==
    {<<>>, <<[general |-> "default", legal |-> [k \in LegalDocuments |-> IF k = "privacy_policy" THEN "own" ELSE "legacy"]]>>}

Topic(kinds, requests) == [kinds |-> kinds, requests |-> requests]
MCTopics ==
    {Topic({"names"}, 3), Topic({"stock"}, 3), Topic({"devices"}, 3), Topic({"stock", "devices"}, 2),
     Topic({"alerts", "devices"}, 2), Topic({"chat"}, 2), Topic({"insights"}, 3),
     Topic({"plans"}, 3), Topic({"coupons"}, 2), Topic({"checkout"}, 3), Topic({"settings"}, 3), Topic({"tickets"}, 4)}
MCChat == {Topic({"chat"}, 2)}
MCCoupons == {Topic({"coupons"}, 2)}
=============================================================================
