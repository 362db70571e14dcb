------------------------------- MODULE Coupons -------------------------------
(***************************************************************************)
(* Coupons, what a user is quoted with one, and the checkout that hands    *)
(* the user over to Stripe.                                                *)
(***************************************************************************)
EXTENDS Plans

CONSTANTS
    UpperCase,      \* [codes as typed -> codes in upper case]
    CouponForms,    \* what create_coupon may be given
    CouponEdits,    \* what the updates may write: some of these fields, not the code
    OldCoupons      \* sequences of coupons that were not created by these requests

(* CouponCreateRequest and CouponUpdateRequest.                            *)
CouponFields == {"code", "percentage", "value", "usage_limit", "expires", "status"}
Valued(fields) ==
    /\ "percentage" \in DOMAIN fields => fields.percentage \in BOOLEAN
    /\ "value" \in DOMAIN fields => fields.value \in Nat
Issued(coupon) == CouponFields \subseteq DOMAIN coupon /\ Valued(coupon)
Editing(updates) == "code" \notin DOMAIN updates /\ Valued(updates)

ASSUME CouponsAssumption ==
    /\ \A form \in CouponForms : DOMAIN form = CouponFields /\ Issued(form)
    /\ \A updates \in CouponEdits : Editing(updates)
    /\ \A old \in OldCoupons :
          /\ old \in Seq(Range(old))
          /\ \A i \in DOMAIN old : Issued(old[i])
          /\ \A i, j \in DOMAIN old : old[i].code = old[j].code => i = j
ASSUME CustomerAssumption == NULL \notin Nat

VARIABLES
    coupons,    \* the coupons, in order of creation; NULL once deleted
    customer,   \* the Stripe customer of the user, NULL for none
    stripe      \* [customers, sessions]: how many customers were created, whose checkout sessions

couponVars == coupons
checkoutVars == <<customer, stripe>>

CouponsInit ==
    /\ coupons \in OldCoupons
    /\ customer = NULL
    /\ stripe = [customers |-> 0, sessions |-> {}]

Redeemable == {i \in DOMAIN coupons : coupons[i] # NULL}
WithCode(code) == {i \in Redeemable : coupons[i].code = code}

-----------------------------------------------------------------------------
(* The administrator's requests.  expires is "past", "future" or NULL.     *)

(* get_by_code: a code that is taken is a ConflictException.               *)
BeginCreateCoupon(r, form) ==
    /\ WithCode(UpperCase[form.code]) = {}
    /\ Begin(r, [pc |-> "insert_coupon", coupon |-> form])
    /\ UNCHANGED coupons

(* The date is stored as text: model_dump(mode="json").                    *)
NewCoupon(form) ==
    With(form, [code |-> UpperCase[form.code], usage_count |-> 0, dated |-> FALSE])

InsertCoupon(r) ==
    LET coupon == NewCoupon(req[r].coupon) IN
    /\ At(r, "insert_coupon")
    /\ coupons' = IF WithCode(coupon.code) = {} THEN Append(coupons, coupon) ELSE coupons
    /\ Done(r)

(* update_coupon, activate_coupon, pause_coupon.                           *)
BeginUpdateCoupon(r, i, updates) ==
    /\ Begin(r, [pc |-> "write_coupon", coupon |-> i,
                 updates |-> IF "expires" \in DOMAIN updates THEN With(updates, [dated |-> FALSE]) ELSE updates])
    /\ UNCHANGED coupons

WriteCoupon(r) ==
    LET i == req[r].coupon IN
    /\ At(r, "write_coupon")
    /\ coupons' = IF coupons[i] = NULL THEN coupons ELSE [coupons EXCEPT ![i] = With(@, req[r].updates)]
    /\ Done(r)

BeginDeleteCoupon(r, i) ==
    /\ Begin(r, [pc |-> "delete_coupon", coupon |-> i])
    /\ UNCHANGED coupons

DeleteCoupon(r) ==
    /\ At(r, "delete_coupon")
    /\ coupons' = [coupons EXCEPT ![req[r].coupon] = NULL]
    /\ Done(r)

(* get_plan_management.                                                    *)
BeginManagement(r) ==
    /\ Begin(r, [pc |-> "mark_expired", then |-> "answer"])
    /\ UNCHANGED coupons

(* _get_selected_visible_plan: the best plan, or the oldest.  Active plans *)
(* are visible here.                                                       *)
SelectedPlan ==
    LET best == Active \cap Flagged
        from == IF best = {} THEN Active ELSE best IN
    CHOOSE i \in from : \A j \in from : i <= j

(* preview_user_discount.                                                  *)
BeginPreview(r, code) ==
    /\ Active # {}
    /\ Begin(r, [pc |-> "mark_expired", then |-> "read_coupon", code |-> code, price |-> plans[SelectedPlan].price])
    /\ UNCHANGED coupons

(* mark_expired_coupons: a date is not compared with a text.               *)
MarkExpired(r) ==
    /\ At(r, "mark_expired")
    /\ coupons' = [i \in DOMAIN coupons |->
                     IF i \in Redeemable /\ coupons[i].dated /\ coupons[i].expires = "past"
                     THEN [coupons[i] EXCEPT !.status = "expired"] ELSE coupons[i]]
    /\ IF req[r].then = "answer" THEN Done(r) ELSE Goto(r, req[r].then)

Discount(coupon, price) ==
    IF coupon.percentage THEN (price * coupon.value) \div 100
    ELSE IF coupon.value < price THEN coupon.value ELSE price

(* _resolve_coupon_pricing, after the mark.  The price is the one there    *)
(* was when the request arrived; a percentage may be above a hundred.      *)
Quote(coupon, price) ==
    LET discount == Discount(coupon, price) IN
    [original |-> price, final |-> IF discount < price THEN price - discount ELSE 0]

ReadCoupon(r) ==
    LET found == WithCode(UpperCase[req[r].code])
        good  == {i \in found : coupons[i].status = "active" /\ coupons[i].usage_count < coupons[i].usage_limit} IN
    /\ At(r, "read_coupon")
    /\ IF good = {} THEN Raised(r)
       ELSE \E i \in good : Keep(r, [pc |-> "quote", from |-> i, quote |-> Quote(coupons[i], req[r].price)])
    /\ UNCHANGED coupons

SendQuote(r) ==
    /\ At(r, "quote")
    /\ Done(r)
    /\ UNCHANGED coupons

CouponsArrive(r) ==
    \/ \E form \in CouponForms : BeginCreateCoupon(r, form)
    \/ \E i \in Redeemable : BeginDeleteCoupon(r, i) \/ \E updates \in CouponEdits : BeginUpdateCoupon(r, i, updates)
    \/ BeginManagement(r)
    \/ \E code \in DOMAIN UpperCase : BeginPreview(r, code)

CouponsStep(r) ==
    \/ InsertCoupon(r) \/ WriteCoupon(r) \/ DeleteCoupon(r)
    \/ MarkExpired(r) \/ ReadCoupon(r) \/ SendQuote(r)

-----------------------------------------------------------------------------
(* create_checkout_session: a user without a Stripe customer gets one.     *)

BeginCheckout(r) ==
    /\ Begin(r, [pc |-> IF customer = NULL THEN "create_customer" ELSE "create_session", for |-> customer])
    /\ UNCHANGED checkoutVars

CreateCustomer(r) ==
    /\ At(r, "create_customer")
    /\ stripe' = [stripe EXCEPT !.customers = @ + 1]
    /\ Keep(r, [pc |-> "write_customer", for |-> stripe'.customers])
    /\ UNCHANGED customer

(* Mutant: the customer is not stored.                                     *)
WriteNoCustomer(r) ==
    /\ At(r, "write_customer")
    /\ Goto(r, "create_session")
    /\ UNCHANGED checkoutVars

WriteCustomer(r) ==
    /\ At(r, "write_customer")
    /\ customer' = req[r].for
    /\ Goto(r, "create_session")
    /\ UNCHANGED stripe

CreateSession(r) ==
    /\ At(r, "create_session")
    /\ stripe' = [stripe EXCEPT !.sessions = @ \cup {req[r].for}]
    /\ Done(r)
    /\ UNCHANGED customer

CheckoutStep(r) == CreateCustomer(r) \/ WriteCustomer(r) \/ CreateSession(r)
=============================================================================
