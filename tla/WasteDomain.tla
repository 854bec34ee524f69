----------------------------- MODULE WasteDomain -----------------------------
(***************************************************************************)
(* The vocabulary of internal/domain: waste types, the statuses of a       *)
(* pickup and of a payment, the price list, and the sentinel errors that   *)
(* services return and handlers turn into HTTP replies.  No state here.    *)
(***************************************************************************)
EXTENDS Integers

WasteType == {"organic", "plastic", "paper", "electronic"}

PickupStatus == {"pending", "scheduled", "completed", "canceled"}

PaymentStatus == {"pending", "paid", "failed"}

\* The price list, in whole currency units.
PaymentAmounts ==
    [t \in WasteType |-> IF t = "electronic" THEN 100000 ELSE 50000]

\* The sentinel errors of errors.go, named for the HTTP reply they become.
Error == {"notFound", "conflict", "businessRule", "validation", "internal"}

\* The statuses the two cancellation statements accept.
Cancellable == {"pending", "scheduled"}

\* BR-03: what Schedule demands of a pickup besides its status.
SafeToCollect(type, safety) == type = "electronic" => safety

=============================================================================
