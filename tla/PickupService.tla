---------------------------- MODULE PickupService ----------------------------
(***************************************************************************)
(* internal/service/pickup.go behind internal/handler/pickup.go: create,   *)
(* schedule, complete and cancel a waste pickup, one action per SQL        *)
(* statement (Complete's transaction is one action: until it commits no    *)
(* other session sees any of it).                                          *)
(***************************************************************************)
EXTENDS ApiRequests

CreatePickupCall ==
    [at : {"createPickup.check", "createPickup.insert"},
     household : HouseholdId, type : Types, safety : BOOLEAN]

ScheduleCall == [at : {"schedule.update"}, pickup : PickupId, date : PickupDate]

CompleteCall == [at : {"complete.tx"}, pickup : PickupId, payment : PaymentRow]

CancelCall == [at : {"cancel.find"}, pickup : PickupId, canceled : BOOLEAN]

PickupCall == CreatePickupCall \cup ScheduleCall \cup CompleteCall \cup CancelCall

(***************************************************************************)
(* POST /api/pickups                                                       *)
(***************************************************************************)
\* The validator's db_exists_household query.
CreatePickupValidate(r, h, type, safety) ==
    /\ req[r] = Idle
    /\ IF h \in households
       THEN Proceed(r, [at |-> "createPickup.check", household |-> h,
                        type |-> type, safety |-> safety])
       ELSE Refuse(r, "validation")
    /\ UNCHANGED db

CreatePickupUnchecked(r) ==                         \* mutant: gate ignored
    /\ req[r].at = "createPickup.check"
    /\ Proceed(r, [req[r] EXCEPT !.at = "createPickup.insert"])
    /\ UNCHANGED db

\* BR-01: a household with a pending payment gets no new pickup.
CreatePickupCheck(r) ==
    /\ req[r].at = "createPickup.check"
    /\ IF HasPendingPaymentForHousehold(req[r].household)
       THEN Refuse(r, "conflict")
       ELSE Proceed(r, [req[r] EXCEPT !.at = "createPickup.insert"])
    /\ UNCHANGED db

CreatePickupInsert(r) ==
    /\ req[r].at = "createPickup.insert"
    /\ LET call == req[r] IN
       IF PickupInsertError(call.household) = "none"
       THEN /\ \E p \in PickupId :
                  InsertPickup(p, call.household, call.type, call.safety)
            /\ Committed(r, {})
            /\ UNCHANGED <<households, payments>>
       ELSE /\ Refuse(r, PickupInsertError(call.household))
            /\ UNCHANGED db

(***************************************************************************)
(* PUT /api/pickups/:id/schedule                                           *)
(***************************************************************************)
ScheduleErrorWithoutSafety(row, future) ==          \* mutant: BR-03 dropped
    IF row = NoRow THEN "notFound"
    ELSE IF row.status # "pending" THEN "conflict"
    ELSE IF ~future THEN "validation"
    ELSE "none"

\* The checks Schedule makes on the row it found, in the code's order.
ScheduleError(row, future) ==
    IF row = NoRow THEN "notFound"
    ELSE IF row.status # "pending" THEN "conflict"
    ELSE IF ~SafeToCollect(row.type, row.safety) THEN "businessRule"
    ELSE IF ~future THEN "validation"
    ELSE "none"

\* FindByID and the checks on what it returned.
ScheduleFind(r, p, date, future) ==
    /\ req[r] = Idle
    /\ LET error == ScheduleError(pickups[p], future) IN
       IF error = "none"
       THEN Proceed(r, [at |-> "schedule.update", pickup |-> p, date |-> date])
       ELSE Refuse(r, error)
    /\ UNCHANGED db

ScheduleUpdate(r) ==
    /\ req[r].at = "schedule.update"
    /\ LET p == req[r].pickup
           d == req[r].date
       IN IF ScheduleMatches(p)
          THEN /\ pickups' = Scheduled(p, d)
               /\ Committed(r, {[op |-> "schedule", pickup |-> p, date |-> d]})
               /\ UNCHANGED <<households, payments, issued>>
          ELSE /\ Refuse(r, "conflict")
               /\ UNCHANGED db

(***************************************************************************)
(* PUT /api/pickups/:id/complete                                           *)
(***************************************************************************)
\* FindByID, the status check, and the payment built from what was found.
CompleteFind(r, p) ==
    /\ req[r] = Idle
    /\ LET row == pickups[p] IN
       IF row = NoRow THEN Refuse(r, "notFound")
       ELSE IF row.status # "scheduled" THEN Refuse(r, "conflict")
       ELSE Proceed(r, [at |-> "complete.tx", pickup |-> p,
                        payment |-> NewPayment(row.household, p, row.type)])
    /\ UNCHANGED db

CompleteWithoutTx(r) ==                             \* mutant: no rollback
    /\ req[r].at = "complete.tx"
    /\ CompleteMatches(req[r].pickup)
    /\ pickups' = WithStatus({req[r].pickup}, "completed")
    /\ \/ /\ \E q \in PaymentId : InsertPayment(q, req[r].payment)
          /\ Committed(r, {[op |-> "complete", pickup |-> req[r].pickup]})
       \/ Refuse(r, "internal") /\ UNCHANGED <<payments, issued>>
    /\ UNCHANGED households

\* BR-05: BEGIN, UpdateStatus, CreateWithTx, COMMIT.  An error of either
\* statement rolls both back.
CompleteTx(r) ==
    /\ req[r].at = "complete.tx"
    /\ LET p     == req[r].pickup
           error == IF CompleteMatches(p) THEN PaymentInsertError(req[r].payment)
                    ELSE "conflict"
       IN IF error = "none"
          THEN /\ pickups' = WithStatus({p}, "completed")
               /\ \E q \in PaymentId : InsertPayment(q, req[r].payment)
               /\ Committed(r, {[op |-> "complete", pickup |-> p]})
               /\ UNCHANGED households
          ELSE /\ Refuse(r, error)
               /\ UNCHANGED db

(***************************************************************************)
(* PUT /api/pickups/:id/cancel                                             *)
(***************************************************************************)
\* The conditional UPDATE comes first; the request goes on to read the row
\* back unless the UPDATE itself reported an error.
CancelUpdate(r, p) ==
    /\ req[r] = Idle
    /\ pickups' = IF CancelMatches(p) THEN WithStatus({p}, "canceled") ELSE pickups
    /\ \/ Proceed(r, [at |-> "cancel.find", pickup |-> p,
                      canceled |-> CancelMatches(p)])
       \/ "lostReply" \in Faults /\ Refuse(r, "internal")
    /\ UNCHANGED <<households, payments, issued>>

CancelFind(r) ==
    /\ req[r].at = "cancel.find"
    /\ IF ~PickupExists(req[r].pickup) THEN Refuse(r, "notFound")
       ELSE IF req[r].canceled
            THEN Respond(r, {[op |-> "cancel", pickup |-> req[r].pickup]})
            ELSE Refuse(r, "conflict")
    /\ UNCHANGED db

PickupStatementFails(r) ==
    DbFails(r, {"createPickup.check", "createPickup.insert", "schedule.update",
                "complete.tx", "cancel.find"})

PickupServiceStep(r) ==
    \/ \E h \in HouseholdId, type \in Types, safety \in BOOLEAN :
          CreatePickupValidate(r, h, type, safety)
    \/ CreatePickupCheck(r)
    \/ CreatePickupInsert(r)
    \/ \E p \in PickupId, d \in PickupDate, future \in BOOLEAN :
          ScheduleFind(r, p, d, future)
    \/ ScheduleUpdate(r)
    \/ \E p \in PickupId : CompleteFind(r, p)
    \/ CompleteTx(r)
    \/ \E p \in PickupId : CancelUpdate(r, p)
    \/ CancelFind(r)
    \/ PickupStatementFails(r)

=============================================================================
