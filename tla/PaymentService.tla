--------------------------- MODULE PaymentService ----------------------------
(***************************************************************************)
(* internal/service/payment.go behind internal/handler/payment.go, with    *)
(* the object store of internal/storage it uploads proofs to: create a     *)
(* payment, and confirm one with a proof file.                             *)
(***************************************************************************)
EXTENDS ApiRequests

VARIABLE objects    \* keys of the objects the S3 bucket holds

CreatePaymentCall ==
    [at : {"createPayment.find"}, household : HouseholdId, pickup : PickupId]
    \cup [at : {"createPayment.insert"}, payment : PaymentRow]

ConfirmCall ==
    [at : {"confirm.upload"}, payment : PaymentId]
    \cup [at : {"confirm.update"}, payment : PaymentId, key : ProofKey]
    \cup [at : {"confirm.cleanup"}, key : ProofKey, error : {"conflict", "internal"}]

PaymentCall == CreatePaymentCall \cup ConfirmCall

(***************************************************************************)
(* POST /api/payments                                                      *)
(***************************************************************************)
\* The validator's db_exists_household and db_exists_pickup queries.
CreatePaymentValidate(r, h, p) ==
    /\ req[r] = Idle
    /\ IF h \in households /\ PickupExists(p)
       THEN Proceed(r, [at |-> "createPayment.find", household |-> h, pickup |-> p])
       ELSE Refuse(r, "validation")
    /\ UNCHANGED <<db, objects>>

CreatePaymentForAnybody(r) ==                       \* mutant: household not compared
    /\ req[r].at = "createPayment.find"
    /\ LET row == pickups[req[r].pickup] IN
       IF row = NoRow THEN Refuse(r, "notFound")
       ELSE Proceed(r, [at |-> "createPayment.insert", payment |->
                        NewPayment(req[r].household, req[r].pickup, row.type)])
    /\ UNCHANGED <<db, objects>>

\* The pickup must belong to the household; its type decides the amount.
CreatePaymentFind(r) ==
    /\ req[r].at = "createPayment.find"
    /\ LET h   == req[r].household
           row == pickups[req[r].pickup]
       IN IF row = NoRow THEN Refuse(r, "notFound")
          ELSE IF row.household # h THEN Refuse(r, "businessRule")
          ELSE Proceed(r, [at |-> "createPayment.insert",
                           payment |-> NewPayment(h, req[r].pickup, row.type)])
    /\ UNCHANGED <<db, objects>>

CreatePaymentInsert(r) ==
    /\ req[r].at = "createPayment.insert"
    /\ LET row == req[r].payment IN
       IF PaymentInsertError(row) = "none"
       THEN /\ \E q \in PaymentId : InsertPayment(q, row)
            /\ Committed(r, {})
            /\ UNCHANGED <<households, pickups, objects>>
       ELSE /\ Refuse(r, PaymentInsertError(row))
            /\ UNCHANGED <<db, objects>>

PaymentStatementFails(r) ==
    /\ DbFails(r, {"createPayment.find", "createPayment.insert"})
    /\ UNCHANGED objects

(***************************************************************************)
(* PUT /api/payments/:id/confirm                                           *)
(***************************************************************************)
\* BR-06: a proof is required; then FindByID and the status check.
ConfirmFind(r, q, hasProof) ==
    /\ req[r] = Idle
    /\ IF ~hasProof THEN Refuse(r, "validation")
       ELSE IF ~PaymentExists(q) THEN Refuse(r, "notFound")
       ELSE IF payments[q].status # "pending" THEN Refuse(r, "conflict")
       ELSE Proceed(r, [at |-> "confirm.upload", payment |-> q])
    /\ UNCHANGED <<db, objects>>

ConfirmUploadFixedKey(r) ==                         \* mutant: one key per payment
    /\ req[r].at = "confirm.upload"
    /\ \E u \in ProofId :
          LET key == <<req[r].payment, u>> IN
          /\ objects' = objects \cup {key}
          /\ Proceed(r, [at |-> "confirm.update", payment |-> req[r].payment, key |-> key])
    /\ UNCHANGED db

\* Upload under a key no other attempt uses.
ConfirmUpload(r) ==
    /\ req[r].at = "confirm.upload"
    /\ \E u \in ProofId \ issued :
          LET key == <<req[r].payment, u>> IN
          /\ issued' = issued \cup {u}
          /\ \/ /\ objects' = objects \cup {key}
                /\ Proceed(r, [at |-> "confirm.update",
                               payment |-> req[r].payment, key |-> key])
             \/ /\ "s3Error" \in Faults
                /\ Refuse(r, "internal")
                /\ UNCHANGED objects
             \/ /\ "lostReply" \in Faults
                /\ Refuse(r, "internal")
                /\ objects' = objects \cup {key}
    /\ UNCHANGED tables

\* The conditional UPDATE; any error of it, also one reported for a statement
\* that did commit, leads to the cleanup.
ConfirmUpdate(r) ==
    /\ req[r].at = "confirm.update"
    /\ LET q       == req[r].payment
           key     == req[r].key
           CleanUp(error) == Proceed(r, [at |-> "confirm.cleanup", key |-> key,
                                         error |-> error])
       IN \/ /\ ConfirmMatches(q)
             /\ payments' = Paid(q, key)
             /\ \/ Respond(r, {[op |-> "confirm", payment |-> q, proof |-> key]})
                \/ "lostReply" \in Faults /\ CleanUp("internal")
          \/ /\ ~ConfirmMatches(q)
             /\ CleanUp("conflict")
             /\ UNCHANGED payments
          \/ /\ "dbError" \in Faults
             /\ CleanUp("internal")
             /\ UNCHANGED payments
    /\ UNCHANGED <<households, pickups, issued, objects>>

ConfirmWithoutCleanUp(r) ==                         \* mutant: object left behind
    /\ req[r].at = "confirm.cleanup"
    /\ Refuse(r, req[r].error)
    /\ UNCHANGED <<db, objects>>

ConfirmCleanUpByPrefix(r) ==                        \* mutant: deletes every proof
    /\ req[r].at = "confirm.cleanup"
    /\ objects' = {key \in objects : key[1] # req[r].key[1]}
    /\ Refuse(r, req[r].error)
    /\ UNCHANGED db

\* Best-effort removal of the uploaded object: its failure is only logged.
ConfirmCleanUp(r) ==
    /\ req[r].at = "confirm.cleanup"
    /\ \/ objects' = objects \ {req[r].key}
       \/ "s3Error" \in Faults /\ UNCHANGED objects
    /\ Refuse(r, req[r].error)
    /\ UNCHANGED db

PaymentServiceStep(r) ==
    \/ \E h \in HouseholdId, p \in PickupId : CreatePaymentValidate(r, h, p)
    \/ CreatePaymentFind(r)
    \/ CreatePaymentInsert(r)
    \/ PaymentStatementFails(r)
    \/ \E q \in PaymentId, hasProof \in BOOLEAN : ConfirmFind(r, q, hasProof)
    \/ ConfirmUpload(r)
    \/ ConfirmUpdate(r)
    \/ ConfirmCleanUp(r)

=============================================================================
