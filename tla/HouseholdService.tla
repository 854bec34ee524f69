-------------------------- MODULE HouseholdService ---------------------------
(***************************************************************************)
(* internal/service/household.go: both operations that write are a single  *)
(* SQL statement, so a request here is one action and needs no slot.       *)
(***************************************************************************)
EXTENDS Database

CreateHousehold(h) ==
    /\ h \in HouseholdId \ issued
    /\ households' = households \cup {h}
    /\ issued' = issued \cup {h}
    /\ UNCHANGED <<pickups, payments>>

\* DELETE FROM households WHERE id = h; no row is ErrNotFound.
DeleteHousehold(h) ==
    /\ h \in households
    /\ households' = households \ {h}
    /\ pickups' = PickupsWithout(h)
    /\ payments' = PaymentsWithout(h)
    /\ UNCHANGED issued

HouseholdServiceStep ==
    \E h \in HouseholdId : CreateHousehold(h) \/ DeleteHousehold(h)

=============================================================================
