---------------------------- MODULE UploadLedger ----------------------------
(***************************************************************************)
(* What the gateway promises about the documents of a user: an upload      *)
(* takes a slot before the backend hears of it, the slot is filled with a  *)
(* document or given back, and no user ever has more slots than Limit.     *)
(***************************************************************************)
EXTENDS Naturals, FiniteSets

CONSTANTS Users, Uploads, Limit

VARIABLE slots    \* upload -> the user whose slot it has, and its state

Slot == [user : Users, state : {"none", "held", "filled"}]

Used(user) ==
    {u \in Uploads : slots[u].user = user /\ slots[u].state # "none"}

Init == slots \in [Uploads -> {slot \in Slot : slot.state = "none"}]

Take(u) ==
    /\ slots[u].state = "none"
    /\ Cardinality(Used(slots[u].user)) < Limit
    /\ slots' = [slots EXCEPT ![u].state = "held"]

Fill(u) ==
    /\ slots[u].state = "held"
    /\ slots' = [slots EXCEPT ![u].state = "filled"]

GiveBack(u) ==
    /\ slots[u].state = "held"
    /\ slots' = [slots EXCEPT ![u].state = "none"]

Next == \E u \in Uploads : Take(u) \/ Fill(u) \/ GiveBack(u)

Spec == Init /\ [][Next]_slots

=============================================================================
