----------------------------- MODULE SupplyLedger -----------------------------
(***************************************************************************)
(* What the server promises of the supplies of its orders, as a ledger: an *)
(* approval (by an approval thread of the server, or by the order's hub in *)
(* a delivery update) gives an order one supply round; an incident (a      *)
(* failed statement, a crash) may cost one round more, for any order, and  *)
(* nothing else starts a round.  OrderLifecycle implements it.             *)
(***************************************************************************)
EXTENDS Naturals

CONSTANT Orders

VARIABLES
    approved,   \* approvals of each order
    supplied,   \* supply rounds of each order
    incidents   \* failed statements and crashes so far

ledger == <<approved, supplied, incidents>>

Init ==
    /\ approved = [o \in Orders |-> 0]
    /\ supplied = [o \in Orders |-> 0]
    /\ incidents = 0

Approve(o) ==
    /\ approved' = [approved EXCEPT ![o] = @ + 1]
    /\ UNCHANGED <<supplied, incidents>>

\* A round may itself meet a failed statement.
Supply(o) ==
    /\ supplied[o] < approved[o] + incidents
    /\ supplied' = [supplied EXCEPT ![o] = @ + 1]
    /\ incidents' \in {incidents, incidents + 1}
    /\ UNCHANGED approved

Incident ==
    /\ incidents' = incidents + 1
    /\ UNCHANGED <<approved, supplied>>

Next ==
    \/ \E o \in Orders : Approve(o) \/ Supply(o)
    \/ Incident

Spec == Init /\ [][Next]_ledger
=============================================================================
