--------------------------- MODULE CutoverContract ---------------------------
(***************************************************************************)
(* What the controlled cutover of a legal entity promises: the control goes *)
(* forward one status at a time, the route changes with its last step and   *)
(* never otherwise, the evidence of the approval stays the evidence, and no *)
(* financial operation is open from the approval to the new route.          *)
(***************************************************************************)
CONSTANTS Evidence, None

VARIABLES
    status,     \* of the cutover control, None before the legal entity is configured
    route,      \* the financial engine that posts
    evidence,   \* the artifact the approval rests on
    open        \* whether some financial operation is unresolved

contractVars == <<status, route, evidence, open>>

ContractInit ==
    /\ status = None /\ route = None /\ evidence = None
    /\ open = FALSE

Configure ==
    /\ status = None
    /\ status' = "postgresql" /\ route' = "postgresql"
    /\ UNCHANGED <<evidence, open>>

Prepare ==
    /\ status = "postgresql"
    /\ status' = "preparing_tigerbeetle"
    /\ UNCHANGED <<route, evidence, open>>

Approve ==
    /\ status = "preparing_tigerbeetle"
    /\ ~ open
    /\ status' = "approved"
    /\ evidence' \in Evidence
    /\ UNCHANGED <<route, open>>

Activate ==
    /\ status = "approved"
    /\ status' = "activating"
    /\ UNCHANGED <<route, evidence, open>>

SwitchRoute ==
    /\ status = "activating"
    /\ status' = "tigerbeetle" /\ route' = "tigerbeetle"
    /\ UNCHANGED <<evidence, open>>

(* Operations begin only while no cutover is under way.                     *)
OperationBegins ==
    /\ status # None /\ status = route
    /\ open' = TRUE
    /\ UNCHANGED <<status, route, evidence>>

OperationsEnd ==
    /\ open' = FALSE
    /\ UNCHANGED <<status, route, evidence>>

ContractNext ==
    \/ Configure \/ Prepare \/ Approve \/ Activate \/ SwitchRoute
    \/ OperationBegins \/ OperationsEnd

ContractSpec == ContractInit /\ [][ContractNext]_contractVars
=============================================================================
