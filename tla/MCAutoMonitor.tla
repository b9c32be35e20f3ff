---------------------------- MODULE MCAutoMonitor ----------------------------
(***************************************************************************)
(* A small instance of AutoMonitor.                                        *)
(***************************************************************************)
EXTENDS AutoMonitor

CONSTANTS p, q, x, y

OneAndTwoAlerts == [d \in Days |-> IF d = 1 THEN {x} ELSE {x, y}]

=============================================================================
