--------------------------- MODULE MCOrdersSerial ---------------------------
(***************************************************************************)
(* Model checking of OrdersSerial with two orders and two request slots.   *)
(* The run checks liveness, so it declares no symmetry.                    *)
(***************************************************************************)
EXTENDS OrdersSerial
=============================================================================
