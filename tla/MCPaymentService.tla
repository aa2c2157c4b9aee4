-------------------------- MODULE MCPaymentService --------------------------
(***************************************************************************)
(* An instance of PaymentService for TLC, all requests racing for one key. *)
(* r1 is a charge of order-service that reaches a process in live mode;    *)
(* r2, without a header, and r3 charge the same order at a process in      *)
(* simulated mode, which declines r3; r4 is refused by model validation.   *)
(***************************************************************************)
EXTENDS PaymentService

CONSTANTS r1, r2, r3, r4, k1

MCHeader  == [r \in Requests |-> IF r = r2 THEN NoHeader ELSE k1]
MCOrderId == [r \in Requests |-> k1]
=============================================================================
