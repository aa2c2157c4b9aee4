------------------------------ MODULE MCSignup ------------------------------
(***************************************************************************)
(* An instance of Signup for TLC: ann registers, and the attempts of the   *)
(* gateway race each other for her email, while she logs in from another   *)
(* device.                                                                 *)
(***************************************************************************)
EXTENDS Signup

CONSTANTS ann, device

MCOp       == [c \in Clicks |-> IF c = device THEN "login" ELSE "register"]
MCEmail    == [c \in Clicks |-> "ann@shop"]
MCPassword == [c \in Clicks |-> "secret"]
=============================================================================
