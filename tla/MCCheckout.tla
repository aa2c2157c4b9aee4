----------------------------- MODULE MCCheckout -----------------------------
(***************************************************************************)
(* Instances of Checkout for TLC: ada and eve each order one lamp, which   *)
(* may sell out meanwhile; the simulated gateway declines eve; noUser has  *)
(* no account and the body of garbled does not parse.                      *)
(***************************************************************************)
EXTENDS Checkout

CONSTANTS ada, eve, noUser, garbled, lamp

OneCall    == {ada}
MixedCalls == {ada, eve, noUser, garbled}

MCInvalid == {garbled} \cap Calls

MCUserOf     == [c \in Calls |-> c]
MCUserStatus == [u \in Calls |-> IF u = noUser THEN "missing" ELSE "ACTIVE"]
MCItemsOf    == [c \in Calls |-> <<[product |-> lamp, quantity |-> 1]>>]
MCProducts   == {lamp}
OnSale       == [price |-> 1, stock |-> 1, active |-> TRUE]
MCCatalogs   == {[p \in Products |-> OnSale]}
SoldOut      == [price |-> 1, stock |-> 0, active |-> TRUE]
MCListings   == {OnSale, SoldOut}
MCDeclined   == {eve} \cap Calls
=============================================================================
