---------------------------- MODULE MCStorefront ----------------------------
(***************************************************************************)
(* An instance of Storefront for TLC: ada, signed in, clicks to order a    *)
(* lamp, which may sell out meanwhile; a guest without a token tries to,   *)
(* early has one but meets a gateway that was started without JWT_SECRET,  *)
(* and the body of scribble is no JSON.                                    *)
(***************************************************************************)
EXTENDS Storefront

CONSTANTS ada, guest, early, scribble, lamp

MCUser       == [c \in Clicks |-> c]
MCUserStatus == [u \in Clicks |-> "ACTIVE"]
MCItems      == [c \in Clicks |-> <<[product |-> lamp, quantity |-> 1]>>]
OnSale       == [price |-> 1, stock |-> 1, active |-> TRUE]
SoldOut      == [price |-> 1, stock |-> 0, active |-> TRUE]
MCListings   == {SoldOut}
MCCatalogs   == {[p \in Products |-> OnSale]}
=============================================================================
