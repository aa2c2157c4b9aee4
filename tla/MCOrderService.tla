--------------------------- MODULE MCOrderService ---------------------------
(***************************************************************************)
(* Instances of OrderService for TLC: ada orders two items, and noItem,    *)
(* whose account is suspended, asks for a product that does not exist.     *)
(***************************************************************************)
EXTENDS OrderService

CONSTANTS ada, noItem, lamp, desk, ghost

OneOrder       == {ada}
OrderAndNoItem == {ada, noItem}

MCProducts == {lamp, desk}
MCMissing  == {ghost}

MCUserOf == [c \in Calls |-> c]

MCUserStatus ==
    [u \in Calls |-> IF u = noItem THEN "SUSPENDED" ELSE "ACTIVE"]

Item(p, q) == [product |-> p, quantity |-> q]

MCItemsOf ==
    [c \in Calls |-> IF c = noItem THEN <<Item(desk, 1), Item(ghost, 1)>>
                                  ELSE <<Item(lamp, 2), Item(desk, 1)>>]

Sold(price, stock) == [price |-> price, stock |-> stock, active |-> TRUE]
Withdrawn == [price |-> 1, stock |-> 3, active |-> FALSE]

\* The lamp and the desk start on sale; edits reprice, sell out or withdraw
\* them.  Two expensive lamps and a desk overflow the total column.
MCCatalogs == {[p \in Products |-> Sold(1, 3)]}
MCListings == {Sold(1, 3), Sold(3, 2), Sold(1, 1), Withdrawn}
MCMaxInt   == 8
=============================================================================
