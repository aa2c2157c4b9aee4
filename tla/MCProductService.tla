------------------------- MODULE MCProductService -------------------------
(***************************************************************************)
(* An instance of ProductService for TLC.  One lamp is restocked and put   *)
(* back on sale, hidden, sent a PATCH with an explicit null and one that   *)
(* does not validate; two chairs are created with one sku, and a yacht     *)
(* with a price that does not fit.                                         *)
(***************************************************************************)
EXTENDS ProductService

CONSTANTS
    lamp, chair, stool, yacht,
    restock, hide, blank, garbled, addChair, addStool, addYacht

Edits     == {restock, hide, blank, garbled}
Creations == {addChair, addStool, addYacht}

MCOp == [r \in Requests |-> CASE r \in Creations -> "create"
                                [] r = hide        -> "delete"
                                [] OTHER           -> "update"]

MCTarget == [r \in Requests |-> CASE r \in Edits    -> lamp
                                    [] r = addChair -> chair
                                    [] r = addYacht -> yacht
                                    [] OTHER        -> stool]

MCSku == [r \in Requests |-> IF r = addYacht THEN "yacht" ELSE "chair"]

MCBody ==
    [r \in Requests |->
        CASE r = restock  -> [stock |-> 2, active |-> TRUE]
          [] r = blank    -> [price |-> NULL, stock |-> 0]
          [] r = addYacht -> [price |-> 3, stock |-> 1]
          [] OTHER        -> [price |-> 1, stock |-> 1]]

MCSeed == [p \in {lamp} |-> [sku |-> "lamp", price |-> 1, stock |-> 1, active |-> TRUE]]
=============================================================================
