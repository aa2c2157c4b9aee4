--------------------------- MODULE MCOrderServer ---------------------------
(***************************************************************************)
(* An instance of OrderServer for TLC: ada orders two lamps, which may be  *)
(* sold out; her browser asks for the order or for the list of hers, and   *)
(* the orchestrator for the readiness of the process.                      *)
(***************************************************************************)
EXTENDS OrderServer

CONSTANTS ada, lamp, browser, prober

MCReaders == {browser, prober}

MCQueries ==
    [r \in Readers |->
        IF r = prober
        THEN {[kind |-> "ready"]}
        ELSE {[kind |-> "order", of |-> ada], [kind |-> "list", of |-> ada]}]

MCUserOf     == [c \in Calls |-> c]
MCUserStatus == [u \in Calls |-> "ACTIVE"]
MCItemsOf    == [c \in Calls |-> <<[product |-> lamp, quantity |-> 2]>>]
Sold(stock)  == [price |-> 1, stock |-> stock, active |-> TRUE]
MCCatalogs   == {[p \in Products |-> Sold(2)], [p \in Products |-> Sold(0)]}
=============================================================================
