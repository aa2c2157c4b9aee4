----------------------------- MODULE ChargeOnce -----------------------------
(***************************************************************************)
(* What payment-service promises its callers, without its handlers: per    *)
(* idempotency key there is at most one charging session, a settled        *)
(* payment never changes, and every final answer given for the key is the  *)
(* status of that one payment.                                             *)
(*                                                                         *)
(* A payment is in doubt once a call of the card processor went without    *)
(* its verdict.  For any other payment money moves only while it is open,  *)
(* and it settles as Succeeded exactly when money moved.  For one in doubt *)
(* nothing is promised but that Succeeded means money: the processor may   *)
(* capture after the payment was stored as Failed, or even as Declined.    *)
(***************************************************************************)
CONSTANTS Keys, Sessions

VARIABLES
    ledger,     \* the payment of a key
    charger,    \* the sessions that captured money for a key
    doubtful,   \* the keys whose payment is in doubt
    answers     \* the final answers, 200 and 402, given for a key

vars == <<ledger, charger, doubtful, answers>>

Final == {"Succeeded", "Failed", "Declined"}

Init ==
    /\ ledger   = [k \in Keys |-> "absent"]
    /\ charger  = [k \in Keys |-> {}]
    /\ doubtful = {}
    /\ answers  = [k \in Keys |-> {}]

Open(k) ==
    /\ ledger[k] = "absent"
    /\ ledger' = [ledger EXCEPT ![k] = "Pending"]
    /\ UNCHANGED <<charger, doubtful, answers>>

\* The session hears no verdict from the processor.
Doubt(k) ==
    /\ ledger[k] = "Pending"
    /\ doubtful' = doubtful \cup {k}
    /\ UNCHANGED <<ledger, charger, answers>>

\* The one session of a key captures; capturing again is invisible here.
Capture(k) ==
    /\ ledger[k] = "Pending" \/ k \in doubtful
    /\ charger[k] = {}
    /\ \E s \in Sessions : charger' = [charger EXCEPT ![k] = {s}]
    /\ UNCHANGED <<ledger, doubtful, answers>>

FinalAnswer(status) ==
    CASE status = "Succeeded" -> {"200"}
      [] status = "Declined"  -> {"402"}
      [] OTHER                -> {}

\* What a payment may settle as: Failed is said of payments in doubt only.
Justified(k, status) ==
    CASE status = "Succeeded" -> charger[k] # {}
      [] status = "Declined"  -> charger[k] = {} \/ k \in doubtful
      [] status = "Failed"    -> k \in doubtful

\* The session settles the payment, and tells its caller unless it has gone.
Settle(k) ==
    /\ ledger[k] = "Pending"
    /\ \E status \in Final :
          /\ Justified(k, status)
          /\ ledger' = [ledger EXCEPT ![k] = status]
          /\ \/ answers' = [answers EXCEPT ![k] = FinalAnswer(status)]
             \/ UNCHANGED answers
    /\ UNCHANGED <<charger, doubtful>>

\* Any later request for the key is told the same.
Answer(k) ==
    /\ ledger[k] \in Final
    /\ answers' = [answers EXCEPT ![k] = @ \cup FinalAnswer(ledger[k])]
    /\ UNCHANGED <<ledger, charger, doubtful>>

Next == \E k \in Keys : Open(k) \/ Doubt(k) \/ Capture(k) \/ Settle(k) \/ Answer(k)

Spec == Init /\ [][Next]_vars
=============================================================================
