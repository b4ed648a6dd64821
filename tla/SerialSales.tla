----------------------------- MODULE SerialSales -----------------------------
(***************************************************************************)
(* What concurrent purchases promise: as if each ran alone, it is either   *)
(* refused or takes its price off a balance that covers it, once per key   *)
(* and once per content and fan.                                           *)
(***************************************************************************)
EXTENDS Integers

CONSTANTS Requests, Fans, Kind, Fan, Amount, Key, Opening

VARIABLES
    credits,   \* spendable credits of each fan
    outcome    \* "open", "sold" or "refused"

vars == <<credits, outcome>>

Init ==
    /\ credits = [u \in Fans |-> Opening[u]]
    /\ outcome = [p \in Requests |-> "open"]

SameSale(p, q) ==
    \/ Key[p] = Key[q]
    \/ Kind[p] = "PPV" /\ Kind[q] = "PPV" /\ Fan[p] = Fan[q]

Sell(p) ==
    /\ outcome[p] = "open"
    /\ credits[Fan[p]] >= Amount[p]
    /\ \A q \in Requests : outcome[q] = "sold" => ~SameSale(p, q)
    /\ credits' = [credits EXCEPT ![Fan[p]] = @ - Amount[p]]
    /\ outcome' = [outcome EXCEPT ![p] = "sold"]

Refuse(p) ==
    /\ outcome[p] = "open"
    /\ outcome' = [outcome EXCEPT ![p] = "refused"]
    /\ UNCHANGED credits

Next == \E p \in Requests : Sell(p) \/ Refuse(p)

Spec == Init /\ [][Next]_vars
=============================================================================
