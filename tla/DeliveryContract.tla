--------------------------- MODULE DeliveryContract -------------------------
(***************************************************************************)
(* What the gateway promises for a webhook delivery, without a dispatcher: *)
(* a delivery is pending until it is concluded, each attempt is counted    *)
(* once, it is concluded as delivered only after the receiver took it, as  *)
(* failed when the chain of retries is used up and never before, and what  *)
(* is concluded is attempted again only after a manual retry, which grants *)
(* one more attempt.                                                       *)
(***************************************************************************)
EXTENDS Naturals

CONSTANTS Deliveries,
          MaxRetries   \* the length of the chain of retries

VARIABLES phase,   \* what the panel's log shows of each delivery
          taken,   \* the deliveries that the receiver has taken
          tries,   \* the attempts counted, of each delivery
          budget   \* the attempts granted, of each delivery

deliveryVars == <<phase, taken, tries, budget>>

DeliveryInit == /\ phase = [d \in Deliveries |-> "none"]
                /\ taken = {}
                /\ tries = [d \in Deliveries |-> 0]
                /\ budget = [d \in Deliveries |-> MaxRetries + 1]

Arises(d) == /\ phase[d] = "none"
             /\ phase' = [phase EXCEPT ![d] = "pending"]
             /\ UNCHANGED <<taken, tries, budget>>

(* The receiver takes it.  One purged while the POST is on its way still   *)
(* arrives.                                                                *)
Arrives(d) == /\ phase[d] \in {"pending", "purged"}
              /\ taken' = taken \cup {d}
              /\ UNCHANGED <<phase, tries, budget>>

(* An attempt is counted, and what it makes of the delivery.               *)
Counts(d) ==
  /\ phase[d] = "pending" /\ tries[d] < budget[d]
  /\ tries' = [tries EXCEPT ![d] = @ + 1]
  /\ \/ d \in taken /\ phase' = [phase EXCEPT ![d] = "delivered"]
     \/ tries'[d] > MaxRetries /\ phase' = [phase EXCEPT ![d] = "failed"]
     \/ tries'[d] <= MaxRetries /\ UNCHANGED phase
  /\ UNCHANGED <<taken, budget>>

(* A manual retry.  It was asked for when the delivery had failed, but may *)
(* find it in another state by the time that it is granted.                *)
Reopens(d) == /\ phase[d] \notin {"none", "purged"}
              /\ phase' = [phase EXCEPT ![d] = "pending"]
              /\ budget' = [budget EXCEPT ![d] = @ + 1]
              /\ UNCHANGED <<taken, tries>>

Forgets(d) == /\ phase[d] \notin {"none", "purged"}
              /\ phase' = [phase EXCEPT ![d] = "purged"]
              /\ tries' = [tries EXCEPT ![d] = 0]
              /\ budget' = [budget EXCEPT ![d] = MaxRetries + 1]
              /\ UNCHANGED taken

DeliveryNext == \E d \in Deliveries :
                  Arises(d) \/ Arrives(d) \/ Counts(d) \/ Reopens(d) \/ Forgets(d)

DeliverySpec == DeliveryInit /\ [][DeliveryNext]_deliveryVars
=============================================================================
