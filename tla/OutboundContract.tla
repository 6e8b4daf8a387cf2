-------------------------- MODULE OutboundContract --------------------------
(***************************************************************************)
(* What the gateway promises for an outbound message, without the worker:  *)
(* an accepted message is pending until it is concluded, it is concluded   *)
(* as sent only after all of it was on the air, a concluded message is     *)
(* silent for ever, and only a sent one is ever reported delivered.  The   *)
(* one other way out is the retention purge of the admin panel.            *)
(***************************************************************************)
EXTENDS Naturals

CONSTANT Messages

VARIABLES phase,  \* the state of each message as a caller of the API knows it
          heard   \* the messages all of whose parts were on the air

contractVars == <<phase, heard>>

Phases == {"none", "pending", "sent", "delivered", "failed", "purged"}

ContractInit == /\ phase = [m \in Messages |-> "none"]
                /\ heard = {}

Accepts(m) == /\ phase[m] = "none"
              /\ phase' = [phase EXCEPT ![m] = "pending"]
              /\ UNCHANGED heard

(* The message goes out for the first time as a whole.  A message purged   *)
(* while the modem has it still goes out.                                  *)
Transmits(m) == /\ phase[m] \in {"pending", "purged"}
                /\ heard' = heard \cup {m}
                /\ UNCHANGED phase

Concludes(m) == /\ phase[m] = "pending"
                /\ \/ m \in heard /\ phase' = [phase EXCEPT ![m] = "sent"]
                   \/ phase' = [phase EXCEPT ![m] = "failed"]
                /\ UNCHANGED heard

Confirms(S) == /\ \A m \in S : phase[m] = "sent"
               /\ phase' = [m \in Messages |->
                               IF m \in S THEN "delivered" ELSE phase[m]]
               /\ UNCHANGED heard

Forgets(S) == /\ \A m \in S : phase[m] # "none"
              /\ phase' = [m \in Messages |->
                              IF m \in S THEN "purged" ELSE phase[m]]
              /\ UNCHANGED heard

ContractNext == \/ \E m \in Messages : Accepts(m) \/ Transmits(m) \/ Concludes(m)
                \/ \E S \in SUBSET Messages : Confirms(S) \/ Forgets(S)

ContractSpec == ContractInit /\ [][ContractNext]_contractVars
=============================================================================
