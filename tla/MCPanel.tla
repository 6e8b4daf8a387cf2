------------------------------- MODULE MCPanel ------------------------------
(***************************************************************************)
(* The panel's tables.  Tokens, accounts and settings share no state, so   *)
(* one of them moves in a behaviour and the others rest.                   *)
(***************************************************************************)
EXTENDS Tokens, Accounts, Settings

VARIABLE table \* the one that moves

panelVars == <<table, tokVars, accVars, setVars>>

PanelInit == /\ TokInit /\ AccInit /\ SetInit
             /\ table \in {"tokens", "accounts", "settings"}

PanelNext == /\ UNCHANGED table
             /\ \/ table = "tokens" /\ TokNext /\ UNCHANGED <<accVars, setVars>>
                \/ table = "accounts" /\ AccNext /\ UNCHANGED <<tokVars, setVars>>
                \/ table = "settings" /\ SetNext /\ UNCHANGED <<tokVars, accVars>>

PanelSpec == PanelInit /\ [][PanelNext]_panelVars

(* Type invariant.                                                         *)
PanelTypeOK == TokTypeOK /\ AccTypeOK /\ SetTypeOK
=============================================================================
