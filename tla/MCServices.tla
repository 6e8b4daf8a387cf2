------------------------------ MODULE MCServices ----------------------------
(***************************************************************************)
(* What stands around the queue: the rate limiter, the pages of the list,  *)
(* the migrations, the delivery reports, the worker's clock, the segments  *)
(* of a body.  They share no state here, so one of them moves in a         *)
(* behaviour and the others rest.                                          *)
(***************************************************************************)
EXTENDS Limiter, Paging, Migrations, Reports, Throttle, Segments

VARIABLE part \* the one that moves

servVars == <<part, limVars, pagVars, migVars, repVars, thrVars, segVars>>

MCScripts == <<<<"messages", "users", "events">>, <<"users", "events">>>>

ServInit == /\ LimInit /\ PagInit /\ RepInit /\ ThrInit /\ SegInit
            /\ part \in {"limiter", "paging", "migrations", "reports", "throttle", "segments"}
            /\ MigInit
            /\ part # "migrations" => recorded = {}
            /\ part # "reports" => to = [m \in RepMessages |-> CHOOSE n \in Numbers : TRUE]

MigrationsMove(c) == /\ part = "migrations" /\ Migrate(c)
                     /\ UNCHANGED <<part, limVars, pagVars, repVars, thrVars, segVars>>

ServNext ==
  \/ \E c \in Containers : MigrationsMove(c)
  \/ /\ UNCHANGED part
     /\ \/ /\ part = "limiter" /\ LimNext
           /\ UNCHANGED <<pagVars, migVars, repVars, thrVars, segVars>>
        \/ /\ part = "paging" /\ PagNext
           /\ UNCHANGED <<limVars, migVars, repVars, thrVars, segVars>>
        \/ /\ part = "migrations" /\ \E c \in Containers : Kill(c)
           /\ UNCHANGED <<limVars, pagVars, repVars, thrVars, segVars>>
        \/ /\ part = "reports" /\ RepNext
           /\ UNCHANGED <<limVars, pagVars, migVars, thrVars, segVars>>
        \/ /\ part = "throttle" /\ ThrNext
           /\ UNCHANGED <<limVars, pagVars, migVars, repVars, segVars>>
        \/ /\ part = "segments" /\ SegNext
           /\ UNCHANGED <<limVars, pagVars, migVars, repVars, thrVars>>

ServSpec == /\ ServInit /\ [][ServNext]_servVars
            /\ \A c \in Containers : WF_servVars(MigrationsMove(c))

(* Type invariant.                                                         *)
ServTypeOK == LimTypeOK /\ PagTypeOK /\ MigTypeOK /\ RepTypeOK /\ ThrTypeOK /\ SegTypeOK

(* EveryContainerComesUp, where the migrations move: both containers come  *)
(* up in the end, or a script that cannot be repeated was cut off.         *)
ContainersComeUp == part = "migrations" => EveryContainerComesUp
=============================================================================
