------------------------------ MODULE Migrations ----------------------------
(***************************************************************************)
(* run_migrations (shared/db.py): both containers apply the same scripts   *)
(* to the same file when they start.  executescript commits statement by   *)
(* statement; the row of schema_version is committed after it.  docker     *)
(* starts a container again whatever it died of.                           *)
(*                                                                         *)
(* The definitions named Bug... are faulty variants of the one that        *)
(* follows: no action uses them, they show that the properties can fail.   *)
(***************************************************************************)
EXTENDS Naturals, SequencesExt

CONSTANTS Containers,  \* api and worker
          Scripts,     \* by version, the objects that its statements create
          Idempotent,  \* versions whose statements say IF NOT EXISTS
          MaxKills     \* bound: containers killed, or a database that is busy

ASSUME ScriptsAssumption == /\ Scripts \in Seq(Seq(STRING)) /\ Idempotent \subseteq 1..Len(Scripts)
                            /\ \A v \in 1..Len(Scripts) : Scripts[v] # <<>>
                            /\ MaxKills \in Nat

Versions == 1..Len(Scripts)

VARIABLES objects,   \* the tables and indexes of the file
          recorded,  \* schema_version
          boot,      \* per container: where it is, what it knows as applied,
                     \* the script and the statement it is at
          kills,     \* bound
          torn       \* history: cut off within a script that is not idempotent

migVars == <<objects, recorded, boot, kills, torn>>

Down == [at |-> "down"]
Up == [at |-> "up"]

Created(v) == ToSet(Scripts[v])

(* A file that is new, or one that an earlier release left at a version,   *)
(* with or without objects that a later, idempotent script creates too.    *)
MigInit == /\ \E v \in 0..Len(Scripts) :
                /\ recorded = 1..v
                /\ \/ objects = UNION {Created(u) : u \in 1..v}
                   \/ objects = (UNION {Created(u) : u \in 1..v})
                                  \ UNION {Created(u) : u \in Idempotent \ 1..v}
           /\ boot = [c \in Containers |-> Down]
           /\ kills = 0 /\ torn = FALSE

-----------------------------------------------------------------------------
(* The set of applied versions is read once.                               *)
Begin(c) == /\ boot[c] = Down
            /\ boot' = [boot EXCEPT ![c] = [at |-> "script", known |-> recorded,
                                            script |-> 1, statement |-> 1]]
            /\ UNCHANGED <<objects, recorded, kills, torn>>

AtScript(c, v) == boot[c].at = "script" /\ boot[c].script = v

NextScript(c) == boot' = [boot EXCEPT ![c].script = @ + 1, ![c].statement = 1]

Skip(c, v) == /\ AtScript(c, v) /\ v \in boot[c].known
              /\ NextScript(c)
              /\ UNCHANGED <<objects, recorded, kills, torn>>

BugTolerates(v) == FALSE

Tolerates(v) == v \in Idempotent

(* A statement that creates what exists raises, and the process ends.      *)
Execute(c, v) ==
  /\ AtScript(c, v) /\ v \notin boot[c].known
  /\ boot[c].statement <= Len(Scripts[v])
  /\ LET object == Scripts[v][boot[c].statement] IN
       IF object \in objects /\ ~Tolerates(v)
         THEN boot' = [boot EXCEPT ![c] = Down] /\ UNCHANGED objects
         ELSE /\ boot' = [boot EXCEPT ![c].statement = @ + 1]
              /\ objects' = objects \cup {object}
  /\ UNCHANGED <<recorded, kills, torn>>

BugRecordVersion(c, v) ==
  /\ AtScript(c, v) /\ v \notin boot[c].known
  /\ \/ boot[c].statement = 1 /\ recorded' = recorded \cup {v} /\ UNCHANGED boot
     \/ boot[c].statement > Len(Scripts[v]) /\ NextScript(c) /\ UNCHANGED recorded
  /\ UNCHANGED <<objects, kills, torn>>

(* version is the primary key: a row that another container has inserted   *)
(* meanwhile makes this one raise.                                         *)
RecordVersion(c, v) ==
  /\ AtScript(c, v) /\ v \notin boot[c].known
  /\ boot[c].statement > Len(Scripts[v])
  /\ recorded' = recorded \cup {v}
  /\ IF v \in recorded THEN boot' = [boot EXCEPT ![c] = Down] ELSE NextScript(c)
  /\ UNCHANGED <<objects, kills, torn>>

(* The application, or the worker's loop, begins.                          *)
ComeUp(c) == /\ AtScript(c, Len(Scripts) + 1)
             /\ boot' = [boot EXCEPT ![c] = Up]
             /\ UNCHANGED <<objects, recorded, kills, torn>>

(* Its process dies; what it has created stays.                            *)
Kill(c) == /\ boot[c] # Down
           /\ kills < MaxKills
           /\ kills' = kills + 1
           /\ boot' = [boot EXCEPT ![c] = Down]
           /\ torn' = (torn \/ \E v \in Versions \ Idempotent :
                                 AtScript(c, v) /\ boot[c].statement > 1)
           /\ UNCHANGED <<objects, recorded>>

-----------------------------------------------------------------------------
Migrate(c) == Begin(c) \/ ComeUp(c)
              \/ \E v \in Versions : Skip(c, v) \/ Execute(c, v) \/ RecordVersion(c, v)

MigNext == \E c \in Containers : Migrate(c) \/ Kill(c)

MigSpec == MigInit /\ [][MigNext]_migVars /\ \A c \in Containers : WF_migVars(Migrate(c))

-----------------------------------------------------------------------------
(* Type invariant.                                                         *)
MigTypeOK ==
  /\ objects \subseteq UNION {Created(v) : v \in Versions}
  /\ recorded \subseteq Versions
  /\ boot \in [Containers -> {Down, Up} \cup
       [at : {"script"}, known : SUBSET Versions, script : 1..Len(Scripts) + 1, statement : Nat]]
  /\ kills \in 0..MaxKills /\ torn \in BOOLEAN

(* A container that answers requests or loops finds every table it needs,  *)
(* and every version recorded, whoever applied it and whoever was killed.  *)
UpMeansComplete ==
  \A c \in Containers : boot[c] = Up => /\ recorded = Versions
                                        /\ objects = UNION {Created(v) : v \in Versions}

(* README: the containers come up together, in either order, by failing    *)
(* and starting again where they get in each other's way, also after kills *)
(* -- unless one hit a script that cannot be repeated: then no restart can *)
(* complete it.                                                            *)
EveryContainerComesUp == <>[](torn \/ \A c \in Containers : boot[c] = Up)
=============================================================================
