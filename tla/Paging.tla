-------------------------------- MODULE Paging ------------------------------
(***************************************************************************)
(* GET /messages (api/routes_api.py): a client pages with a keyset cursor  *)
(* over (created_at, id), while messages are stamped, committed and purged *)
(* by others.  created_at is taken before the commit and counts seconds,   *)
(* ids are random: the order of the rows is not that of their commits.     *)
(*                                                                         *)
(* The definitions named Bug... are faulty variants of the one that        *)
(* follows: no action uses them, they show that the properties can fail.   *)
(***************************************************************************)
EXTENDS Naturals, FiniteSets

CONSTANTS Ids,         \* the ids that may ever be used: naturals, as they sort
          PageLimit,   \* limit
          PagMaxTime   \* bound on the clock

ASSUME PagingAssumption == /\ Ids \subseteq Nat /\ IsFiniteSet(Ids)
                           /\ {PageLimit, PagMaxTime} \subseteq Nat \ {0}

VARIABLES pagNow,    \* the clock
          stage,     \* per message: "new", "stamped", "committed", "purged"
          created,   \* created_at
          after,     \* the client's cursor, or Start; Done when there is no next
          seen,      \* what the client was given in this pass
          repeated,  \* history: what it was given twice in a pass
          overtaken  \* history: committed when the cursor was past it already

pagVars == <<pagNow, stage, created, after, seen, repeated, overtaken>>

Start == [created |-> 0, id |-> 0]
Done == [created |-> PagMaxTime + 1, id |-> 0]

PagInit == /\ pagNow = 1
           /\ stage = [m \in Ids |-> "new"]
           /\ created = [m \in Ids |-> 0]
           /\ after = Start
           /\ seen = {} /\ repeated = {} /\ overtaken = {}

PagTick == /\ pagNow < PagMaxTime
           /\ pagNow' = pagNow + 1
           /\ UNCHANGED <<stage, created, after, seen, repeated, overtaken>>

Key(m) == [created |-> created[m], id |-> m]

(* The order of the list.                                                  *)
Before(k, l) == k.created < l.created \/ (k.created = l.created /\ k.id < l.id)

StampMessage(m) == /\ stage[m] = "new"
                   /\ stage' = [stage EXCEPT ![m] = "stamped"]
                   /\ created' = [created EXCEPT ![m] = pagNow]
                   /\ UNCHANGED <<pagNow, after, seen, repeated, overtaken>>

CommitMessage(m) == /\ stage[m] = "stamped"
                    /\ stage' = [stage EXCEPT ![m] = "committed"]
                    /\ overtaken' = IF after # Start /\ Before(Key(m), after)
                                      THEN overtaken \cup {m} ELSE overtaken
                    /\ UNCHANGED <<pagNow, created, after, seen, repeated>>

PurgeMessage(m) == /\ stage[m] = "committed"
                   /\ stage' = [stage EXCEPT ![m] = "purged"]
                   /\ UNCHANGED <<pagNow, created, after, seen, repeated, overtaken>>

BugBeyond(m) == created[m] > after.created

BugBeyondOrAt(m) == after = Start \/ ~Before(Key(m), after)

(* The filter of the cursor.                                               *)
Beyond(m) == created[m] > after.created \/ (created[m] = after.created /\ m > after.id)

Matching == {m \in Ids : stage[m] = "committed" /\ Beyond(m)}

(* The first of them, in order.                                            *)
Page == {m \in Matching : Cardinality({n \in Matching : Before(Key(n), Key(m))}) < PageLimit}

(* A full page has a next cursor, its last row.                            *)
List == /\ after # Done
        /\ seen' = seen \cup Page
        /\ repeated' = repeated \cup (seen \cap Page)
        /\ IF Cardinality(Page) = PageLimit
             THEN \E m \in Page : /\ \A n \in Page : n = m \/ Before(Key(n), Key(m))
                                  /\ after' = Key(m)
             ELSE after' = Done
        /\ UNCHANGED <<pagNow, stage, created, overtaken>>

(* The client begins another pass.                                         *)
Restarts == /\ after = Done
            /\ after' = Start
            /\ seen' = {} /\ repeated' = {} /\ overtaken' = {}
            /\ UNCHANGED <<pagNow, stage, created>>

PagNext == \/ PagTick \/ List \/ Restarts
           \/ \E m \in Ids : StampMessage(m) \/ CommitMessage(m) \/ PurgeMessage(m)

PagSpec == PagInit /\ [][PagNext]_pagVars

-----------------------------------------------------------------------------
(* Type invariant.                                                         *)
PagTypeOK == /\ pagNow \in 1..PagMaxTime
             /\ stage \in [Ids -> {"new", "stamped", "committed", "purged"}]
             /\ created \in [Ids -> 0..pagNow]
             /\ after \in {Start, Done} \cup [created : 1..pagNow, id : Ids]
             /\ repeated \subseteq seen /\ seen \cup overtaken \subseteq Ids

(* rest-api.md: paging is stable while messages arrive.  No row is given   *)
(* twice in a pass, rows of the same second included.                      *)
NoRowTwice == repeated = {}

(* ... and none that the pass has gone by is missing, but for those that   *)
(* were committed, with an earlier stamp, after the cursor had passed them.*)
SkippedOnlyWhenOvertaken ==
  \A m \in Ids : (stage[m] = "committed" /\ after # Start /\ ~Before(after, Key(m)))
                   => m \in seen \cup overtaken
=============================================================================
