------------------------------- MODULE Settings -----------------------------
(***************************************************************************)
(* gateway_config as the panel's settings page changes it: the webhook's   *)
(* URL and its secret, and the flag that restarts the worker               *)
(* (routes_admin.py, shared/configstore.py, restart_requested of           *)
(* worker/main.py).                                                        *)
(*                                                                         *)
(* A session begins its transaction with the first row it writes: what a   *)
(* request has read before, another may change.  Its first write takes     *)
(* the lock, and everything from there to the commit is one step.  merge   *)
(* writes an UPDATE or an INSERT according to what it has read, and raises *)
(* when that is no longer so; a DELETE of a row that is gone only warns.   *)
(*                                                                         *)
(* The definitions named Bug... are faulty variants of the one that        *)
(* follows: no action uses them, they show that the properties can fail.   *)
(***************************************************************************)

CONSTANT SetRequests  \* requests that may be in progress together

VARIABLES url,     \* gateway_config has a webhook_url
          key,     \* it has a webhook_secret
          flag,    \* it has restart_worker
          job,     \* per request: its stage and what it has read
          worker,  \* "run", "saw" the flag, "exit"
          stale,   \* history: requests since whose look at the URL it was set
                   \* or cleared by another
          crossed, \* history: such a request was committed
          booted,  \* history: restart requests during which the worker booted
          owed     \* history: a restart was accepted and has not happened since

pair == <<url, key>>
setVars == <<pair, flag, job, worker, stale, crossed, booted, owed>>

NoJob == [op |-> "none"]

SetInit == /\ url = FALSE /\ key = FALSE /\ flag = FALSE
           /\ job = [r \in SetRequests |-> NoJob]
           /\ worker = "run"
           /\ stale = {} /\ crossed = FALSE
           /\ booted = {} /\ owed = FALSE

Does(r, j) == job' = [job EXCEPT ![r] = j]
Ends(r) == Does(r, NoJob)

-----------------------------------------------------------------------------
(* set_webhook with a URL: merge reads the row; looking for the secret     *)
(* flushes it, and a secret is generated when there is none.               *)

SetReads(r) == /\ job[r] = NoJob
               /\ Does(r, [op |-> "set", url |-> url])
               /\ UNCHANGED <<pair, flag, worker, stale, crossed, booted, owed>>

(* Rotations and clearings that have looked at the URL and written nothing.*)
Lookers == {q \in SetRequests : job[q].op \in {"rotate", "rotated", "look", "strip"}}

SetCommits(r) == /\ job[r].op = "set"
                 /\ IF job[r].url = url
                      THEN /\ url' = TRUE /\ key' = TRUE
                           /\ stale' = IF url THEN stale ELSE stale \cup Lookers
                      ELSE UNCHANGED <<pair, stale>>
                 /\ Ends(r)
                 /\ UNCHANGED <<flag, worker, crossed, booted, owed>>

(* set_webhook without one: when there was a URL, looking for the secret   *)
(* flushes its deletion, and both go at once.                              *)
ClearReads(r) == /\ job[r] = NoJob
                 /\ Does(r, [op |-> IF url THEN "clear" ELSE "look"])
                 /\ stale' = stale \ {r}
                 /\ UNCHANGED <<pair, flag, worker, crossed, booted, owed>>

ClearCommits(r) == /\ job[r].op = "clear"
                   /\ url' = FALSE /\ key' = FALSE
                   /\ stale' = IF url THEN stale \cup Lookers ELSE stale
                   /\ Ends(r)
                   /\ UNCHANGED <<flag, worker, crossed, booted, owed>>

(* When there was none, nothing is written before the secret is looked for.*)
ClearLooks(r) == /\ job[r].op = "look"
                 /\ IF key THEN Does(r, [op |-> "strip"]) ELSE Ends(r)
                 /\ UNCHANGED <<pair, flag, worker, stale, crossed, booted, owed>>

StripCommits(r) == /\ job[r].op = "strip"
                   /\ key' = FALSE
                   /\ crossed' = (crossed \/ r \in stale)
                   /\ Ends(r)
                   /\ UNCHANGED <<url, flag, worker, stale, booted, owed>>

BugMayRotate == TRUE

(* No orphan secret without a target URL.                                  *)
MayRotate == url

RotateReads(r) == /\ job[r] = NoJob
                  /\ MayRotate
                  /\ Does(r, [op |-> "rotate"])
                  /\ stale' = stale \ {r}
                  /\ UNCHANGED <<pair, flag, worker, crossed, booted, owed>>

RotateMerges(r) == /\ job[r].op = "rotate"
                   /\ Does(r, [op |-> "rotated", key |-> key])
                   /\ UNCHANGED <<pair, flag, worker, stale, crossed, booted, owed>>

RotateCommits(r) == /\ job[r].op = "rotated"
                    /\ IF job[r].key = key
                         THEN key' = TRUE /\ crossed' = (crossed \/ r \in stale)
                         ELSE UNCHANGED <<key, crossed>>
                    /\ Ends(r)
                    /\ UNCHANGED <<url, flag, worker, stale, booted, owed>>

-----------------------------------------------------------------------------
(* restart_worker: merge reads the flag and writes it, unless the same     *)
(* second's is there already, which needs no UPDATE.                       *)

RestartReads(r) == /\ job[r] = NoJob
                   /\ \E same \in {flag, FALSE} :
                        Does(r, [op |-> "restart", flag |-> flag, same |-> same])
                   /\ booted' = booted \ {r}
                   /\ UNCHANGED <<pair, flag, worker, stale, crossed, owed>>

RestartCommits(r) ==
  /\ job[r].op = "restart"
  /\ \/ /\ job[r].same
        /\ owed' = (owed \/ r \notin booted)
        /\ UNCHANGED flag
     \/ /\ ~job[r].same
        /\ IF job[r].flag = flag THEN flag' = TRUE /\ owed' = TRUE
                                 ELSE UNCHANGED <<flag, owed>>
  /\ Ends(r)
  /\ UNCHANGED <<pair, worker, stale, crossed, booted>>

(* restart_requested of the worker: it reads the flag, deletes it, exits;  *)
(* a commit that fails leaves the flag.                                    *)
WorkerSees == /\ worker = "run" /\ flag
              /\ worker' = "saw"
              /\ UNCHANGED <<pair, flag, job, stale, crossed, booted, owed>>

BugAfterClear == "run"

AfterClear == "exit"

WorkerClears == /\ worker = "saw"
                /\ \/ flag' = FALSE /\ worker' = AfterClear
                   \/ flag' = flag /\ worker' = "run"
                /\ UNCHANGED <<pair, job, stale, crossed, booted, owed>>

(* docker starts it again, after a crash too.                              *)
WorkerBoots == /\ worker' = "run"
               /\ booted' = {r \in SetRequests : job[r].op = "restart"} \cup booted
               /\ owed' = FALSE
               /\ UNCHANGED <<pair, flag, job, stale, crossed>>

(* A request that raises, or is cut off, has changed nothing.              *)
JobFails(r) == /\ job[r] # NoJob
               /\ Ends(r)
               /\ UNCHANGED <<pair, flag, worker, stale, crossed, booted, owed>>

-----------------------------------------------------------------------------
SetNext == \/ WorkerSees \/ WorkerClears \/ WorkerBoots
           \/ \E r \in SetRequests :
                \/ SetReads(r) \/ SetCommits(r)
                \/ ClearReads(r) \/ ClearCommits(r) \/ ClearLooks(r) \/ StripCommits(r)
                \/ RotateReads(r) \/ RotateMerges(r) \/ RotateCommits(r)
                \/ RestartReads(r) \/ RestartCommits(r)
                \/ JobFails(r)

SetSpec == SetInit /\ [][SetNext]_setVars

-----------------------------------------------------------------------------
(* Type invariant, with what a request has read, by what it is about to do.*)
SetTypeOK ==
  /\ {url, key, flag, crossed, owed} \subseteq BOOLEAN
  /\ job \in [SetRequests -> [op : {"none", "clear", "look", "strip", "rotate"}]
                 \cup [op : {"set"}, url : BOOLEAN] \cup [op : {"rotated"}, key : BOOLEAN]
                 \cup [op : {"restart"}, flag : BOOLEAN, same : BOOLEAN]]
  /\ worker \in {"run", "saw", "exit"}
  /\ stale \subseteq SetRequests /\ booted \subseteq SetRequests

(* settings.md: a URL has a secret, and clearing it leaves none behind.    *)
(* However requests overlap, only one that commits upon a look at the URL  *)
(* which another has overtaken can part the two: a rotation, which leaves  *)
(* a secret alone, or a clearing that found nothing, which leaves a URL    *)
(* alone.                                                                  *)
PairPartedOnlyByStaleLook == ~crossed => (url <=> key)

(* A restart that was accepted is not lost: the flag is still there, or    *)
(* the worker is on its way out, until it has booted once more.            *)
RestartIsHonoured == owed => flag \/ worker = "exit"
=============================================================================
