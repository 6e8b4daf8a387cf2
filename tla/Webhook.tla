------------------------------- MODULE Webhook ------------------------------
(***************************************************************************)
(* The webhook half of the api container: the dispatcher task              *)
(* (api/webhooks.py), the admin requests that run beside it in the thread  *)
(* pool (manual retry, settings, purge: api/routes_admin.py), the receiver *)
(* and the rows of webhook_deliveries they share.                          *)
(*                                                                         *)
(* Sessions hold no lock while the dispatcher awaits the receiver, nor     *)
(* between the read and the commit of a request: each action is one        *)
(* statement group that SQLite runs as a whole.                            *)
(*                                                                         *)
(* The definitions named Bug... are faulty variants of the one that        *)
(* follows: no action uses them, they show that the properties can fail.   *)
(***************************************************************************)
EXTENDS Naturals

CONSTANTS Deliveries,   \* the rows that may ever be created
          Requests,     \* admin requests that may be in progress together
          MaxRetries,   \* MAX_RETRIES, the length of the backoff chain
          MaxRetriggers, \* bound: manual retries, per row
          MaxSecrets,   \* bound: secrets generated
          MaxFaults,    \* bound: restarts and failed commits
          None          \* no delivery, no secret

ASSUME RetriesAssumption == MaxRetries \in Nat /\ MaxRetriggers \in Nat
ASSUME BoundsAssumption == MaxSecrets \in Nat /\ MaxFaults \in Nat
ASSUME NoneAssumption == None \notin Deliveries /\ None \notin Nat

VARIABLES status,     \* webhook_deliveries.status; "none" and "purged" no row
          attempt,    \* webhook_deliveries.attempt
          due,        \* the rows whose next_retry_at has passed
          target,     \* gateway_config.webhook_url: none, one that httpx can parse,
                      \* or one that only has the right prefix
          secret,     \* gateway_config.webhook_secret, numbered, or None
          secrets,    \* secrets generated so far
          pc,         \* where the dispatcher task stands
          round,      \* the due rows it has still to attempt
          url,        \* the URL and ...
          signer,     \* ... the secret it read for this round
          cur,        \* the row being attempted
          loaded,     \* cur's attempt count as loaded
          outcome,    \* what became of the POST
          checked,    \* per request: the row a retry found failed, or None
          faults,     \* faults so far
          took,       \* history: deliveries the receiver has taken
          again,      \* history: deliveries it was given again after that
          doubt,      \* history: deliveries of which an answer was lost
          retriggers, \* history: manual retries, per row
          raced       \* history: rows a retry reset that were not failed

rows == <<status, attempt, due>>
config == <<target, secret, secrets>>
dispatcher == <<pc, round, url, signer, cur, loaded, outcome>>
history == <<took, again, doubt, retriggers, raced>>
vars == <<rows, config, dispatcher, checked, faults, history>>

Statuses == {"none", "pending", "delivered", "failed", "purged"}

Init == /\ status = [d \in Deliveries |-> "none"]
        /\ attempt = [d \in Deliveries |-> 0]
        /\ due = {}
        /\ target = "none" /\ secret = None /\ secrets = 0
        /\ pc = "idle" /\ round = {} /\ url = "none" /\ signer = None
        /\ cur = None /\ loaded = 0 /\ outcome = "none"
        /\ checked = [r \in Requests |-> None]
        /\ faults = 0
        /\ took = {} /\ again = {} /\ doubt = {}
        /\ retriggers = [d \in Deliveries |-> 0]
        /\ raced = {}

Configured == target # "none" /\ secret # None

-----------------------------------------------------------------------------
(* The worker and the admin panel.                                         *)

(* process_inbound creates the row with its message, due at once.          *)
Create(d) == /\ status[d] = "none"
             /\ Configured
             /\ status' = [status EXCEPT ![d] = "pending"]
             /\ due' = due \cup {d}
             /\ UNCHANGED <<attempt, config, dispatcher, checked, faults, history>>

(* next_retry_at passes.                                                   *)
Elapse(d) == /\ status[d] = "pending" /\ d \notin due
             /\ due' = due \cup {d}
             /\ UNCHANGED <<status, attempt, config, dispatcher, checked, faults, history>>

(* purge_messages deletes the row together with its message.               *)
Purge(d) == /\ status[d] \notin {"none", "purged"}
            /\ status' = [status EXCEPT ![d] = "purged"]
            /\ due' = due \ {d}
            /\ attempt' = [attempt EXCEPT ![d] = 0]
            /\ retriggers' = [retriggers EXCEPT ![d] = 0]
            /\ UNCHANGED <<config, dispatcher, checked, faults, took, again, doubt, raced>>

(* set_webhook checks the prefix of a URL only; it brings a secret when    *)
(* there is none, no URL takes both away.  rotate_webhook_secret replaces  *)
(* the secret.                                                             *)
SetTarget == /\ target' \in {"sound", "broken"} \ {target}
             /\ IF secret = None
                  THEN /\ secrets < MaxSecrets
                       /\ secrets' = secrets + 1 /\ secret' = secrets'
                  ELSE UNCHANGED <<secret, secrets>>
             /\ UNCHANGED <<rows, dispatcher, checked, faults, history>>

ClearTarget == /\ target # "none"
               /\ target' = "none" /\ secret' = None
               /\ UNCHANGED <<secrets, rows, dispatcher, checked, faults, history>>

Rotate == /\ target # "none"
          /\ secrets < MaxSecrets
          /\ secrets' = secrets + 1 /\ secret' = secrets'
          /\ UNCHANGED <<target, rows, dispatcher, checked, faults, history>>

-----------------------------------------------------------------------------
(* retry_delivery reads the row, and commits on what it has read.          *)

RetryCheck(r, d) == /\ checked[r] = None
                    /\ status[d] = "failed"
                    /\ retriggers[d] < MaxRetriggers
                    /\ checked' = [checked EXCEPT ![r] = d]
                    /\ UNCHANGED <<rows, config, dispatcher, faults, history>>

RetryCommit(r) ==
  LET d == checked[r] IN
    /\ d # None
    /\ checked' = [checked EXCEPT ![r] = None]
    /\ IF status[d] = "purged"
         THEN UNCHANGED <<status, due, retriggers, raced>>
         ELSE /\ status' = [status EXCEPT ![d] = "pending"]
              /\ due' = due \cup {d}
              /\ retriggers' = [retriggers EXCEPT ![d] = @ + 1]
              /\ raced' = IF status[d] = "failed" THEN raced ELSE raced \cup {d}
    /\ UNCHANGED <<attempt, config, dispatcher, faults, took, again, doubt>>

-----------------------------------------------------------------------------
(* The dispatcher: one round of process_due_deliveries.                    *)

(* The round is over, or an exception ended it.  An answer that was not    *)
(* committed is forgotten.                                                 *)
EndRound == /\ pc' = "idle" /\ round' = {} /\ url' = "none" /\ signer' = None
            /\ cur' = None /\ loaded' = 0 /\ outcome' = "none"
            /\ doubt' = IF outcome \in {"taken", "ok"} THEN doubt \cup {cur} ELSE doubt

BugPoll == /\ pc = "idle"
           /\ target # "none" /\ url' = target
           /\ round' = due
           /\ round' # {}
           /\ pc' = "config"
           /\ UNCHANGED <<rows, config, signer, cur, loaded, outcome, checked, faults, history>>

(* The due rows and the URL are read.  Without a URL the round is over.    *)
Poll == /\ pc = "idle"
        /\ target # "none" /\ url' = target
        /\ round' = {d \in due : status[d] = "pending"}
        /\ round' # {}
        /\ pc' = "config"
        /\ UNCHANGED <<rows, config, signer, cur, loaded, outcome, checked, faults, history>>

BugFailUnsigned ==
  /\ pc = "config"
  /\ IF secret = None
       THEN /\ status' = [d \in Deliveries |-> IF d \in round /\ status[d] = "pending"
                                                 THEN "failed" ELSE status[d]]
            /\ EndRound
       ELSE /\ signer' = secret
            /\ pc' = "next"
            /\ UNCHANGED <<status, round, url, cur, loaded, outcome, doubt>>
  /\ UNCHANGED <<attempt, due, config, checked, faults, took, again, retriggers, raced>>

(* Then the secret.  Without one the due rows are deferred.                *)
ReadSecret == /\ pc = "config"
              /\ IF secret = None
                   THEN EndRound
                   ELSE /\ signer' = secret
                        /\ pc' = "next"
                        /\ UNCHANGED <<round, url, cur, loaded, outcome, doubt>>
              /\ UNCHANGED <<rows, config, checked, faults, took, again, retriggers, raced>>

BugLoad(d) == /\ pc = "next" /\ d \in round
              /\ IF status[d] = "purged"
                   THEN EndRound
                   ELSE /\ cur' = d /\ loaded' = attempt[d]
                        /\ pc' = "post"
                        /\ UNCHANGED <<round, url, signer, outcome, doubt>>
              /\ UNCHANGED <<rows, config, checked, faults, took, again, retriggers, raced>>

(* The next row is read, or found purged, which raises.                    *)
Load(d) == /\ pc = "next" /\ d \in round
           /\ IF status[d] = "purged"
                THEN EndRound
                ELSE /\ cur' = d /\ loaded' = attempt[d]
                     /\ round' = round \ {d}
                     /\ pc' = "post"
                     /\ UNCHANGED <<url, signer, outcome, doubt>>
           /\ UNCHANGED <<rows, config, checked, faults, took, again, retriggers, raced>>

LastLoaded == /\ pc = "next" /\ round = {}
              /\ EndRound
              /\ UNCHANGED <<rows, config, checked, faults, took, again, retriggers, raced>>

(* The POST reaches the receiver, or does not; the dispatcher awaits.      *)
Post == /\ pc = "post" /\ url = "sound"
        /\ pc' = "await"
        /\ \/ /\ outcome' = "taken"
              /\ took' = took \cup {cur}
              /\ again' = IF cur \in took THEN again \cup {cur} ELSE again
           \/ outcome' = "error" /\ UNCHANGED <<took, again>>
        /\ UNCHANGED <<rows, config, round, url, signer, cur, loaded, checked, faults,
                       doubt, retriggers, raced>>

(* A URL that httpx cannot parse raises InvalidURL, which is no HTTPError: *)
(* the round is over, and no attempt is counted.                           *)
PostRaises == /\ pc = "post" /\ url = "broken"
              /\ EndRound
              /\ UNCHANGED <<rows, config, checked, faults, took, again, retriggers, raced>>

(* A 2xx answer, or anything else: a timeout after the receiver has taken  *)
(* the delivery is one of them.                                            *)
Answer == /\ pc = "await"
          /\ pc' = "record"
          /\ \/ outcome = "taken" /\ outcome' = "ok" /\ UNCHANGED doubt
             \/ outcome = "taken" /\ outcome' = "error" /\ doubt' = doubt \cup {cur}
             \/ outcome = "error" /\ UNCHANGED <<outcome, doubt>>
          /\ UNCHANGED <<rows, config, round, url, signer, cur, loaded, checked, faults,
                         took, again, retriggers, raced>>

BugAnySuccess == IF outcome # "none" THEN "delivered"
                 ELSE IF loaded + 1 > MaxRetries THEN "failed" ELSE "pending"

BugOffByOne == IF outcome = "ok" THEN "delivered"
               ELSE IF loaded > MaxRetries THEN "failed" ELSE "pending"

(* What the answer makes of the row.                                       *)
Conclusion == IF outcome = "ok" THEN "delivered"
              ELSE IF loaded + 1 > MaxRetries THEN "failed" ELSE "pending"

BugUncounted == /\ status' = [status EXCEPT ![cur] = Conclusion]
                /\ due' = IF Conclusion = "pending" THEN due \ {cur} ELSE due
                /\ UNCHANGED attempt

(* The update writes what was loaded before the POST, plus one; a pending  *)
(* row is due again after its backoff.                                     *)
Update == /\ status' = [status EXCEPT ![cur] = Conclusion]
          /\ attempt' = [attempt EXCEPT ![cur] = loaded + 1]
          /\ due' = IF Conclusion = "pending" THEN due \ {cur} ELSE due

(* The answer is committed, unless the row was purged meanwhile.           *)
Record == /\ pc = "record"
          /\ IF status[cur] = "purged"
               THEN EndRound /\ UNCHANGED rows
               ELSE /\ Update
                    /\ pc' = "next" /\ cur' = None /\ loaded' = 0 /\ outcome' = "none"
                    /\ UNCHANGED <<round, url, signer, doubt>>
          /\ UNCHANGED <<config, checked, faults, took, again, retriggers, raced>>

(* A statement or a commit of the dispatcher fails: dispatcher_loop logs   *)
(* it and polls again.                                                     *)
DatabaseFails == /\ pc \in {"config", "next", "record"}
                 /\ faults < MaxFaults
                 /\ faults' = faults + 1
                 /\ EndRound
                 /\ UNCHANGED <<rows, config, checked, took, again, retriggers, raced>>

(* restart-api, or a crash of the container.                               *)
Restart == /\ faults < MaxFaults
           /\ faults' = faults + 1
           /\ EndRound
           /\ checked' = [r \in Requests |-> None]
           /\ UNCHANGED <<rows, config, took, again, retriggers, raced>>

-----------------------------------------------------------------------------
Panel == \/ SetTarget \/ ClearTarget \/ Rotate
         \/ \E d \in Deliveries : Purge(d)
         \/ \E r \in Requests : RetryCommit(r) \/ \E d \in Deliveries : RetryCheck(r, d)
Dispatcher == \/ Poll \/ ReadSecret \/ LastLoaded \/ Post \/ PostRaises \/ Answer \/ Record
              \/ \E d \in Deliveries : Load(d)
Fault == DatabaseFails \/ Restart

Next == Panel \/ Dispatcher \/ Fault \/ \E d \in Deliveries : Create(d) \/ Elapse(d)

(* The dispatcher task runs for ever, a POST answers or times out within   *)
(* 10 seconds, and time passes.                                            *)
Fairness == WF_vars(Dispatcher) /\ \A d \in Deliveries : WF_vars(Elapse(d))

Spec == Init /\ [][Next]_vars /\ Fairness

-----------------------------------------------------------------------------
(* Type invariant.                                                         *)
TypeOK == /\ status \in [Deliveries -> Statuses]
          /\ attempt \in [Deliveries -> Nat]
          /\ due \subseteq Deliveries
          /\ {target, url} \subseteq {"none", "sound", "broken"}
          /\ secret \in 1..MaxSecrets \cup {None} /\ secrets \in 0..MaxSecrets
          /\ pc \in {"idle", "config", "next", "post", "await", "record"}
          /\ round \subseteq Deliveries \ {cur}
          /\ signer \in 1..MaxSecrets \cup {None}
          /\ cur \in Deliveries \cup {None} /\ loaded \in Nat
          /\ outcome \in {"none", "taken", "ok", "error"}
          /\ checked \in [Requests -> Deliveries \cup {None}]
          /\ faults \in 0..MaxFaults
          /\ took \subseteq Deliveries /\ again \subseteq took
          /\ doubt \subseteq Deliveries /\ raced \subseteq Deliveries
          /\ retriggers \in [Deliveries -> Nat]

(* A row says delivered only if the receiver took the delivery: no answer  *)
(* of one row, and none lost in a restart, is ever booked on another.      *)
DeliveredWasTaken == \A d \in Deliveries : status[d] = "delivered" => d \in took

(* The receiver is given a delivery again only if an answer of its own was *)
(* lost before it was committed, or a manual retry raced the dispatcher:   *)
(* neither a round cut short by an exception nor a change of the settings  *)
(* makes the dispatcher repeat a delivery.                                 *)
RepeatOnlyInDoubt == again \subseteq doubt \cup raced

(* webhook-log.md: clearing the settings, purges and restarts never fail a *)
(* delivery: failed means that all MaxRetries + 1 attempts were made ...   *)
FailedWasExhausted == \A d \in Deliveries : status[d] = "failed" => attempt[d] > MaxRetries

(* ... and no delivery gets more than those and one for each manual retry, *)
(* however retries and rounds interleave.                                  *)
AttemptsBounded ==
  \A d \in Deliveries : attempt[d] <= MaxRetries + 1 + retriggers[d]

(* The rows keep the contract of a delivery: each attempt is counted once, *)
(* though its count was loaded before the POST and other requests write    *)
(* the row meanwhile, and only what the attempt found concludes it.        *)
Contract == INSTANCE DeliveryContract WITH
  phase <- status,
  taken <- took,
  tries <- attempt,
  budget <- [d \in Deliveries |-> MaxRetries + 1 + retriggers[d]]

KeepsDelivery == Contract!DeliverySpec

(* While a secret and a URL that httpx can parse are configured, every     *)
(* pending row is concluded (or purged): rounds that are cut short, by a   *)
(* purge or by an unparsable URL that was replaced, starve no row.         *)
EveryDeliveryConcludes ==
  <>[](Configured /\ target = "sound") => \A d \in Deliveries : status[d] = "pending" ~> status[d] # "pending"

(* routes_admin.py:727: only failed deliveries may be re-triggered.        *)
OnlyFailedIsRetriggered ==
  [][\A d \in Deliveries : (status[d] \notin {"none", "pending"} /\ status'[d] = "pending")
                              => status[d] = "failed"]_vars

(* webhooks.md: rotation is instant, the next delivery uses the new secret.*)
RotationIsInstant == [][pc = "post" /\ pc' = "await" => signer = secret]_vars
=============================================================================
