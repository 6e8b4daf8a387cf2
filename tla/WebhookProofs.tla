---------------------------- MODULE WebhookProofs ---------------------------
(***************************************************************************)
(* Proofs about Webhook, for every number of deliveries and admin requests,*)
(* every length of the backoff chain and every number of faults.           *)
(***************************************************************************)
EXTENDS Webhook, TLAPS

LEMMA BoundsAre ==
  /\ MaxRetries \in Nat /\ MaxRetriggers \in Nat /\ MaxSecrets \in Nat /\ MaxFaults \in Nat
  /\ None \notin Deliveries /\ None \notin Nat
BY RetriesAssumption, BoundsAssumption, NoneAssumption
   DEF RetriesAssumption, BoundsAssumption, NoneAssumption

-----------------------------------------------------------------------------
(* The inductive invariant.                                                *)

Attempting == {"post", "await", "record"}

(* What the dispatcher holds: a row that it has loaded, or is to load, was *)
(* pending, and nobody but itself concludes it, though it may be purged.   *)
HandOK == /\ \A d \in round : status[d] \in {"pending", "purged"}
          /\ pc \in Attempting => cur \in Deliveries /\ status[cur] \in {"pending", "purged"}
          /\ pc \notin Attempting => cur = None
          /\ pc = "post" => outcome = "none"
          /\ pc = "await" => outcome \in {"taken", "error"}
          /\ pc = "record" => outcome \in {"ok", "error"}
          /\ pc \notin Attempting => outcome = "none"

(* Who is pending, delivered or asked for again was created.               *)
Known(d) == status[d] # "none"
CreatedFirst == /\ \A d \in due \cup took : Known(d)
                /\ \A r \in Requests : checked[r] # None => Known(checked[r])

(* A delivery that was taken, and that neither a lost answer nor a retry   *)
(* can make the dispatcher repeat, is about to be booked, or was.          *)
Answered ==
  /\ DeliveredWasTaken
  /\ \A d \in took \ (doubt \cup raced) :
       \/ status[d] \in {"delivered", "purged"}
       \/ d = cur /\ outcome \in {"taken", "ok"}
  /\ outcome \in {"taken", "ok"} => cur \in took
  /\ pc = "post" \/ outcome = "error" => (cur \in took => cur \in doubt \cup raced)
  /\ RepeatOnlyInDoubt

(* The count of a row, and the one loaded for the attempt under way.       *)
Counted ==
  /\ FailedWasExhausted /\ AttemptsBounded
  /\ \A d \in Deliveries :
       status[d] \in {"none", "pending"} => attempt[d] <= MaxRetries + retriggers[d]
  /\ pc \in Attempting /\ status[cur] = "pending" => loaded <= MaxRetries + retriggers[cur]

IInv == TypeOK /\ HandOK /\ CreatedFirst /\ Answered /\ Counted

-----------------------------------------------------------------------------
(* A round that ends forgets what the dispatcher held.                     *)
LEMMA RoundEnds ==
  ASSUME TypeOK, HandOK, EndRound
  PROVE  /\ pc' = "idle" /\ round' = {} /\ url' = "none" /\ signer' = None
         /\ cur' = None /\ loaded' = 0 /\ outcome' = "none"
         /\ doubt' \subseteq Deliveries /\ doubt \subseteq doubt'
         /\ outcome \in {"taken", "ok"} => cur \in doubt'
<1>1. outcome \in {"taken", "ok"} => cur \in Deliveries
  BY DEF HandOK
<1> QED
  BY <1>1 DEF TypeOK, EndRound

(* ... and the rows, which it leaves alone, keep their invariants.         *)
LEMMA EndKeeps ==
  ASSUME IInv, EndRound, UNCHANGED <<rows, config, took, again, retriggers, raced>>,
         faults' \in 0..MaxFaults, checked' \in [Requests -> Deliveries \cup {None}],
         \A r \in Requests : checked'[r] \in {checked[r], None}
  PROVE  IInv'
<1> USE DEF IInv
<1>1. /\ pc' = "idle" /\ round' = {} /\ url' = "none" /\ signer' = None
      /\ cur' = None /\ loaded' = 0 /\ outcome' = "none"
      /\ doubt' \subseteq Deliveries /\ doubt \subseteq doubt'
      /\ outcome \in {"taken", "ok"} => cur \in doubt'
  BY RoundEnds
<1>2. UNCHANGED <<status, attempt, due, target, secret, secrets, took, again, retriggers, raced>>
  BY DEF rows, config
<1>3. TypeOK'
  BY <1>1, <1>2 DEF TypeOK
<1>4. HandOK'
  BY <1>1 DEF HandOK, Attempting
<1>5. CreatedFirst'
  BY <1>2 DEF CreatedFirst, Known
<1>6. Answered'
  <2>1. took \ (doubt' \cup raced) \subseteq took \ (doubt \cup raced)
    BY <1>1
  <2>2. \A d \in took \ (doubt' \cup raced) : status[d] \in {"delivered", "purged"}
    BY <1>1, <2>1 DEF Answered
  <2> QED
    BY <1>1, <1>2, <2>2 DEF Answered, DeliveredWasTaken, RepeatOnlyInDoubt
<1>7. Counted'
  BY <1>1, <1>2 DEF Counted, FailedWasExhausted, AttemptsBounded, Attempting
<1> QED
  BY <1>3, <1>4, <1>5, <1>6, <1>7

-----------------------------------------------------------------------------
(* The worker and the panel.                                               *)

LEMMA CreateKeeps ==
  ASSUME IInv, NEW d \in Deliveries, Create(d)
  PROVE  IInv'
<1> USE DEF IInv
<1>1. /\ status[d] = "none" /\ status' \in [Deliveries -> Statuses]
      /\ status'[d] = "pending" /\ \A e \in Deliveries \ {d} : status'[e] = status[e]
      /\ due' = due \cup {d}
      /\ UNCHANGED <<attempt, target, secret, secrets, pc, round, url, signer, cur, loaded, outcome,
                     checked, faults, took, again, doubt, retriggers, raced>>
  BY DEF TypeOK, Statuses, Create, config, dispatcher, history
<1>2. TypeOK'
  BY <1>1 DEF TypeOK
<1>3. d \notin round /\ d \notin took /\ (pc \in Attempting => cur # d)
  BY <1>1 DEF HandOK, CreatedFirst, Known
<1>4. HandOK'
  BY <1>1, <1>3 DEF HandOK, TypeOK
<1>5. CreatedFirst'
  BY <1>1 DEF CreatedFirst, Known, TypeOK
<1>6. Answered'
  BY <1>1, <1>3 DEF Answered, DeliveredWasTaken, RepeatOnlyInDoubt, TypeOK
<1>7. Counted'
  BY <1>1, <1>3 DEF Counted, FailedWasExhausted, AttemptsBounded, HandOK
<1> QED
  BY <1>2, <1>4, <1>5, <1>6, <1>7

LEMMA ElapseKeeps ==
  ASSUME IInv, NEW d \in Deliveries, Elapse(d)
  PROVE  IInv'
<1> USE DEF IInv
<1>1. /\ status[d] = "pending" /\ due' = due \cup {d}
      /\ UNCHANGED <<status, attempt, target, secret, secrets, pc, round, url, signer, cur, loaded,
                     outcome, checked, faults, took, again, doubt, retriggers, raced>>
  BY DEF Elapse, config, dispatcher, history
<1>2. TypeOK' /\ HandOK'
  BY <1>1 DEF TypeOK, HandOK
<1>3. CreatedFirst' /\ Answered' /\ Counted'
  BY <1>1 DEF CreatedFirst, Known, Answered, DeliveredWasTaken, RepeatOnlyInDoubt,
              Counted, FailedWasExhausted, AttemptsBounded
<1> QED
  BY <1>2, <1>3

LEMMA PurgeKeeps ==
  ASSUME IInv, NEW d \in Deliveries, Purge(d)
  PROVE  IInv'
<1> USE DEF IInv
<1>1. /\ status' \in [Deliveries -> Statuses]
      /\ status'[d] = "purged" /\ \A e \in Deliveries \ {d} : status'[e] = status[e]
      /\ attempt' \in [Deliveries -> Nat]
      /\ attempt'[d] = 0 /\ \A e \in Deliveries \ {d} : attempt'[e] = attempt[e]
      /\ retriggers' \in [Deliveries -> Nat]
      /\ retriggers'[d] = 0 /\ \A e \in Deliveries \ {d} : retriggers'[e] = retriggers[e]
      /\ due' = due \ {d}
      /\ UNCHANGED <<target, secret, secrets, pc, round, url, signer, cur, loaded, outcome,
                     checked, faults, took, again, doubt, raced>>
  BY DEF TypeOK, Statuses, Purge, config, dispatcher
<1>2. TypeOK'
  BY <1>1 DEF TypeOK
<1>3. HandOK'
  BY <1>1 DEF HandOK, TypeOK
<1>4. CreatedFirst'
  BY <1>1 DEF CreatedFirst, Known, TypeOK
<1>5. Answered'
  BY <1>1 DEF Answered, DeliveredWasTaken, RepeatOnlyInDoubt, TypeOK
<1>6. Counted'
  <2>1. ASSUME NEW e \in Deliveries
        PROVE  /\ status'[e] = "failed" => attempt'[e] > MaxRetries
               /\ attempt'[e] <= MaxRetries + 1 + retriggers'[e]
               /\ status'[e] \in {"none", "pending"} => attempt'[e] <= MaxRetries + retriggers'[e]
    BY <1>1, BoundsAre DEF Counted, FailedWasExhausted, AttemptsBounded
  <2>2. pc' \in Attempting /\ status'[cur'] = "pending" => loaded' <= MaxRetries + retriggers'[cur']
    BY <1>1 DEF Counted, HandOK
  <2> QED
    BY <2>1, <2>2 DEF Counted, FailedWasExhausted, AttemptsBounded
<1> QED
  BY <1>2, <1>3, <1>4, <1>5, <1>6

(* The settings are nobody's business but the types'.                      *)
LEMMA SettingsKeep ==
  ASSUME IInv, SetTarget \/ ClearTarget \/ Rotate
  PROVE  IInv'
<1> USE DEF IInv
<1>1. UNCHANGED <<status, attempt, due, pc, round, url, signer, cur, loaded, outcome,
                  checked, faults, took, again, doubt, retriggers, raced>>
  BY DEF SetTarget, ClearTarget, Rotate, rows, dispatcher, history
<1>2. /\ target' \in {"none", "sound", "broken"} /\ secrets' \in 0..MaxSecrets
      /\ secret' \in 1..MaxSecrets \cup {None}
  BY BoundsAre DEF TypeOK, SetTarget, ClearTarget, Rotate
<1>3. TypeOK'
  BY <1>1, <1>2 DEF TypeOK
<1>4. HandOK' /\ CreatedFirst' /\ Answered' /\ Counted'
  BY <1>1 DEF HandOK, CreatedFirst, Known, Answered, DeliveredWasTaken, RepeatOnlyInDoubt,
              Counted, FailedWasExhausted, AttemptsBounded
<1> QED
  BY <1>3, <1>4

LEMMA RetryCheckKeeps ==
  ASSUME IInv, NEW r \in Requests, NEW d \in Deliveries, RetryCheck(r, d)
  PROVE  IInv'
<1> USE DEF IInv
<1>1. /\ status[d] = "failed" /\ checked' \in [Requests -> Deliveries \cup {None}]
      /\ checked'[r] = d /\ \A q \in Requests \ {r} : checked'[q] = checked[q]
      /\ UNCHANGED <<status, attempt, due, target, secret, secrets, pc, round, url, signer, cur,
                     loaded, outcome, faults, took, again, doubt, retriggers, raced>>
  BY DEF TypeOK, RetryCheck, rows, config, dispatcher, history
<1>2. TypeOK' /\ HandOK'
  BY <1>1 DEF TypeOK, HandOK
<1>3. CreatedFirst'
  BY <1>1 DEF CreatedFirst, Known
<1>4. Answered' /\ Counted'
  BY <1>1 DEF Answered, DeliveredWasTaken, RepeatOnlyInDoubt,
              Counted, FailedWasExhausted, AttemptsBounded
<1> QED
  BY <1>2, <1>3, <1>4

(* A retry that finds its row no longer failed has raced the dispatcher.   *)
LEMMA RetryCommitKeeps ==
  ASSUME IInv, NEW r \in Requests, RetryCommit(r)
  PROVE  IInv'
<1> USE DEF IInv
<1> DEFINE d == checked[r]
<1>1. /\ d \in Deliveries /\ Known(d)
      /\ checked' \in [Requests -> Deliveries \cup {None}]
      /\ checked'[r] = None /\ \A q \in Requests \ {r} : checked'[q] = checked[q]
      /\ UNCHANGED <<attempt, target, secret, secrets, pc, round, url, signer, cur,
                     loaded, outcome, faults, took, again, doubt>>
  BY DEF TypeOK, CreatedFirst, RetryCommit, config, dispatcher
<1>2. CASE UNCHANGED <<status, due, retriggers, raced>>
  <2>1. TypeOK' /\ HandOK'
    BY <1>1, <1>2 DEF TypeOK, HandOK
  <2>2. CreatedFirst'
    BY <1>1, <1>2 DEF CreatedFirst, Known
  <2>3. Answered' /\ Counted'
    BY <1>1, <1>2 DEF Answered, DeliveredWasTaken, RepeatOnlyInDoubt,
                      Counted, FailedWasExhausted, AttemptsBounded
  <2> QED
    BY <2>1, <2>2, <2>3
<1>3. CASE /\ status[d] # "purged"
           /\ status' = [status EXCEPT ![d] = "pending"]
           /\ due' = due \cup {d}
           /\ retriggers' = [retriggers EXCEPT ![d] = @ + 1]
           /\ raced' = IF status[d] = "failed" THEN raced ELSE raced \cup {d}
  <2>1. /\ status' \in [Deliveries -> Statuses]
        /\ status'[d] = "pending" /\ \A e \in Deliveries \ {d} : status'[e] = status[e]
        /\ retriggers' \in [Deliveries -> Nat]
        /\ retriggers'[d] = retriggers[d] + 1
        /\ \A e \in Deliveries \ {d} : retriggers'[e] = retriggers[e]
    BY <1>1, <1>3 DEF TypeOK, Statuses
  <2>2. raced \subseteq raced' /\ raced' \subseteq Deliveries /\ (status[d] # "failed" => d \in raced')
    BY <1>1, <1>3 DEF TypeOK
  <2> HIDE DEF d
  <2>3. TypeOK'
    BY <1>1, <1>3, <2>1, <2>2 DEF TypeOK
  <2>4. HandOK'
    BY <1>1, <2>1 DEF HandOK, TypeOK
  <2>5. CreatedFirst'
    BY <1>1, <1>3, <2>1 DEF CreatedFirst, Known, TypeOK
  <2>6. Answered'
    <3>1. ASSUME NEW e \in took, e \notin doubt \cup raced'
          PROVE  status'[e] \in {"delivered", "purged"} \/ (e = cur /\ outcome \in {"taken", "ok"})
      <4>1. CASE e = d
        BY <2>2, <3>1, <4>1 DEF Answered
      <4>2. CASE e # d
        BY <2>1, <2>2, <3>1, <4>2 DEF Answered, TypeOK
      <4> QED
        BY <4>1, <4>2
    <3>2. DeliveredWasTaken'
      BY <1>1, <2>1 DEF Answered, DeliveredWasTaken
    <3> QED
      BY <1>1, <2>2, <3>1, <3>2 DEF Answered, RepeatOnlyInDoubt
  <2>7. Counted'
    <3>1. ASSUME NEW e \in Deliveries
          PROVE  /\ status'[e] = "failed" => attempt[e] > MaxRetries
                 /\ attempt[e] <= MaxRetries + 1 + retriggers'[e]
                 /\ status'[e] \in {"none", "pending"} => attempt[e] <= MaxRetries + retriggers'[e]
      <4>1. attempt[e] \in Nat /\ retriggers[e] \in Nat
        BY DEF TypeOK
      <4>2. CASE e = d
        BY <2>1, <4>1, <4>2, BoundsAre DEF Counted, AttemptsBounded
      <4>3. CASE e # d
        BY <2>1, <4>3 DEF Counted, FailedWasExhausted, AttemptsBounded
      <4> QED
        BY <4>2, <4>3
    <3>2. ASSUME pc \in Attempting, status'[cur] = "pending"
          PROVE  loaded <= MaxRetries + retriggers'[cur]
      <4>1. cur \in Deliveries /\ loaded \in Nat /\ retriggers[cur] \in Nat
        BY <3>2 DEF HandOK, TypeOK
      <4>2. status[cur] = "pending"
        BY <1>3, <2>1, <3>2, <4>1 DEF HandOK
      <4>3. loaded <= MaxRetries + retriggers[cur]
        BY <3>2, <4>2 DEF Counted
      <4> QED
        BY <2>1, <4>1, <4>3, BoundsAre
    <3> QED
      BY <1>1, <3>1, <3>2 DEF Counted, FailedWasExhausted, AttemptsBounded
  <2> QED
    BY <2>3, <2>4, <2>5, <2>6, <2>7
<1> QED
  BY <1>2, <1>3 DEF RetryCommit

-----------------------------------------------------------------------------
(* The dispatcher.                                                         *)

LEMMA PollKeeps ==
  ASSUME IInv, Poll
  PROVE  IInv'
<1> USE DEF IInv
<1>1. /\ pc = "idle" /\ pc' = "config" /\ url' = target
      /\ round' \subseteq due /\ \A d \in round' : status[d] = "pending"
      /\ UNCHANGED <<status, attempt, due, target, secret, secrets, signer, cur, loaded, outcome,
                     checked, faults, took, again, doubt, retriggers, raced>>
  BY DEF Poll, rows, config, history
<1>2. cur = None /\ outcome = "none"
  BY <1>1 DEF HandOK, Attempting
<1>3. TypeOK'
  BY <1>1, <1>2, BoundsAre DEF TypeOK
<1>4. HandOK'
  BY <1>1, <1>2 DEF HandOK, Attempting
<1>5. CreatedFirst' /\ Answered' /\ Counted'
  BY <1>1, <1>2 DEF CreatedFirst, Known, Answered, DeliveredWasTaken, RepeatOnlyInDoubt,
                    Counted, FailedWasExhausted, AttemptsBounded, Attempting
<1> QED
  BY <1>3, <1>4, <1>5

(* The actions that may end the round leave the rest as EndKeeps wants it. *)
LEMMA RoundCut ==
  ASSUME IInv, EndRound, UNCHANGED <<rows, config, checked, faults, took, again, retriggers, raced>>
  PROVE  IInv'
<1>1. faults' \in 0..MaxFaults /\ checked' \in [Requests -> Deliveries \cup {None}]
  BY DEF IInv, TypeOK
<1> QED
  BY <1>1, EndKeeps

LEMMA ReadSecretKeeps ==
  ASSUME IInv, ReadSecret
  PROVE  IInv'
<1>1. CASE secret = None
  BY <1>1, RoundCut DEF ReadSecret
<1>2. CASE secret # None
  <2> USE DEF IInv
  <2>1. /\ pc = "config" /\ pc' = "next" /\ signer' = secret
        /\ UNCHANGED <<status, attempt, due, target, secret, secrets, round, url, cur, loaded, outcome,
                       checked, faults, took, again, doubt, retriggers, raced>>
    BY <1>2 DEF ReadSecret, rows, config
  <2>2. TypeOK'
    BY <2>1 DEF TypeOK
  <2>3. HandOK'
    BY <2>1 DEF HandOK, Attempting
  <2>4. CreatedFirst' /\ Answered' /\ Counted'
    BY <2>1 DEF CreatedFirst, Known, Answered, DeliveredWasTaken, RepeatOnlyInDoubt,
                Counted, FailedWasExhausted, AttemptsBounded, Attempting
  <2> QED
    BY <2>2, <2>3, <2>4
<1> QED
  BY <1>1, <1>2

(* A row that is loaded pending may be given to the receiver: if it took   *)
(* the delivery before, the answer is in doubt or a retry raced.           *)
LEMMA LoadKeeps ==
  ASSUME IInv, NEW d \in Deliveries, Load(d)
  PROVE  IInv'
<1>1. CASE status[d] = "purged"
  BY <1>1, RoundCut DEF Load
<1>2. CASE status[d] # "purged"
  <2> USE DEF IInv
  <2>1. /\ pc = "next" /\ d \in round /\ pc' = "post"
        /\ cur' = d /\ loaded' = attempt[d] /\ round' = round \ {d}
        /\ UNCHANGED <<status, attempt, due, target, secret, secrets, url, signer, outcome,
                       checked, faults, took, again, doubt, retriggers, raced>>
    BY <1>2 DEF Load, rows, config
  <2>2. status[d] = "pending" /\ outcome = "none"
    BY <1>2, <2>1 DEF HandOK, Attempting
  <2>3. TypeOK'
    BY <2>1 DEF TypeOK
  <2>4. HandOK'
    BY <2>1, <2>2 DEF HandOK, Attempting
  <2>5. CreatedFirst'
    BY <2>1 DEF CreatedFirst, Known
  <2>6. Answered'
    BY <2>1, <2>2 DEF Answered, DeliveredWasTaken, RepeatOnlyInDoubt
  <2>7. Counted'
    BY <2>1, <2>2 DEF Counted, FailedWasExhausted, AttemptsBounded
  <2> QED
    BY <2>3, <2>4, <2>5, <2>6, <2>7
<1> QED
  BY <1>1, <1>2

LEMMA PostKeeps ==
  ASSUME IInv, Post
  PROVE  IInv'
<1> USE DEF IInv
<1>1. /\ pc = "post" /\ pc' = "await"
      /\ UNCHANGED <<status, attempt, due, target, secret, secrets, round, url, signer, cur, loaded,
                     checked, faults, doubt, retriggers, raced>>
  BY DEF Post, rows, config
<1>2. /\ cur \in Deliveries /\ status[cur] \in {"pending", "purged"}
      /\ cur \in took => cur \in doubt \cup raced
  BY <1>1 DEF HandOK, Attempting, Answered
<1>3. \/ /\ outcome' = "taken" /\ took' = took \cup {cur}
         /\ again' \subseteq again \cup {cur} /\ again' \subseteq took'
         /\ cur \notin took => again' = again
      \/ /\ outcome' = "error" /\ took' = took /\ again' = again
  BY DEF Post, TypeOK
<1>4. again' \subseteq doubt \cup raced
  BY <1>2, <1>3 DEF Answered, RepeatOnlyInDoubt
<1>5. TypeOK'
  BY <1>1, <1>2, <1>3 DEF TypeOK
<1>6. HandOK'
  BY <1>1, <1>3 DEF HandOK, Attempting
<1>7. CreatedFirst'
  BY <1>1, <1>2, <1>3 DEF CreatedFirst, Known
<1>8. Answered'
  BY <1>1, <1>2, <1>3, <1>4 DEF Answered, DeliveredWasTaken, RepeatOnlyInDoubt, HandOK
<1>9. Counted'
  BY <1>1 DEF Counted, FailedWasExhausted, AttemptsBounded, Attempting
<1> QED
  BY <1>5, <1>6, <1>7, <1>8, <1>9

LEMMA AnswerKeeps ==
  ASSUME IInv, Answer
  PROVE  IInv'
<1> USE DEF IInv
<1>1. /\ pc = "await" /\ pc' = "record"
      /\ UNCHANGED <<status, attempt, due, target, secret, secrets, round, url, signer, cur, loaded,
                     checked, faults, took, again, retriggers, raced>>
  BY DEF Answer, rows, config
<1>2. cur \in Deliveries
  BY <1>1 DEF HandOK, Attempting
<1>3. \/ outcome = "taken" /\ outcome' = "ok" /\ doubt' = doubt
      \/ outcome = "taken" /\ outcome' = "error" /\ doubt' = doubt \cup {cur}
      \/ outcome = "error" /\ outcome' = "error" /\ doubt' = doubt
  BY DEF Answer
<1>4. TypeOK'
  BY <1>1, <1>2, <1>3 DEF TypeOK
<1>5. HandOK'
  BY <1>1, <1>3 DEF HandOK, Attempting
<1>6. CreatedFirst'
  BY <1>1 DEF CreatedFirst, Known
<1>7. Answered'
  BY <1>1, <1>3 DEF Answered, DeliveredWasTaken, RepeatOnlyInDoubt
<1>8. Counted'
  BY <1>1 DEF Counted, FailedWasExhausted, AttemptsBounded, Attempting
<1> QED
  BY <1>4, <1>5, <1>6, <1>7, <1>8

(* The row is still pending when its answer is booked: only an answer of   *)
(* its own makes it delivered, and only the last attempt makes it failed.  *)
LEMMA RecordKeeps ==
  ASSUME IInv, Record
  PROVE  IInv'
<1>1. CASE status[cur] = "purged"
  BY <1>1, RoundCut DEF Record, rows
<1>2. CASE status[cur] # "purged"
  <2> USE DEF IInv
  <2>1. /\ pc = "record" /\ Update /\ pc' = "next" /\ cur' = None /\ loaded' = 0 /\ outcome' = "none"
        /\ UNCHANGED <<target, secret, secrets, round, url, signer, checked, faults, doubt, took, again,
                       retriggers, raced>>
    BY <1>2 DEF Record, config
  <2>2. cur \in Deliveries /\ status[cur] = "pending" /\ outcome \in {"ok", "error"}
    BY <1>2, <2>1 DEF HandOK, Attempting
  <2>3. /\ loaded \in Nat /\ loaded <= MaxRetries + retriggers[cur] /\ retriggers[cur] \in Nat
    BY <2>1, <2>2 DEF Counted, TypeOK, Attempting
  <2>4. Conclusion \in {"delivered", "failed", "pending"}
    BY DEF Conclusion
  <2>5. /\ Conclusion = "delivered" <=> outcome = "ok"
        /\ Conclusion = "failed" => loaded + 1 > MaxRetries
        /\ Conclusion = "pending" => ~ (loaded + 1 > MaxRetries)
    BY DEF Conclusion
  <2> HIDE DEF Conclusion
  <2>6. /\ status' \in [Deliveries -> Statuses]
        /\ status'[cur] = Conclusion /\ \A e \in Deliveries \ {cur} : status'[e] = status[e]
        /\ attempt' \in [Deliveries -> Nat]
        /\ attempt'[cur] = loaded + 1 /\ \A e \in Deliveries \ {cur} : attempt'[e] = attempt[e]
        /\ due' \subseteq due
    BY <2>1, <2>2, <2>3, <2>4 DEF Update, TypeOK, Statuses
  <2>7. cur \notin round
    BY <2>2 DEF TypeOK
  <2>8. TypeOK'
    BY <2>1, <2>6, BoundsAre DEF TypeOK
  <2>9. HandOK'
    BY <2>1, <2>6, <2>7 DEF HandOK, Attempting, TypeOK
  <2>10. CreatedFirst'
    BY <2>1, <2>2, <2>4, <2>6 DEF CreatedFirst, Known, TypeOK
  <2>11. Answered'
    <3>1. DeliveredWasTaken'
      BY <2>1, <2>5, <2>6 DEF Answered, DeliveredWasTaken
    <3>2. ASSUME NEW e \in took, e \notin doubt \cup raced
          PROVE  status'[e] \in {"delivered", "purged"}
      <4>1. CASE e = cur
        BY <2>2, <2>5, <2>6, <3>2, <4>1 DEF Answered
      <4>2. CASE e # cur
        BY <2>6, <3>2, <4>2 DEF Answered, TypeOK
      <4> QED
        BY <4>1, <4>2
    <3> QED
      BY <2>1, <3>1, <3>2 DEF Answered, RepeatOnlyInDoubt
  <2>12. Counted'
    <3>1. ASSUME NEW e \in Deliveries
          PROVE  /\ status'[e] = "failed" => attempt'[e] > MaxRetries
                 /\ attempt'[e] <= MaxRetries + 1 + retriggers[e]
                 /\ status'[e] \in {"none", "pending"} => attempt'[e] <= MaxRetries + retriggers[e]
      <4>1. CASE e = cur
        BY <2>3, <2>4, <2>5, <2>6, <4>1, BoundsAre
      <4>2. CASE e # cur
        BY <2>6, <4>2 DEF Counted, FailedWasExhausted, AttemptsBounded
      <4> QED
        BY <4>1, <4>2
    <3> QED
      BY <2>1, <3>1 DEF Counted, FailedWasExhausted, AttemptsBounded, Attempting
  <2> QED
    BY <2>8, <2>9, <2>10, <2>11, <2>12
<1> QED
  BY <1>1, <1>2

(* Whatever cuts a round short.                                            *)
LEMMA FaultsKeep ==
  ASSUME IInv, Fault
  PROVE  IInv'
<1>1. faults' \in 0..MaxFaults
  BY BoundsAre DEF IInv, TypeOK, Fault, DatabaseFails, Restart
<1>2. EndRound /\ UNCHANGED <<rows, config, took, again, retriggers, raced>>
  BY DEF Fault, DatabaseFails, Restart
<1>3. CASE checked' = checked
  BY <1>1, <1>2, <1>3, EndKeeps DEF IInv, TypeOK
<1>4. CASE checked' = [r \in Requests |-> None]
  BY <1>1, <1>2, <1>4, EndKeeps
<1> QED
  BY <1>3, <1>4 DEF Fault, DatabaseFails, Restart

-----------------------------------------------------------------------------
LEMMA InitEstablishes == Init => IInv
<1> SUFFICES ASSUME Init PROVE IInv
  OBVIOUS
<1>1. TypeOK
  BY BoundsAre DEF Init, TypeOK, Statuses
<1>2. HandOK /\ CreatedFirst
  BY DEF Init, HandOK, CreatedFirst, Attempting, Known
<1>3. Answered
  BY DEF Init, Answered, DeliveredWasTaken, RepeatOnlyInDoubt
<1>4. Counted
  BY BoundsAre DEF Init, Counted, FailedWasExhausted, AttemptsBounded, Attempting
<1> QED
  BY <1>1, <1>2, <1>3, <1>4 DEF IInv

LEMMA StepKeeps == IInv /\ [Next]_vars => IInv'
<1> SUFFICES ASSUME IInv, [Next]_vars PROVE IInv'
  OBVIOUS
<1>1. ASSUME NEW d \in Deliveries, Create(d) \/ Elapse(d) \/ Purge(d) \/ Load(d)
      PROVE  IInv'
  BY <1>1, CreateKeeps, ElapseKeeps, PurgeKeeps, LoadKeeps
<1>2. ASSUME NEW r \in Requests, RetryCommit(r) \/ \E d \in Deliveries : RetryCheck(r, d)
      PROVE  IInv'
  BY <1>2, RetryCommitKeeps, RetryCheckKeeps
<1>3. CASE SetTarget \/ ClearTarget \/ Rotate
  BY <1>3, SettingsKeep
<1>4. CASE Poll \/ ReadSecret \/ Post \/ Answer \/ Record
  BY <1>4, PollKeeps, ReadSecretKeeps, PostKeeps, AnswerKeeps, RecordKeeps
<1>5. CASE LastLoaded \/ PostRaises
  BY <1>5, RoundCut DEF LastLoaded, PostRaises
<1>6. CASE Fault
  BY <1>6, FaultsKeep
<1>7. CASE UNCHANGED vars
  <2>1. UNCHANGED <<status, attempt, due, target, secret, secrets, pc, round, url, signer, cur, loaded,
                    outcome, checked, faults, took, again, doubt, retriggers, raced>>
    BY <1>7 DEF vars, rows, config, dispatcher, history
  <2>2. TypeOK' /\ HandOK'
    BY <2>1 DEF IInv, TypeOK, HandOK
  <2>3. CreatedFirst' /\ Answered' /\ Counted'
    BY <2>1 DEF IInv, CreatedFirst, Known, Answered, DeliveredWasTaken, RepeatOnlyInDoubt,
                Counted, FailedWasExhausted, AttemptsBounded
  <2> QED
    BY <2>2, <2>3 DEF IInv
<1> QED
  BY <1>1, <1>2, <1>3, <1>4, <1>5, <1>6, <1>7 DEF Next, Panel, Dispatcher

LEMMA Invariance == Spec => []IInv
BY InitEstablishes, StepKeeps, PTL DEF Spec

(* Every variable of the webhook half keeps its type, however rounds,      *)
(* retries, settings, purges and restarts interleave.                      *)
THEOREM WebhookTypeCorrect == Spec => []TypeOK
<1>1. IInv => TypeOK
  BY DEF IInv
<1> QED
  BY <1>1, Invariance, PTL

(* No answer is ever booked on a row whose delivery the receiver did not   *)
(* take.                                                                   *)
THEOREM DeliveredMeansTaken == Spec => []DeliveredWasTaken
<1>1. IInv => DeliveredWasTaken
  BY DEF IInv, Answered
<1> QED
  BY <1>1, Invariance, PTL

(* The receiver is asked twice only about a delivery whose answer was lost *)
(* or that a manual retry raced.                                           *)
THEOREM RepeatsAreInDoubt == Spec => []RepeatOnlyInDoubt
<1>1. IInv => RepeatOnlyInDoubt
  BY DEF IInv, Answered
<1> QED
  BY <1>1, Invariance, PTL

(* A row is failed only after all of its attempts.                         *)
THEOREM FailedMeansExhausted == Spec => []FailedWasExhausted
<1>1. IInv => FailedWasExhausted
  BY DEF IInv, Counted
<1> QED
  BY <1>1, Invariance, PTL

(* The count of a row never exceeds the backoff chain by more than its     *)
(* manual retries, whatever count the dispatcher had loaded before them.   *)
THEOREM AttemptsAreBounded == Spec => []AttemptsBounded
<1>1. IInv => AttemptsBounded
  BY DEF IInv, Counted
<1> QED
  BY <1>1, Invariance, PTL

-----------------------------------------------------------------------------
(* The contract of a delivery.                                             *)

(* What the dispatcher loaded before the POST is still the count of the    *)
(* row: nobody else counts, and only a purge takes the count away.         *)
CountIsFresh == pc \in Attempting /\ status[cur] # "purged" => loaded = attempt[cur]

LEMMA CountStaysFresh == IInv /\ CountIsFresh /\ [Next]_vars => CountIsFresh'
<1> SUFFICES ASSUME IInv, CountIsFresh, [Next]_vars PROVE CountIsFresh'
  OBVIOUS
<1> USE DEF rows, config, dispatcher, history
<1>1. /\ status \in [Deliveries -> Statuses] /\ attempt \in [Deliveries -> Nat]
      /\ checked \in [Requests -> Deliveries \cup {None}]
      /\ pc \in Attempting => cur \in Deliveries /\ status[cur] \in {"pending", "purged"}
  BY DEF IInv, TypeOK, HandOK
<1>2. ASSUME EndRound PROVE CountIsFresh'
  BY <1>2 DEF EndRound, CountIsFresh, Attempting
<1>3. ASSUME UNCHANGED <<status, attempt, pc, cur, loaded>> PROVE CountIsFresh'
  BY <1>3 DEF CountIsFresh
<1>4. ASSUME NEW d \in Deliveries, Create(d) PROVE CountIsFresh'
  BY <1>1, <1>4 DEF Create, CountIsFresh
<1>5. ASSUME NEW d \in Deliveries, Purge(d) PROVE CountIsFresh'
  BY <1>1, <1>5 DEF Purge, CountIsFresh
<1>6. ASSUME NEW r \in Requests, RetryCommit(r) PROVE CountIsFresh'
  <2>1. checked[r] \in Deliveries
    BY <1>1, <1>6 DEF RetryCommit
  <2>2. pc' = pc /\ cur' = cur /\ loaded' = loaded /\ attempt' = attempt
    BY <1>6 DEF RetryCommit
  <2>3. \A d \in Deliveries : status[d] = "purged" => status'[d] = "purged"
    BY <1>1, <1>6, <2>1 DEF RetryCommit
  <2> QED
    BY <1>1, <2>2, <2>3 DEF CountIsFresh
<1>7. ASSUME NEW d \in Deliveries, Load(d) PROVE CountIsFresh'
  <2>1. CASE EndRound
    BY <1>2, <2>1
  <2>2. CASE cur' = d /\ loaded' = attempt[d] /\ UNCHANGED <<status, attempt>>
    BY <2>2 DEF CountIsFresh
  <2> QED
    BY <1>7, <2>1, <2>2 DEF Load
<1>8. CASE Post \/ Answer
  BY <1>8 DEF Post, Answer, CountIsFresh, Attempting
<1>9. CASE Record
  <2>1. CASE EndRound
    BY <1>2, <2>1
  <2>2. CASE pc' = "next"
    BY <2>2 DEF CountIsFresh, Attempting
  <2> QED
    BY <1>9, <2>1, <2>2 DEF Record
<1>10. CASE Poll
  BY <1>10 DEF Poll, CountIsFresh, Attempting
<1>11. CASE ReadSecret
  <2>1. CASE EndRound
    BY <1>2, <2>1
  <2>2. CASE pc' = "next"
    BY <2>2 DEF CountIsFresh, Attempting
  <2> QED
    BY <1>11, <2>1, <2>2 DEF ReadSecret
<1>12. CASE LastLoaded \/ PostRaises \/ Fault
  BY <1>2, <1>12 DEF LastLoaded, PostRaises, Fault, DatabaseFails, Restart
<1>13. CASE SetTarget \/ ClearTarget \/ Rotate
  BY <1>3, <1>13 DEF SetTarget, ClearTarget, Rotate
<1>14. ASSUME NEW d \in Deliveries, Elapse(d) \/ \E r \in Requests : RetryCheck(r, d)
       PROVE  CountIsFresh'
  BY <1>3, <1>14 DEF Elapse, RetryCheck
<1>15. CASE UNCHANGED vars
  BY <1>3, <1>15 DEF vars
<1> QED
  BY <1>4, <1>5, <1>6, <1>7, <1>8, <1>9, <1>10, <1>11, <1>12, <1>13, <1>14, <1>15
     DEF Next, Panel, Dispatcher

LEMMA CountInvariance == Spec => []CountIsFresh
<1>1. Init => CountIsFresh
  BY DEF Init, CountIsFresh, Attempting
<1> QED
  BY <1>1, CountStaysFresh, Invariance, PTL DEF Spec

Budget == [d \in Deliveries |-> MaxRetries + 1 + retriggers[d]]

LEMMA DeliveryStarts == Init => Contract!DeliveryInit
BY BoundsAre DEF Init, Contract!DeliveryInit

(* A step that leaves the row, its count, its retries and the receiver     *)
(* alone is none of the contract's.                                        *)
LEMMA DeliveryStutters ==
  ASSUME UNCHANGED <<status, took, attempt, retriggers>>
  PROVE  [Contract!DeliveryNext]_Contract!deliveryVars
BY DEF Contract!deliveryVars

LEMMA StepKeepsDelivery ==
  IInv /\ CountIsFresh /\ [Next]_vars => [Contract!DeliveryNext]_Contract!deliveryVars
<1> SUFFICES ASSUME IInv, CountIsFresh, [Next]_vars
             PROVE  [Contract!DeliveryNext]_Contract!deliveryVars
  OBVIOUS
<1> DEFINE Goal == [Contract!DeliveryNext]_Contract!deliveryVars
<1> USE DEF rows, config, dispatcher, history
<1>1. /\ status \in [Deliveries -> Statuses] /\ attempt \in [Deliveries -> Nat]
      /\ retriggers \in [Deliveries -> Nat] /\ took \subseteq Deliveries
      /\ checked \in [Requests -> Deliveries \cup {None}] /\ loaded \in Nat
      /\ MaxRetries \in Nat
  BY BoundsAre DEF IInv, TypeOK
<1>2. pc \in Attempting => cur \in Deliveries /\ status[cur] \in {"pending", "purged"}
  BY DEF IInv, HandOK
<1>3. ASSUME NEW d \in Deliveries, Create(d) PROVE Goal
  <2>1. Contract!Arises(d)
    BY <1>3 DEF Create, Contract!Arises
  <2> QED
    BY <2>1 DEF Contract!DeliveryNext
<1>4. ASSUME NEW d \in Deliveries, Purge(d) PROVE Goal
  <2>1. Budget' = [Budget EXCEPT ![d] = MaxRetries + 1]
    <3>1. retriggers' = [retriggers EXCEPT ![d] = 0]
      BY <1>4 DEF Purge
    <3>2. \A e \in Deliveries : MaxRetries + 1 + retriggers'[e]
                                = IF e = d THEN MaxRetries + 1 ELSE MaxRetries + 1 + retriggers[e]
      BY <1>1, <3>1
    <3> QED
      BY <3>2 DEF Budget
  <2>2. Contract!Forgets(d)
    BY <1>4, <2>1 DEF Purge, Contract!Forgets, Budget
  <2> QED
    BY <2>2 DEF Contract!DeliveryNext
<1>5. ASSUME NEW r \in Requests, RetryCommit(r) PROVE Goal
  <2>1. PICK d \in Deliveries : d = checked[r] /\ status[d] # "none"
    BY <1>1, <1>5 DEF RetryCommit, IInv, CreatedFirst, Known
  <2>2. CASE status[d] = "purged"
    BY <1>5, <2>1, <2>2, DeliveryStutters DEF RetryCommit
  <2>3. CASE status[d] # "purged"
    <3>1. /\ status' = [status EXCEPT ![d] = "pending"]
          /\ retriggers' = [retriggers EXCEPT ![d] = @ + 1]
          /\ UNCHANGED <<took, attempt>>
      BY <1>5, <2>1, <2>3 DEF RetryCommit
    <3>2. Budget' = [Budget EXCEPT ![d] = @ + 1]
      <4>1. \A e \in Deliveries : MaxRetries + 1 + retriggers'[e]
                 = IF e = d THEN MaxRetries + 1 + retriggers[e] + 1
                            ELSE MaxRetries + 1 + retriggers[e]
        BY <1>1, <3>1
      <4> QED
        BY <4>1 DEF Budget
    <3>3. Contract!Reopens(d)
      BY <2>1, <2>3, <3>1, <3>2 DEF Contract!Reopens, Budget
    <3> QED
      BY <2>1, <3>3 DEF Contract!DeliveryNext
  <2> QED
    BY <2>2, <2>3
<1>6. CASE Post
  <2>1. cur \in Deliveries /\ status[cur] \in {"pending", "purged"}
    BY <1>2, <1>6 DEF Post, Attempting
  <2>2. UNCHANGED <<status, attempt, retriggers>>
    BY <1>6 DEF Post
  <2>3. CASE took' = took \cup {cur}
    <3>1. Contract!Arrives(cur)
      BY <2>1, <2>2, <2>3 DEF Contract!Arrives
    <3> QED
      BY <2>1, <3>1 DEF Contract!DeliveryNext
  <2>4. CASE took' = took
    BY <2>2, <2>4, DeliveryStutters
  <2> QED
    BY <1>6, <2>3, <2>4 DEF Post
<1>7. CASE Record
  <2>1. UNCHANGED <<took, retriggers>>
    BY <1>7 DEF Record
  <2>2. pc \in Attempting /\ cur \in Deliveries /\ status[cur] \in {"pending", "purged"}
    BY <1>2, <1>7 DEF Record, Attempting
  <2>3. CASE status[cur] = "purged"
    BY <1>7, <2>1, <2>3, DeliveryStutters DEF Record
  <2>4. CASE status[cur] = "pending"
    <3>1. /\ status' = [status EXCEPT ![cur] = Conclusion]
          /\ attempt' = [attempt EXCEPT ![cur] = loaded + 1]
      BY <1>7, <2>4 DEF Record, Update
    <3>2. loaded = attempt[cur] /\ loaded <= MaxRetries + retriggers[cur]
      BY <2>2, <2>4 DEF CountIsFresh, IInv, Counted
    <3>3. Budget[cur] = MaxRetries + 1 + retriggers[cur] /\ attempt[cur] < Budget[cur]
      BY <1>1, <2>2, <3>2 DEF Budget
    <3>4. attempt' = [attempt EXCEPT ![cur] = @ + 1] /\ attempt'[cur] = loaded + 1
      BY <1>1, <2>2, <3>1, <3>2
    <3>5. \/ cur \in took /\ status' = [status EXCEPT ![cur] = "delivered"]
          \/ attempt'[cur] > MaxRetries /\ status' = [status EXCEPT ![cur] = "failed"]
          \/ attempt'[cur] <= MaxRetries /\ status' = status
      <4>1. CASE outcome = "ok"
        BY <3>1, <4>1 DEF Conclusion, IInv, Answered
      <4>2. CASE outcome # "ok" /\ loaded + 1 > MaxRetries
        BY <3>1, <3>4, <4>2 DEF Conclusion
      <4>3. CASE outcome # "ok" /\ ~ (loaded + 1 > MaxRetries)
        <5>1. Conclusion = status[cur]
          BY <2>4, <4>3 DEF Conclusion
        <5>2. status' = status
          BY <1>1, <2>2, <3>1, <5>1
        <5> QED
          BY <1>1, <3>4, <4>3, <5>2
      <4> QED
        BY <4>1, <4>2, <4>3
    <3>6. Budget' = Budget
      BY <2>1 DEF Budget
    <3>7. Contract!Counts(cur)
      BY <2>1, <2>4, <3>3, <3>4, <3>5, <3>6 DEF Contract!Counts, Budget
    <3> QED
      BY <2>2, <3>7 DEF Contract!DeliveryNext
  <2> QED
    BY <2>2, <2>3, <2>4
<1>8. CASE UNCHANGED <<status, took, attempt, retriggers>>
  BY <1>8, DeliveryStutters
<1>9. ASSUME NEW d \in Deliveries,
             Elapse(d) \/ Load(d) \/ \E r \in Requests : RetryCheck(r, d)
      PROVE  Goal
  BY <1>8, <1>9 DEF Elapse, Load, RetryCheck
<1>10. CASE SetTarget \/ ClearTarget \/ Rotate
  BY <1>8, <1>10 DEF SetTarget, ClearTarget, Rotate
<1>11. CASE Poll \/ ReadSecret \/ LastLoaded \/ PostRaises \/ Answer
  BY <1>8, <1>11 DEF Poll, ReadSecret, LastLoaded, PostRaises, Answer
<1>12. CASE Fault
  BY <1>8, <1>12 DEF Fault, DatabaseFails, Restart
<1>13. CASE UNCHANGED vars
  BY <1>8, <1>13 DEF vars
<1> QED
  BY <1>3, <1>4, <1>5, <1>6, <1>7, <1>9, <1>10, <1>11, <1>12, <1>13 DEF Next, Panel, Dispatcher

(* The rows implement the contract of a delivery, whatever the dispatcher, *)
(* the panel's requests and the faults between them do: step by step, each *)
(* is a step of the contract or none.                                      *)
THEOREM DispatcherKeepsContract == Spec => KeepsDelivery
<1> QED
  BY DeliveryStarts, StepKeepsDelivery, Invariance, CountInvariance, PTL
     DEF Spec, KeepsDelivery, Contract!DeliverySpec
=============================================================================
