---------------------------- MODULE ThrottleProofs ---------------------------
(***************************************************************************)
(* Proofs about Throttle, for every rate, every cost of a message, every   *)
(* backoff and every number of restarts.                                   *)
(***************************************************************************)
EXTENDS Throttle, TLAPS

LEMMA Parameters ==
  /\ Capacity \in Nat \ {0} /\ Token \in Nat \ {0} /\ MaxCost \in Nat \ {0}
  /\ Poll \in Nat \ {0} /\ BackoffFirst \in Nat \ {0} /\ BackoffCap \in Nat
  /\ Poll <= BackoffCap /\ BackoffFirst <= BackoffCap
  /\ MaxAge \in Nat /\ BackoffCap < MaxAge /\ MaxBoots \in Nat
BY ThrottleAssumption DEF ThrottleAssumption

USE Parameters

-----------------------------------------------------------------------------
(* Arithmetic.                                                             *)

LEMMA MinOfTwo ==
  ASSUME NEW a \in Int, NEW b \in Int
  PROVE  Min({a, b}) = IF a <= b THEN a ELSE b
<1> DEFINE c == IF a <= b THEN a ELSE b
           P(x) == x \in {a, b} /\ \A y \in {a, b} : x <= y
<1>1. P(c)
  OBVIOUS
<1>2. \A x, y : P(x) /\ P(y) => x = y
  OBVIOUS
<1> QED
  BY <1>1, <1>2 DEF Min

LEMMA MaxOfTwo ==
  ASSUME NEW a \in Int, NEW b \in Int
  PROVE  Max({a, b}) = IF a >= b THEN a ELSE b
<1> DEFINE c == IF a >= b THEN a ELSE b
           P(x) == x \in {a, b} /\ \A y \in {a, b} : x >= y
<1>1. P(c)
  OBVIOUS
<1>2. \A x, y : P(x) /\ P(y) => x = y
  OBVIOUS
<1> QED
  BY <1>1, <1>2 DEF Max

(* A message costs a token at least, and no more than the longest does.    *)
LEMMA Costs ==
  ASSUME NEW cost \in 1..MaxCost
  PROVE  cost * Token \in Nat /\ Token <= cost * Token /\ cost * Token <= Debt + Token
<1>1. /\ MaxCost \in Nat /\ cost \in Nat /\ Token \in Nat
      /\ cost - 1 \in Nat /\ MaxCost - cost \in Nat
  OBVIOUS
<1>2. (cost - 1) * Token \in Nat /\ (MaxCost - cost) * Token \in Nat
  BY <1>1
<1>3. cost * Token = (cost - 1) * Token + Token
  BY <1>1
<1>4. Debt + Token = (MaxCost - cost) * Token + cost * Token
  BY <1>1 DEF Debt
<1> QED
  BY <1>1, <1>2, <1>3, <1>4

LEMMA Sizes == Full \in Nat /\ Debt \in Nat
<1>1. Capacity \in Nat /\ Token \in Nat /\ MaxCost - 1 \in Nat
  OBVIOUS
<1> QED
  BY <1>1 DEF Full, Debt

(* A backoff is a length of time within its bounds.                        *)
LEMMA Backoffs ==
  ASSUME ThrTypeOK
  PROVE  NextBackoff \in BackoffFirst..BackoffCap
<1>1. backoff \in Nat /\ backoff * 2 \in Nat
  BY DEF ThrTypeOK, None
<1>2. Min({backoff * 2, BackoffCap}) = IF backoff * 2 <= BackoffCap THEN backoff * 2 ELSE BackoffCap
  BY <1>1, MinOfTwo
<1> QED
  BY <1>1, <1>2 DEF ThrTypeOK, NextBackoff, None

-----------------------------------------------------------------------------
(* The inductive invariant.                                                *)

(* What was taken above the rate is gone from the bucket, but for what     *)
(* each restart has given back.                                            *)
Meter == /\ excess <= boots * (Full + Debt) + (Full - Refilled)
         /\ boots = 0 => excess = Full - Refilled

(* The time slept since the heartbeat, and what is left of the sleep, are  *)
(* within one backoff: a sleep begins with a heartbeat, or blind.          *)
OneSleep == blind \/ slept + rest <= BackoffCap

ThrIInv == ThrTypeOK /\ Meter /\ OneSleep

LEMMA RefilledIs ==
  ASSUME ThrTypeOK
  PROVE  /\ Refilled = IF Full <= tokens + idle THEN Full ELSE tokens + idle
         /\ Refilled \in -Debt..Full
<1>1. tokens + idle \in Int /\ tokens + idle >= -Debt
  BY Sizes DEF ThrTypeOK
<1>2. Refilled = IF Full <= tokens + idle THEN Full ELSE tokens + idle
  BY <1>1, Sizes, MinOfTwo DEF Refilled
<1> QED
  BY <1>1, <1>2, Sizes

(* Every step keeps the types.                                             *)
LEMMA TickKeepsTypes == ThrTypeOK /\ ThrTick => ThrTypeOK'
<1> SUFFICES ASSUME ThrTypeOK, ThrTick PROVE ThrTypeOK'
  OBVIOUS
<1>1. idle' \in 0..Full + Debt
  BY Sizes, MinOfTwo DEF ThrTypeOK, ThrTick
<1>2. excess' \in Nat
  BY MaxOfTwo DEF ThrTypeOK, ThrTick
<1>3. slept' \in 0..MaxAge + 1
  BY MinOfTwo DEF ThrTypeOK, ThrTick
<1>4. waited' \in 0..MaxAge
  BY MinOfTwo DEF ThrTypeOK, ThrTick
<1>5. rest' \in 0..BackoffCap
  BY DEF ThrTypeOK, ThrTick
<1> QED
  BY <1>1, <1>2, <1>3, <1>4, <1>5 DEF ThrTypeOK, ThrTick

LEMMA TakeKeepsTypes ==
  ASSUME ThrTypeOK, NEW cost \in 1..MaxCost, TryTake(cost)
  PROVE  ThrTypeOK'
<1>1. tokens' \in -Debt..Full
  BY RefilledIs, Costs, Sizes DEF TryTake, MayTake
<1>2. excess' \in Nat
  BY Costs DEF ThrTypeOK, TryTake
<1>3. idle' \in 0..Full + Debt
  BY Sizes DEF TryTake
<1> QED
  BY <1>1, <1>2, <1>3 DEF ThrTypeOK, TryTake, heart

LEMMA StepKeepsTypes == ThrTypeOK /\ [ThrNext]_thrVars => ThrTypeOK'
<1> SUFFICES ASSUME ThrTypeOK, [ThrNext]_thrVars PROVE ThrTypeOK'
  OBVIOUS
<1>1. CASE ThrTick
  BY <1>1, TickKeepsTypes
<1>2. ASSUME NEW cost \in 1..MaxCost, TryTake(cost) PROVE ThrTypeOK'
  BY <1>2, TakeKeepsTypes
<1>3. CASE Wake \/ Connects \/ Submitted \/ Drained
  BY <1>3 DEF ThrTypeOK, Wake, Connects, Submitted, Drained, Goto, bucket, heart
<1>4. CASE EndIteration
  <2>1. blind' \in BOOLEAN
    BY <1>4, Zenon DEF EndIteration, WriteStatus
  <2> QED
    BY <1>4, <2>1 DEF ThrTypeOK, EndIteration, WriteStatus, Sleep, bucket
<1>5. CASE LoopRaises
  <2>1. backoff' \in BackoffFirst..BackoffCap
    BY <1>5, Backoffs DEF LoopRaises
  <2>2. linked' \in BOOLEAN /\ blind' \in BOOLEAN
    BY <1>5, Zenon DEF LoopRaises, WriteStatus
  <2> QED
    BY <1>5, <2>1, <2>2 DEF ThrTypeOK, LoopRaises, WriteStatus, Sleep, bucket
<1>6. CASE ThrBoot
  <2>1. linked' \in BOOLEAN
    BY <1>6, Zenon DEF ThrBoot
  <2> QED
    BY <1>6, <2>1, Sizes DEF ThrTypeOK, ThrBoot, heart
<1>7. CASE UNCHANGED thrVars
  BY <1>7 DEF ThrTypeOK, thrVars, bucket, heart
<1> QED
  BY <1>1, <1>2, <1>3, <1>4, <1>5, <1>6, <1>7 DEF ThrNext

(* Every step keeps the balance of the meter.                              *)
LEMMA StepKeepsMeter == ThrTypeOK /\ Meter /\ [ThrNext]_thrVars => Meter'
<1> SUFFICES ASSUME ThrTypeOK, Meter, [ThrNext]_thrVars PROVE Meter'
  OBVIOUS
<1> DEFINE R == IF Full <= tokens + idle THEN Full ELSE tokens + idle
<1>1. ThrTypeOK'
  BY StepKeepsTypes
<1>2. Refilled = R /\ R \in -Debt..Full
  BY RefilledIs
<1>3. Refilled' = R'
  <2>1. tokens' + idle' \in Int
    BY <1>1 DEF ThrTypeOK
  <2> QED
    BY <2>1, Sizes, MinOfTwo DEF Refilled
<1>4. boots * (Full + Debt) \in Nat
  BY Sizes DEF ThrTypeOK
<1>5. CASE UNCHANGED <<bucket, boots>>
  BY <1>2, <1>3, <1>5 DEF Meter, bucket
<1>6. CASE ThrTick
  <2>1. /\ tokens' = tokens /\ boots' = boots
        /\ idle' = IF idle + 1 <= Full + Debt THEN idle + 1 ELSE Full + Debt
        /\ excess' = IF excess - 1 >= 0 THEN excess - 1 ELSE 0
    BY <1>6, Sizes, MinOfTwo, MaxOfTwo DEF ThrTypeOK, ThrTick
  <2>2. R' = IF R < Full THEN R + 1 ELSE Full
    BY <2>1, Sizes DEF ThrTypeOK
  <2> QED
    BY <1>2, <1>3, <1>4, <2>1, <2>2, Sizes DEF ThrTypeOK, Meter
<1>7. ASSUME NEW cost \in 1..MaxCost, TryTake(cost) PROVE Meter'
  <2>1. cost * Token \in Nat
    BY Costs
  <2>2. CASE MayTake
    <3>1. R' = R - cost * Token
      BY <1>2, <1>7, <2>1, <2>2, Sizes DEF TryTake
    <3> QED
      BY <1>2, <1>3, <1>4, <1>7, <2>1, <2>2, <3>1, Sizes DEF ThrTypeOK, Meter, TryTake
  <2>3. CASE ~MayTake
    <3>1. R' = R
      BY <1>2, <1>7, <2>3, Sizes DEF TryTake
    <3> QED
      BY <1>2, <1>3, <1>7, <2>3, <3>1 DEF Meter, TryTake
  <2> QED
    BY <2>2, <2>3
<1>8. CASE ThrBoot
  <2>1. R' = Full /\ boots' = boots + 1 /\ excess' = excess
    BY <1>8, Sizes DEF ThrBoot
  <2>2. boots' * (Full + Debt) = boots * (Full + Debt) + Full + Debt
    BY <2>1, Sizes DEF ThrTypeOK
  <2> QED
    BY <1>2, <1>3, <1>4, <2>1, <2>2, Sizes DEF ThrTypeOK, Meter
<1> QED
  BY <1>5, <1>6, <1>7, <1>8
     DEF ThrNext, thrVars, Wake, Connects, Submitted, Drained, EndIteration,
         LoopRaises, Goto, Sleep

(* Every sleep begins with a heartbeat, or blind.                          *)
LEMMA StepKeepsOneSleep == ThrTypeOK /\ OneSleep /\ [ThrNext]_thrVars => OneSleep'
<1> SUFFICES ASSUME ThrTypeOK, OneSleep, [ThrNext]_thrVars PROVE OneSleep'
  OBVIOUS
<1>1. CASE ThrTick
  BY <1>1, MinOfTwo DEF ThrTypeOK, OneSleep, ThrTick
<1>2. CASE EndIteration
  BY <1>2 DEF OneSleep, EndIteration, WriteStatus, Sleep
<1>3. CASE LoopRaises
  BY <1>3, Backoffs DEF OneSleep, LoopRaises, WriteStatus, Sleep
<1>4. CASE ThrBoot
  BY <1>4 DEF ThrTypeOK, OneSleep, ThrBoot, heart
<1>5. CASE UNCHANGED <<heart, rest>>
  BY <1>5 DEF OneSleep, heart
<1> QED
  BY <1>1, <1>2, <1>3, <1>4, <1>5
     DEF ThrNext, thrVars, Wake, Connects, Submitted, Drained, TryTake, Goto

LEMMA ThrInvariant == ThrSpec => []ThrIInv
<1>1. ThrInit => ThrIInv
  <2> SUFFICES ASSUME ThrInit PROVE ThrIInv
    OBVIOUS
  <2>1. ThrTypeOK
    <3>1. linked \in BOOLEAN /\ blind \in BOOLEAN
      BY Zenon DEF ThrInit
    <3> QED
      BY <3>1, Sizes DEF ThrInit, ThrTypeOK, None
  <2> QED
    BY <2>1, Sizes, RefilledIs DEF ThrInit, ThrIInv, Meter, OneSleep
<1>2. ThrIInv /\ [ThrNext]_thrVars => ThrIInv'
  BY StepKeepsTypes, StepKeepsMeter, StepKeepsOneSleep DEF ThrIInv
<1> QED
  BY <1>1, <1>2, PTL DEF ThrSpec

-----------------------------------------------------------------------------
(* The balance never falls below what one message, sent for the last       *)
(* token, leaves of it, and never exceeds what the bucket holds.           *)
THEOREM ThrTypeCorrect == ThrSpec => []ThrTypeOK
BY ThrInvariant, PTL DEF ThrIInv

(* For every rate: no window of time holds more segments than the rate     *)
(* allows for its length, a full bucket, and what one long message         *)
(* overdraws, for each time that the worker has started.                   *)
THEOREM TheRateIsBounded == ThrSpec => []RateIsBounded
<1>1. ThrIInv => RateIsBounded
  <2> SUFFICES ASSUME ThrIInv PROVE RateIsBounded
    OBVIOUS
  <2>1. (boots + 1) * (Full + Debt) = boots * (Full + Debt) + (Full + Debt)
    BY Sizes DEF ThrIInv, ThrTypeOK
  <2>2. boots * (Full + Debt) \in Nat
    BY Sizes DEF ThrIInv, ThrTypeOK
  <2>3. Full - Refilled <= Full + Debt /\ Full - Refilled \in Int
    BY Sizes, RefilledIs DEF ThrIInv
  <2> QED
    BY <2>1, <2>2, <2>3, Sizes DEF ThrIInv, ThrTypeOK, Meter, RateIsBounded
<1> QED
  BY <1>1, ThrInvariant, PTL

(* For every rate and every sequence of takes and refusals: the bucket of  *)
(* a worker that has not been restarted owes, to the token, what was taken *)
(* too early.                                                              *)
THEOREM TheBucketIsAMeter == ThrSpec => []BucketIsMeter
<1>1. ThrIInv => BucketIsMeter
  BY Sizes, RefilledIs DEF ThrIInv, ThrTypeOK, Meter, BucketIsMeter
<1> QED
  BY <1>1, ThrInvariant, PTL

(* For every poll, backoff and age that healthz tolerates: a heartbeat of  *)
(* a worker that loops and can write is stale only because the modem kept  *)
(* the worker waiting.                                                     *)
THEOREM StaleHeartbeatMeansBusy == ThrSpec => []StaleMeansBusy
<1>1. ThrIInv => StaleMeansBusy
  BY DEF ThrIInv, ThrTypeOK, OneSleep, StaleMeansBusy, Degraded
<1> QED
  BY <1>1, ThrInvariant, PTL
=============================================================================
