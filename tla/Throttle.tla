------------------------------- MODULE Throttle -----------------------------
(***************************************************************************)
(* The worker's loop as time sees it (worker/main.py): TokenBucket, the    *)
(* reconnect backoff and the heartbeat that healthz judges.  Time passes   *)
(* while the worker sleeps and while it waits for the modem; what the      *)
(* queue holds is Outbox's matter, here any message may be due.            *)
(*                                                                         *)
(* The definitions named Bug... are faulty variants of the one that        *)
(* follows: no action uses them, they show that the properties can fail.   *)
(***************************************************************************)
EXTENDS Integers, FiniteSetsExt

CONSTANTS Capacity,     \* messages_per_minute, in tokens
          Token,        \* a token, in what is refilled in a unit of time
          MaxCost,      \* segments of the longest message
          Poll,         \* POLL_INTERVAL_SECONDS
          BackoffFirst, \* BACKOFF_INITIAL_SECONDS
          BackoffCap,   \* BACKOFF_CAP_SECONDS
          MaxAge,       \* HEARTBEAT_MAX_AGE_SECONDS
          MaxBoots      \* bound: restarts of the worker

ASSUME ThrottleAssumption ==
  /\ {Capacity, Token, MaxCost, Poll, BackoffFirst} \subseteq Nat \ {0}
  /\ BackoffCap \in Nat /\ Poll <= BackoffCap /\ BackoffFirst <= BackoffCap
  /\ MaxAge \in Nat /\ BackoffCap < MaxAge /\ MaxBoots \in Nat

Full == Capacity * Token
Debt == (MaxCost - 1) * Token

VARIABLES tokens,    \* _tokens
          idle,      \* time since _last_refill; more than would fill it counts as that
          doing,     \* "connect", "drain", "submit", "inbound", "sleep"
          linked,    \* connected
          backoff,   \* its length, or None
          rest,      \* what is left of the sleep
          slept,     \* time slept since the heartbeat; MaxAge + 1 stands for more
          waited,    \* time spent in the modem's calls since; so does MaxAge
          blind,     \* history: the last attempt to write the status failed
          excess,    \* history: what was taken above the rate, in the window of time
                     \* up to now in which that is the most
          boots      \* bound

bucket == <<tokens, idle, excess>>
heart == <<slept, waited, blind>>
thrVars == <<bucket, heart, doing, linked, backoff, rest, boots>>

None == 0

ThrInit == /\ tokens = Full /\ idle = 0 /\ excess = 0
           /\ doing = "connect" /\ linked = FALSE /\ backoff = None
           /\ rest = 0 /\ slept = 0 /\ waited = 0 /\ blind = FALSE
           /\ boots = 0

-----------------------------------------------------------------------------
ThrTick == /\ IF doing = "sleep"
                THEN /\ rest > 0 /\ rest' = rest - 1
                     /\ slept' = Min({slept + 1, MaxAge + 1}) /\ UNCHANGED waited
                ELSE /\ doing # "drain"
                     /\ waited' = Min({waited + 1, MaxAge})
                     /\ UNCHANGED <<rest, slept>>
           /\ idle' = Min({idle + 1, Full + Debt})
           /\ excess' = Max({excess - 1, 0})
           /\ UNCHANGED <<tokens, doing, linked, backoff, blind, boots>>

(* TokenBucket.                                                            *)

BugRefilled == tokens + idle

Refilled == Min({Full, tokens + idle})

BugMayTake == TRUE

(* One token is enough, whatever the message costs.                        *)
MayTake == Refilled >= Token

BugTryTake(cost) ==
  /\ doing = "drain"
  /\ \/ MayTake /\ tokens' = Refilled - cost * Token /\ idle' = 0
        /\ excess' = excess + cost * Token /\ doing' = "submit"
     \/ ~MayTake /\ tokens' = Refilled /\ doing' = "inbound" /\ UNCHANGED <<idle, excess>>
  /\ UNCHANGED <<heart, linked, backoff, rest, boots>>

TryTake(cost) ==
  /\ doing = "drain"
  /\ idle' = 0
  /\ \/ /\ MayTake
        /\ tokens' = Refilled - cost * Token
        /\ excess' = excess + cost * Token
        /\ doing' = "submit"
     \/ /\ ~MayTake
        /\ tokens' = Refilled
        /\ doing' = "inbound"
        /\ UNCHANGED excess
  /\ UNCHANGED <<heart, linked, backoff, rest, boots>>

-----------------------------------------------------------------------------
(* The loop.                                                               *)

Goto(s) == doing' = s /\ UNCHANGED <<bucket, heart, rest, boots>>

(* A connection that was lost is made again first.                         *)
Wake == /\ doing = "sleep" /\ rest = 0
        /\ Goto(IF linked THEN "drain" ELSE "connect")
        /\ UNCHANGED <<linked, backoff>>

Connects == /\ doing = "connect"
            /\ linked' = TRUE /\ backoff' = None
            /\ Goto("drain")

Submitted == /\ doing = "submit" /\ Goto("drain") /\ UNCHANGED <<linked, backoff>>

Drained == /\ doing = "drain" /\ Goto("inbound") /\ UNCHANGED <<linked, backoff>>

Sleep(time) == /\ doing' = "sleep" /\ rest' = time
               /\ UNCHANGED <<bucket, boots>>

WriteStatus == slept' = 0 /\ waited' = 0 /\ blind' = FALSE

(* fetch_inbound and the modem's status have answered.                     *)
EndIteration == /\ doing = "inbound"
                /\ WriteStatus
                /\ Sleep(Poll)
                /\ UNCHANGED <<linked, backoff>>

NextBackoff == IF backoff = None THEN BackoffFirst ELSE Min({backoff * 2, BackoffCap})

BugLoopRaises == /\ doing # "sleep"
                 /\ linked' = FALSE /\ backoff' = NextBackoff
                 /\ UNCHANGED heart
                 /\ Sleep(backoff')

(* Any call raises: the status is written if the database lets it.         *)
LoopRaises == /\ doing # "sleep"
              /\ linked' = FALSE /\ backoff' = NextBackoff
              /\ \/ WriteStatus
                 \/ blind' = TRUE /\ UNCHANGED <<slept, waited>>
              /\ Sleep(backoff')

(* Restarted upon request, or after a crash: the bucket is full again.     *)
ThrBoot == /\ boots < MaxBoots
           /\ boots' = boots + 1
           /\ tokens' = Full /\ idle' = 0 /\ UNCHANGED excess
           /\ doing' = "connect" /\ linked' = FALSE /\ backoff' = None /\ rest' = 0
           /\ UNCHANGED heart

(* healthz: the heartbeat is too old.                                      *)
Degraded == slept + waited > MaxAge

ThrNext == \/ ThrTick \/ Wake \/ Connects \/ Submitted \/ Drained
           \/ EndIteration \/ LoopRaises \/ ThrBoot
           \/ \E cost \in 1..MaxCost : TryTake(cost)

ThrSpec == ThrInit /\ [][ThrNext]_thrVars

-----------------------------------------------------------------------------
(* Type invariant.  The balance is never lower than what one message, sent *)
(* for the last token, leaves: a drained bucket recovers in a known time.  *)
ThrTypeOK == /\ tokens \in -Debt..Full /\ idle \in 0..Full + Debt
             /\ doing \in {"connect", "drain", "submit", "inbound", "sleep"}
             /\ linked \in BOOLEAN /\ blind \in BOOLEAN
             /\ backoff \in {None} \cup BackoffFirst..BackoffCap
             /\ rest \in 0..BackoffCap
             /\ slept \in 0..MaxAge + 1 /\ waited \in 0..MaxAge
             /\ excess \in Nat /\ boots \in 0..MaxBoots

(* settings.md: the worker submits so many segments a minute.  In whatever *)
(* window of time, it takes no more than the rate allows for its length,   *)
(* and beyond that a full bucket and what a long message overdraws; and as *)
(* much again for each restart in the window, which fills the bucket.      *)
RateIsBounded == excess <= (boots + 1) * (Full + Debt)

(* main.py:66: elapsed time is credited when somebody asks, and never more *)
(* than the bucket holds.  Until a restart, what the bucket owes is what   *)
(* was taken too early, to the token: no time is lost or counted twice.    *)
BucketIsMeter == boots = 0 => Refilled = Full - excess

(* healthz calls the worker dead after MaxAge without a heartbeat.  While  *)
(* it loops and can write, that never comes of its sleeps, whatever fails: *)
(* the modem has kept it for all of that time but one backoff.             *)
StaleMeansBusy ==
  Degraded => blind \/ waited >= MaxAge - BackoffCap
=============================================================================
