-------------------------------- MODULE Limiter -----------------------------
(***************************************************************************)
(* RateLimiter.allow (api/ratelimit.py): one key's sliding window, shared  *)
(* by the threads that serve requests.  A thread reads the clock before it *)
(* takes the lock, so hits may be recorded out of order.                   *)
(*                                                                         *)
(* The definitions named Bug... are faulty variants of the one that        *)
(* follows: no action uses them, they show that the properties can fail.   *)
(***************************************************************************)
EXTENDS Integers, Sequences, FiniteSetsExt

CONSTANTS Threads,     \* the threads that serve requests
          Limit,       \* per_minute, positive
          Window,      \* the window's length, 60 seconds
          LimLag,      \* how long a thread may wait for the lock
          LimMaxTime   \* bound on the clock

ASSUME LimiterAssumption == /\ {Limit, LimMaxTime} \subseteq Nat \ {0} /\ Window \in Nat
                            /\ LimLag \in Nat /\ LimLag < Window

VARIABLES limNow,   \* the clock
          now,      \* per thread: what it read of the clock, or Away
          hits,     \* the deque: the times recorded
          allowed,  \* history: when each request was really allowed
          denied    \* history: when the last request was denied, or Away

limVars == <<limNow, now, hits, allowed, denied>>

Away == 0

LimInit == /\ limNow = 1
           /\ now = [t \in Threads |-> Away]
           /\ hits = <<>> /\ allowed = <<>> /\ denied = Away

(* Time passes, but no thread waits for the lock longer than LimLag.       *)
LimTick == /\ limNow < LimMaxTime
           /\ \A t \in Threads : now[t] # Away => limNow < now[t] + LimLag
           /\ limNow' = limNow + 1
           /\ UNCHANGED <<now, hits, allowed, denied>>

ReadClock(t) == /\ now[t] = Away
                /\ now' = [now EXCEPT ![t] = limNow]
                /\ UNCHANGED <<limNow, hits, allowed, denied>>

BugPrune(h, time) == h

(* Hits are popped from the left while they have left the window.          *)
Prune(h, time) ==
  SubSeq(h, Max({i \in 1..Len(h) + 1 : \A j \in 1..(i - 1) : h[j] + Window <= time}), Len(h))

BugHasRoom(h) == Len(h) <= Limit

HasRoom(h) == Len(h) < Limit

(* Under the lock.                                                         *)
Decide(t) ==
  /\ now[t] # Away
  /\ now' = [now EXCEPT ![t] = Away]
  /\ LET left == Prune(hits, now[t]) IN
       \/ /\ HasRoom(left)
          /\ hits' = Append(left, now[t])
          /\ allowed' = Append(allowed, limNow)
          /\ UNCHANGED denied
       \/ /\ ~HasRoom(left)
          /\ hits' = left
          /\ denied' = limNow
          /\ UNCHANGED allowed
  /\ UNCHANGED limNow

LimNext == LimTick \/ \E t \in Threads : ReadClock(t) \/ Decide(t)

LimSpec == LimInit /\ [][LimNext]_limVars

-----------------------------------------------------------------------------
(* How many requests were allowed after a time, and until another.         *)
AllowedIn(from, to) == Quantify(1..Len(allowed), LAMBDA i : from < allowed[i] /\ allowed[i] <= to)

(* Type invariant.                                                         *)
LimTypeOK == /\ limNow \in 1..LimMaxTime
             /\ now \in [Threads -> 0..limNow]
             /\ Len(hits) <= Limit /\ \A i \in 1..Len(hits) : hits[i] \in 1..limNow
             /\ denied \in 0..limNow

(* rest-api.md: no more than Limit requests in any window.  Threads that   *)
(* are overtaken on the way to the lock shorten the window by no more than *)
(* they waited.                                                            *)
WindowIsBounded ==
  \A w \in 1..LimMaxTime : AllowedIn(w, w + Window - LimLag) <= Limit

(* A request is denied only when Limit requests were allowed in the window *)
(* before it: a hit that hides behind a younger one denies for no longer   *)
(* than threads may wait.                                                  *)
DenialIsEarned ==
  [][denied' # denied => AllowedIn(limNow - Window - LimLag, limNow) >= Limit]_limVars
=============================================================================
