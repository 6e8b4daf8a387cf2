-------------------------------- MODULE Tokens ------------------------------
(***************************************************************************)
(* API tokens: authenticate (api/auth.py) beside the panel's create, revoke *)
(* and delete (routes_admin.py).  Requests run in a thread pool and hold    *)
(* nothing between the SELECT and the flush of their COMMIT, where SQLite   *)
(* may make them wait: each is a read and a commit.                         *)
(*                                                                          *)
(* The definitions named Bug... are faulty variants of the one that         *)
(* follows: no action uses them, they show that the properties can fail.    *)
(***************************************************************************)
EXTENDS Naturals

CONSTANTS Tok,         \* the tokens that may ever be created
          Calls,       \* API calls that may be in progress together
          TokAdmins,   \* panel requests that may be in progress together
          Refresh,     \* LAST_USED_REFRESH_SECONDS
          TokHold,     \* how long a request may hold what it has read
          TokMaxTime   \* bound on the clock

ASSUME TokTimesAssumption == /\ Refresh \in Nat /\ TokHold \in Nat /\ TokMaxTime \in Nat \ {0}
                             /\ TokHold < Refresh

VARIABLES tokNow,    \* the clock
          row,       \* api_tokens: "none", "active", "revoked", "deleted"
          revokedAt, \* revoked_at
          lastUsed,  \* last_used_at, or Never
          call,      \* per call: its stage, its token, the time it read the row
          admin,     \* per panel request: its stage, its token, its time
          lateCall,  \* history: calls that came in after their token was revoked
          granted,   \* history: time of the last granted call, per token
          goneAt     \* history: when the token was first revoked

tokVars == <<tokNow, row, revokedAt, lastUsed, call, admin, lateCall, granted, goneAt>>

Never == 0
Time == 1..TokMaxTime
Idle == [at |-> "idle"]

TokInit == /\ tokNow = 1
           /\ row = [t \in Tok |-> "none"]
           /\ revokedAt = [t \in Tok |-> Never]
           /\ lastUsed = [t \in Tok |-> Never]
           /\ call = [c \in Calls |-> Idle]
           /\ admin = [a \in TokAdmins |-> Idle]
           /\ lateCall = {}
           /\ granted = [t \in Tok |-> Never]
           /\ goneAt = [t \in Tok |-> Never]

(* Time passes, but no request holds what it has read for longer than      *)
(* TokHold: busy_timeout then fails its commit.                            *)
TokTick == /\ tokNow < TokMaxTime
           /\ \A c \in Calls : call[c].at = "stamp" => tokNow < call[c].time + TokHold
           /\ \A a \in TokAdmins : admin[a].at # "idle" => tokNow < admin[a].time + TokHold
           /\ tokNow' = tokNow + 1
           /\ UNCHANGED <<row, revokedAt, lastUsed, call, admin, lateCall, granted, goneAt>>

-----------------------------------------------------------------------------
(* authenticate.                                                           *)

CallArrives(c, t) ==
  /\ call[c] = Idle
  /\ row[t] # "none"
  /\ call' = [call EXCEPT ![c] = [at |-> "lookup", tok |-> t]]
  /\ lateCall' = IF row[t] = "active" THEN lateCall \ {c} ELSE lateCall \cup {c}
  /\ UNCHANGED <<tokNow, row, revokedAt, lastUsed, admin, granted, goneAt>>

BugNeedsRefresh(t) == lastUsed[t] = Never

NeedsRefresh(t) == lastUsed[t] = Never \/ tokNow - lastUsed[t] >= Refresh

BugAccepts(t) == row[t] \in {"active", "revoked"}

(* The SELECT by hash finds a row that is not revoked.                     *)
Accepts(t) == row[t] = "active"

Refuse(c) == /\ call' = [call EXCEPT ![c] = Idle]
             /\ UNCHANGED <<lastUsed, lateCall, granted>>

Grant(c, t, time) ==
  /\ call' = [call EXCEPT ![c] = [at |-> "granted", tok |-> t]]
  /\ granted' = [granted EXCEPT ![t] = IF @ < time THEN time ELSE @]
  /\ UNCHANGED lateCall

(* A fresh last_used_at is left alone, a stale one stamped.                *)
Lookup(c) ==
  /\ call[c].at = "lookup"
  /\ LET t == call[c].tok IN
       \/ ~Accepts(t) /\ Refuse(c)
       \/ Accepts(t) /\ ~NeedsRefresh(t) /\ Grant(c, t, tokNow) /\ UNCHANGED lastUsed
       \/ /\ Accepts(t) /\ NeedsRefresh(t)
          /\ call' = [call EXCEPT ![c] = [at |-> "stamp", tok |-> t, time |-> tokNow]]
          /\ UNCHANGED <<lastUsed, lateCall, granted>>
  /\ UNCHANGED <<tokNow, row, revokedAt, admin, goneAt>>

(* The UPDATE by primary key: it finds no row when the token was deleted,  *)
(* or the database stays busy, and the call fails.                         *)
Stamp(c) ==
  /\ call[c].at = "stamp"
  /\ LET t == call[c].tok IN
       \/ /\ row[t] # "deleted"
          /\ lastUsed' = [lastUsed EXCEPT ![t] = call[c].time]
          /\ Grant(c, t, call[c].time)
       \/ Refuse(c)
  /\ UNCHANGED <<tokNow, row, revokedAt, admin, goneAt>>

CallEnds(c) == /\ call[c].at = "granted"
               /\ call' = [call EXCEPT ![c] = Idle]
               /\ UNCHANGED <<tokNow, row, revokedAt, lastUsed, admin, lateCall, granted, goneAt>>

-----------------------------------------------------------------------------
(* The panel.                                                              *)

BugCreateToken(t) ==
  /\ row[t] \in {"none", "deleted"}
  /\ row' = [row EXCEPT ![t] = "active"]
  /\ UNCHANGED <<tokNow, revokedAt, lastUsed, call, admin, lateCall, granted, goneAt>>

CreateToken(t) == /\ row[t] = "none"
                  /\ row' = [row EXCEPT ![t] = "active"]
                  /\ UNCHANGED <<tokNow, revokedAt, lastUsed, call, admin, lateCall, granted, goneAt>>

BugMayRevoke(t) == row[t] \in {"active", "revoked"}

(* A token that is revoked already keeps its time.                         *)
MayRevoke(t) == row[t] = "active"

(* Only a revoked token may be deleted.                                    *)
MayDelete(t) == row[t] = "revoked"

ReadRow(a, t) ==
  /\ admin[a] = Idle
  /\ \/ MayRevoke(t) /\ admin' = [admin EXCEPT ![a] = [at |-> "revoke", tok |-> t, time |-> tokNow]]
     \/ MayDelete(t) /\ admin' = [admin EXCEPT ![a] = [at |-> "delete", tok |-> t, time |-> tokNow]]
  /\ UNCHANGED <<tokNow, row, revokedAt, lastUsed, call, lateCall, granted, goneAt>>

(* The UPDATE of a row that was deleted raises, and so does a commit that  *)
(* waits too long.                                                         *)
RevokeToken(a) ==
  /\ admin[a].at = "revoke"
  /\ LET t == admin[a].tok IN
       \/ /\ row[t] # "deleted"
          /\ row' = [row EXCEPT ![t] = "revoked"]
          /\ revokedAt' = [revokedAt EXCEPT ![t] = admin[a].time]
          /\ goneAt' = [goneAt EXCEPT ![t] = IF @ = Never THEN tokNow ELSE @]
       \/ UNCHANGED <<row, revokedAt, goneAt>>
  /\ admin' = [admin EXCEPT ![a] = Idle]
  /\ UNCHANGED <<tokNow, lastUsed, call, lateCall, granted>>

(* The DELETE of a row that is gone only warns.                            *)
DeleteToken(a) ==
  /\ admin[a].at = "delete"
  /\ \/ row' = [row EXCEPT ![admin[a].tok] = "deleted"]
     \/ UNCHANGED row
  /\ admin' = [admin EXCEPT ![a] = Idle]
  /\ UNCHANGED <<tokNow, revokedAt, lastUsed, call, lateCall, granted, goneAt>>

-----------------------------------------------------------------------------
TokCalls == \E c \in Calls : \/ Lookup(c) \/ Stamp(c) \/ CallEnds(c)
                             \/ \E t \in Tok : CallArrives(c, t)
TokPanel == \/ \E t \in Tok : CreateToken(t)
            \/ \E a \in TokAdmins : \/ RevokeToken(a) \/ DeleteToken(a)
                                    \/ \E t \in Tok : ReadRow(a, t)

TokNext == TokTick \/ TokCalls \/ TokPanel

TokSpec == TokInit /\ [][TokNext]_tokVars

-----------------------------------------------------------------------------
(* Type invariant.                                                         *)
TokTypeOK ==
  /\ tokNow \in Time
  /\ row \in [Tok -> {"none", "active", "revoked", "deleted"}]
  /\ {revokedAt, lastUsed, granted, goneAt} \subseteq [Tok -> Time \cup {Never}]
  /\ call \in [Calls -> {Idle} \cup [at : {"lookup", "granted"}, tok : Tok]
                               \cup [at : {"stamp"}, tok : Tok, time : Time]]
  /\ admin \in [TokAdmins -> {Idle} \cup [at : {"revoke", "delete"}, tok : Tok, time : Time]]
  /\ lateCall \subseteq Calls
  /\ \A t \in Tok : revokedAt[t] # Never <=> row[t] \in {"revoked", "deleted"}

(* api-tokens.md: a call that comes in after its token was revoked is      *)
(* refused, whatever revocations, stamps and deletions are under way.      *)
RevokedIsRefused == \A c \in Calls : call[c].at = "granted" => c \notin lateCall

(* last_used_at tells when a token was last used, but for less than the    *)
(* refresh interval: two calls that stamp in the wrong order, the slower   *)
(* one with the older time, do not set it back further.                    *)
LastUsedIsEvidence ==
  \A t \in Tok : granted[t] # Never => granted[t] < lastUsed[t] + Refresh

(* routes_admin.py:465: a second revocation keeps the time of the first.   *)
(* Two that overlap do not, but revoked_at never says later than the token *)
(* was really refused, nor earlier by more than a request may take.        *)
RevocationNotPostdated ==
  \A t \in Tok : row[t] = "revoked" => revokedAt[t] <= goneAt[t] /\ goneAt[t] <= revokedAt[t] + TokHold
=============================================================================
