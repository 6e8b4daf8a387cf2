----------------------------- MODULE TokensProofs ---------------------------
(***************************************************************************)
(* Proofs about Tokens, for every number of tokens, calls and requests,    *)
(* every refresh interval and every time that a request may hold a row.    *)
(***************************************************************************)
EXTENDS Tokens, TLAPS

LEMMA TimesAre ==
  /\ Refresh \in Nat /\ TokHold \in Nat /\ TokMaxTime \in Nat \ {0} /\ TokHold < Refresh
BY TokTimesAssumption DEF TokTimesAssumption

-----------------------------------------------------------------------------
(* The inductive invariant.                                                *)

CallStates == {Idle} \cup [at : {"lookup", "granted"}, tok : Tok]
                     \cup [at : {"stamp"}, tok : Tok, time : Time]
AdminStates == {Idle} \cup [at : {"revoke", "delete"}, tok : Tok, time : Time]

(* A call that came in too late finds its token's row gone.                *)
LateCalls ==
  \A c \in Calls :
    /\ c \in lateCall /\ call[c].at = "lookup" => row[call[c].tok] \in {"revoked", "deleted"}
    /\ call[c].at \in {"stamp", "granted"} => c \notin lateCall

(* What a request holds is no older than TokHold.                          *)
HeldIsRecent ==
  /\ \A c \in Calls : call[c].at = "stamp" =>
       call[c].time <= tokNow /\ tokNow <= call[c].time + TokHold
  /\ \A a \in TokAdmins : admin[a].at # "idle" =>
       admin[a].time <= tokNow /\ tokNow <= admin[a].time + TokHold

(* Nothing is recorded of the future; a grant leaves a stamp behind.       *)
Grants == /\ \A t \in Tok : granted[t] <= tokNow
          /\ LastUsedIsEvidence

(* A revocation that is under way was read before the token was refused.   *)
Revocations ==
  /\ \A t \in Tok : goneAt[t] <= tokNow
  /\ \A t \in Tok : goneAt[t] = Never <=> row[t] \in {"none", "active"}
  /\ \A a \in TokAdmins :
       /\ admin[a].at = "revoke" => row[admin[a].tok] # "none"
       /\ admin[a].at = "revoke" /\ row[admin[a].tok] = "revoked" =>
            admin[a].time <= goneAt[admin[a].tok]
       /\ admin[a].at = "delete" => row[admin[a].tok] \in {"revoked", "deleted"}
  /\ RevocationNotPostdated

TokIInv == TokTypeOK /\ LateCalls /\ HeldIsRecent /\ Grants /\ Revocations

-----------------------------------------------------------------------------
(* Stages of calls and requests.                                           *)

LEMMA IdleIs == Idle.at = "idle" /\ Idle \in CallStates /\ Idle \in AdminStates
BY DEF Idle, CallStates, AdminStates

LEMMA TypesAre ==
  TokTypeOK <=> /\ tokNow \in Time
                /\ row \in [Tok -> {"none", "active", "revoked", "deleted"}]
                /\ revokedAt \in [Tok -> Time \cup {Never}] /\ lastUsed \in [Tok -> Time \cup {Never}]
                /\ granted \in [Tok -> Time \cup {Never}] /\ goneAt \in [Tok -> Time \cup {Never}]
                /\ call \in [Calls -> CallStates] /\ admin \in [TokAdmins -> AdminStates]
                /\ lateCall \subseteq Calls
                /\ \A t \in Tok : revokedAt[t] # Never <=> row[t] \in {"revoked", "deleted"}
BY DEF TokTypeOK, CallStates, AdminStates

LEMMA CallHolds ==
  ASSUME TokTypeOK, NEW c \in Calls, call[c] # Idle
  PROVE  /\ call[c].tok \in Tok
         /\ call[c].at \in {"lookup", "stamp", "granted"}
         /\ call[c].at = "stamp" => call[c].time \in Time
<1>1. call[c] \in CallStates
  BY TypesAre
<1> QED
  BY <1>1 DEF CallStates

LEMMA AdminHolds ==
  ASSUME TokTypeOK, NEW a \in TokAdmins, admin[a] # Idle
  PROVE  /\ admin[a].tok \in Tok /\ admin[a].time \in Time
         /\ admin[a].at \in {"revoke", "delete"}
<1>1. admin[a] \in AdminStates
  BY TypesAre
<1> QED
  BY <1>1 DEF AdminStates

(* A step of one call or request: where it goes, and that the others stay. *)
CallGoes(c, s) == call' = [call EXCEPT ![c] = s]
AdminGoes(a, s) == admin' = [admin EXCEPT ![a] = s]

LEMMA CallOfEach ==
  ASSUME TokTypeOK, NEW c \in Calls, NEW s \in CallStates, CallGoes(c, s)
  PROVE  /\ call' \in [Calls -> CallStates]
         /\ call'[c] = s /\ \A d \in Calls \ {c} : call'[d] = call[d]
<1>1. call \in [Calls -> CallStates]
  BY TypesAre
<1> QED
  BY <1>1 DEF CallGoes

LEMMA AdminOfEach ==
  ASSUME TokTypeOK, NEW a \in TokAdmins, NEW s \in AdminStates, AdminGoes(a, s)
  PROVE  /\ admin' \in [TokAdmins -> AdminStates]
         /\ admin'[a] = s /\ \A b \in TokAdmins \ {a} : admin'[b] = admin[b]
<1>1. admin \in [TokAdmins -> AdminStates]
  BY TypesAre
<1> QED
  BY <1>1 DEF AdminGoes

LEMMA CallEndsIdle ==
  ASSUME TokTypeOK, NEW c \in Calls, CallGoes(c, Idle)
  PROVE  /\ call' \in [Calls -> CallStates]
         /\ call'[c].at = "idle" /\ \A d \in Calls \ {c} : call'[d] = call[d]
BY IdleIs, CallOfEach

LEMMA AdminEndsIdle ==
  ASSUME TokTypeOK, NEW a \in TokAdmins, AdminGoes(a, Idle)
  PROVE  /\ admin' \in [TokAdmins -> AdminStates]
         /\ admin'[a].at = "idle" /\ \A b \in TokAdmins \ {a} : admin'[b] = admin[b]
BY IdleIs, AdminOfEach

(* Numbers.                                                                *)
LEMMA TimesTyped ==
  ASSUME TokTypeOK
  PROVE  /\ tokNow \in Nat
         /\ \A t \in Tok : revokedAt[t] \in Nat /\ lastUsed[t] \in Nat
                           /\ granted[t] \in Nat /\ goneAt[t] \in Nat
         /\ \A x \in Time : x \in Nat
BY TypesAre, TimesAre DEF Time, Never

-----------------------------------------------------------------------------
(* Every operation keeps the invariant.                                    *)

LEMMA TickKeeps == TokIInv /\ TokTick => TokIInv'
<1> SUFFICES ASSUME TokIInv, TokTick PROVE TokIInv'
  OBVIOUS
<1> USE DEF TokIInv
<1>1. /\ tokNow' = tokNow + 1 /\ tokNow' \in Time
      /\ UNCHANGED <<row, revokedAt, lastUsed, call, admin, lateCall, granted, goneAt>>
  BY TypesAre, TimesAre DEF TokTick, Time
<1>2. TokTypeOK'
  BY <1>1, TypesAre DEF TokTypeOK
<1>3. LateCalls'
  BY <1>1 DEF LateCalls
<1>4. HeldIsRecent'
  <2>1. ASSUME NEW c \in Calls, call[c].at = "stamp"
        PROVE  call[c].time <= tokNow' /\ tokNow' <= call[c].time + TokHold
    <3>1. call[c].time \in Nat
      BY <2>1, IdleIs, CallHolds, TimesTyped
    <3> QED
      BY <1>1, <2>1, <3>1, TimesTyped, TimesAre DEF HeldIsRecent, TokTick
  <2>2. ASSUME NEW a \in TokAdmins, admin[a].at # "idle"
        PROVE  admin[a].time <= tokNow' /\ tokNow' <= admin[a].time + TokHold
    <3>1. admin[a].time \in Nat
      BY <2>2, IdleIs, AdminHolds, TimesTyped
    <3> QED
      BY <1>1, <2>2, <3>1, TimesTyped, TimesAre DEF HeldIsRecent, TokTick
  <2> QED
    BY <1>1, <2>1, <2>2 DEF HeldIsRecent
<1>5. Grants'
  <2>1. \A t \in Tok : granted[t] <= tokNow'
    BY <1>1, TimesTyped DEF Grants
  <2> QED
    BY <1>1, <2>1 DEF Grants, LastUsedIsEvidence
<1>6. Revocations'
  <2>1. \A t \in Tok : goneAt[t] <= tokNow'
    BY <1>1, TimesTyped DEF Revocations
  <2> QED
    BY <1>1, <2>1 DEF Revocations, RevocationNotPostdated
<1> QED
  BY <1>2, <1>3, <1>4, <1>5, <1>6

(* A call that changes nothing but its own stage, and what is known of its *)
(* token, has only to keep what it knows itself.                           *)
LEMMA CallKeeps ==
  ASSUME TokIInv, NEW c \in Calls, NEW s \in CallStates, CallGoes(c, s),
         UNCHANGED <<tokNow, row, revokedAt, admin, goneAt>>,
         lastUsed' \in [Tok -> Time \cup {Never}], granted' \in [Tok -> Time \cup {Never}],
         lateCall' \subseteq Calls, \A d \in Calls \ {c} : d \in lateCall' <=> d \in lateCall,
         s.at = "lookup" /\ c \in lateCall' => row[s.tok] \in {"revoked", "deleted"},
         s.at \in {"stamp", "granted"} => c \notin lateCall',
         s.at = "stamp" => s.time = tokNow,
         \A t \in Tok : granted'[t] <= tokNow, LastUsedIsEvidence'
  PROVE  TokIInv'
<1> USE DEF TokIInv
<1>1. call' \in [Calls -> CallStates] /\ call'[c] = s /\ \A d \in Calls \ {c} : call'[d] = call[d]
  BY CallOfEach
<1>2. TokTypeOK'
  BY <1>1, TypesAre DEF TokTypeOK, CallStates, AdminStates
<1>3. LateCalls'
  BY <1>1 DEF LateCalls
<1>4. HeldIsRecent'
  BY <1>1, TimesTyped, TimesAre DEF HeldIsRecent
<1>5. Grants'
  BY DEF Grants
<1>6. Revocations'
  BY DEF Revocations, RevocationNotPostdated
<1> QED
  BY <1>2, <1>3, <1>4, <1>5, <1>6

LEMMA ArrivesKeeps ==
  ASSUME TokIInv, NEW c \in Calls, NEW t \in Tok, CallArrives(c, t)
  PROVE  TokIInv'
<1> DEFINE s == [at |-> "lookup", tok |-> t]
<1>1. s \in CallStates /\ s.at = "lookup" /\ s.tok = t /\ CallGoes(c, s)
  BY DEF CallStates, CallArrives, CallGoes
<1>2. lastUsed' = lastUsed /\ granted' = granted
  BY DEF CallArrives
<1>3. /\ lateCall' \subseteq Calls /\ \A d \in Calls \ {c} : d \in lateCall' <=> d \in lateCall
      /\ c \in lateCall' => row[t] \in {"revoked", "deleted"}
  BY TypesAre DEF TokIInv, CallArrives
<1>4. (\A u \in Tok : granted'[u] <= tokNow) /\ LastUsedIsEvidence'
  BY <1>2 DEF TokIInv, Grants, LastUsedIsEvidence
<1>5. UNCHANGED <<tokNow, row, revokedAt, admin, goneAt>>
  BY DEF CallArrives
<1> HIDE DEF s
<1> QED
  BY <1>1, <1>2, <1>3, <1>4, <1>5, CallKeeps, TypesAre DEF TokIInv

LEMMA RefuseKeeps ==
  ASSUME TokIInv, NEW c \in Calls, call[c].at # "idle", Refuse(c) \/ CallEnds(c),
         UNCHANGED <<tokNow, row, revokedAt, admin, goneAt>>
  PROVE  TokIInv'
<1>1. CallGoes(c, Idle) /\ UNCHANGED <<lastUsed, lateCall, granted>>
  BY DEF Refuse, CallEnds, CallGoes
<1>2. (\A u \in Tok : granted'[u] <= tokNow) /\ LastUsedIsEvidence'
  BY <1>1 DEF TokIInv, Grants, LastUsedIsEvidence
<1> QED
  BY <1>1, <1>2, IdleIs, CallKeeps, TypesAre DEF TokIInv

(* A grant within the refresh interval of the stamp it leaves.             *)
LEMMA GrantKeeps ==
  ASSUME TokIInv, NEW c \in Calls, NEW t \in Tok, NEW time \in Time, Grant(c, t, time),
         c \notin lateCall, time <= tokNow,
         lastUsed' = [lastUsed EXCEPT ![t] = lastUsed'[t]], lastUsed'[t] \in Time,
         time < lastUsed'[t] + Refresh, granted[t] < lastUsed'[t] + Refresh,
         UNCHANGED <<tokNow, row, revokedAt, admin, goneAt>>
  PROVE  TokIInv'
<1> DEFINE s == [at |-> "granted", tok |-> t]
<1>1. s \in CallStates /\ s.at = "granted" /\ CallGoes(c, s) /\ lateCall' = lateCall
  BY DEF CallStates, Grant, CallGoes
<1>2. /\ lastUsed \in [Tok -> Time \cup {Never}] /\ granted \in [Tok -> Time \cup {Never}]
      /\ lateCall \subseteq Calls
  BY TypesAre DEF TokIInv
<1>3. /\ granted' \in [Tok -> Time \cup {Never}]
      /\ granted'[t] \in {granted[t], time} /\ \A u \in Tok \ {t} : granted'[u] = granted[u]
  BY <1>2 DEF Grant
<1>4. /\ lastUsed' \in [Tok -> Time \cup {Never}]
      /\ \A u \in Tok \ {t} : lastUsed'[u] = lastUsed[u]
  BY <1>2
<1>5. \A u \in Tok : granted'[u] <= tokNow
  BY <1>3 DEF TokIInv, Grants
<1>6. LastUsedIsEvidence'
  BY <1>3, <1>4 DEF TokIInv, Grants, LastUsedIsEvidence
<1> HIDE DEF s
<1> QED
  BY <1>1, <1>2, <1>3, <1>4, <1>5, <1>6, CallKeeps

LEMMA LookupKeeps ==
  ASSUME TokIInv, NEW c \in Calls, Lookup(c)
  PROVE  TokIInv'
<1> DEFINE t == call[c].tok
<1>1. call[c].at = "lookup" /\ t \in Tok /\ UNCHANGED <<tokNow, row, revokedAt, admin, goneAt>>
  BY IdleIs, CallHolds DEF TokIInv, Lookup
<1>2. tokNow \in Time /\ tokNow \in Nat
  BY TypesAre, TimesTyped DEF TokIInv
<1>3. Accepts(t) => c \notin lateCall
  BY <1>1 DEF TokIInv, LateCalls, Accepts
<1>4. CASE ~Accepts(t) /\ Refuse(c)
  BY <1>1, <1>4, RefuseKeeps
<1>5. CASE Accepts(t) /\ ~NeedsRefresh(t) /\ Grant(c, t, tokNow) /\ UNCHANGED lastUsed
  <2>1. lastUsed \in [Tok -> Time \cup {Never}] /\ lastUsed[t] # Never
    BY <1>5, TypesAre DEF TokIInv, NeedsRefresh
  <2>2. lastUsed' = [lastUsed EXCEPT ![t] = lastUsed'[t]] /\ lastUsed'[t] \in Time
    BY <1>1, <1>5, <2>1
  <2>3. tokNow < lastUsed[t] + Refresh
    BY <1>1, <1>2, <1>5, TimesTyped, TimesAre DEF TokIInv, NeedsRefresh
  <2>4. granted[t] < lastUsed[t] + Refresh
    BY <1>1, <1>2, <2>3, TimesTyped, TimesAre DEF TokIInv, Grants
  <2> QED
    BY <1>1, <1>2, <1>3, <1>5, <2>2, <2>3, <2>4, GrantKeeps
<1>6. CASE /\ Accepts(t) /\ NeedsRefresh(t)
           /\ call' = [call EXCEPT ![c] = [at |-> "stamp", tok |-> t, time |-> tokNow]]
           /\ UNCHANGED <<lastUsed, lateCall, granted>>
  <2> DEFINE s == [at |-> "stamp", tok |-> t, time |-> tokNow]
  <2>1. s \in CallStates /\ s.at = "stamp" /\ s.time = tokNow /\ CallGoes(c, s)
    BY <1>1, <1>2, <1>6 DEF CallStates, CallGoes
  <2>2. (\A u \in Tok : granted'[u] <= tokNow) /\ LastUsedIsEvidence'
    BY <1>6 DEF TokIInv, Grants, LastUsedIsEvidence
  <2> HIDE DEF s, t
  <2> QED
    BY <1>1, <1>3, <1>6, <2>1, <2>2, CallKeeps, TypesAre DEF TokIInv
<1> QED
  BY <1>4, <1>5, <1>6 DEF Lookup

(* The slower of two stamps may write the older time.                      *)
LEMMA StampKeeps ==
  ASSUME TokIInv, NEW c \in Calls, Stamp(c)
  PROVE  TokIInv'
<1> DEFINE t == call[c].tok
           time == call[c].time
<1>1. /\ call[c].at = "stamp" /\ t \in Tok /\ time \in Time /\ c \notin lateCall
      /\ UNCHANGED <<tokNow, row, revokedAt, admin, goneAt>>
  BY IdleIs, CallHolds DEF TokIInv, LateCalls, Stamp
<1>2. CASE Refuse(c)
  BY <1>1, <1>2, RefuseKeeps
<1>3. CASE lastUsed' = [lastUsed EXCEPT ![t] = time] /\ Grant(c, t, time)
  <2>1. lastUsed'[t] = time
    BY <1>1, <1>3, TypesAre DEF TokIInv
  <2>2. time <= tokNow /\ tokNow < time + Refresh
    BY <1>1, TimesTyped, TimesAre DEF TokIInv, HeldIsRecent
  <2>3. granted[t] < time + Refresh
    BY <1>1, <2>2, TimesTyped, TimesAre DEF TokIInv, Grants
  <2>4. time < time + Refresh
    BY <1>1, TimesTyped, TimesAre DEF TokIInv
  <2> HIDE DEF t, time
  <2> QED
    BY <1>1, <1>3, <2>1, <2>2, <2>3, <2>4, GrantKeeps
<1> QED
  BY <1>2, <1>3 DEF Stamp

LEMMA CreateKeeps ==
  ASSUME TokIInv, NEW t \in Tok, CreateToken(t)
  PROVE  TokIInv'
<1> USE DEF TokIInv
<1>1. /\ row[t] = "none" /\ row' \in [Tok -> {"none", "active", "revoked", "deleted"}]
      /\ row'[t] = "active" /\ \A u \in Tok \ {t} : row'[u] = row[u]
      /\ UNCHANGED <<tokNow, revokedAt, lastUsed, call, admin, lateCall, granted, goneAt>>
  BY TypesAre DEF CreateToken
<1>2. TokTypeOK'
  BY <1>1, TypesAre DEF TokTypeOK
<1>3. LateCalls'
  BY <1>1, IdleIs, CallHolds DEF LateCalls
<1>4. HeldIsRecent' /\ Grants'
  BY <1>1 DEF HeldIsRecent, Grants, LastUsedIsEvidence
<1>5. Revocations'
  <2>1. \A a \in TokAdmins : admin[a].at \in {"revoke", "delete"} => admin[a].tok \in Tok
    BY IdleIs, AdminHolds
  <2> QED
    BY <1>1, <2>1 DEF Revocations, RevocationNotPostdated
<1> QED
  BY <1>2, <1>3, <1>4, <1>5

LEMMA ReadRowKeeps ==
  ASSUME TokIInv, NEW a \in TokAdmins, NEW t \in Tok, ReadRow(a, t)
  PROVE  TokIInv'
<1> USE DEF TokIInv
<1>1. UNCHANGED <<tokNow, row, revokedAt, lastUsed, call, lateCall, granted, goneAt>>
  BY DEF ReadRow
<1>2. PICK s \in AdminStates :
        /\ AdminGoes(a, s) /\ s.tok = t /\ s.time = tokNow
        /\ \/ s.at = "revoke" /\ row[t] = "active"
           \/ s.at = "delete" /\ row[t] = "revoked"
  <2>1. \A k \in {"revoke", "delete"} : [at |-> k, tok |-> t, time |-> tokNow] \in AdminStates
    BY TypesAre DEF AdminStates
  <2> QED
    BY <2>1 DEF ReadRow, AdminGoes, MayRevoke, MayDelete
<1>3. admin' \in [TokAdmins -> AdminStates] /\ admin'[a] = s /\ \A b \in TokAdmins \ {a} : admin'[b] = admin[b]
  BY <1>2, AdminOfEach
<1>4. TokTypeOK'
  BY <1>1, <1>3, TypesAre DEF TokTypeOK, CallStates, AdminStates
<1>5. LateCalls' /\ Grants'
  BY <1>1 DEF LateCalls, Grants, LastUsedIsEvidence
<1>6. HeldIsRecent'
  BY <1>1, <1>2, <1>3, TimesTyped, TimesAre DEF HeldIsRecent
<1>7. Revocations'
  BY <1>1, <1>2, <1>3 DEF Revocations, RevocationNotPostdated
<1> QED
  BY <1>4, <1>5, <1>6, <1>7

(* The first revocation dates the refusals; one that overlaps it was read  *)
(* before them.                                                            *)
LEMMA RevokeKeeps ==
  ASSUME TokIInv, NEW a \in TokAdmins, RevokeToken(a)
  PROVE  TokIInv'
<1> USE DEF TokIInv
<1> DEFINE t == admin[a].tok
           time == admin[a].time
<1>1. /\ admin[a].at = "revoke" /\ t \in Tok /\ time \in Time /\ AdminGoes(a, Idle)
      /\ UNCHANGED <<tokNow, lastUsed, call, lateCall, granted>>
  BY IdleIs, AdminHolds DEF RevokeToken, AdminGoes
<1>2. /\ admin' \in [TokAdmins -> AdminStates]
      /\ admin'[a].at = "idle" /\ \A b \in TokAdmins \ {a} : admin'[b] = admin[b]
  BY <1>1, AdminEndsIdle
<1>3. Grants'
  BY <1>1 DEF Grants, LastUsedIsEvidence
<1>4. HeldIsRecent'
  BY <1>1, <1>2 DEF HeldIsRecent
<1>5. CASE UNCHANGED <<row, revokedAt, goneAt>>
  <2>1. TokTypeOK'
    BY <1>1, <1>2, <1>5, TypesAre DEF TokTypeOK, CallStates, AdminStates
  <2>2. LateCalls' /\ Revocations'
    BY <1>1, <1>2, <1>5 DEF LateCalls, Revocations, RevocationNotPostdated
  <2> QED
    BY <1>3, <1>4, <2>1, <2>2
<1>6. CASE /\ row[t] # "deleted"
           /\ row' = [row EXCEPT ![t] = "revoked"]
           /\ revokedAt' = [revokedAt EXCEPT ![t] = time]
           /\ goneAt' = [goneAt EXCEPT ![t] = IF @ = Never THEN tokNow ELSE @]
  <2>1. /\ row' \in [Tok -> {"none", "active", "revoked", "deleted"}]
        /\ row'[t] = "revoked" /\ \A u \in Tok \ {t} : row'[u] = row[u]
    BY <1>1, <1>6, TypesAre
  <2>2. /\ revokedAt' \in [Tok -> Time \cup {Never}]
        /\ revokedAt'[t] = time /\ \A u \in Tok \ {t} : revokedAt'[u] = revokedAt[u]
    BY <1>1, <1>6, TypesAre
  <2>3. /\ goneAt' \in [Tok -> Time \cup {Never}]
        /\ goneAt'[t] = IF goneAt[t] = Never THEN tokNow ELSE goneAt[t]
        /\ \A u \in Tok \ {t} : goneAt'[u] = goneAt[u]
    BY <1>1, <1>6, TypesAre
  <2>4. row[t] \in {"active", "revoked"}
    BY <1>1, <1>6, TypesAre DEF Revocations
  <2>5. time \in Nat /\ time # Never /\ tokNow \in Nat /\ tokNow # Never
    BY <1>1, TypesAre, TimesTyped DEF Time, Never
  <2>6. TokTypeOK'
    BY <1>1, <1>2, <2>1, <2>2, <2>3, <2>5, TypesAre DEF TokTypeOK, CallStates, AdminStates
  <2>7. LateCalls'
    BY <1>1, <2>1, IdleIs, CallHolds DEF LateCalls
  <2>8. time <= tokNow /\ tokNow <= time + TokHold
    BY <1>1 DEF HeldIsRecent
  <2>9. goneAt'[t] # Never /\ goneAt'[t] <= tokNow /\ time <= goneAt'[t]
    BY <1>1, <2>3, <2>4, <2>5, <2>8 DEF Revocations
  <2>10. goneAt'[t] \in Nat /\ goneAt'[t] <= time + TokHold
    BY <1>1, <2>3, <2>5, <2>8, <2>9, TimesTyped, TimesAre
  <2>11. RevocationNotPostdated'
    BY <2>1, <2>2, <2>3, <2>9, <2>10 DEF Revocations, RevocationNotPostdated
  <2>12. \A u \in Tok : goneAt'[u] <= tokNow /\ (goneAt'[u] = Never <=> row'[u] \in {"none", "active"})
    BY <2>1, <2>3, <2>9 DEF Revocations
  <2>13. ASSUME NEW b \in TokAdmins, b # a
         PROVE  /\ admin[b].at = "revoke" => row'[admin[b].tok] # "none"
                /\ admin[b].at = "revoke" /\ row'[admin[b].tok] = "revoked" =>
                     admin[b].time <= goneAt'[admin[b].tok]
                /\ admin[b].at = "delete" => row'[admin[b].tok] \in {"revoked", "deleted"}
    <3>1. CASE admin[b].at = "idle"
      BY <3>1
    <3>2. CASE admin[b].at # "idle"
      <4>1. admin[b].tok \in Tok /\ admin[b].time \in Nat /\ admin[b].time <= tokNow
        BY <3>2, IdleIs, AdminHolds, TimesTyped DEF HeldIsRecent
      <4>2. CASE admin[b].tok # t
        BY <2>1, <2>3, <4>1, <4>2 DEF Revocations
      <4>3. CASE admin[b].tok = t
        BY <2>1, <2>3, <2>4, <4>1, <4>3 DEF Revocations
      <4> QED
        BY <4>2, <4>3
    <3> QED
      BY <3>1, <3>2
  <2> HIDE DEF t, time
  <2>14. Revocations'
    BY <1>1, <1>2, <2>11, <2>12, <2>13 DEF Revocations
  <2> QED
    BY <1>3, <1>4, <2>6, <2>7, <2>14
<1> QED
  BY <1>5, <1>6 DEF RevokeToken

LEMMA DeleteKeeps ==
  ASSUME TokIInv, NEW a \in TokAdmins, DeleteToken(a)
  PROVE  TokIInv'
<1> USE DEF TokIInv
<1> DEFINE t == admin[a].tok
<1>1. /\ t \in Tok /\ AdminGoes(a, Idle) /\ row[t] \in {"revoked", "deleted"}
      /\ UNCHANGED <<tokNow, revokedAt, lastUsed, call, lateCall, granted, goneAt>>
  BY IdleIs, AdminHolds DEF Revocations, DeleteToken, AdminGoes
<1>2. /\ admin' \in [TokAdmins -> AdminStates]
      /\ admin'[a].at = "idle" /\ \A b \in TokAdmins \ {a} : admin'[b] = admin[b]
  BY <1>1, AdminEndsIdle
<1>3. /\ row' \in [Tok -> {"none", "active", "revoked", "deleted"}]
      /\ row'[t] \in {row[t], "deleted"} /\ \A u \in Tok \ {t} : row'[u] = row[u]
  BY <1>1, TypesAre DEF DeleteToken
<1>4. TokTypeOK'
  BY <1>1, <1>2, <1>3, TypesAre DEF TokTypeOK, CallStates, AdminStates
<1>5. LateCalls'
  BY <1>1, <1>3, IdleIs, CallHolds DEF LateCalls
<1>6. HeldIsRecent' /\ Grants'
  BY <1>1, <1>2 DEF HeldIsRecent, Grants, LastUsedIsEvidence
<1>7. Revocations'
  <2>1. \A b \in TokAdmins : admin[b].at \in {"revoke", "delete"} => admin[b].tok \in Tok
    BY IdleIs, AdminHolds
  <2> HIDE DEF t
  <2> QED
    BY <1>1, <1>2, <1>3, <2>1 DEF Revocations, RevocationNotPostdated
<1> QED
  BY <1>4, <1>5, <1>6, <1>7

-----------------------------------------------------------------------------
LEMMA TokInvariant == TokSpec => []TokIInv
<1>1. TokInit => TokIInv
  <2> SUFFICES ASSUME TokInit PROVE TokIInv
    OBVIOUS
  <2> USE DEF TokInit
  <2>1. TokTypeOK
    BY TypesAre, TimesAre, IdleIs DEF Time, Never
  <2>2. LateCalls /\ HeldIsRecent
    BY IdleIs DEF LateCalls, HeldIsRecent
  <2>3. Grants /\ Revocations
    BY IdleIs DEF Grants, LastUsedIsEvidence, Revocations, RevocationNotPostdated, Never
  <2> QED
    BY <2>1, <2>2, <2>3 DEF TokIInv
<1>2. TokIInv /\ [TokNext]_tokVars => TokIInv'
  <2> SUFFICES ASSUME TokIInv, [TokNext]_tokVars PROVE TokIInv'
    OBVIOUS
  <2>1. CASE TokTick
    BY <2>1, TickKeeps
  <2>2. CASE TokCalls
    <3>1. ASSUME NEW c \in Calls, CallEnds(c) PROVE TokIInv'
      <4>1. call[c].at # "idle" /\ UNCHANGED <<tokNow, row, revokedAt, admin, goneAt>>
        BY <3>1 DEF CallEnds
      <4> QED
        BY <3>1, <4>1, RefuseKeeps
    <3> QED
      BY <2>2, <3>1, LookupKeeps, StampKeeps, ArrivesKeeps DEF TokCalls
  <2>3. CASE TokPanel
    BY <2>3, CreateKeeps, RevokeKeeps, DeleteKeeps, ReadRowKeeps DEF TokPanel
  <2>4. CASE UNCHANGED tokVars
    BY <2>4 DEF tokVars, TokIInv, TokTypeOK, LateCalls, HeldIsRecent, Grants, LastUsedIsEvidence,
                Revocations, RevocationNotPostdated
  <2> QED
    BY <2>1, <2>2, <2>3, <2>4 DEF TokNext
<1> QED
  BY <1>1, <1>2, PTL DEF TokSpec

(* Rows, calls and requests hold what they should; revoked_at is set for   *)
(* the tokens that are refused, and for no others.                         *)
THEOREM TokensTypeCorrect == TokSpec => []TokTypeOK
BY TokInvariant, PTL DEF TokIInv

(* For every number of calls and requests: a call that came in after its   *)
(* token was revoked is refused.                                           *)
THEOREM EveryRevokedIsRefused == TokSpec => []RevokedIsRefused
<1>1. TokIInv => RevokedIsRefused
  BY DEF TokIInv, LateCalls, RevokedIsRefused
<1> QED
  BY <1>1, TokInvariant, PTL

(* For every refresh interval that is longer than a request may hold its   *)
(* row: last_used_at is never off by as much, stamps in whatever order.    *)
THEOREM LastUsedIsRecent == TokSpec => []LastUsedIsEvidence
<1>1. TokIInv => LastUsedIsEvidence
  BY DEF TokIInv, Grants
<1> QED
  BY <1>1, TokInvariant, PTL

(* For every number of revocations that overlap: revoked_at is not later   *)
(* than the first refusal, nor earlier by more than TokHold.               *)
THEOREM NoRevocationIsPostdated == TokSpec => []RevocationNotPostdated
<1>1. TokIInv => RevocationNotPostdated
  BY DEF TokIInv, Revocations
<1> QED
  BY <1>1, TokInvariant, PTL
=============================================================================
