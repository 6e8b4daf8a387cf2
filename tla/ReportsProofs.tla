---------------------------- MODULE ReportsProofs ---------------------------
(***************************************************************************)
(* Proofs about Reports, for every set of messages and of numbers, every   *)
(* number of parts, and every modulus of the message reference.            *)
(***************************************************************************)
EXTENDS Reports, FiniteSetTheorems, TLAPS

LEMMA ParametersAre ==
  /\ Modulus \in Nat /\ Modulus > 0 /\ MaxParts \in Nat /\ MaxSubmits \in Nat
  /\ NoReference \notin Nat
BY ReportsAssumption DEF ReportsAssumption

(* The parts that left are numbered from 1.                                *)
LEMMA SentIs ==
  ASSUME NEW n \in Nat, NEW f \in [1..n -> RepMessages]
  PROVE  Cardinality(DOMAIN f) = n
<1>1. DOMAIN f = 1..n
  OBVIOUS
<1>2. Cardinality(1..n) = n
  BY FS_Interval
<1> QED
  BY <1>1, <1>2

(* Two different parts with one reference are a whole round apart.         *)
LEMMA SameReferenceIsARoundApart ==
  ASSUME NEW a \in Nat, NEW b \in Nat, NEW M \in Nat, M > 0, a % M = b % M
  PROVE  a = b \/ a - b >= M \/ b - a >= M
<1> DEFINE p == a \div M
           q == b \div M
<1>1. /\ p \in Int /\ q \in Int
      /\ a = M * p + (a % M) /\ b = M * q + (b % M)
  OBVIOUS
<1> HIDE DEF p, q
<1>2. CASE p = q
  BY <1>1, <1>2
<1>3. CASE p >= q + 1
  <2>1. M * p >= M * (q + 1) /\ M * (q + 1) = M * q + M
    BY <1>1, <1>3
  <2> QED
    BY <1>1, <2>1
<1>4. CASE q >= p + 1
  <2>1. M * q >= M * (p + 1) /\ M * (p + 1) = M * p + M
    BY <1>1, <1>4
  <2> QED
    BY <1>1, <2>1
<1> QED
  BY <1>1, <1>2, <1>3, <1>4

-----------------------------------------------------------------------------
(* The inductive invariant: besides the two promises it says that the part *)
(* a row keeps is one of its own, and that a delivered row was credited    *)
(* with a part that left the modem.                                        *)
OwnPart == \A m \in RepMessages : kept[m] # NoPart => carried[kept[m]] = m
Credited == \A m \in RepMessages : state[m] = "delivered" => credit[m].part \in 1..sent

(* The clock moves with a send only.                                       *)
Clock == second <= sent

RepIInv == RepTypeOK /\ Clock /\ OwnPart /\ Credited /\ WrongOnlyAfterWrap

(* What the types say of what was sent.                                    *)
LEMMA SentSoFar ==
  ASSUME RepTypeOK
  PROVE  sent \in 0..MaxSubmits /\ carried \in [1..sent -> RepMessages]
<1>1. PICK n \in 0..MaxSubmits : carried \in [1..n -> RepMessages]
  BY DEF RepTypeOK
<1>2. sent = n
  BY <1>1, ParametersAre, SentIs DEF sent
<1> QED
  BY <1>1, <1>2

-----------------------------------------------------------------------------
(* k parts leave: the ones that left before keep their message.            *)
LEMMA LeaveAppends ==
  ASSUME RepTypeOK, NEW m \in RepMessages, NEW k \in 1..MaxParts, Leave(m, k)
  PROVE  /\ sent' = sent + k /\ sent' \in 0..MaxSubmits /\ sent \in Nat /\ k \in Nat /\ k > 0
         /\ carried' \in [1..sent' -> RepMessages]
         /\ \A s \in 1..sent : carried'[s] = carried[s]
         /\ \A s \in (sent + 1)..(sent + k) : carried'[s] = m
<1>1. sent \in Nat /\ carried \in [1..sent -> RepMessages] /\ k \in Nat /\ k > 0
  BY SentSoFar, ParametersAre
<1> DEFINE n == sent
<1>2. /\ n + k <= MaxSubmits
      /\ carried' = [s \in 1..(n + k) |-> IF s <= n THEN carried[s] ELSE m]
  BY DEF Leave
<1>3. n \in Nat /\ n + k \in Nat
  BY <1>1
<1>4. carried' \in [1..(n + k) -> RepMessages]
  BY <1>1, <1>2
<1>5. sent' = n + k
  BY <1>3, <1>4, SentIs DEF sent
<1>6. \A s \in 1..n : carried'[s] = carried[s]
  BY <1>1, <1>2
<1>7. \A s \in (n + 1)..(n + k) : carried'[s] = m
  BY <1>1, <1>2
<1> QED
  BY <1>1, <1>2, <1>3, <1>4, <1>5, <1>6, <1>7, ParametersAre

(* The parts that left before are the same; so are the rows they bind.     *)
LEMMA OldCreditsStand ==
  ASSUME RepIInv, NEW m \in RepMessages, NEW k \in 1..MaxParts, Leave(m, k),
         NEW n \in RepMessages, state[n] = "delivered",
         kept'[n] = kept[n], UNCHANGED <<to, credit>>
  PROVE  /\ credit'[n].part \in 1..sent'
         /\ LET s == credit'[n].part IN
              /\ to'[carried'[s]] = to'[n]
              /\ credit'[n].guessed \/ s = kept'[n] \/ s - kept'[n] >= Modulus \/ kept'[n] - s >= Modulus
<1>1. credit[n].part \in 1..sent
  BY DEF RepIInv, Credited
<1>2. /\ sent' = sent + k /\ sent \in Nat /\ k \in Nat
      /\ carried'[credit[n].part] = carried[credit[n].part]
  BY <1>1, LeaveAppends DEF RepIInv
<1> QED
  BY <1>1, <1>2 DEF RepIInv, WrongOnlyAfterWrap

LEMMA SendKeeps ==
  ASSUME RepIInv, NEW m \in RepMessages, NEW k \in 1..MaxParts, Send(m, k)
  PROVE  RepIInv'
<1> USE DEF RepIInv
<1>1. /\ state[m] = "queued" /\ Leave(m, k) /\ UNCHANGED <<to, credit>>
      /\ state' = [state EXCEPT ![m] = "sent"]
      /\ second' \in {second, second + 1} /\ sentAt' = [sentAt EXCEPT ![m] = second']
  BY DEF Send
<1>2. PICK p \in {NoPart} \cup (sent + 1)..(sent + k) : kept' = [kept EXCEPT ![m] = p]
  BY DEF Send
<1>3. /\ sent' = sent + k /\ sent' \in 0..MaxSubmits /\ sent \in Nat /\ k \in Nat /\ k > 0
      /\ carried' \in [1..sent' -> RepMessages]
      /\ \A s \in 1..sent : carried'[s] = carried[s]
      /\ \A s \in (sent + 1)..(sent + k) : carried'[s] = m
  BY <1>1, LeaveAppends
<1> HIDE DEF sent
<1>4. /\ kept \in [RepMessages -> 0..sent] /\ second \in Nat /\ second <= sent
      /\ sentAt \in [RepMessages -> 0..second]
      /\ credit \in [RepMessages -> [part : 0..sent, guessed : BOOLEAN]]
      /\ state \in [RepMessages -> {"queued", "sent", "failed", "delivered", "purged"}]
  BY ParametersAre DEF RepTypeOK, Clock
<1>5. /\ p \in 0..sent'
      /\ kept'[m] = p /\ \A n \in RepMessages \ {m} : kept'[n] = kept[n]
      /\ state'[m] = "sent" /\ \A n \in RepMessages \ {m} : state'[n] = state[n]
  BY <1>1, <1>2, <1>3, <1>4 DEF NoPart
<1>6. second' \in Nat /\ second' <= sent' /\ second <= second'
  BY <1>1, <1>3, <1>4
<1>7. RepTypeOK'
  <2>1. kept' \in [RepMessages -> 0..sent']
    BY <1>2, <1>3, <1>4, <1>5
  <2>2. sentAt' \in [RepMessages -> 0..second']
    BY <1>1, <1>4, <1>6
  <2>3. credit' \in [RepMessages -> [part : 0..sent', guessed : BOOLEAN]]
    <3>1. 0..sent \subseteq 0..sent'
      BY <1>3
    <3> QED
      BY <1>1, <1>4, <3>1
  <2>4. carried' \in UNION {[1..j -> RepMessages] : j \in 0..MaxSubmits}
    BY <1>3
  <2>5. second' \in 0..MaxSubmits
    BY <1>3, <1>6, ParametersAre
  <2>6. state' \in [RepMessages -> {"queued", "sent", "failed", "delivered", "purged"}]
    BY <1>1, <1>4
  <2> QED
    BY <1>1, <2>1, <2>2, <2>3, <2>4, <2>5, <2>6 DEF RepTypeOK
<1>8. OwnPart'
  <2>1. ASSUME NEW n \in RepMessages, kept'[n] # NoPart
        PROVE  carried'[kept'[n]] = n
    <3>1. CASE n = m
      <4>1. p # NoPart
        BY <1>5, <2>1, <3>1
      <4>2. p \in (sent + 1)..(sent + k)
        BY <1>2, <4>1
      <4>3. carried'[p] = m
        BY <1>3, <4>2
      <4> QED
        BY <1>5, <3>1, <4>3
    <3>2. CASE n # m
      <4>1. kept'[n] = kept[n] /\ kept[n] # NoPart
        BY <1>5, <2>1, <3>2
      <4>2. kept[n] \in 1..sent
        BY <1>3, <1>4, <4>1 DEF NoPart
      <4>3. carried[kept[n]] = n
        BY <4>1 DEF OwnPart
      <4> QED
        BY <1>3, <4>1, <4>2, <4>3
    <3> QED
      BY <3>1, <3>2
  <2> QED
    BY <2>1 DEF OwnPart
<1>9. \A n \in RepMessages : state'[n] = "delivered" => state[n] = "delivered" /\ kept'[n] = kept[n]
  BY <1>5
<1>10. Credited' /\ WrongOnlyAfterWrap'
  BY <1>1, <1>9, OldCreditsStand DEF Credited, WrongOnlyAfterWrap
<1> QED
  BY <1>6, <1>7, <1>8, <1>10 DEF Clock

LEMMA SendBreaksKeeps ==
  ASSUME RepIInv, NEW m \in RepMessages, NEW k \in 1..MaxParts, SendBreaks(m, k)
  PROVE  RepIInv'
<1> USE DEF RepIInv
<1>1. PICK z \in {"failed", "queued"} :
        /\ Leave(m, k) /\ state' = [state EXCEPT ![m] = z]
        /\ UNCHANGED <<to, kept, sentAt, second, credit>>
  BY DEF SendBreaks
<1>2. /\ sent' = sent + k /\ sent' \in 0..MaxSubmits /\ sent \in Nat /\ k \in Nat /\ k > 0
      /\ carried' \in [1..sent' -> RepMessages]
      /\ \A s \in 1..sent : carried'[s] = carried[s]
  BY <1>1, LeaveAppends
<1> HIDE DEF sent
<1>3. 0..sent \subseteq 0..sent'
  BY <1>2
<1>4. RepTypeOK'
  <2>1. kept' \in [RepMessages -> 0..sent']
    BY <1>1, <1>3 DEF RepTypeOK
  <2>2. credit' \in [RepMessages -> [part : 0..sent', guessed : BOOLEAN]]
    BY <1>1, <1>3 DEF RepTypeOK
  <2>3. carried' \in UNION {[1..j -> RepMessages] : j \in 0..MaxSubmits}
    BY <1>2
  <2>4. state' \in [RepMessages -> {"queued", "sent", "failed", "delivered", "purged"}]
    BY <1>1 DEF RepTypeOK
  <2> QED
    BY <1>1, <2>1, <2>2, <2>3, <2>4 DEF RepTypeOK
<1>5. Clock'
  BY <1>1, <1>2, ParametersAre DEF Clock, RepTypeOK
<1>6. OwnPart'
  <2>1. kept \in [RepMessages -> 0..sent]
    BY DEF RepTypeOK
  <2> QED
    BY <1>1, <1>2, <2>1 DEF OwnPart, NoPart
<1>7. \A n \in RepMessages : state'[n] = "delivered" => state[n] = "delivered" /\ kept'[n] = kept[n]
  BY <1>1 DEF RepTypeOK
<1>8. Credited' /\ WrongOnlyAfterWrap'
  BY <1>1, <1>7, OldCreditsStand DEF Credited, WrongOnlyAfterWrap
<1> QED
  BY <1>4, <1>5, <1>6, <1>8

-----------------------------------------------------------------------------
(* A report that carries a reference fits the row it delivers.             *)
LEMMA ReferenceFits ==
  ASSUME RepTypeOK, NEW s \in 1..sent, NEW r \in {Reference(s), NoReference},
         NEW m \in Waiting(s, r), r # NoReference
  PROVE  s = kept[m] \/ s - kept[m] >= Modulus \/ kept[m] - s >= Modulus
<1>1. /\ m \in RepMessages /\ Reference(kept[m]) = r
      /\ s \in Nat /\ kept[m] \in Nat /\ s # NoPart
  BY SentSoFar, ParametersAre DEF Waiting, modem_ref, RepTypeOK, NoPart
<1>2. kept[m] # NoPart
  BY <1>1 DEF Reference
<1>3. s % Modulus = kept[m] % Modulus
  BY <1>1, <1>2 DEF Reference
<1> QED
  BY <1>1, <1>3, ParametersAre, SameReferenceIsARoundApart

LEMMA ApplyReportKeeps ==
  ASSUME RepIInv, NEW s \in Submits, NEW r \in {Reference(s), NoReference}, ApplyReport(s, r)
  PROVE  RepIInv'
<1> USE DEF RepIInv
<1>1. PICK m \in Latest(Waiting(s, r)) :
        /\ state' = [state EXCEPT ![m] = "delivered"]
        /\ credit' = [credit EXCEPT ![m] = [part |-> s, guessed |-> r = NoReference]]
  BY DEF ApplyReport
<1>2. s \in 1..sent /\ UNCHANGED <<to, kept, sentAt, second, carried, sent>>
  BY SentSoFar DEF ApplyReport, sent
<1>3. /\ m \in RepMessages /\ m \in Waiting(s, r) /\ to[carried[s]] = to[m]
  BY DEF Latest, Waiting
<1> HIDE DEF sent
<1> DEFINE guess == r = NoReference
           c == [part |-> s, guessed |-> guess]
<1>4. guess \in BOOLEAN
  OBVIOUS
<1>5. credit' = [credit EXCEPT ![m] = c]
  BY <1>1
<1>6. (guess <=> r = NoReference) /\ s \in 0..sent
  BY <1>2
<1> HIDE DEF guess
<1>6a. c \in [part : 0..sent, guessed : BOOLEAN] /\ c.part = s /\ c.guessed = guess
  BY <1>4, <1>6
<1> HIDE DEF c
<1>7. /\ credit' \in [RepMessages -> [part : 0..sent, guessed : BOOLEAN]]
      /\ credit'[m] = c /\ \A n \in RepMessages \ {m} : credit'[n] = credit[n]
      /\ state' \in [RepMessages -> {"queued", "sent", "failed", "delivered", "purged"}]
      /\ \A n \in RepMessages \ {m} : state'[n] = state[n]
  BY <1>1, <1>3, <1>5, <1>6a DEF RepTypeOK
<1>8. RepTypeOK' /\ Clock' /\ OwnPart'
  BY <1>2, <1>7 DEF RepTypeOK, Clock, OwnPart
<1>9. Credited'
  BY <1>2, <1>3, <1>6a, <1>7 DEF Credited
<1>10. WrongOnlyAfterWrap'
  <2>1. ASSUME NEW n \in RepMessages, state'[n] = "delivered"
        PROVE  LET p == credit'[n].part IN
                 /\ to[carried[p]] = to[n]
                 /\ credit'[n].guessed \/ p = kept[n] \/ p - kept[n] >= Modulus \/ kept[n] - p >= Modulus
    <3>1. CASE n = m
      BY <1>2, <1>3, <1>4, <1>6, <1>7, <1>6a, <3>1, ReferenceFits
    <3>2. CASE n # m
      BY <1>7, <2>1, <3>2 DEF WrongOnlyAfterWrap
    <3> QED
      BY <3>1, <3>2
  <2> QED
    BY <1>2, <2>1 DEF WrongOnlyAfterWrap
<1> QED
  BY <1>8, <1>9, <1>10

LEMMA PurgeRowKeeps ==
  ASSUME RepIInv, NEW m \in RepMessages, PurgeRow(m)
  PROVE  RepIInv'
<1> USE DEF RepIInv
<1>1. /\ state' = [state EXCEPT ![m] = "purged"]
      /\ UNCHANGED <<to, kept, sentAt, second, carried, credit, sent>>
  BY DEF PurgeRow, sent
<1>2. \A n \in RepMessages : state'[n] = "delivered" => state[n] = "delivered"
  BY <1>1 DEF RepTypeOK
<1>3. RepTypeOK' /\ Clock' /\ OwnPart'
  BY <1>1 DEF RepTypeOK, Clock, OwnPart
<1>4. Credited' /\ WrongOnlyAfterWrap'
  BY <1>1, <1>2 DEF Credited, WrongOnlyAfterWrap
<1> QED
  BY <1>3, <1>4

-----------------------------------------------------------------------------
LEMMA RepInitEstablishes == RepInit => RepIInv
<1> SUFFICES ASSUME RepInit PROVE RepIInv
  OBVIOUS
<1>1. carried \in [1..0 -> RepMessages]
  BY DEF RepInit
<1>2. sent = 0
  BY <1>1, SentIs DEF sent
<1> HIDE DEF sent
<1>3. RepTypeOK
  <2>1. [part |-> 0, guessed |-> FALSE] \in [part : 0..0, guessed : BOOLEAN]
    OBVIOUS
  <2>2. credit \in [RepMessages -> [part : 0..sent, guessed : BOOLEAN]]
    BY <1>2, <2>1 DEF RepInit, NoPart
  <2>3. carried \in UNION {[1..k -> RepMessages] : k \in 0..MaxSubmits}
    BY <1>1, ParametersAre
  <2> QED
    BY <1>2, <2>2, <2>3, ParametersAre DEF RepInit, RepTypeOK, NoPart
<1> QED
  BY <1>2, <1>3 DEF RepInit, RepIInv, Clock, OwnPart, Credited, WrongOnlyAfterWrap, NoPart

LEMMA RepStepKeeps == RepIInv /\ [RepNext]_repVars => RepIInv'
<1> SUFFICES ASSUME RepIInv, [RepNext]_repVars PROVE RepIInv'
  OBVIOUS
<1>1. CASE RepNext
  BY <1>1, SendKeeps, SendBreaksKeeps, ApplyReportKeeps, PurgeRowKeeps DEF RepNext
<1>2. CASE UNCHANGED repVars
  BY <1>2 DEF repVars, RepIInv, RepTypeOK, Clock, OwnPart, Credited, WrongOnlyAfterWrap, sent
<1> QED
  BY <1>1, <1>2

LEMMA RepInvariance == RepSpec => []RepIInv
BY RepInitEstablishes, RepStepKeeps, PTL DEF RepSpec

(* Every variable of the matching of reports keeps its type.               *)
THEOREM ReportsTypeCorrect == RepSpec => []RepTypeOK
<1>1. RepIInv => RepTypeOK
  BY DEF RepIInv
<1> QED
  BY <1>1, RepInvariance, PTL

(* A report with a reference delivers the message that keeps its part, or  *)
(* one a whole round of references away, to the same number.               *)
THEOREM ReportsErrOnlyAfterWrap == RepSpec => []WrongOnlyAfterWrap
<1>1. RepIInv => WrongOnlyAfterWrap
  BY DEF RepIInv
<1> QED
  BY <1>1, RepInvariance, PTL

LEMMA SameCredit ==
  ASSUME NEW x, NEW y, NEW b \in BOOLEAN,
         [part |-> x, guessed |-> b] = [part |-> y, guessed |-> FALSE]
  PROVE  x = y /\ ~ b
OBVIOUS

(* The report of the part that a sent message keeps delivers it, or one    *)
(* that was sent no earlier and bears the same reference.                  *)
THEOREM OwnReportsCount == RepSpec => OwnReportCounts
<1> DEFINE Own == \A m, n \in RepMessages :
             /\ state[m] = "sent" /\ kept[m] # NoPart
             /\ state[n] = "sent" /\ state'[n] = "delivered"
             /\ credit'[n] = [part |-> kept[m], guessed |-> FALSE]
             => n = m \/ (modem_ref(n) = modem_ref(m) /\ sentAt[n] >= sentAt[m])
<1>1. ASSUME RepIInv, [RepNext]_repVars
      PROVE  Own
  <2> SUFFICES ASSUME NEW m \in RepMessages, NEW n \in RepMessages,
                      state[m] = "sent", kept[m] # NoPart,
                      state[n] = "sent", state'[n] = "delivered",
                      credit'[n] = [part |-> kept[m], guessed |-> FALSE]
               PROVE  modem_ref(n) = modem_ref(m) /\ sentAt[n] >= sentAt[m]
    OBVIOUS
  <2>1. state \in [RepMessages -> {"queued", "sent", "failed", "delivered", "purged"}]
    BY <1>1 DEF RepIInv, RepTypeOK
  <2>2. PICK s \in Submits : \E r \in {Reference(s), NoReference} : ApplyReport(s, r)
    BY <1>1, <2>1 DEF RepNext, repVars, Send, SendBreaks, PurgeRow
  <2>3. PICK r \in {Reference(s), NoReference} : ApplyReport(s, r)
    BY <2>2
  <2>4. PICK q \in Latest(Waiting(s, r)) :
          /\ state' = [state EXCEPT ![q] = "delivered"]
          /\ credit' = [credit EXCEPT ![q] = [part |-> s, guessed |-> r = NoReference]]
    BY <2>3 DEF ApplyReport
  <2>5. n = q
    BY <2>1, <2>4
  <2>6. credit \in [RepMessages -> [part : 0..sent, guessed : BOOLEAN]]
    BY <1>1 DEF RepIInv, RepTypeOK
  <2>7. credit'[n] = [part |-> s, guessed |-> r = NoReference]
    BY <2>4, <2>5, <2>6
  <2>8. s = kept[m] /\ r # NoReference
    <3>1. [part |-> s, guessed |-> r = NoReference] = [part |-> kept[m], guessed |-> FALSE]
      BY <2>7
    <3>2. (r = NoReference) \in BOOLEAN
      OBVIOUS
    <3> QED
      BY <3>1, <3>2, SameCredit
  <2>9. r = modem_ref(m) /\ carried[s] = m
    BY <1>1, <2>3, <2>8 DEF modem_ref, RepIInv, OwnPart
  <2>10. m \in Waiting(s, r)
    BY <2>8, <2>9 DEF Waiting
  <2>11. sentAt[m] <= sentAt[n] /\ n \in Waiting(s, r)
    BY <2>4, <2>5, <2>10 DEF Latest
  <2>12. sentAt[m] \in Nat /\ sentAt[n] \in Nat
    BY <1>1, ParametersAre DEF RepIInv, RepTypeOK
  <2> QED
    BY <2>8, <2>9, <2>11, <2>12 DEF Waiting
<1>2. RepSpec => [][Own]_repVars
  BY <1>1, RepInvariance, PTL DEF RepSpec
<1> QED
  BY <1>2 DEF OwnReportCounts
=============================================================================
