---------------------------- MODULE OutboxProofs ----------------------------
(***************************************************************************)
(* Proofs about Outbox, for every set of messages, every number of parts   *)
(* per message, every number of attempts and every number of faults.       *)
(***************************************************************************)
EXTENDS Outbox, TLAPS

USE MessagesAssumption, PartsAssumption, BoundsAssumption
    DEF MessagesAssumption, PartsAssumption, BoundsAssumption

-----------------------------------------------------------------------------
(* What the worker's frames hold, and where it stands.                     *)
FramesOK ==
  /\ pc \in {"down", "backoff", "connect"} => link = "off"
  /\ pc \in Sending => cur \in Messages /\ status[cur] \in {"sending", "purged"}
  /\ \A m \in rest : status[m] \in {"queued", "purged"}
  /\ pc = "load" => next = 1
  /\ pc = "submit" => /\ next <= Parts[cur]
                      /\ link = "dropped" => next = 1
  /\ pc = "commit" => /\ verdict # "none"
                      /\ verdict = "queued" => next = 1
                      /\ verdict = "sent" => next = Parts[cur] + 1

(* SendingIsOwned, and what makes it inductive: the loop head is reached   *)
(* with the modem connected only after a drain that concluded.             *)
Ownership == /\ SendingIsOwned
             /\ pc = "head" /\ link # "off" => Rows("sending") = {}

(* What was on the air, for the messages the worker has not lost track of. *)
Accounting ==
  /\ \A m \in Messages \ doubt :
        \/ status[m] \in {"sent", "delivered", "failed", "purged"}
        \/ pc \in Sending /\ m = cur
        \/ air[m] = {}
  /\ pc \in {"load", "submit"} /\ cur \notin doubt => air[cur] = 1..(next - 1)
  /\ pc = "commit" /\ next = 1 /\ cur \notin doubt => air[cur] = {}
  /\ dup \subseteq doubt

(* What has to have been on the air.                                       *)
OnAir == /\ pc \in Sending => 1..(next - 1) \subseteq air[cur]
         /\ \A m \in Messages :
               status[m] \in {"sent", "delivered"} => 1..Parts[m] \subseteq air[m]

IInv == TypeOK /\ FramesOK /\ Ownership /\ Accounting /\ OnAir

LEMMA InitEstablishes == Init => IInv
<1> SUFFICES ASSUME Init PROVE IInv
  OBVIOUS
<1> USE DEF Init
<1>1. TypeOK
  <2>1. status \in [Messages -> Statuses] /\ air \in [Messages -> SUBSET (Nat \ {0})]
    BY DEF Statuses
  <2>2. restart \in BOOLEAN
    BY Zenon
  <2> QED
    BY <2>1, <2>2 DEF TypeOK, Statuses, Verdicts, PCs, Sending
<1>2. FramesOK
  BY DEF FramesOK, Sending
<1>3. Ownership
  BY DEF Ownership, SendingIsOwned, Sending, Rows
<1>4. Accounting
  BY DEF Accounting, Sending
<1>5. OnAir
  BY DEF OnAir, Sending
<1> QED
  BY <1>1, <1>2, <1>3, <1>4, <1>5 DEF IInv

-----------------------------------------------------------------------------
(* Every step keeps the types.                                             *)
LEMMA RaiseTypes ==
  ASSUME TypeOK, FramesOK, Raise
  PROVE  /\ pc' \in PCs /\ link' \in {"on", "off", "dropped"}
         /\ queued' \subseteq Messages /\ rest' \subseteq queued'
         /\ cur' \in Messages \cup {NoMessage}
         /\ attempt' \in 1..MaxAttempts /\ next' \in Nat \ {0} /\ verdict' \in Verdicts
         /\ doubt' \subseteq Messages
BY DEF TypeOK, FramesOK, Raise, Unwind, LoseTrack, PCs, Sending, Verdicts

LEMMA EmitTypes ==
  ASSUME TypeOK, cur \in Messages, Emit
  PROVE  air' \in [Messages -> SUBSET (Nat \ {0})] /\ dup' \subseteq Messages
BY DEF TypeOK, Emit

LEMMA MayHaveLeftTypes ==
  ASSUME TypeOK, cur \in Messages, MayHaveLeft
  PROVE  /\ air' \in [Messages -> SUBSET (Nat \ {0})]
         /\ dup' \subseteq Messages /\ doubt' \subseteq Messages
BY EmitTypes DEF TypeOK, MayHaveLeft

LEMMA StepKeepsTypes == TypeOK /\ FramesOK /\ [Next]_vars => TypeOK'
<1> SUFFICES ASSUME TypeOK, FramesOK, [Next]_vars PROVE TypeOK'
  OBVIOUS
<1> USE DEF TypeOK, FramesOK, Statuses, Verdicts, PCs, Sending, Rows, Set,
            database, process, loop, history
<1>1. ASSUME NEW m \in Messages, Accept(m) PROVE TypeOK'
  BY <1>1 DEF Accept
<1>2. ASSUME NEW m \in Messages, Purge(m) PROVE TypeOK'
  BY <1>2 DEF Purge
<1>3. CASE RequestRestart
  BY <1>3 DEF RequestRestart
<1>4. CASE Crash
  BY <1>4 DEF Crash, Unwind, LoseTrack
<1>5. CASE DatabaseFails
  <2>1. CASE pc = "load"
    <3>1. /\ pc' = "commit" /\ verdict' = "failed" /\ faults' = faults + 1
          /\ UNCHANGED <<link, queued, rest, cur, attempt, next, doubt>>
      BY <1>5, <2>1 DEF DatabaseFails
    <3> QED
      BY <1>5, <3>1 DEF DatabaseFails
  <2>2. CASE pc # "load"
    BY <1>5, <2>2, RaiseTypes DEF DatabaseFails
  <2> QED
    BY <2>1, <2>2
<1>6. CASE ConnectFails
  BY <1>6, RaiseTypes DEF ConnectFails
<1>7. CASE ConnectionLost
  BY <1>7, MayHaveLeftTypes DEF ConnectionLost, Conclude
<1>8. CASE Boot
  BY <1>8 DEF Boot, Recover
<1>9. CASE CheckRestart
  BY <1>9 DEF CheckRestart
<1>10. CASE Connect
  BY <1>10 DEF Connect
<1>11. CASE Reclaim
  BY <1>11 DEF Reclaim, Recover
<1>12. CASE Retry
  BY <1>12 DEF Retry
<1>13. CASE Drain
  BY <1>13 DEF Drain
<1>14. CASE EndDrain
  BY <1>14 DEF EndDrain
<1>15. CASE Load
  BY <1>15 DEF Load
<1>16. CASE Submit
  BY <1>16 DEF Submit, Emit, Conclude
<1>17. CASE SubmitFails
  BY <1>17, MayHaveLeftTypes DEF SubmitFails, GiveUpOrRetry, Conclude
<1>18. CASE NotConnected
  BY <1>18 DEF NotConnected, Conclude
<1>19. CASE Commit
  <2>1. CASE status[cur] = "purged" \/ verdict = "queued"
    <3>1. Raise /\ status' \in [Messages -> Statuses]
      BY <1>19, <2>1 DEF Commit
    <3> QED
      BY <1>19, <3>1, RaiseTypes DEF Commit
  <2>2. CASE status[cur] # "purged" /\ verdict # "queued"
    <3>1. /\ status' = Set({cur}, verdict) /\ UNCHANGED <<restart, faults, air, dup, broken>>
          /\ pc' = "take" /\ cur' = NoMessage /\ verdict' = "none"
          /\ attempt' = 1 /\ next' = 1 /\ UNCHANGED <<link, queued, rest, doubt>>
      BY <1>19, <2>2 DEF Commit
    <3>2. status' \in [Messages -> Statuses]
      BY <1>19, <3>1, <2>2 DEF Commit
    <3> QED
      BY <3>1, <3>2
  <2> QED
    BY <2>1, <2>2
<1>20. CASE NothingAttached
  BY <1>20, RaiseTypes DEF NothingAttached
<1>21. ASSUME NEW m \in Messages, Take(m) PROVE TypeOK'
  <2>1. CASE status[m] = "purged"
    <3>1. Raise /\ UNCHANGED status
      BY <1>21, <2>1 DEF Take
    <3> QED
      BY <1>21, <3>1, RaiseTypes DEF Take
  <2>2. CASE status[m] # "purged"
    <3>1. /\ status' = Set({m}, "sending") /\ UNCHANGED <<restart, faults, air, dup, broken>>
          /\ pc' = "load" /\ cur' = m /\ rest' = rest \ {m}
          /\ attempt' = 1 /\ next' = 1 /\ UNCHANGED <<link, queued, verdict, doubt>>
      BY <1>21, <2>2 DEF Take
    <3> QED
      BY <3>1
  <2> QED
    BY <2>1, <2>2
<1>22. ASSUME NEW S \in SUBSET Messages, ApplyReports(S) PROVE TypeOK'
  BY <1>22 DEF ApplyReports
<1>23. CASE UNCHANGED vars
  BY <1>23 DEF vars
<1> QED
  BY <1>1, <1>2, <1>3, <1>4, <1>5, <1>6, <1>7, <1>8, <1>9, <1>10, <1>11, <1>12,
     <1>13, <1>14, <1>15, <1>16, <1>17, <1>18, <1>19, <1>20, <1>21, <1>22, <1>23
     DEF Next, Api, Fault, Worker
LEMMA StepKeepsFrames == TypeOK /\ FramesOK /\ [Next]_vars => FramesOK'
<1> SUFFICES ASSUME TypeOK, FramesOK, [Next]_vars PROVE FramesOK'
  OBVIOUS
<1> USE DEF TypeOK, FramesOK, Sending, Rows, Set, database, process, loop, history
<1>1. ASSUME NEW m \in Messages, Accept(m) PROVE FramesOK'
  BY <1>1 DEF Accept
<1>2. ASSUME NEW k \in Messages, Purge(k) PROVE FramesOK'
  BY <1>2 DEF Purge
<1>3. CASE RequestRestart
  BY <1>3 DEF RequestRestart
<1>4. CASE Crash
  BY <1>4 DEF Crash, Unwind, LoseTrack
<1>5. CASE DatabaseFails
  BY <1>5 DEF DatabaseFails, Raise, Unwind, LoseTrack
<1>6. CASE ConnectFails
  BY <1>6 DEF ConnectFails, Raise, Unwind, LoseTrack
<1>7. CASE ConnectionLost
  BY <1>7 DEF ConnectionLost, MayHaveLeft, Emit, Conclude
<1>8. CASE Boot
  BY <1>8 DEF Boot, Recover
<1>9. CASE CheckRestart
  BY <1>9 DEF CheckRestart
<1>10. CASE Connect
  BY <1>10 DEF Connect
<1>11. CASE Reclaim
  BY <1>11 DEF Reclaim, Recover
<1>12. CASE Retry
  BY <1>12 DEF Retry
<1>13. CASE Drain
  BY <1>13 DEF Drain
<1>14. CASE EndDrain
  BY <1>14 DEF EndDrain
<1>15. CASE Load
  BY <1>15 DEF Load
<1>16. CASE Submit
  BY <1>16 DEF Submit, Emit, Conclude
<1>17. CASE SubmitFails
  BY <1>17 DEF SubmitFails, MayHaveLeft, GiveUpOrRetry, Emit, Conclude
<1>18. CASE NotConnected
  BY <1>18 DEF NotConnected, Conclude
<1>19. CASE Commit
  BY <1>19 DEF Commit, Raise, Unwind, LoseTrack
<1>20. CASE NothingAttached
  BY <1>20 DEF NothingAttached, Raise, Unwind, LoseTrack
<1>21. ASSUME NEW m \in Messages, Take(m) PROVE FramesOK'
  BY <1>21 DEF Take, IsHead, Raise, Unwind, LoseTrack
<1>22. ASSUME NEW S \in SUBSET Messages, ApplyReports(S) PROVE FramesOK'
  BY <1>22 DEF ApplyReports
<1>23. CASE UNCHANGED vars
  BY <1>23 DEF vars
<1> QED
  BY <1>1, <1>2, <1>3, <1>4, <1>5, <1>6, <1>7, <1>8, <1>9, <1>10, <1>11, <1>12,
     <1>13, <1>14, <1>15, <1>16, <1>17, <1>18, <1>19, <1>20, <1>21, <1>22, <1>23
     DEF Next, Api, Fault, Worker

LEMMA StepKeepsOwnership == TypeOK /\ FramesOK /\ Ownership /\ [Next]_vars => Ownership'
<1> SUFFICES ASSUME TypeOK, FramesOK, Ownership, [Next]_vars PROVE Ownership'
  OBVIOUS
<1> USE DEF TypeOK, FramesOK, Ownership, SendingIsOwned, Sending, Rows, Set, database, process, loop, history
<1>1. ASSUME NEW m \in Messages, Accept(m) PROVE Ownership'
  BY <1>1 DEF Accept
<1>2. ASSUME NEW k \in Messages, Purge(k) PROVE Ownership'
  BY <1>2 DEF Purge
<1>3. CASE RequestRestart
  BY <1>3 DEF RequestRestart
<1>4. CASE Crash
  BY <1>4 DEF Crash, Unwind, LoseTrack
<1>5. CASE DatabaseFails
  BY <1>5 DEF DatabaseFails, Raise, Unwind, LoseTrack
<1>6. CASE ConnectFails
  BY <1>6 DEF ConnectFails, Raise, Unwind, LoseTrack
<1>7. CASE ConnectionLost
  BY <1>7 DEF ConnectionLost, MayHaveLeft, Emit, Conclude
<1>8. CASE Boot
  BY <1>8 DEF Boot, Recover
<1>9. CASE CheckRestart
  BY <1>9 DEF CheckRestart
<1>10. CASE Connect
  BY <1>10 DEF Connect
<1>11. CASE Reclaim
  BY <1>11 DEF Reclaim, Recover
<1>12. CASE Retry
  BY <1>12 DEF Retry
<1>13. CASE Drain
  BY <1>13 DEF Drain
<1>14. CASE EndDrain
  BY <1>14 DEF EndDrain
<1>15. CASE Load
  BY <1>15 DEF Load
<1>16. CASE Submit
  BY <1>16 DEF Submit, Emit, Conclude
<1>17. CASE SubmitFails
  BY <1>17 DEF SubmitFails, MayHaveLeft, GiveUpOrRetry, Emit, Conclude
<1>18. CASE NotConnected
  BY <1>18 DEF NotConnected, Conclude
<1>19. CASE Commit
  <2>1. CASE status[cur] = "purged"
    <3>1. Raise /\ UNCHANGED <<status, air, dup>>
      BY <1>19, <2>1 DEF Commit
    <3> QED
      BY <1>19, <2>1, <3>1 DEF Commit, Raise, Unwind, LoseTrack
  <2>2. CASE status[cur] # "purged" /\ verdict = "queued"
    <3>1. Raise /\ status' = Set({cur}, "queued") /\ UNCHANGED <<air, dup>>
      BY <1>19, <2>2 DEF Commit
    <3> QED
      BY <1>19, <2>2, <3>1 DEF Commit, Raise, Unwind, LoseTrack
  <2>3. CASE status[cur] # "purged" /\ verdict # "queued"
    <3>1. /\ pc = "commit" /\ pc' = "take" /\ status' = Set({cur}, verdict)
          /\ UNCHANGED <<link, doubt, air, dup>>
      BY <1>19, <2>3 DEF Commit
    <3>2. cur \in Messages /\ verdict \in {"sent", "failed"}
      BY <2>3, <3>1 DEF Verdicts
    <3>3. \A k \in Messages : status'[k] = IF k = cur THEN verdict ELSE status[k]
      BY <3>1
    <3>4. Rows("sending")' = {}
      BY <3>1, <3>2, <3>3
    <3> QED
      BY <3>1, <3>4
  <2> QED
    BY <2>1, <2>2, <2>3
<1>20. CASE NothingAttached
  BY <1>20 DEF NothingAttached, Raise, Unwind, LoseTrack
<1>21. ASSUME NEW m \in Messages, Take(m) PROVE Ownership'
  BY <1>21 DEF Take, IsHead, Raise, Unwind, LoseTrack
<1>22. ASSUME NEW S \in SUBSET Messages, ApplyReports(S) PROVE Ownership'
  BY <1>22 DEF ApplyReports
<1>23. CASE UNCHANGED vars
  BY <1>23 DEF vars
<1> QED
  BY <1>1, <1>2, <1>3, <1>4, <1>5, <1>6, <1>7, <1>8, <1>9, <1>10, <1>11, <1>12,
     <1>13, <1>14, <1>15, <1>16, <1>17, <1>18, <1>19, <1>20, <1>21, <1>22, <1>23
     DEF Next, Api, Fault, Worker

LEMMA FailedSubmit ==
  ASSUME ConnectionLost \/ SubmitFails
  PROVE  /\ pc = "submit" /\ MayHaveLeft /\ UNCHANGED <<status, cur, next>>
         /\ pc' = "commit" \/ (pc' = "submit" /\ next = 1)
<1>1. MayHaveLeft
  BY Zenon DEF ConnectionLost, SubmitFails
<1>2. pc = "submit" /\ UNCHANGED <<status, cur, next>>
  BY DEF ConnectionLost, SubmitFails, GiveUpOrRetry, database
<1>3. pc' = "commit" \/ (pc' = "submit" /\ next = 1)
  <2>1. CASE ConnectionLost
    BY <2>1 DEF ConnectionLost, Conclude
  <2>2. CASE SubmitFails
    BY <2>2 DEF SubmitFails, GiveUpOrRetry, Conclude
  <2> QED
    BY <2>1, <2>2
<1> QED
  BY <1>1, <1>2, <1>3, Zenon

(* A failed submit that reached the air is either past the first part or   *)
(* leaves the message in doubt.                                            *)
LEMMA MayHaveLeftAccounting ==
  ASSUME TypeOK, FramesOK, Accounting, pc = "submit", MayHaveLeft,
         pc' = "commit" \/ (pc' = "submit" /\ next = 1),
         UNCHANGED <<status, cur, next>>
  PROVE  Accounting'
<1> USE DEF TypeOK, FramesOK, Accounting, Sending
<1>1. cur \in Messages
  OBVIOUS
<1>2. CASE UNCHANGED <<air, dup, doubt>>
  BY <1>2
<1>3. CASE Emit /\ doubt' = IF next = 1 THEN doubt \cup {cur} ELSE doubt
  <2>1. \A m \in Messages : m # cur => air'[m] = air[m]
    BY <1>3 DEF Emit
  <2>2. next = 1 => cur \in doubt'
    BY <1>3
  <2>3. doubt \subseteq doubt'
    BY <1>3
  <2>4. dup' \subseteq doubt'
    <3>1. CASE next \in air[cur]
      <4>1. cur \in doubt
        BY <3>1
      <4> QED
        BY <1>3, <2>3, <4>1 DEF Emit
    <3>2. CASE next \notin air[cur]
      BY <1>3, <2>3, <3>2 DEF Emit
    <3> QED
      BY <3>1, <3>2
  <2> QED
    BY <1>1, <2>1, <2>2, <2>3, <2>4
<1> QED
  BY <1>2, <1>3 DEF MayHaveLeft

LEMMA StepKeepsAccounting == TypeOK /\ FramesOK /\ Ownership /\ Accounting /\ [Next]_vars => Accounting'
<1> SUFFICES ASSUME TypeOK, FramesOK, Ownership, Accounting, [Next]_vars PROVE Accounting'
  OBVIOUS
<1> USE DEF TypeOK, FramesOK, Ownership, SendingIsOwned, Accounting, Sending, Rows, Set, database, process, loop, history
<1>1. ASSUME NEW m \in Messages, Accept(m) PROVE Accounting'
  BY <1>1 DEF Accept
<1>2. ASSUME NEW k \in Messages, Purge(k) PROVE Accounting'
  BY <1>2 DEF Purge
<1>3. CASE RequestRestart
  BY <1>3 DEF RequestRestart
<1>4. CASE Crash
  BY <1>4 DEF Crash, Unwind, LoseTrack
<1>5. CASE DatabaseFails
  BY <1>5 DEF DatabaseFails, Raise, Unwind, LoseTrack
<1>6. CASE ConnectFails
  BY <1>6 DEF ConnectFails, Raise, Unwind, LoseTrack
<1>7. CASE ConnectionLost
  <2> HIDE DEF TypeOK, FramesOK, Accounting, Sending
  <2> QED
    BY <1>7, FailedSubmit, MayHaveLeftAccounting
<1>8. CASE Boot
  BY <1>8 DEF Boot, Recover
<1>9. CASE CheckRestart
  BY <1>9 DEF CheckRestart
<1>10. CASE Connect
  BY <1>10 DEF Connect
<1>11. CASE Reclaim
  BY <1>11 DEF Reclaim, Recover
<1>12. CASE Retry
  BY <1>12 DEF Retry
<1>13. CASE Drain
  BY <1>13 DEF Drain
<1>14. CASE EndDrain
  BY <1>14 DEF EndDrain
<1>15. CASE Load
  BY <1>15 DEF Load
<1>16. CASE Submit
  BY <1>16 DEF Submit, Emit, Conclude
<1>17. CASE SubmitFails
  <2> HIDE DEF TypeOK, FramesOK, Accounting, Sending
  <2> QED
    BY <1>17, FailedSubmit, MayHaveLeftAccounting
<1>18. CASE NotConnected
  BY <1>18 DEF NotConnected, Conclude
<1>19. CASE Commit
  <2>1. CASE status[cur] = "purged"
    <3>1. Raise /\ UNCHANGED <<status, air, dup>>
      BY <1>19, <2>1 DEF Commit
    <3> QED
      BY <1>19, <2>1, <3>1 DEF Commit, Raise, Unwind, LoseTrack
  <2>2. CASE status[cur] # "purged" /\ verdict = "queued"
    <3>1. Raise /\ status' = Set({cur}, "queued") /\ UNCHANGED <<air, dup>>
      BY <1>19, <2>2 DEF Commit
    <3> QED
      BY <1>19, <2>2, <3>1 DEF Commit, Raise, Unwind, LoseTrack
  <2>3. CASE status[cur] # "purged" /\ verdict # "queued"
    <3>1. /\ pc = "commit" /\ pc' = "take" /\ status' = Set({cur}, verdict)
          /\ UNCHANGED <<link, doubt, air, dup>>
      BY <1>19, <2>3 DEF Commit
    <3>2. cur \in Messages /\ verdict \in {"sent", "failed"}
      BY <2>3, <3>1 DEF Verdicts
    <3>3. \A k \in Messages : status'[k] = IF k = cur THEN verdict ELSE status[k]
      BY <3>1
    <3> HIDE DEF Set
    <3> QED
      BY <2>3, <3>1, <3>2, <3>3
  <2> QED
    BY <2>1, <2>2, <2>3
<1>20. CASE NothingAttached
  BY <1>20 DEF NothingAttached, Raise, Unwind, LoseTrack
<1>21. ASSUME NEW m \in Messages, Take(m) PROVE Accounting'
  <2>1. CASE status[m] = "purged"
    <3>1. pc = "take" /\ Raise /\ UNCHANGED <<status, air, dup>>
      BY <1>21, <2>1 DEF Take
    <3> QED
      BY <3>1 DEF Raise, Unwind, LoseTrack
  <2>2. CASE status[m] # "purged"
    <3>1. /\ pc = "take" /\ m \in rest
          /\ status' = Set({m}, "sending") /\ UNCHANGED <<doubt, air, dup>>
          /\ pc' = "load" /\ cur' = m /\ next' = 1
      BY <1>21, <2>2 DEF Take, IsHead
    <3>2. m \in Messages /\ \A k \in Messages :
             status'[k] = IF k = m THEN "sending" ELSE status[k]
      BY <3>1
    <3>3. m \notin doubt => air'[m] = 1..(next' - 1)
      BY <2>2, <3>1
    <3>4. \A k \in Messages \ doubt' : \/ status'[k] \in {"sent", "delivered", "failed", "purged"}
                                       \/ k = m
                                       \/ air'[k] = {}
      BY <3>1, <3>2
    <3> QED
      BY <3>1, <3>3, <3>4
  <2> QED
    BY <2>1, <2>2
<1>22. ASSUME NEW S \in SUBSET Messages, ApplyReports(S) PROVE Accounting'
  BY <1>22 DEF ApplyReports
<1>23. CASE UNCHANGED vars
  BY <1>23 DEF vars
<1> QED
  BY <1>1, <1>2, <1>3, <1>4, <1>5, <1>6, <1>7, <1>8, <1>9, <1>10, <1>11, <1>12,
     <1>13, <1>14, <1>15, <1>16, <1>17, <1>18, <1>19, <1>20, <1>21, <1>22, <1>23
     DEF Next, Api, Fault, Worker

LEMMA StepKeepsOnAir == TypeOK /\ FramesOK /\ OnAir /\ [Next]_vars => OnAir'
<1> SUFFICES ASSUME TypeOK, FramesOK, OnAir, [Next]_vars PROVE OnAir'
  OBVIOUS
<1> USE DEF TypeOK, FramesOK, OnAir, Sending, Rows, Set, database, process, loop, history
<1>1. ASSUME NEW m \in Messages, Accept(m) PROVE OnAir'
  BY <1>1 DEF Accept
<1>2. ASSUME NEW k \in Messages, Purge(k) PROVE OnAir'
  BY <1>2 DEF Purge
<1>3. CASE RequestRestart
  BY <1>3 DEF RequestRestart
<1>4. CASE Crash
  BY <1>4 DEF Crash, Unwind, LoseTrack
<1>5. CASE DatabaseFails
  BY <1>5 DEF DatabaseFails, Raise, Unwind, LoseTrack
<1>6. CASE ConnectFails
  BY <1>6 DEF ConnectFails, Raise, Unwind, LoseTrack
<1>7. CASE ConnectionLost
  BY <1>7 DEF ConnectionLost, MayHaveLeft, Emit, Conclude
<1>8. CASE Boot
  BY <1>8 DEF Boot, Recover
<1>9. CASE CheckRestart
  BY <1>9 DEF CheckRestart
<1>10. CASE Connect
  BY <1>10 DEF Connect
<1>11. CASE Reclaim
  BY <1>11 DEF Reclaim, Recover
<1>12. CASE Retry
  BY <1>12 DEF Retry
<1>13. CASE Drain
  BY <1>13 DEF Drain
<1>14. CASE EndDrain
  BY <1>14 DEF EndDrain
<1>15. CASE Load
  BY <1>15 DEF Load
<1>16. CASE Submit
  BY <1>16 DEF Submit, Emit, Conclude
<1>17. CASE SubmitFails
  BY <1>17 DEF SubmitFails, MayHaveLeft, GiveUpOrRetry, Emit, Conclude
<1>18. CASE NotConnected
  BY <1>18 DEF NotConnected, Conclude
<1>19. CASE Commit
  <2>1. CASE status[cur] = "purged"
    <3>1. Raise /\ UNCHANGED <<status, air, dup>>
      BY <1>19, <2>1 DEF Commit
    <3> QED
      BY <1>19, <2>1, <3>1 DEF Commit, Raise, Unwind, LoseTrack
  <2>2. CASE status[cur] # "purged" /\ verdict = "queued"
    <3>1. Raise /\ status' = Set({cur}, "queued") /\ UNCHANGED <<air, dup>>
      BY <1>19, <2>2 DEF Commit
    <3> QED
      BY <1>19, <2>2, <3>1 DEF Commit, Raise, Unwind, LoseTrack
  <2>3. CASE status[cur] # "purged" /\ verdict # "queued"
    <3>1. /\ pc = "commit" /\ pc' = "take" /\ status' = Set({cur}, verdict)
          /\ UNCHANGED <<link, doubt, air, dup>>
      BY <1>19, <2>3 DEF Commit
    <3>2. cur \in Messages /\ verdict \in {"sent", "failed"}
      BY <2>3, <3>1 DEF Verdicts
    <3>3. \A k \in Messages : status'[k] = IF k = cur THEN verdict ELSE status[k]
      BY <3>1
    <3>4. verdict = "sent" => 1..Parts[cur] \subseteq air[cur]
      BY <3>1, next - 1 = Parts[cur] \/ verdict # "sent"
    <3> HIDE DEF Set
    <3> QED
      BY <3>1, <3>2, <3>3, <3>4
  <2> QED
    BY <2>1, <2>2, <2>3
<1>20. CASE NothingAttached
  BY <1>20 DEF NothingAttached, Raise, Unwind, LoseTrack
<1>21. ASSUME NEW m \in Messages, Take(m) PROVE OnAir'
  BY <1>21 DEF Take, IsHead, Raise, Unwind, LoseTrack
<1>22. ASSUME NEW S \in SUBSET Messages, ApplyReports(S) PROVE OnAir'
  BY <1>22 DEF ApplyReports
<1>23. CASE UNCHANGED vars
  BY <1>23 DEF vars
<1> QED
  BY <1>1, <1>2, <1>3, <1>4, <1>5, <1>6, <1>7, <1>8, <1>9, <1>10, <1>11, <1>12,
     <1>13, <1>14, <1>15, <1>16, <1>17, <1>18, <1>19, <1>20, <1>21, <1>22, <1>23
     DEF Next, Api, Fault, Worker

-----------------------------------------------------------------------------
(* IInv is an inductive invariant of the worker, the modem, the admin      *)
(* panel and every fault.                                                  *)
THEOREM Invariance == Spec => []IInv
<1>1. IInv /\ [Next]_vars => IInv'
  BY StepKeepsTypes, StepKeepsFrames, StepKeepsOwnership, StepKeepsAccounting,
     StepKeepsOnAir DEF IInv
<1> QED
  BY InitEstablishes, <1>1, PTL DEF Spec

(* Every variable keeps to its type.                                       *)
THEOREM TypeCorrect == Spec => []TypeOK
<1>1. IInv => TypeOK
  BY DEF IInv
<1> QED
  BY Invariance, <1>1, PTL

(* At any time at most one message is sending, and during a drain it is    *)
(* the one process_outbox holds: no orphan survives a reconnect.           *)
THEOREM OneOwnedSending == Spec => []SendingIsOwned
<1>1. IInv => SendingIsOwned
  BY DEF IInv, Ownership
<1> QED
  BY Invariance, <1>1, PTL

(* Whatever is retried, requeued, reclaimed or purged, a part leaves the   *)
(* modem twice only after the worker lost track of its message.            *)
THEOREM NoUntrackedDuplicate == Spec => []DuplicateOnlyInDoubt
<1>1. IInv => DuplicateOnlyInDoubt
  BY DEF IInv, Accounting, DuplicateOnlyInDoubt
<1> QED
  BY Invariance, <1>1, PTL

-----------------------------------------------------------------------------
(* Concluded messages.                                                     *)
Concluded(m) == status[m] \in {"sent", "delivered", "failed"}

SilentStep(m) == /\ air'[m] = air[m] /\ (m \in dup' => m \in dup)
                 /\ status'[m] \notin {"queued", "sending"}

(* Nothing of a sent, delivered or failed message leaves the modem again,  *)
(* and its row never returns to the queue.                                 *)
THEOREM ConcludedStaysSilent == Spec => ConcludedIsSilent
<1>1. ASSUME IInv, [Next]_vars, NEW m \in Messages, Concluded(m)
      PROVE  SilentStep(m)
  <2> USE <1>1 DEF IInv, TypeOK, FramesOK, Sending, Rows, Set, database, process, loop, history,
                   Concluded, SilentStep
  <2>1. ASSUME NEW k \in Messages, Accept(k) PROVE SilentStep(m)
    BY <2>1 DEF Accept
  <2>2. ASSUME NEW k \in Messages, Purge(k) PROVE SilentStep(m)
    BY <2>2 DEF Purge
  <2>3. CASE RequestRestart
    BY <2>3 DEF RequestRestart
  <2>4. CASE Crash
    BY <2>4 DEF Crash, Unwind, LoseTrack
  <2>5. CASE DatabaseFails
    BY <2>5 DEF DatabaseFails, Raise, Unwind, LoseTrack
  <2>6. CASE ConnectFails
    BY <2>6 DEF ConnectFails, Raise, Unwind, LoseTrack
  <2>7. CASE ConnectionLost
    BY <2>7 DEF ConnectionLost, MayHaveLeft, Emit, Conclude
  <2>8. CASE Boot
    BY <2>8 DEF Boot, Recover
  <2>9. CASE CheckRestart
    BY <2>9 DEF CheckRestart
  <2>10. CASE Connect
    BY <2>10 DEF Connect
  <2>11. CASE Reclaim
    BY <2>11 DEF Reclaim, Recover
  <2>12. CASE Retry
    BY <2>12 DEF Retry
  <2>13. CASE Drain
    BY <2>13 DEF Drain
  <2>14. CASE EndDrain
    BY <2>14 DEF EndDrain
  <2>15. CASE Load
    BY <2>15 DEF Load
  <2>16. CASE Submit
    BY <2>16 DEF Submit, Emit, Conclude
  <2>17. CASE SubmitFails
    BY <2>17 DEF SubmitFails, MayHaveLeft, GiveUpOrRetry, Emit, Conclude
  <2>18. CASE NotConnected
    BY <2>18 DEF NotConnected, Conclude
  <2>19. CASE Commit
    BY <2>19 DEF Commit, Raise, Unwind, LoseTrack
  <2>20. CASE NothingAttached
    BY <2>20 DEF NothingAttached, Raise, Unwind, LoseTrack
  <2>21. ASSUME NEW k \in Messages, Take(k) PROVE SilentStep(m)
    BY <2>21 DEF Take, IsHead, Raise, Unwind, LoseTrack
  <2>22. ASSUME NEW S \in SUBSET Messages, ApplyReports(S) PROVE SilentStep(m)
    BY <2>22 DEF ApplyReports
  <2>23. CASE UNCHANGED vars
    BY <2>23 DEF vars
  <2> QED
    BY <2>1, <2>2, <2>3, <2>4, <2>5, <2>6, <2>7, <2>8, <2>9, <2>10, <2>11, <2>12,
       <2>13, <2>14, <2>15, <2>16, <2>17, <2>18, <2>19, <2>20, <2>21, <2>22, <2>23
       DEF Next, Api, Fault, Worker
<1>2. IInv /\ [Next]_vars =>
        [\A m \in Messages : status[m] \in {"sent", "delivered", "failed"} =>
            /\ air'[m] = air[m] /\ (m \in dup' => m \in dup)
            /\ status'[m] \notin {"queued", "sending"}]_vars
  BY <1>1 DEF Concluded, SilentStep
<1> QED
  BY Invariance, <1>2, PTL DEF Spec, ConcludedIsSilent

-----------------------------------------------------------------------------
(* The order of the queue.  A message of the list that the loop has come   *)
(* to is not queued while the loop runs: a requeue ends it.                *)
QueueOK == /\ pc \in {"take"} \cup Sending \/ queued = {}
           /\ \A k \in queued : status[k] # "none"
           /\ \A k \in queued \ rest : status[k] # "queued"

LEMMA StepKeepsQueue == TypeOK /\ FramesOK /\ QueueOK /\ [Next]_vars => QueueOK'
<1> SUFFICES ASSUME TypeOK, FramesOK, QueueOK, [Next]_vars PROVE QueueOK'
  OBVIOUS
<1> USE DEF TypeOK, FramesOK, QueueOK, Sending, Rows, Set, database, process, loop, history
<1>1. ASSUME NEW m \in Messages, Accept(m) PROVE QueueOK'
  BY <1>1 DEF Accept
<1>2. ASSUME NEW m \in Messages, Purge(m) PROVE QueueOK'
  BY <1>2 DEF Purge
<1>3. CASE RequestRestart \/ Load \/ NotConnected
  BY <1>3 DEF RequestRestart, Load, NotConnected, Conclude
<1>4. CASE Submit \/ SubmitFails \/ ConnectionLost
  BY <1>4 DEF Submit, SubmitFails, ConnectionLost, MayHaveLeft, GiveUpOrRetry, Emit, Conclude
<1>5. CASE Crash \/ ConnectFails \/ NothingAttached
  BY <1>5 DEF Crash, ConnectFails, NothingAttached, Raise, Unwind
<1>6. CASE DatabaseFails
  BY <1>6 DEF DatabaseFails, Raise, Unwind
<1>7. CASE Boot \/ Reclaim
  BY <1>7 DEF Boot, Reclaim, Recover
<1>8. CASE CheckRestart \/ Connect \/ Retry
  BY <1>8 DEF CheckRestart, Connect, Retry
<1>9. CASE Drain \/ EndDrain
  BY <1>9 DEF Drain, EndDrain
<1>10. CASE Commit
  BY <1>10 DEF Commit, Raise, Unwind
<1>11. ASSUME NEW m \in Messages, Take(m) PROVE QueueOK'
  BY <1>11 DEF Take, IsHead, Raise, Unwind
<1>12. ASSUME NEW S \in SUBSET Messages, ApplyReports(S) PROVE QueueOK'
  BY <1>12 DEF ApplyReports
<1>13. CASE UNCHANGED vars
  BY <1>13 DEF vars
<1> QED
  BY <1>1, <1>2, <1>3, <1>4, <1>5, <1>6, <1>7, <1>8, <1>9, <1>10, <1>11, <1>12, <1>13
     DEF Next, Api, Fault, Worker

LEMMA QueueInvariant == Spec => []QueueOK
<1>1. Init => QueueOK
  BY DEF Init, QueueOK
<1>2. IInv /\ QueueOK /\ [Next]_vars => QueueOK'
  BY StepKeepsQueue DEF IInv
<1> QED
  BY Invariance, <1>1, <1>2, PTL DEF Spec

(* No message is taken while an older one of the same list is queued: the  *)
(* queue is first in, first out within a drain.                            *)
THEOREM QueueIsFifo == Spec => NoOvertaking
<1> DEFINE InTurn(m, k) == (m \in queued /\ status[m] = "queued" /\ status'[m] = "sending"
                              /\ k \in queued /\ k < m) => status[k] # "queued"
<1>1. ASSUME IInv, QueueOK, [Next]_vars, NEW m \in Messages, NEW k \in Messages
      PROVE  InTurn(m, k)
  <2> SUFFICES ASSUME status[m] = "queued", status'[m] = "sending", k \in queued, k < m
               PROVE  status[k] # "queued"
    OBVIOUS
  <2> USE <1>1 DEF IInv, TypeOK, FramesOK, Sending, Rows, Set, database, process, loop
  <2>1. \E q \in Messages : Take(q)
    BY DEF Next, Api, Fault, Worker, vars, Accept, Purge, RequestRestart, Crash, DatabaseFails,
           ConnectFails, ConnectionLost, Boot, CheckRestart, Connect, Reclaim, Recover, Retry,
           Drain, EndDrain, Load, Submit, SubmitFails, NotConnected, Commit, NothingAttached,
           ApplyReports, Verdicts
  <2>2. IsHead(m)
    BY <2>1 DEF Take
  <2>3. k \notin rest
    BY <2>2 DEF IsHead
  <2> QED
    BY <2>3 DEF QueueOK
<1>2. IInv /\ QueueOK /\ [Next]_vars => [\A m, k \in Messages : InTurn(m, k)]_vars
  BY <1>1
<1>3. Spec => [][\A m, k \in Messages : InTurn(m, k)]_vars
  BY Invariance, QueueInvariant, <1>2, PTL DEF Spec
<1> QED
  BY <1>3 DEF NoOvertaking

-----------------------------------------------------------------------------
(* The worker keeps the contract.  What a caller of the API sees of a      *)
(* message, and the messages that went out as a whole:                     *)
Phase == [m \in Messages |->
            IF status[m] \in {"queued", "sending"} THEN "pending" ELSE status[m]]
Heard == {m \in Messages : 1..Parts[m] \subseteq air[m]}

LEMMA ContractStarts == Init => Contract!ContractInit
<1> SUFFICES ASSUME Init PROVE Contract!ContractInit
  OBVIOUS
<1>1. \A m \in Messages : ~(1..Parts[m] \subseteq {})
  <2> TAKE m \in Messages
  <2>1. 1 \in 1..Parts[m]
    OBVIOUS
  <2> QED
    BY <2>1
<1> QED
  BY <1>1 DEF Init, Contract!ContractInit

(* A step that neither moves a row between phases nor reaches the air.     *)
LEMMA Stutter ==
  ASSUME UNCHANGED <<Phase, Heard>>
  PROVE  [Contract!ContractNext]_Contract!contractVars
BY DEF Phase, Heard, Contract!contractVars

(* A part of the message in hand leaves: the message is heard, or nothing. *)
LEMMA EmitTransmits ==
  ASSUME IInv, pc = "submit", Emit, UNCHANGED status
  PROVE  [Contract!ContractNext]_Contract!contractVars
<1> USE DEF IInv, TypeOK, FramesOK, Sending
<1>1. cur \in Messages /\ status[cur] \in {"sending", "purged"}
  OBVIOUS
<1>2. \A m \in Messages : air[m] \subseteq air'[m] /\ (m # cur => air'[m] = air[m])
  BY DEF Emit
<1>3. Phase' = Phase
  BY DEF Phase
<1>4. Heard' = Heard \/ Heard' = Heard \cup {cur}
  BY <1>1, <1>2 DEF Heard
<1>5. CASE Heard' = Heard
  BY <1>3, <1>5, Stutter
<1>6. CASE Heard' = Heard \cup {cur}
  <2>1. Phase[cur] \in {"pending", "purged"}
    BY <1>1 DEF Phase
  <2>2. PICK m \in Messages : m = cur
    BY <1>1
  <2>3. Contract!Transmits(m)
    BY <1>3, <1>6, <2>1, <2>2 DEF Contract!Transmits, Phase, Heard
  <2> QED
    BY <2>3 DEF Contract!ContractNext
<1> QED
  BY <1>4, <1>5, <1>6

(* Rows go back to the queue, or from it into the worker's hand.           *)
LEMMA PendingStays ==
  ASSUME NEW S \in SUBSET Messages, NEW s \in {"queued", "sending"},
         \A m \in S : status[m] \in {"queued", "sending"},
         status' = Set(S, s), UNCHANGED air
  PROVE  [Contract!ContractNext]_Contract!contractVars
<1>1. Phase' = Phase
  BY DEF Phase, Set
<1>2. Heard' = Heard
  BY DEF Heard
<1> QED
  BY <1>1, <1>2, Stutter

LEMMA StepKeepsContract ==
  IInv /\ [Next]_vars => [Contract!ContractNext]_Contract!contractVars
<1> SUFFICES ASSUME IInv, [Next]_vars
             PROVE  [Contract!ContractNext]_Contract!contractVars
  OBVIOUS
<1> DEFINE Goal == [Contract!ContractNext]_Contract!contractVars
<1> USE DEF database, process, loop, history
<1>1. ASSUME NEW m \in Messages, Accept(m) PROVE Goal
  <2>1. Heard' = Heard
    BY <1>1 DEF Accept, Heard
  <2>2. Phase[m] = "none" /\ Phase' = [Phase EXCEPT ![m] = "pending"]
    BY <1>1 DEF Accept, Phase, Set
  <2>3. Contract!Accepts(m)
    BY <2>1, <2>2 DEF Contract!Accepts, Phase, Heard
  <2> QED
    BY <2>3 DEF Contract!ContractNext
<1>2. ASSUME NEW k \in Messages, Purge(k) PROVE Goal
  <2> DEFINE old == {m \in Messages : m <= k /\ status[m] \notin {"none", "purged"}}
  <2>1. Heard' = Heard
    BY <1>2 DEF Purge, Heard
  <2>2. status' = Set(old, "purged")
    BY <1>2 DEF Purge
  <2>3. /\ \A m \in old : Phase[m] # "none"
        /\ Phase' = [m \in Messages |-> IF m \in old THEN "purged" ELSE Phase[m]]
    BY <2>2 DEF Phase, Set
  <2>4. PICK S \in SUBSET Messages : S = old
    OBVIOUS
  <2>5. Contract!Forgets(S)
    BY <2>1, <2>3, <2>4 DEF Contract!Forgets, Phase, Heard
  <2> QED
    BY <2>5 DEF Contract!ContractNext
<1>3. CASE UNCHANGED <<status, air>>
  BY <1>3, Stutter DEF Phase, Heard
<1>4. CASE Recover /\ UNCHANGED air
  BY <1>4, PendingStays DEF Recover, Rows
<1>5. CASE pc = "submit" /\ MayHaveLeft /\ UNCHANGED status
  <2>1. CASE Emit
    BY <1>5, <2>1, EmitTransmits
  <2>2. CASE UNCHANGED air
    BY <1>5, <2>2, <1>3
  <2> QED
    BY <1>5, <2>1, <2>2 DEF MayHaveLeft
<1>6. CASE Submit
  BY <1>6, EmitTransmits DEF Submit
<1>7. CASE Commit
  <2> USE DEF IInv, TypeOK, FramesOK, Sending
  <2>1. CASE status[cur] = "purged"
    <3>1. UNCHANGED <<status, air>>
      BY <1>7, <2>1 DEF Commit
    <3> QED
      BY <3>1, <1>3
  <2>2. CASE status[cur] # "purged"
    <3>1. /\ pc = "commit" /\ cur \in Messages /\ status[cur] = "sending"
          /\ status' = Set({cur}, verdict) /\ air' = air
      BY <1>7, <2>2 DEF Commit
    <3>2. CASE verdict = "queued"
      BY <3>1, <3>2, PendingStays
    <3>3. CASE verdict \in {"sent", "failed"}
      <4>1. Heard' = Heard
        BY <3>1 DEF Heard
      <4>2. Phase[cur] = "pending" /\ Phase' = [Phase EXCEPT ![cur] = verdict]
        BY <3>1, <3>3 DEF Phase, Set
      <4>3. verdict = "sent" => cur \in Heard
        <5>1. verdict = "sent" => next - 1 = Parts[cur]
          BY <3>1
        <5> QED
          BY <3>1, <5>1 DEF Heard, OnAir
      <4>4. PICK m \in Messages : m = cur
        BY <3>1
      <4>5. Contract!Concludes(m)
        BY <3>3, <4>1, <4>2, <4>3, <4>4 DEF Contract!Concludes, Phase, Heard
      <4> QED
        BY <4>5 DEF Contract!ContractNext
    <3> QED
      BY <3>1, <3>2, <3>3 DEF Verdicts
  <2> QED
    BY <2>1, <2>2
<1>8. ASSUME NEW m \in Messages, Take(m) PROVE Goal
  <2>1. CASE status[m] = "purged"
    <3>1. UNCHANGED <<status, air>>
      BY <1>8, <2>1 DEF Take
    <3> QED
      BY <3>1, <1>3
  <2>2. CASE status[m] # "purged"
    <3>1. status' = Set({m}, "sending") /\ air' = air /\ m \in rest
      BY <1>8, <2>2 DEF Take, IsHead
    <3>2. status[m] = "queued"
      BY <2>2, <3>1 DEF IInv, FramesOK
    <3> QED
      BY <3>1, <3>2, PendingStays
  <2> QED
    BY <2>1, <2>2
<1>9. ASSUME NEW S \in SUBSET Messages, ApplyReports(S) PROVE Goal
  <2>1. Heard' = Heard
    BY <1>9 DEF ApplyReports, Heard
  <2>2. /\ \A m \in S : Phase[m] = "sent"
        /\ Phase' = [m \in Messages |-> IF m \in S THEN "delivered" ELSE Phase[m]]
    BY <1>9 DEF ApplyReports, Phase, Set, Rows
  <2>3. Contract!Confirms(S)
    BY <2>1, <2>2 DEF Contract!Confirms, Phase, Heard
  <2> QED
    BY <2>3 DEF Contract!ContractNext
<1>10. RequestRestart \/ Crash \/ DatabaseFails \/ ConnectFails \/ CheckRestart
         \/ Connect \/ Retry \/ Drain \/ EndDrain \/ Load \/ NotConnected
         \/ NothingAttached \/ UNCHANGED vars
       => UNCHANGED <<status, air>>
  BY DEF RequestRestart, Crash, DatabaseFails, ConnectFails, CheckRestart, Connect,
         Retry, Drain, EndDrain, Load, NotConnected, NothingAttached, vars
<1>11. Boot \/ Reclaim => Recover /\ UNCHANGED air
  BY DEF Boot, Reclaim
<1>12. ConnectionLost \/ SubmitFails => pc = "submit" /\ MayHaveLeft /\ UNCHANGED status
  BY FailedSubmit
<1> QED
  BY <1>1, <1>2, <1>3, <1>4, <1>5, <1>6, <1>7, <1>8, <1>9, <1>10, <1>11, <1>12
     DEF Next, Api, Fault, Worker

(* The worker, with its retries, reconnects, crashes and reclaims, does    *)
(* nothing that the outbound contract does not allow.                      *)
THEOREM WorkerKeepsContract == Spec => KeepsContract
<1> QED
  BY ContractStarts, StepKeepsContract, Invariance, PTL
     DEF Spec, KeepsContract, Contract!ContractSpec
=============================================================================
