------------------------------- MODULE Outbox -------------------------------
(***************************************************************************)
(* The outbound half of the gateway: the messages table as a queue, the    *)
(* worker that drains it (worker/main.py), the multipart submit of the     *)
(* modem driver (worker/modem.py), and what the admin panel may do to a    *)
(* row meanwhile.  Each action is one transaction, or one call of the      *)
(* modem; the worker may die, and a transaction may fail, between any two. *)
(*                                                                         *)
(* A message is named by its rank in (created_at, id): the queue is read   *)
(* in that order, and rows may be committed in any order.                  *)
(*                                                                         *)
(* The definitions named Bug... are faulty variants of the one that        *)
(* follows: no action uses them, they show that the properties can fail.   *)
(***************************************************************************)
EXTENDS Naturals

CONSTANTS Messages,     \* every message a caller may ever submit
          Parts,        \* the number of SMS segments each is encoded into
          MaxAttempts,  \* MAX_SEND_ATTEMPTS
          MaxFaults,    \* bound: crashes, lost connections, failed commits
                        \* and restart requests of one behaviour
          NoMessage     \* "the worker holds no message"

ASSUME MessagesAssumption == Messages \subseteq Nat /\ NoMessage \notin Messages
ASSUME PartsAssumption == Parts \in [Messages -> Nat \ {0}]
ASSUME BoundsAssumption == MaxAttempts \in Nat \ {0} /\ MaxFaults \in Nat

VARIABLES status,     \* messages.status; "none" not accepted yet, "purged" deleted
          restart,    \* system_config.restart_worker
          pc,         \* where the worker stands
          link,       \* "on": connected, "off": run() is not connected,
                      \* "dropped": it is, but the driver has no StateMachine
          queued,     \* the list process_outbox has read ...
          rest,       \* ... and what its loop has not come to yet
          cur,        \* the message of the current iteration
          attempt,    \* the current attempt of _send_with_retries
          next,       \* the next part send_sms submits
          verdict,    \* the status the iteration is about to commit
          faults,     \* faults so far
          air,        \* history: the parts of each message that left the modem
          dup,        \* history: messages a part of which left it twice
          doubt,      \* history: messages the worker lost track of
          broken      \* history: messages whose multipart send broke off

database == <<status, restart>>
process == <<pc, link>>
loop == <<queued, rest, cur, attempt, next, verdict>>
history == <<air, dup, doubt, broken>>
vars == <<database, process, loop, faults, history>>

Statuses == {"none", "queued", "sending", "sent", "delivered", "failed", "purged"}
Verdicts == {"none", "queued", "sent", "failed"}
Sending == {"load", "submit", "commit"}
PCs == {"down", "head", "connect", "reclaim", "drain", "take", "inbound", "backoff"}
          \cup Sending

Rows(s) == {m \in Messages : status[m] = s}

(* The rows of S, set to s in one transaction.                             *)
Set(S, s) == [m \in Messages |-> IF m \in S THEN s ELSE status[m]]

Init == /\ status = [m \in Messages |-> "none"]
        /\ restart = FALSE
        /\ pc = "down" /\ link = "off"
        /\ queued = {} /\ rest = {} /\ cur = NoMessage
        /\ attempt = 1 /\ next = 1 /\ verdict = "none"
        /\ faults = 0
        /\ air = [m \in Messages |-> {}]
        /\ dup = {} /\ doubt = {} /\ broken = {}

-----------------------------------------------------------------------------
(* The API process.                                                        *)

(* post_message, chat_send and the test SMS commit a queued row.           *)
Accept(m) == /\ status[m] = "none"
             /\ status' = Set({m}, "queued")
             /\ UNCHANGED <<restart, process, loop, faults, history>>

(* purge_messages deletes all rows older than a cutoff, of any status.     *)
Purge(cutoff) ==
  LET old == {m \in Messages : m <= cutoff /\ status[m] \notin {"none", "purged"}}
  IN /\ old # {}
     /\ status' = Set(old, "purged")
     /\ UNCHANGED <<restart, process, loop, faults, history>>

RequestRestart == /\ ~restart
                  /\ faults < MaxFaults
                  /\ restart' = TRUE
                  /\ faults' = faults + 1
                  /\ UNCHANGED <<status, process, loop, history>>

-----------------------------------------------------------------------------
(* The worker: start, restart, reconnect.                                  *)

(* The frames of process_outbox and of the calls below it are gone.        *)
Unwind == /\ queued' = {} /\ rest' = {} /\ cur' = NoMessage
          /\ attempt' = 1 /\ next' = 1 /\ verdict' = "none"

(* What the worker no longer knows when they go: parts of cur left.        *)
LoseTrack == doubt' = IF pc \in Sending /\ next > 1 THEN doubt \cup {cur} ELSE doubt

(* The except clause of run().                                             *)
Raise == /\ pc' = "backoff"
         /\ link' = "off"
         /\ Unwind
         /\ LoseTrack

BugRecoverFailed == status' = Set(Rows("sending") \cup Rows("failed"), "queued")

Recover == status' = Set(Rows("sending"), "queued")

Boot == /\ pc = "down"
        /\ Recover
        /\ pc' = "head"
        /\ UNCHANGED <<restart, link, loop, faults, history>>

(* restart_requested clears the flag, and run() exits; docker restarts it. *)
CheckRestart == /\ pc = "head"
                /\ \/ /\ restart
                      /\ restart' = FALSE
                      /\ pc' = "down" /\ link' = "off"
                   \/ /\ ~restart
                      /\ pc' = IF link # "off" THEN "drain" ELSE "connect"
                      /\ UNCHANGED <<restart, link>>
                /\ UNCHANGED <<status, loop, faults, history>>

Connect == /\ pc = "connect"
           /\ link' = "on"
           /\ pc' = "reclaim"
           /\ UNCHANGED <<database, loop, faults, history>>

ConnectFails == /\ pc = "connect"
                /\ faults < MaxFaults
                /\ faults' = faults + 1
                /\ Raise
                /\ UNCHANGED <<database, air, dup, broken>>

BugNoReclaim == /\ pc = "reclaim"
                /\ pc' = "drain"
                /\ UNCHANGED <<database, link, loop, faults, history>>

Reclaim == /\ pc = "reclaim"
           /\ Recover
           /\ pc' = "drain"
           /\ UNCHANGED <<restart, link, loop, faults, history>>

Retry == /\ pc = "backoff"
         /\ pc' = "head"
         /\ UNCHANGED <<database, link, loop, faults, history>>

(* A statement or a commit fails.  Reading the row before a send is inside *)
(* the try of process_outbox, which makes of it a failed message.          *)
DatabaseFails ==
  /\ pc \in {"head", "reclaim", "drain", "take", "load", "commit", "inbound"}
  /\ faults < MaxFaults
  /\ faults' = faults + 1
  /\ IF pc = "load"
       THEN /\ pc' = "commit" /\ verdict' = "failed"
            /\ UNCHANGED <<link, queued, rest, cur, attempt, next, doubt>>
       ELSE Raise
  /\ UNCHANGED <<database, air, dup, broken>>

Crash == /\ pc # "down"
         /\ faults < MaxFaults
         /\ faults' = faults + 1
         /\ pc' = "down" /\ link' = "off"
         /\ Unwind
         /\ LoseTrack
         /\ UNCHANGED <<database, air, dup, broken>>

-----------------------------------------------------------------------------
(* The worker: process_outbox.                                             *)

Drain == /\ pc = "drain"
         /\ queued' = Rows("queued") /\ rest' = Rows("queued")
         /\ pc' = "take"
         /\ UNCHANGED <<database, link, cur, attempt, next, verdict,
                        faults, history>>

IsHead(m) == m \in rest /\ \A k \in rest : m <= k

(* The loop is over, or the token bucket denies the next message.          *)
EndDrain == /\ pc = "take"
            /\ queued' = {} /\ rest' = {}
            /\ pc' = "inbound"
            /\ UNCHANGED <<database, link, cur, attempt, next, verdict,
                           faults, history>>

(* The bucket grants the message's segments; the row is committed as       *)
(* sending.  A row purged since it was read makes the refresh or the       *)
(* commit raise.                                                           *)
Take(m) ==
  /\ pc = "take" /\ IsHead(m)
  /\ IF status[m] = "purged"
       THEN Raise /\ UNCHANGED status
       ELSE /\ status' = Set({m}, "sending")
            /\ pc' = "load" /\ cur' = m /\ rest' = rest \ {m}
            /\ attempt' = 1 /\ next' = 1
            /\ UNCHANGED <<link, queued, verdict, doubt>>
  /\ UNCHANGED <<restart, faults, air, dup, broken>>

(* The row is read again for the send: the commit expired it.              *)
Load == /\ pc = "load"
        /\ IF status[cur] = "purged"
             THEN pc' = "commit" /\ verdict' = "failed"
             ELSE pc' = "submit" /\ UNCHANGED verdict
        /\ UNCHANGED <<database, link, queued, rest, cur, attempt,
                       next, faults, history>>

Conclude(v) == pc' = "commit" /\ verdict' = v

(* The current part leaves the modem.                                      *)
Emit == /\ air' = [air EXCEPT ![cur] = @ \cup {next}]
        /\ dup' = IF next \in air[cur] THEN dup \cup {cur} ELSE dup

BugLastPart == /\ pc = "submit" /\ link = "on"
               /\ Emit
               /\ next' = next + 1
               /\ IF next + 1 >= Parts[cur]
                    THEN Conclude("sent")
                    ELSE UNCHANGED <<pc, verdict>>
               /\ UNCHANGED <<database, link, queued, rest, cur, attempt,
                              faults, doubt, broken>>

(* The driver submits the next part, and the modem takes it.               *)
Submit == /\ pc = "submit" /\ link = "on"
          /\ Emit
          /\ next' = next + 1
          /\ IF next = Parts[cur]
               THEN Conclude("sent")
               ELSE UNCHANGED <<pc, verdict>>
          /\ UNCHANGED <<database, link, queued, rest, cur, attempt,
                         faults, doubt, broken>>

(* A failed submit: the part has left all the same, or it has not.  When   *)
(* it is the first, the worker takes the message for unsent.               *)
MayHaveLeft == \/ /\ Emit
                  /\ doubt' = IF next = 1 THEN doubt \cup {cur} ELSE doubt
               \/ UNCHANGED <<air, dup, doubt>>

BugRetryPartial == /\ next' = 1
                   /\ IF attempt < MaxAttempts
                        THEN attempt' = attempt + 1 /\ UNCHANGED <<pc, verdict>>
                        ELSE Conclude("failed") /\ UNCHANGED attempt
                   /\ UNCHANGED broken

BugAttempts == /\ UNCHANGED next
               /\ IF next = 1 /\ attempt <= MaxAttempts
                    THEN attempt' = attempt + 1 /\ UNCHANGED <<pc, verdict>>
                    ELSE Conclude("failed") /\ UNCHANGED attempt
               /\ broken' = IF next > 1 THEN broken \cup {cur} ELSE broken

(* PartialSendError, which is never retried, or a message-level failure,   *)
(* which is, MaxAttempts times in all.                                     *)
GiveUpOrRetry == /\ UNCHANGED next
                 /\ IF next = 1 /\ attempt < MaxAttempts
                      THEN attempt' = attempt + 1 /\ UNCHANGED <<pc, verdict>>
                      ELSE Conclude("failed") /\ UNCHANGED attempt
                 /\ broken' = IF next > 1 THEN broken \cup {cur} ELSE broken

SubmitFails == /\ pc = "submit" /\ link = "on"
               /\ MayHaveLeft
               /\ GiveUpOrRetry
               /\ UNCHANGED <<database, link, queued, rest, cur, faults>>

(* The connection is lost: the driver drops its StateMachine.  Before the  *)
(* first part the message is kept for after the reconnect.                 *)
ConnectionLost ==
  /\ pc = "submit" /\ link = "on"
  /\ faults < MaxFaults
  /\ faults' = faults + 1
  /\ link' = "dropped"
  /\ MayHaveLeft
  /\ Conclude(IF next = 1 THEN "queued" ELSE "failed")
  /\ broken' = IF next > 1 THEN broken \cup {cur} ELSE broken
  /\ UNCHANGED <<database, queued, rest, cur, attempt, next>>

(* A multipart send that lost the connection has failed, the loop goes on, *)
(* and the next message finds no StateMachine.                             *)
NotConnected == /\ pc = "submit" /\ link = "dropped"
                /\ Conclude("queued")
                /\ UNCHANGED <<database, link, queued, rest, cur,
                               attempt, next, faults, history>>

BugGoOn ==
  /\ pc = "commit"
  /\ IF status[cur] = "purged"
       THEN Raise /\ UNCHANGED status
       ELSE /\ status' = Set({cur}, verdict)
            /\ pc' = "take" /\ cur' = NoMessage /\ verdict' = "none"
            /\ attempt' = 1 /\ next' = 1
            /\ UNCHANGED <<link, queued, rest, doubt>>
  /\ UNCHANGED <<restart, faults, air, dup, broken>>

(* The row gets its verdict.  The commit raises when the row was purged,   *)
(* and the ModemConnectionError is raised again after the requeue.         *)
Commit ==
  /\ pc = "commit"
  /\ IF status[cur] = "purged"
       THEN Raise /\ UNCHANGED status
       ELSE /\ status' = Set({cur}, verdict)
            /\ IF verdict = "queued"
                 THEN Raise
                 ELSE /\ pc' = "take" /\ cur' = NoMessage /\ verdict' = "none"
                      /\ attempt' = 1 /\ next' = 1
                      /\ UNCHANGED <<link, queued, rest, doubt>>
  /\ UNCHANGED <<restart, faults, air, dup, broken>>

-----------------------------------------------------------------------------
(* The worker: process_inbound, as far as it concerns outbound messages.   *)

(* The delivery reports of one fetch mark the sent messages they match.    *)
(* The heartbeat follows; when it fails, the loop head might as well have. *)
ApplyReports(S) == /\ pc = "inbound" /\ link = "on"
                   /\ S \subseteq Rows("sent")
                   /\ status' = Set(S, "delivered")
                   /\ pc' = "head"
                   /\ UNCHANGED <<restart, link, loop, faults, history>>

NothingAttached == /\ pc = "inbound" /\ link = "dropped"
                   /\ Raise
                   /\ UNCHANGED <<database, faults, air, dup, broken>>

-----------------------------------------------------------------------------
Api == \/ \E m \in Messages : Accept(m) \/ Purge(m)
       \/ RequestRestart

Fault == Crash \/ DatabaseFails \/ ConnectFails \/ ConnectionLost

Worker == \/ Boot \/ CheckRestart \/ Connect \/ Reclaim \/ Retry
          \/ Drain \/ EndDrain \/ Load \/ Submit \/ SubmitFails \/ NotConnected
          \/ Commit \/ NothingAttached
          \/ \E m \in Messages : Take(m)
          \/ \E S \in SUBSET Messages : ApplyReports(S)

Next == Api \/ Fault \/ Worker

Spec == Init /\ [][Next]_vars

(* The worker keeps running, docker restarting it, and the token bucket    *)
(* refills: a message that is again and again next in turn gets its tokens.*)
Fairness == WF_vars(Worker) /\ SF_vars(\E m \in Messages : Take(m))

FairSpec == Spec /\ Fairness

-----------------------------------------------------------------------------
(* Type invariant.                                                         *)
TypeOK == /\ status \in [Messages -> Statuses]
          /\ restart \in BOOLEAN
          /\ pc \in PCs
          /\ link \in {"on", "off", "dropped"}
          /\ queued \subseteq Messages /\ rest \subseteq queued
          /\ cur \in Messages \cup {NoMessage}
          /\ attempt \in 1..MaxAttempts /\ next \in Nat \ {0} /\ verdict \in Verdicts
          /\ faults \in 0..MaxFaults
          /\ air \in [Messages -> SUBSET (Nat \ {0})]
          /\ dup \subseteq Messages /\ doubt \subseteq Messages /\ broken \subseteq Messages

(* At most one message is in status sending, and while the worker drains   *)
(* the queue it is the one it holds: a message orphaned by a crash or a    *)
(* failed commit is reclaimed before the queue is read again               *)
(* (recover_interrupted_sends, and the safe point at main.py:307).         *)
SendingIsOwned ==
  /\ \A m, k \in Rows("sending") : m = k
  /\ pc \in {"drain", "take", "inbound"} => Rows("sending") = {}
  /\ pc \in Sending => Rows("sending") \subseteq {cur}

(* No part leaves the modem twice, unless the worker lost track of the     *)
(* message: it died or could not commit with parts out, or the modem had   *)
(* sent the first part of a submit it reported as failed.  In particular   *)
(* retries, requeues, reclaims and purges alone never duplicate an SMS.    *)
DuplicateOnlyInDoubt == dup \subseteq doubt

(* A concluded message is silent: nothing of it leaves the modem once its  *)
(* row is sent, delivered or failed, whatever the worker requeues.         *)
ConcludedIsSilent ==
  [][\A m \in Messages : status[m] \in {"sent", "delivered", "failed"} =>
        /\ air'[m] = air[m] /\ (m \in dup' => m \in dup)
        /\ status'[m] \notin {"queued", "sending"}]_vars

(* FIFO (SPEC 4.1.2): no message of the list read by process_outbox is     *)
(* taken while an older one of the same list is still queued, even one     *)
(* that was taken and requeued meanwhile.                                  *)
NoOvertaking ==
  [][\A m, k \in Messages :
        (m \in queued /\ status[m] = "queued" /\ status'[m] = "sending"
           /\ k \in queued /\ k < m) => status[k] # "queued"]_vars

(* The outbound contract, which knows neither the worker nor its faults.   *)
Contract == INSTANCE OutboundContract WITH
  phase <- [m \in Messages |->
              IF status[m] \in {"queued", "sending"} THEN "pending" ELSE status[m]],
  heard <- {m \in Messages : 1..Parts[m] \subseteq air[m]}

KeepsContract == Contract!ContractSpec

(* SPEC 4.1.6: a multipart send that partly succeeded is never retried.    *)
PartialNeverRetried ==
  [][\A m \in Messages : m \in broken =>
        air'[m] = air[m] /\ (m \in dup' => m \in dup)]_vars

(* Every accepted message is concluded, or purged by the administrator.    *)
EveryMessageConcludes ==
  \A m \in Messages : status[m] \in {"queued", "sending"} ~>
                        status[m] \in {"sent", "delivered", "failed", "purged"}
=============================================================================
