------------------------------- MODULE Inbound ------------------------------
(***************************************************************************)
(* The inbound half of the worker: what the modem stores or announces, the *)
(* driver that drains it (GammuDriver.fetch_inbound and _drain_storage),   *)
(* and process_inbound, which commits texts and delivery reports.          *)
(*                                                                         *)
(* The modem deals in pieces: the parts of a text, and status reports.  A  *)
(* text is the set of its parts; what one drain of the storage reads of it *)
(* becomes one row, what the callback captures a row of its own.  A piece  *)
(* is deleted from the modem before the row made of it is committed, and   *)
(* the worker may die, or a transaction fail, in between.                  *)
(*                                                                         *)
(* The definitions named Bug... are faulty variants of the one that        *)
(* follows: no action uses them, they show that the properties can fail.   *)
(***************************************************************************)
EXTENDS Naturals, FiniteSets

CONSTANTS Texts,      \* the texts that reach the SIM, each the set of its parts
          Reports,    \* status reports
          MaxFaults   \* bound: crashes, failed reads, failed commits

TextParts == UNION Texts

ASSUME TextsAssumption == \A t, u \in Texts : t = u \/ t \cap u = {}
ASSUME PiecesAssumption == TextParts \cap Reports = {}
ASSUME FaultsAssumption == MaxFaults \in Nat

Pieces == TextParts \cup Reports

VARIABLES coming,   \* pieces still in the network
          storage,  \* pieces in the modem's message storage
          pending,  \* driver._pending: captured by the incoming callback
          pc,       \* where the worker stands
          taken,    \* what fetch_inbound swapped out of _pending
          raw,      \* what _drain_storage has read
          todo,     \* locations it has still to delete
          rows,     \* the rows of texts, each as the parts it was made of
          applied,  \* the reports that were applied to their message
          faults,   \* faults so far
          twice,    \* history: pieces committed again
          kept,     \* history: pieces whose deletion failed
          apart,    \* history: texts of which a part was captured, or still
                    \* on its way when another was read
          exposed   \* history: pieces deleted or captured, but not committed,
                    \* when the worker died or the commit failed

hand == <<taken, raw, todo>>
modem == <<coming, storage>>
database == <<rows, applied>>
history == <<twice, kept, apart, exposed>>
vars == <<modem, pending, pc, hand, database, faults, history>>

Init == /\ coming = Pieces
        /\ storage = {} /\ pending = {}
        /\ pc = "down"
        /\ taken = {} /\ raw = {} /\ todo = {}
        /\ rows = {} /\ applied = {}
        /\ faults = 0
        /\ twice = {} /\ kept = {} /\ apart = {} /\ exposed = {}

-----------------------------------------------------------------------------
(* The modem and the network.                                              *)

Store(x) == /\ x \in coming
            /\ coming' = coming \ {x}
            /\ storage' = storage \cup {x}
            /\ UNCHANGED <<pending, pc, hand, database, faults, history>>

(* _on_incoming runs while a gammu command processes the serial buffer:    *)
(* a send, a status query, but in the middle of a drain too.               *)
Announce(x) == /\ x \in coming
               /\ pc \in {"idle", "read", "delete"}
               /\ coming' = coming \ {x}
               /\ pending' = pending \cup {x}
               /\ apart' = apart \cup {t \in Texts : x \in t}
               /\ UNCHANGED <<storage, pc, hand, database, faults, twice, kept, exposed>>

-----------------------------------------------------------------------------
(* The driver: fetch_inbound.                                              *)

InHand == taken \cup raw

(* What is committed.                                                      *)
stored == (UNION rows) \cup applied

BugDropHand == taken' = {} /\ raw' = {} /\ UNCHANGED todo

DropHand == taken' = {} /\ raw' = {} /\ todo' = {}

(* What the worker forgets for good with the pieces of S.                  *)
Expose(S) == exposed' = exposed \cup (S \ (storage \cup stored))

Start == /\ pc = "down"
         /\ pc' = "idle"
         /\ UNCHANGED <<modem, pending, hand, database, faults, history>>

BugFetch == /\ pc = "idle"
            /\ taken' = pending /\ UNCHANGED pending
            /\ pc' = "read"
            /\ UNCHANGED <<modem, raw, todo, database, faults, history>>

Fetch == /\ pc = "idle"
         /\ taken' = pending /\ pending' = {}
         /\ pc' = "read"
         /\ UNCHANGED <<modem, raw, todo, database, faults, history>>

(* GetNextSMS until the storage is empty.                                  *)
ReadAll == /\ pc = "read"
           /\ raw' = storage /\ todo' = storage
           /\ apart' = apart \cup {t \in Texts : t \cap storage # {} /\ t \cap coming # {}}
           /\ pc' = "delete"
           /\ UNCHANGED <<modem, pending, taken, database, faults, twice, kept, exposed>>

BugForgetPending == /\ pc = "read"
                    /\ faults < MaxFaults
                    /\ faults' = faults + 1
                    /\ DropHand
                    /\ pc' = "idle"
                    /\ UNCHANGED <<modem, pending, database, history>>

(* A failed read, or one that does not decode, gives back what the         *)
(* callback had captured; the worker reconnects.                           *)
ReadFails == /\ pc = "read"
             /\ faults < MaxFaults
             /\ faults' = faults + 1
             /\ pending' = taken \cup pending
             /\ DropHand
             /\ pc' = "idle"
             /\ UNCHANGED <<modem, database, history>>

Delete(x) == /\ pc = "delete" /\ x \in todo
             /\ storage' = storage \ {x}
             /\ todo' = todo \ {x}
             /\ UNCHANGED <<coming, pending, pc, taken, raw, database, faults, history>>

(* Only a warning: the piece is read again in the next cycle.              *)
DeleteFails(x) == /\ pc = "delete" /\ x \in todo
                  /\ todo' = todo \ {x}
                  /\ kept' = kept \cup {x}
                  /\ UNCHANGED <<modem, pending, pc, taken, raw, database, faults,
                                 twice, apart, exposed>>

Fetched == /\ pc = "delete" /\ todo = {}
           /\ pc' = "texts"
           /\ UNCHANGED <<modem, pending, hand, database, faults, history>>

-----------------------------------------------------------------------------
(* The worker: process_inbound.                                            *)

BugLink(S) == {{x} : x \in S}

(* LinkSMS of gammu, as _drain_storage uses it: the parts of one text that *)
(* it is given become one group, be they all of them or not.               *)
Link(S) == {t \cap S : t \in Texts} \ {{}}

(* A row for each group, and one for each text captured by the callback.   *)
Save == /\ rows' = rows \cup Link(raw \cap TextParts)
                         \cup {{x} : x \in taken \cap TextParts}
        /\ twice' = twice \cup (InHand \cap TextParts \cap stored)
        /\ UNCHANGED applied

(* One transaction for both: a stale report rolls the texts back.          *)
BugOneTransaction ==
  /\ pc = "texts"
  /\ Save \/ UNCHANGED <<database, twice>>
  /\ taken' = taken \cap Reports /\ raw' = raw \cap Reports
  /\ pc' = "reports"
  /\ UNCHANGED <<modem, pending, todo, faults, kept, apart, exposed>>

(* The texts, each with its webhook delivery, in one transaction.          *)
CommitTexts == /\ pc = "texts"
               /\ Save
               /\ taken' = taken \cap Reports /\ raw' = raw \cap Reports
               /\ pc' = "reports"
               /\ UNCHANGED <<modem, pending, todo, faults, kept, apart, exposed>>

(* The reports in another one.  A row purged meanwhile raises              *)
(* StaleDataError, and this cycle's reports are skipped.                   *)
CommitReports == /\ pc = "reports"
                 /\ applied' \in {applied, applied \cup InHand}
                 /\ DropHand
                 /\ pc' = "idle"
                 /\ UNCHANGED <<modem, pending, rows, faults, history>>

CommitFails == /\ pc \in {"texts", "reports"}
               /\ faults < MaxFaults
               /\ faults' = faults + 1
               /\ Expose(InHand)
               /\ DropHand
               /\ pc' = "idle"
               /\ UNCHANGED <<modem, pending, database, twice, kept, apart>>

Crash == /\ pc # "down"
         /\ faults < MaxFaults
         /\ faults' = faults + 1
         /\ Expose(InHand \cup pending)
         /\ pending' = {}
         /\ DropHand
         /\ pc' = "down"
         /\ UNCHANGED <<modem, database, twice, kept, apart>>
-----------------------------------------------------------------------------
Network == \E x \in Pieces : Store(x) \/ Announce(x)
Fault == ReadFails \/ CommitFails \/ Crash
Worker == \/ Start \/ Fetch \/ ReadAll \/ Fetched \/ CommitTexts \/ CommitReports
          \/ \E x \in Pieces : Delete(x) \/ DeleteFails(x)

Next == Network \/ Fault \/ Worker

(* The worker loop runs, and docker restarts it; nothing is assumed of the *)
(* network, nor that a deletion ever succeeds.                             *)
Spec == Init /\ [][Next]_vars /\ WF_vars(Worker)
-----------------------------------------------------------------------------
(* Type invariant.                                                         *)
TypeOK == /\ coming \subseteq Pieces /\ storage \subseteq Pieces
          /\ pending \subseteq Pieces
          /\ pc \in {"down", "idle", "read", "delete", "texts", "reports"}
          /\ taken \subseteq Pieces /\ raw \subseteq Pieces /\ todo \subseteq raw
          /\ rows \subseteq SUBSET TextParts /\ applied \subseteq Reports
          /\ faults \in 0..MaxFaults
          /\ twice \subseteq stored /\ kept \subseteq Pieces /\ exposed \subseteq Pieces
          /\ apart \subseteq Texts

(* Every part of a text that has arrived is on the modem, with the driver, *)
(* in the worker's hand or in a row, but for the window between deletion   *)
(* and commit: failed reads, failed deletions, captures during a drain and *)
(* stale reports lose no text.                                             *)
LossOnlyWhenExposed ==
  TextParts \subseteq coming \cup storage \cup pending \cup taken \cup raw
                        \cup stored \cup exposed

(* A part becomes a second row only after the modem failed to delete it:   *)
(* no capture is both given back and stored, no crash stores it twice.     *)
SecondRowOnlyWhenKept == twice \subseteq kept

(* A part on the modem or captured ends in a row, whatever fails to be     *)
(* read or deleted, unless it was exposed to a crash.                      *)
EveryTextIsStored ==
  \A x \in TextParts : x \in storage \cup pending ~> x \in stored \cup exposed

(* A row holds less than a whole text only if the network brought the text *)
(* in several polls or through the callback, or a deletion or a commit of  *)
(* one of its parts failed: failed reads and captures of other texts never *)
(* tear a text that the modem held as a whole.                             *)
TornOnlyByPollsOrFaults ==
  \A t \in Texts : \A r \in rows :
    (r \subseteq t /\ r # t) => t \in apart \/ t \cap (kept \cup exposed) # {}

(* SPEC 4.2.2: multipart messages are reassembled before being stored, so  *)
(* one arriving text becomes one row.                                      *)
OneRowPerText == \A t \in Texts : Cardinality({r \in rows : r \subseteq t}) <= 1

(* SPEC 4.2.3, webhooks.md: a message leaves the modem once it is stored,  *)
(* and none is ever lost.                                                  *)
NoTextIsLost ==
  TextParts \subseteq coming \cup storage \cup pending \cup taken \cup raw \cup stored
=============================================================================
