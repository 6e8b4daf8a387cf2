------------------------------- MODULE Reports ------------------------------
(***************************************************************************)
(* Delivery reports and the rows they are booked on                        *)
(* (_apply_delivery_report of worker/main.py).  Every part that leaves the *)
(* modem takes the next message reference, one byte that wraps; the row    *)
(* keeps the one of its last part.  The network's reports come late, in    *)
(* any order, more than once (a deletion failed), or never.                *)
(*                                                                         *)
(* The definitions named Bug... are faulty variants of the one that        *)
(* follows: no action uses them, they show that the properties can fail.   *)
(***************************************************************************)
EXTENDS Integers, FiniteSets

CONSTANTS RepMessages,  \* outbound rows
          Numbers,      \* their recipients
          MaxParts,     \* parts of a message
          Modulus,      \* references there are: 256
          MaxSubmits,   \* bound on the parts that leave the modem
          NoReference   \* the modem's answer, or a report, has none

ASSUME ReportsAssumption == /\ Modulus \in Nat \ {0} /\ MaxParts \in 1..Modulus
                            /\ MaxSubmits \in Nat /\ NoReference \notin Nat

Submits == 1..MaxSubmits

VARIABLES to,       \* per message: msisdn
          state,    \* "queued", "sent", "failed", "delivered", "purged"
          kept,     \* the part whose reference is modem_ref, or NoPart
          sentAt,   \* sent_at, in seconds
          second,   \* the clock
          carried,  \* history: per part that left, its message
          credit    \* history: per delivered message, the report that did it

repVars == <<to, state, kept, sentAt, second, carried, credit>>

NoPart == 0
Reference(s) == IF s = NoPart THEN NoReference ELSE s % Modulus
modem_ref(m) == Reference(kept[m])
sent == Cardinality(DOMAIN carried)

RepInit == /\ to \in [RepMessages -> Numbers]
           /\ state = [m \in RepMessages |-> "queued"]
           /\ kept = [m \in RepMessages |-> NoPart]
           /\ sentAt = [m \in RepMessages |-> 0]
           /\ second = 0
           /\ carried = <<>>
           /\ credit = [m \in RepMessages |-> [part |-> NoPart, guessed |-> FALSE]]

(* k parts of m leave the modem.                                           *)
Leave(m, k) == /\ sent + k <= MaxSubmits
               /\ carried' = [s \in 1..(sent + k) |-> IF s <= sent THEN carried[s] ELSE m]

(* The send completes: the row keeps the reference of the last part for    *)
(* which the modem gave one.  Two rows may be sent in one second.          *)
Send(m, k) == /\ state[m] = "queued"
              /\ Leave(m, k)
              /\ state' = [state EXCEPT ![m] = "sent"]
              /\ \E s \in {NoPart} \cup (sent + 1)..(sent + k) : kept' = [kept EXCEPT ![m] = s]
              /\ second' \in {second, second + 1}
              /\ sentAt' = [sentAt EXCEPT ![m] = second']
              /\ UNCHANGED <<to, credit>>

(* It breaks off, or the worker dies: the row fails, or is queued again.   *)
SendBreaks(m, k) == /\ state[m] = "queued"
                    /\ Leave(m, k)
                    /\ \E s \in {"failed", "queued"} : state' = [state EXCEPT ![m] = s]
                    /\ UNCHANGED <<to, kept, sentAt, second, credit>>

-----------------------------------------------------------------------------
(* What a report for part s, with the reference r, may be booked on.       *)

BugWaiting(s, r) ==
  LET here == {m \in RepMessages : state[m] = "sent" /\ to[m] = to[carried[s]]}
      hit == {m \in here : modem_ref(m) = r}
  IN IF hit = {} THEN here ELSE hit

Waiting(s, r) == {m \in RepMessages : /\ state[m] = "sent"
                                      /\ to[m] = to[carried[s]]
                                      /\ r # NoReference => modem_ref(m) = r}

BugLatest(ms) == {m \in ms : \A n \in ms : sentAt[m] <= sentAt[n]}

(* ORDER BY sent_at DESC: of two in the same second, either.               *)
Latest(ms) == {m \in ms : \A n \in ms : sentAt[n] <= sentAt[m]}

(* Only a report that says "delivered" changes anything.                   *)
ApplyReport(s, r) ==
  /\ s \in DOMAIN carried
  /\ r \in {Reference(s), NoReference}
  /\ \E m \in Latest(Waiting(s, r)) :
       /\ state' = [state EXCEPT ![m] = "delivered"]
       /\ credit' = [credit EXCEPT ![m] = [part |-> s, guessed |-> r = NoReference]]
  /\ UNCHANGED <<to, kept, sentAt, second, carried>>

PurgeRow(m) == /\ state[m] # "purged"
               /\ state' = [state EXCEPT ![m] = "purged"]
               /\ UNCHANGED <<to, kept, sentAt, second, carried, credit>>

RepNext == \/ \E m \in RepMessages : \/ PurgeRow(m)
                                     \/ \E k \in 1..MaxParts : Send(m, k) \/ SendBreaks(m, k)
           \/ \E s \in Submits : \E r \in {Reference(s), NoReference} : ApplyReport(s, r)

RepSpec == RepInit /\ [][RepNext]_repVars

-----------------------------------------------------------------------------
(* Type invariant.                                                         *)
RepTypeOK ==
  /\ to \in [RepMessages -> Numbers]
  /\ state \in [RepMessages -> {"queued", "sent", "failed", "delivered", "purged"}]
  /\ kept \in [RepMessages -> 0..sent]
  /\ second \in 0..MaxSubmits /\ sentAt \in [RepMessages -> 0..second]
  /\ carried \in UNION {[1..k -> RepMessages] : k \in 0..MaxSubmits}
  /\ credit \in [RepMessages -> [part : 0..sent, guessed : BOOLEAN]]

(* main.py:139: a report that carries a reference never marks a different  *)
(* message: it delivers the one that keeps its part's reference -- or,      *)
(* after a whole round of references, another to the same number that      *)
(* bears the same one.                                                             *)
WrongOnlyAfterWrap ==
  \A m \in RepMessages : state[m] = "delivered" =>
    LET s == credit[m].part IN
      /\ to[carried[s]] = to[m]
      /\ \/ credit[m].guessed
         \/ s = kept[m]
         \/ s - kept[m] >= Modulus
         \/ kept[m] - s >= Modulus

(* The report of the part a message keeps is not lost on an older row with *)
(* the same reference: it delivers its own message, unless one that was    *)
(* sent later, or in the same second, bears that reference again.          *)
OwnReportCounts ==
  [][\A m, n \in RepMessages :
       /\ state[m] = "sent" /\ kept[m] # NoPart
       /\ state[n] = "sent" /\ state'[n] = "delivered"
       /\ credit'[n] = [part |-> kept[m], guessed |-> FALSE]
       => n = m \/ (modem_ref(n) = modem_ref(m) /\ sentAt[n] >= sentAt[m])]_repVars
=============================================================================
