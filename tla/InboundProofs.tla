---------------------------- MODULE InboundProofs ---------------------------
(***************************************************************************)
(* Proofs about Inbound, for every set of texts, of however many parts,    *)
(* and reports, and every number of faults.                                *)
(***************************************************************************)
EXTENDS Inbound, TLAPS

(* Texts share no part, and no part is a report.                           *)
LEMMA PiecesAre ==
  /\ \A t, u \in Texts : t \cap u # {} => t = u
  /\ \A t \in Texts : t \subseteq TextParts
  /\ TextParts \cap Reports = {} /\ MaxFaults \in Nat
  /\ TextParts \subseteq Pieces /\ Reports \subseteq Pieces
<1>1. \A t, u \in Texts : t \cap u # {} => t = u
  BY TextsAssumption DEF TextsAssumption
<1>2. TextParts \cap Reports = {} /\ MaxFaults \in Nat
  BY PiecesAssumption, FaultsAssumption DEF PiecesAssumption, FaultsAssumption
<1>3. /\ \A t \in Texts : t \subseteq TextParts
      /\ TextParts \subseteq Pieces /\ Reports \subseteq Pieces
  BY DEF TextParts, Pieces
<1> QED
  BY <1>1, <1>2, <1>3

-----------------------------------------------------------------------------
(* The inductive invariant.                                                *)

(* What the worker holds at each point of its loop.                        *)
Phases == /\ pc \in {"down", "idle"} => taken = {} /\ raw = {}
          /\ pc = "read" => raw = {}
          /\ pc # "delete" => todo = {}
          /\ pc = "reports" => taken \cup raw \subseteq Reports

written == UNION rows
captured == pending \cup taken

(* A piece is in one place, but for a deletion that is under way, or that  *)
(* failed.                                                                 *)
Places == /\ coming \cap (storage \cup captured \cup raw \cup written) = {}
          /\ captured \cap (storage \cup raw \cup written) = {}
          /\ pending \cap taken = {}
          /\ (storage \cup raw) \cap written \subseteq kept
          /\ storage \cap raw \subseteq todo \cup kept

Excused(t) == t \in apart \/ t \cap (kept \cup exposed) # {}

(* A row is made of parts of one text; what was captured is torn from the  *)
(* rest of its text, and what a drain holds without the rest is excused.   *)
Whole == /\ \A r \in rows : r # {} /\ \E t \in Texts : r \subseteq t
         /\ \A t \in Texts : t \cap captured # {} => t \in apart
         /\ pc \in {"delete", "texts"} =>
              \A t \in Texts : t \cap raw # {} /\ ~ (t \subseteq raw) => Excused(t)

Promises == LossOnlyWhenExposed /\ SecondRowOnlyWhenKept /\ TornOnlyByPollsOrFaults

IInv == TypeOK /\ Phases /\ Places /\ Whole /\ Promises

LEMMA StoredIs == stored = written \cup applied
BY DEF stored, written

(* What each conjunct of IInv says of a piece, of a row and of a text.     *)
LEMMA Held ==
  ASSUME IInv
  PROVE  /\ coming \subseteq Pieces /\ storage \subseteq Pieces /\ pending \subseteq Pieces
         /\ taken \subseteq Pieces /\ raw \subseteq Pieces /\ todo \subseteq raw
         /\ written \subseteq TextParts /\ applied \subseteq Reports
BY DEF IInv, TypeOK, written

-----------------------------------------------------------------------------
(* The modem and the network.                                              *)

LEMMA StoreKeeps ==
  ASSUME IInv, NEW x \in Pieces, Store(x)
  PROVE  IInv'
<1> USE DEF IInv
<1>1. /\ x \in coming /\ coming' = coming \ {x} /\ storage' = storage \cup {x}
      /\ UNCHANGED <<pending, pc, taken, raw, todo, rows, applied, faults, twice, kept, apart, exposed>>
  BY DEF Store, hand, database, history
<1>2. TypeOK'
  BY <1>1 DEF TypeOK, stored
<1>3. Phases' /\ Whole'
  BY <1>1 DEF Phases, Whole, captured, Excused
<1>4. Places'
  BY <1>1 DEF Places, captured, written
<1>5. Promises'
  BY <1>1 DEF Promises, LossOnlyWhenExposed, SecondRowOnlyWhenKept, TornOnlyByPollsOrFaults, stored
<1> QED
  BY <1>2, <1>3, <1>4, <1>5

LEMMA AnnounceKeeps ==
  ASSUME IInv, NEW x \in Pieces, Announce(x)
  PROVE  IInv'
<1> USE DEF IInv
<1>1. /\ x \in coming /\ coming' = coming \ {x} /\ pending' = pending \cup {x}
      /\ pc \in {"idle", "read", "delete"}
      /\ apart' = apart \cup {t \in Texts : x \in t}
      /\ UNCHANGED <<storage, pc, taken, raw, todo, rows, applied, faults, twice, kept, exposed>>
  BY DEF Announce, hand, database
<1>2. TypeOK'
  BY <1>1 DEF TypeOK, stored
<1>3. Phases' /\ Whole'
  BY <1>1 DEF Phases, Whole, captured, Excused
<1>4. Places'
  BY <1>1 DEF Places, captured, written
<1>5. Promises'
  BY <1>1 DEF Promises, LossOnlyWhenExposed, SecondRowOnlyWhenKept, TornOnlyByPollsOrFaults, stored
<1> QED
  BY <1>2, <1>3, <1>4, <1>5

-----------------------------------------------------------------------------
(* The driver.                                                             *)

LEMMA FetchKeeps ==
  ASSUME IInv, Fetch
  PROVE  IInv'
<1> USE DEF IInv
<1>1. /\ pc = "idle" /\ pc' = "read" /\ taken' = pending /\ pending' = {}
      /\ UNCHANGED <<coming, storage, raw, todo, rows, applied, faults, twice, kept, apart, exposed>>
  BY DEF Fetch, modem, database, history
<1>2. taken = {} /\ raw = {}
  BY <1>1 DEF Phases
<1>3. TypeOK' /\ Phases'
  BY <1>1, <1>2 DEF TypeOK, stored, Phases
<1>4. Places' /\ Whole'
  BY <1>1, <1>2 DEF Places, captured, written, Whole, Excused
<1>5. Promises'
  BY <1>1, <1>2 DEF Promises, LossOnlyWhenExposed, SecondRowOnlyWhenKept, TornOnlyByPollsOrFaults, stored
<1> QED
  BY <1>3, <1>4, <1>5

(* A text of which the storage holds some parts and not others: these are  *)
(* on their way or captured, or in a row or lost, and that excuses it.     *)
LEMMA HalfReadIsExcused ==
  ASSUME IInv, raw = {}, NEW t \in Texts, t \cap storage # {}, ~ (t \subseteq storage)
  PROVE  t \cap coming # {} \/ Excused(t)
<1> USE DEF IInv
<1>1. PICK x, y : x \in t /\ x \in storage /\ y \in t /\ y \notin storage
  OBVIOUS
<1>2. y \in TextParts /\ y \notin applied
  BY <1>1, PiecesAre, Held
<1>3. y \in coming \cup captured \cup written \cup exposed
  BY <1>1, <1>2, StoredIs DEF Promises, LossOnlyWhenExposed, captured
<1>4. CASE y \in captured
  BY <1>1, <1>4 DEF Whole, Excused
<1>5. CASE y \in written
  <2>1. PICK r \in rows : y \in r
    BY <1>5 DEF written
  <2>2. PICK u \in Texts : r \subseteq u
    BY DEF Whole
  <2>3. u = t
    BY <1>1, <2>1, <2>2, PiecesAre
  <2>4. CASE r = t
    <3>1. x \in written
      BY <1>1, <2>1, <2>4 DEF written
    <3> QED
      BY <1>1, <3>1 DEF Places, Excused
  <2>5. CASE r # t
    BY <2>2, <2>3, <2>5 DEF Promises, TornOnlyByPollsOrFaults, Excused
  <2> QED
    BY <2>4, <2>5
<1>6. CASE y \in coming \cup exposed
  BY <1>1, <1>6 DEF Excused
<1> QED
  BY <1>3, <1>4, <1>5, <1>6

LEMMA ReadAllKeeps ==
  ASSUME IInv, ReadAll
  PROVE  IInv'
<1> USE DEF IInv
<1>1. /\ pc = "read" /\ pc' = "delete" /\ raw' = storage /\ todo' = storage
      /\ apart' = apart \cup {t \in Texts : t \cap storage # {} /\ t \cap coming # {}}
      /\ UNCHANGED <<coming, storage, pending, taken, rows, applied, faults, twice, kept, exposed>>
  BY DEF ReadAll, modem, database
<1>2. raw = {}
  BY <1>1 DEF Phases
<1>3. TypeOK' /\ Phases'
  BY <1>1 DEF TypeOK, stored, Phases
<1>4. Places'
  BY <1>1 DEF Places, captured, written
<1>5. Whole'
  <2>1. ASSUME NEW t \in Texts, t \cap storage # {}, ~ (t \subseteq storage)
        PROVE  Excused(t)'
    BY <1>1, <1>2, <2>1, HalfReadIsExcused DEF Excused
  <2> QED
    BY <1>1, <2>1 DEF Whole, captured
<1>6. Promises'
  BY <1>1, <1>2 DEF Promises, LossOnlyWhenExposed, SecondRowOnlyWhenKept, TornOnlyByPollsOrFaults, stored
<1> QED
  BY <1>3, <1>4, <1>5, <1>6

LEMMA ReadFailsKeeps ==
  ASSUME IInv, ReadFails
  PROVE  IInv'
<1> USE DEF IInv
<1>1. /\ pc = "read" /\ pc' = "idle" /\ pending' = taken \cup pending
      /\ taken' = {} /\ raw' = {} /\ todo' = {} /\ faults' = faults + 1 /\ faults < MaxFaults
      /\ UNCHANGED <<coming, storage, rows, applied, twice, kept, apart, exposed>>
  BY DEF ReadFails, DropHand, modem, database, history
<1>2. raw = {}
  BY <1>1 DEF Phases
<1>3. TypeOK'
  BY <1>1, PiecesAre DEF TypeOK, stored
<1>4. Phases' /\ Whole'
  BY <1>1 DEF Phases, Whole, captured, Excused
<1>5. Places'
  BY <1>1 DEF Places, captured, written
<1>6. Promises'
  BY <1>1, <1>2 DEF Promises, LossOnlyWhenExposed, SecondRowOnlyWhenKept, TornOnlyByPollsOrFaults, stored
<1> QED
  BY <1>3, <1>4, <1>5, <1>6

LEMMA DeleteKeeps ==
  ASSUME IInv, NEW x \in Pieces, Delete(x)
  PROVE  IInv'
<1> USE DEF IInv
<1>1. /\ pc = "delete" /\ x \in todo /\ storage' = storage \ {x} /\ todo' = todo \ {x}
      /\ UNCHANGED <<coming, pending, pc, taken, raw, rows, applied, faults, twice, kept, apart, exposed>>
  BY DEF Delete, database, history
<1>2. x \in raw
  BY <1>1 DEF TypeOK
<1>3. TypeOK' /\ Phases'
  BY <1>1 DEF TypeOK, stored, Phases
<1>4. Places' /\ Whole'
  BY <1>1 DEF Places, captured, written, Whole, Excused
<1>5. Promises'
  BY <1>1, <1>2 DEF Promises, LossOnlyWhenExposed, SecondRowOnlyWhenKept, TornOnlyByPollsOrFaults, stored
<1> QED
  BY <1>3, <1>4, <1>5

LEMMA DeleteFailsKeeps ==
  ASSUME IInv, NEW x \in Pieces, DeleteFails(x)
  PROVE  IInv'
<1> USE DEF IInv
<1>1. /\ pc = "delete" /\ x \in todo /\ todo' = todo \ {x} /\ kept' = kept \cup {x}
      /\ UNCHANGED <<coming, storage, pending, pc, taken, raw, rows, applied, faults, twice, apart, exposed>>
  BY DEF DeleteFails, modem, database
<1>2. TypeOK' /\ Phases'
  BY <1>1 DEF TypeOK, stored, Phases
<1>3. Places' /\ Whole'
  BY <1>1 DEF Places, captured, written, Whole, Excused
<1>4. Promises'
  BY <1>1 DEF Promises, LossOnlyWhenExposed, SecondRowOnlyWhenKept, TornOnlyByPollsOrFaults, stored
<1> QED
  BY <1>2, <1>3, <1>4

(* Start and Fetched only go on.                                           *)
LEMMA GoOnKeeps ==
  ASSUME IInv, Start \/ Fetched
  PROVE  IInv'
<1> USE DEF IInv
<1>1. /\ \/ pc = "down" /\ pc' = "idle"
         \/ pc = "delete" /\ pc' = "texts" /\ todo = {}
      /\ UNCHANGED <<coming, storage, pending, taken, raw, todo, rows, applied, faults, twice, kept,
                     apart, exposed>>
  BY DEF Start, Fetched, modem, hand, database, history
<1>2. TypeOK' /\ Phases'
  BY <1>1 DEF TypeOK, stored, Phases
<1>3. Places' /\ Whole'
  BY <1>1 DEF Places, captured, written, Whole, Excused
<1>4. Promises'
  BY <1>1 DEF Promises, LossOnlyWhenExposed, SecondRowOnlyWhenKept, TornOnlyByPollsOrFaults, stored
<1> QED
  BY <1>2, <1>3, <1>4

-----------------------------------------------------------------------------
(* The worker.                                                             *)

(* Grouping loses no part and invents none: a group is what S holds of one *)
(* text.                                                                   *)
LEMMA LinkGroups ==
  ASSUME NEW S \in SUBSET TextParts
  PROVE  /\ UNION Link(S) = S
         /\ \A g \in Link(S) : g # {} /\ \E t \in Texts : g = t \cap S
<1>1. \A g \in Link(S) : g # {} /\ \E t \in Texts : g = t \cap S
  BY DEF Link
<1>2. ASSUME NEW x \in S
      PROVE  x \in UNION Link(S)
  <2>1. PICK t \in Texts : x \in t
    BY DEF TextParts
  <2>2. t \cap S \in Link(S)
    BY <2>1 DEF Link
  <2> QED
    BY <2>1, <2>2
<1> QED
  BY <1>1, <1>2

LEMMA UnionOfThree ==
  \A A, B, C : UNION (A \cup B \cup C) = (UNION A) \cup (UNION B) \cup (UNION C)
OBVIOUS

(* A row of one text that is not all of it: a drain that did not hold the  *)
(* rest, or a capture.                                                     *)
LEMMA CommitTextsKeeps ==
  ASSUME IInv, CommitTexts
  PROVE  IInv'
<1> USE DEF IInv
<1> DEFINE read == raw \cap TextParts
           single == {{x} : x \in taken \cap TextParts}
<1>1. /\ pc = "texts" /\ pc' = "reports"
      /\ rows' = rows \cup Link(read) \cup single
      /\ twice' = twice \cup (InHand \cap TextParts \cap stored)
      /\ taken' = taken \cap Reports /\ raw' = raw \cap Reports
      /\ UNCHANGED <<coming, storage, pending, todo, applied, faults, kept, apart, exposed>>
  BY DEF CommitTexts, Save, modem
<1>2. /\ UNION Link(read) = read
      /\ \A g \in Link(read) : g # {} /\ \E t \in Texts : g = t \cap read
  BY LinkGroups
<1>3. UNION single = taken \cap TextParts
  OBVIOUS
<1>4. written' = written \cup (InHand \cap TextParts)
  <2>1. UNION (rows \cup Link(read) \cup single) = written \cup (UNION Link(read)) \cup (UNION single)
    BY UnionOfThree DEF written
  <2>2. written' = written \cup read \cup (taken \cap TextParts)
    BY <1>1, <1>2, <1>3, <2>1 DEF written
  <2> QED
    BY <2>2 DEF InHand
<1>5. stored' = stored \cup (InHand \cap TextParts) /\ stored \cap TextParts = written
  <2>1. applied' = applied /\ applied \cap TextParts = {} /\ written \subseteq TextParts
    BY <1>1, PiecesAre, Held
  <2> QED
    BY <1>4, <2>1, StoredIs DEF stored, written
<1>6. todo = {}
  BY <1>1 DEF Phases
<1> HIDE DEF read, single
<1>7. TypeOK'
  <2>1. rows' \subseteq SUBSET TextParts
    <3>1. written' \subseteq TextParts
      BY <1>4, Held
    <3> QED
      BY <3>1 DEF written
  <2>2. twice' \subseteq stored'
    BY <1>1, <1>5 DEF TypeOK
  <2> QED
    BY <1>1, <1>6, <2>1, <2>2 DEF TypeOK
<1>8. Phases'
  BY <1>1, <1>6 DEF Phases
<1>9. Places'
  <2>1. taken' \subseteq taken /\ raw' \subseteq raw /\ (taken' \cup raw') \cap TextParts = {}
    BY <1>1, PiecesAre
  <2>2. written' \subseteq TextParts
    BY <1>4, Held
  <2> QED
    BY <1>1, <1>4, <1>6, <2>1, <2>2 DEF Places, captured, InHand
<1>10. Whole'
  <2>1. ASSUME NEW r \in rows'
        PROVE  r # {} /\ \E t \in Texts : r \subseteq t
    <3>1. CASE r \in rows
      BY <3>1 DEF Whole
    <3>2. CASE r \in Link(read)
      BY <1>2, <3>2
    <3>3. CASE r \in single
      <4>1. PICK x \in taken \cap TextParts : r = {x}
        BY <3>3 DEF single
      <4> QED
        BY <4>1 DEF TextParts
    <3> QED
      BY <1>1, <3>1, <3>2, <3>3
  <2> QED
    BY <1>1, <2>1 DEF Whole, captured
<1>11. Promises'
  <2>1. LossOnlyWhenExposed'
    <3>1. TextParts \cap (taken \cup raw) \subseteq stored'
      BY <1>5 DEF InHand
    <3> QED
      BY <1>1, <1>5, <3>1 DEF Promises, LossOnlyWhenExposed
  <2>2. SecondRowOnlyWhenKept'
    <3>1. InHand \cap TextParts \cap stored \subseteq kept
      BY <1>5 DEF Places, captured, InHand
    <3> QED
      BY <1>1, <3>1 DEF Promises, SecondRowOnlyWhenKept
  <2>3. ASSUME NEW t \in Texts, NEW r \in rows', r \subseteq t, r # t
        PROVE  Excused(t)
    <3>1. CASE r \in rows
      BY <2>3, <3>1 DEF Promises, TornOnlyByPollsOrFaults, Excused
    <3>2. CASE r \in Link(read)
      <4>1. PICK u \in Texts : r = u \cap read /\ r # {}
        BY <1>2, <3>2
      <4>2. u = t
        BY <2>3, <4>1, PiecesAre
      <4>3. t \cap raw = t \cap read
        BY PiecesAre DEF read
      <4> QED
        BY <1>1, <2>3, <4>1, <4>2, <4>3 DEF Whole
    <3>3. CASE r \in single
      <4>1. PICK x \in taken \cap TextParts : r = {x}
        BY <3>3 DEF single
      <4> QED
        BY <2>3, <4>1 DEF Whole, captured, Excused
    <3> QED
      BY <1>1, <2>3, <3>1, <3>2, <3>3
  <2>4. TornOnlyByPollsOrFaults'
    BY <1>1, <2>3 DEF TornOnlyByPollsOrFaults, Excused
  <2> QED
    BY <2>1, <2>2, <2>4 DEF Promises
<1> QED
  BY <1>7, <1>8, <1>9, <1>10, <1>11

LEMMA CommitReportsKeeps ==
  ASSUME IInv, CommitReports
  PROVE  IInv'
<1> USE DEF IInv
<1>1. /\ pc = "reports" /\ pc' = "idle" /\ taken' = {} /\ raw' = {} /\ todo' = {}
      /\ applied \subseteq applied' /\ applied' \subseteq applied \cup InHand
      /\ UNCHANGED <<coming, storage, pending, rows, faults, twice, kept, apart, exposed>>
  BY DEF CommitReports, DropHand, modem, history
<1>2. InHand \subseteq Reports /\ todo = {}
  BY <1>1 DEF Phases, InHand
<1>3. TypeOK'
  BY <1>1, <1>2 DEF TypeOK, stored
<1>4. Phases' /\ Whole'
  BY <1>1 DEF Phases, Whole, captured, Excused
<1>5. Places'
  BY <1>1, <1>2 DEF Places, captured, written
<1>6. Promises'
  <2>1. LossOnlyWhenExposed'
    BY <1>1, <1>2, PiecesAre DEF Promises, LossOnlyWhenExposed, stored, InHand
  <2> QED
    BY <1>1, <2>1 DEF Promises, SecondRowOnlyWhenKept, TornOnlyByPollsOrFaults
<1> QED
  BY <1>3, <1>4, <1>5, <1>6

(* A commit that fails, or a crash, drops what the worker held, S of it    *)
(* and what the callback had captured, and records what that exposes.      *)
LEMMA DropKeeps ==
  ASSUME IInv, CommitFails \/ Crash
  PROVE  IInv'
<1> USE DEF IInv
<1>1. PICK S : /\ S \subseteq InHand \cup pending
               /\ taken \cup raw \cup pending \subseteq S \cup pending'
               /\ exposed' = exposed \cup (S \ (storage \cup stored))
  <2>1. CASE CommitFails
    BY <2>1 DEF CommitFails, Expose, InHand
  <2>2. CASE Crash
    BY <2>2 DEF Crash, Expose, InHand
  <2> QED
    BY <2>1, <2>2
<1>2. /\ pc' \in {"idle", "down"} /\ pending' \subseteq pending /\ taken' = {} /\ raw' = {} /\ todo' = {}
      /\ faults' = faults + 1 /\ faults < MaxFaults
      /\ UNCHANGED <<coming, storage, rows, applied, twice, kept, apart>>
  BY DEF CommitFails, Crash, DropHand, modem, database
<1>3. pc # "delete" => todo = {}
  BY DEF Phases
<1>4. TypeOK'
  <2>1. exposed' \subseteq Pieces
    BY <1>1, Held DEF TypeOK, InHand
  <2> QED
    BY <1>2, <2>1, PiecesAre DEF TypeOK, stored
<1>5. Phases'
  BY <1>2 DEF Phases
<1>6. Places'
  BY <1>2 DEF Places, captured, written
<1>7. Whole'
  BY <1>2 DEF Whole, captured
<1>8. LossOnlyWhenExposed'
  BY <1>1, <1>2 DEF Promises, LossOnlyWhenExposed, stored
<1>9. SecondRowOnlyWhenKept'
  BY <1>2 DEF Promises, SecondRowOnlyWhenKept
<1>10. TornOnlyByPollsOrFaults'
  BY <1>1, <1>2 DEF Promises, TornOnlyByPollsOrFaults
<1> QED
  BY <1>4, <1>5, <1>6, <1>7, <1>8, <1>9, <1>10 DEF Promises

-----------------------------------------------------------------------------
LEMMA InitEstablishes == Init => IInv
<1> SUFFICES ASSUME Init PROVE IInv
  OBVIOUS
<1>1. written = {} /\ stored = {}
  BY DEF Init, written, stored
<1>2. TypeOK
  BY <1>1, PiecesAre DEF Init, TypeOK
<1>3. Phases /\ Places /\ Whole
  BY <1>1 DEF Init, Phases, Places, Whole, captured
<1>4. Promises
  BY PiecesAre DEF Init, Promises, LossOnlyWhenExposed, SecondRowOnlyWhenKept, TornOnlyByPollsOrFaults
<1> QED
  BY <1>2, <1>3, <1>4 DEF IInv

LEMMA StepKeeps == IInv /\ [Next]_vars => IInv'
<1> SUFFICES ASSUME IInv, [Next]_vars PROVE IInv'
  OBVIOUS
<1>1. CASE Network
  BY <1>1, StoreKeeps, AnnounceKeeps DEF Network
<1>2. CASE Fault
  BY <1>2, ReadFailsKeeps, DropKeeps DEF Fault
<1>3. CASE Worker
  BY <1>3, GoOnKeeps, FetchKeeps, ReadAllKeeps, CommitTextsKeeps, CommitReportsKeeps,
     DeleteKeeps, DeleteFailsKeeps DEF Worker
<1>4. CASE UNCHANGED vars
  <2> USE DEF IInv
  <2>1. UNCHANGED <<coming, storage, pending, pc, taken, raw, todo, rows, applied, faults,
                    twice, kept, apart, exposed>>
    BY <1>4 DEF vars, modem, hand, database, history
  <2>2. TypeOK' /\ Phases'
    BY <2>1 DEF TypeOK, stored, Phases
  <2>3. Places' /\ Whole'
    BY <2>1 DEF Places, captured, written, Whole, Excused
  <2>4. Promises'
    BY <2>1 DEF Promises, LossOnlyWhenExposed, SecondRowOnlyWhenKept, TornOnlyByPollsOrFaults, stored
  <2> QED
    BY <2>2, <2>3, <2>4
<1> QED
  BY <1>1, <1>2, <1>3, <1>4 DEF Next

LEMMA Invariance == Spec => []IInv
BY InitEstablishes, StepKeeps, PTL DEF Spec

(* Every variable of the inbound half keeps its type.                      *)
THEOREM InboundTypeCorrect == Spec => []TypeOK
<1>1. IInv => TypeOK
  BY DEF IInv
<1> QED
  BY <1>1, Invariance, PTL

(* No text is lost outside the window between its deletion from the modem  *)
(* and the commit of its row.                                              *)
THEOREM TextsAreLostOnlyInTheWindow == Spec => []LossOnlyWhenExposed
<1>1. IInv => LossOnlyWhenExposed
  BY DEF IInv, Promises
<1> QED
  BY <1>1, Invariance, PTL

(* No part is committed twice unless the modem did not delete it.          *)
THEOREM SecondRowsComeFromTheModem == Spec => []SecondRowOnlyWhenKept
<1>1. IInv => SecondRowOnlyWhenKept
  BY DEF IInv, Promises
<1> QED
  BY <1>1, Invariance, PTL

(* No text that the modem held as a whole is torn into several rows, but   *)
(* for a deletion or a commit that failed.                                 *)
THEOREM TextsAreTornOnlyByPollsOrFaults == Spec => []TornOnlyByPollsOrFaults
<1>1. IInv => TornOnlyByPollsOrFaults
  BY DEF IInv, Promises
<1> QED
  BY <1>1, Invariance, PTL
=============================================================================
