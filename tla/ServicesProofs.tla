--------------------------- MODULE ServicesProofs ---------------------------
(***************************************************************************)
(* Proofs about the services around the queue: the limit on API requests,  *)
(* the pages of the list, the scripts that every container runs as it      *)
(* starts, and the segments that are charged, for every value of the       *)
(* constants.                                                              *)
(***************************************************************************)
EXTENDS MCServices, ReportsProofs, ThrottleProofs,
        FiniteSetTheorems, WellFoundedInduction, TLAPS

(* A set of natural numbers has a least one.                               *)
LEMMA LeastNatural ==
  ASSUME NEW T \in SUBSET Nat, T # {}
  PROVE  \E x \in T : \A y \in T : x <= y
<1> DEFINE R == {ss \in Nat \X Nat : ss[1] < ss[2]}
<1>1. IsWellFoundedOn(R, Nat)
  BY NatLessThanWellFounded DEF OpToRel
<1>2. \A x, y \in Nat : <<y, x>> \in R <=> y < x
  OBVIOUS
<1> HIDE DEF R
<1>3. PICK x \in T : \A y \in T : ~ (<<y, x>> \in R)
  BY <1>1, WFMin
<1>4. ASSUME NEW y \in T PROVE x <= y
  <2>1. x \in Nat /\ y \in Nat
    OBVIOUS
  <2>2. ~ (y < x)
    BY <1>2, <1>3, <2>1
  <2> QED
    BY <2>1, <2>2
<1> QED
  BY <1>4

-----------------------------------------------------------------------------
(* Paging.                                                                 *)

LEMMA PagingIs ==
  /\ Ids \subseteq Nat /\ IsFiniteSet(Ids)
  /\ PageLimit \in Nat /\ PageLimit > 0 /\ PagMaxTime \in Nat /\ PagMaxTime > 0
BY PagingAssumption DEF PagingAssumption

(* The order of the list, as one of messages.                              *)
Earlier(n, m) == created[n] < created[m] \/ (created[n] = created[m] /\ n < m)

LEMMA BeforeIsEarlier ==
  ASSUME NEW n, NEW m
  PROVE  Before(Key(n), Key(m)) <=> Earlier(n, m)
BY DEF Before, Key, Earlier

Ahead(m) == {n \in Matching : Before(Key(n), Key(m))}

LEMMA PageIs == Page = {m \in Matching : Cardinality(Ahead(m)) < PageLimit}
BY DEF Page, Ahead

LEMMA AheadIsFinite ==
  ASSUME NEW m
  PROVE  IsFiniteSet(Ahead(m)) /\ Cardinality(Ahead(m)) \in Nat
<1>1. Ahead(m) \subseteq Ids
  BY DEF Ahead, Matching
<1> QED
  BY <1>1, PagingIs, FS_Subset, FS_CardinalityType

(* Who is earlier has fewer rows ahead.                                    *)
LEMMA EarlierHasFewerAhead ==
  ASSUME PagTypeOK, NEW n \in Matching, NEW m \in Matching, Earlier(n, m)
  PROVE  /\ n \in Ahead(m) /\ n \notin Ahead(n) /\ Ahead(n) \subseteq Ahead(m)
         /\ Cardinality(Ahead(n)) < Cardinality(Ahead(m))
<1>1. \A i \in Matching : i \in Nat /\ created[i] \in Nat
  BY PagingIs DEF PagTypeOK, Matching
<1>2. n \in Ahead(m) /\ n \notin Ahead(n)
  BY <1>1, BeforeIsEarlier DEF Ahead, Earlier
<1>3. ASSUME NEW i \in Ahead(n) PROVE i \in Ahead(m)
  <2>1. i \in Matching /\ Earlier(i, n)
    BY BeforeIsEarlier DEF Ahead
  <2>2. Earlier(i, m)
    BY <1>1, <2>1 DEF Earlier
  <2> QED
    BY <2>1, <2>2, BeforeIsEarlier DEF Ahead
<1>4. Cardinality(Ahead(n)) < Cardinality(Ahead(m))
  BY <1>2, <1>3, AheadIsFinite, FS_Subset
<1> QED
  BY <1>2, <1>3, <1>4

LEMMA Comparable ==
  ASSUME PagTypeOK, NEW n \in Ids, NEW m \in Ids
  PROVE  n = m \/ Earlier(n, m) \/ Earlier(m, n)
BY PagingIs DEF PagTypeOK, Earlier

(* A page that is not full is the rest of the list: the earliest row that  *)
(* it leaves out has exactly the page ahead.                               *)
LEMMA ShortPageIsTheRest ==
  ASSUME PagTypeOK, Cardinality(Page) # PageLimit
  PROVE  Page = Matching
<1> SUFFICES ASSUME Matching \ Page # {} PROVE FALSE
  BY DEF Page
<1> DEFINE rank(m) == Cardinality(Ahead(m))
<1>1. \A m \in Matching : rank(m) \in Nat /\ (m \in Page <=> rank(m) < PageLimit)
  BY AheadIsFinite, PageIs
<1>2. \A n, m \in Matching : Earlier(n, m) => rank(n) < rank(m)
  BY EarlierHasFewerAhead
<1>3. \A n, m \in Matching : n = m \/ Earlier(n, m) \/ Earlier(m, n)
  BY Comparable DEF Matching
<1>4. Page \subseteq Matching
  BY PageIs
<1> HIDE DEF rank
<1>5. PICK f \in Matching \ Page : \A m \in Matching \ Page : rank(f) <= rank(m)
  <2> DEFINE T == {rank(m) : m \in Matching \ Page}
  <2>1. T \in SUBSET Nat /\ T # {}
    BY <1>1
  <2>2. PICK x \in T : \A y \in T : x <= y
    BY <2>1, LeastNatural
  <2>3. PICK f \in Matching \ Page : x = rank(f)
    BY <2>2
  <2> QED
    BY <2>2, <2>3
<1>6. Ahead(f) = Page
  <2>1. ASSUME NEW m \in Ahead(f) PROVE m \in Page
    <3>1. m \in Matching /\ Earlier(m, f)
      BY BeforeIsEarlier DEF Ahead
    <3>2. rank(m) < rank(f) /\ rank(m) \in Nat /\ rank(f) \in Nat
      BY <1>1, <1>2, <3>1
    <3> QED
      BY <1>5, <3>1, <3>2
  <2>2. ASSUME NEW m \in Page PROVE m \in Ahead(f)
    <3>1. ~ Earlier(f, m)
      BY <1>1, <1>2, <1>4, <1>5, PagingIs
    <3>2. Earlier(m, f)
      BY <1>3, <1>4, <3>1
    <3> QED
      BY <1>4, <3>2, BeforeIsEarlier DEF Ahead
  <2> QED
    BY <2>1, <2>2
<1>7. Cardinality(Page) = rank(f) /\ rank(f) > PageLimit
  BY <1>1, <1>5, <1>6, PagingIs DEF rank
<1>8. Page # {}
  BY <1>7, PagingIs, FS_EmptySet
<1>9. PICK l \in Page : \A m \in Page : rank(m) <= rank(l)
  <2> DEFINE T == {PageLimit - rank(m) : m \in Page}
  <2>1. \A m \in Page : PageLimit - rank(m) \in Nat /\ rank(m) \in Nat
    BY <1>1, <1>4, PagingIs
  <2>2. T \in SUBSET Nat /\ T # {}
    BY <1>8, <2>1
  <2>3. PICK x \in T : \A y \in T : x <= y
    BY <2>2, LeastNatural
  <2>4. PICK l \in Page : x = PageLimit - rank(l)
    BY <2>3
  <2>5. ASSUME NEW m \in Page PROVE rank(m) <= rank(l)
    <3>1. PageLimit - rank(l) <= PageLimit - rank(m)
      BY <2>3, <2>4
    <3> QED
      BY <2>1, <3>1, PagingIs
  <2> QED
    BY <2>5
<1>10. Page \subseteq Ahead(l) \cup {l}
  <2>1. ASSUME NEW m \in Page, m # l PROVE m \in Ahead(l)
    <3>1. rank(m) <= rank(l) /\ rank(m) \in Nat /\ rank(l) \in Nat
      BY <1>1, <1>4, <1>9
    <3>2. ~ Earlier(l, m)
      BY <1>2, <1>4, <3>1
    <3>3. Earlier(m, l)
      BY <1>3, <1>4, <2>1, <3>2
    <3> QED
      BY <1>4, <3>3, BeforeIsEarlier DEF Ahead
  <2> QED
    BY <2>1
<1>11. Cardinality(Page) \in Nat /\ Cardinality(Page) <= rank(l) + 1
  <2>1. /\ IsFiniteSet(Ahead(l)) /\ rank(l) = Cardinality(Ahead(l)) /\ rank(l) \in Nat
    BY AheadIsFinite DEF rank
  <2> DEFINE A == Ahead(l) \cup {l}
  <2>2. IsFiniteSet(A) /\ Cardinality(A) \in {rank(l), rank(l) + 1}
    BY <2>1, FS_AddElement
  <2>3. IsFiniteSet(Page) /\ Cardinality(Page) <= Cardinality(A)
    BY <1>10, <2>2, FS_Subset
  <2> HIDE DEF A
  <2>4. Cardinality(Page) \in Nat
    BY <2>3, FS_CardinalityType
  <2> QED
    BY <2>1, <2>2, <2>3, <2>4
<1>12. rank(l) < PageLimit /\ rank(l) \in Nat
  BY <1>1, <1>4
<1> QED
  BY <1>1, <1>5, <1>7, <1>11, <1>12, PagingIs

(* A row that sorts no later than the last of a full page is on that page. *)
LEMMA PageHasNoGap ==
  ASSUME PagTypeOK, NEW l \in Page, NEW m \in Matching, ~ Earlier(l, m)
  PROVE  m \in Page
<1>1. l \in Matching /\ Cardinality(Ahead(l)) < PageLimit
  BY PageIs
<1>2. m = l \/ Earlier(m, l)
  BY <1>1, Comparable DEF Matching
<1>3. CASE Earlier(m, l)
  <2>1. Cardinality(Ahead(m)) < Cardinality(Ahead(l))
    BY <1>1, <1>3, EarlierHasFewerAhead
  <2>2. Cardinality(Ahead(m)) < PageLimit
    BY <1>1, <2>1, AheadIsFinite, PagingIs
  <2> QED
    BY <2>2, PageIs
<1> QED
  BY <1>2, <1>3

(* The inductive invariant.  A message that is on its way has a stamp; a   *)
(* cursor is the key of a row that was given; no row that was given is     *)
(* beyond the cursor.                                                      *)
Stamped == \A m \in Ids : stage[m] # "new" => created[m] >= 1
CursorIsGiven == after \notin {Start, Done} => after.id \in seen /\ after = Key(after.id)
GivenIsPast == \A m \in seen : stage[m] \in {"committed", "purged"} /\ ~ Beyond(m)

PagIInv == PagTypeOK /\ Stamped /\ CursorIsGiven /\ GivenIsPast /\ NoRowTwice /\ SkippedOnlyWhenOvertaken

(* What the cursor may be, by its fields.                                  *)
LEMMA CursorIs ==
  ASSUME PagTypeOK
  PROVE  /\ after.created \in Nat /\ after.id \in Nat /\ pagNow \in Nat /\ pagNow <= PagMaxTime
         /\ \A m \in Ids : m \in Nat /\ created[m] \in Nat /\ created[m] <= pagNow
         /\ Start.created = 0 /\ Start.id = 0 /\ Done.created = PagMaxTime + 1 /\ Done.id = 0
         /\ after \notin {Start, Done} => after.id \in Ids /\ after.created <= pagNow
<1>1. /\ Start.created = 0 /\ Start.id = 0 /\ Done.created = PagMaxTime + 1 /\ Done.id = 0
  BY DEF Start, Done
<1>2. pagNow \in Nat /\ pagNow <= PagMaxTime
  BY PagingIs DEF PagTypeOK
<1>3. \A m \in Ids : m \in Nat /\ created[m] \in Nat /\ created[m] <= pagNow
  BY <1>2, PagingIs DEF PagTypeOK
<1>4. CASE after \in {Start, Done}
  <2>1. after.created \in Nat /\ after.id \in Nat
    BY <1>1, <1>4, PagingIs
  <2> QED
    BY <1>1, <1>2, <1>3, <1>4, <2>1
<1>5. CASE after \in [created : 1..pagNow, id : Ids]
  <2>1. after.created \in 1..pagNow /\ after.id \in Ids
    BY <1>5
  <2>2. after.created \in Nat /\ after.created <= pagNow
    BY <1>2, <2>1
  <2>3. after.id \in Nat
    BY <2>1, PagingIs
  <2> QED
    BY <1>1, <1>2, <1>3, <2>1, <2>2, <2>3
<1> QED
  BY <1>4, <1>5 DEF PagTypeOK

(* The cursor's filter is the order of the list.                           *)
LEMMA BeyondIsAfter ==
  ASSUME NEW m
  PROVE  Beyond(m) <=> Before(after, Key(m))
BY DEF Beyond, Before, Key

LEMMA PagTickKeeps ==
  ASSUME PagIInv, PagTick
  PROVE  PagIInv'
<1> USE DEF PagIInv
<1>1. /\ pagNow' = pagNow + 1 /\ pagNow < PagMaxTime
      /\ UNCHANGED <<stage, created, after, seen, repeated, overtaken>>
  BY DEF PagTick
<1>2. PagTypeOK'
  <2>1. pagNow' \in 1..PagMaxTime /\ 0..pagNow \subseteq 0..pagNow' /\ 1..pagNow \subseteq 1..pagNow'
    BY <1>1, PagingIs DEF PagTypeOK
  <2>2. created' \in [Ids -> 0..pagNow']
    BY <1>1, <2>1 DEF PagTypeOK
  <2>3. after' \in {Start, Done} \cup [created : 1..pagNow', id : Ids]
    BY <1>1, <2>1 DEF PagTypeOK
  <2> QED
    BY <1>1, <2>1, <2>2, <2>3 DEF PagTypeOK
<1> QED
  BY <1>1, <1>2 DEF Stamped, CursorIsGiven, GivenIsPast, NoRowTwice, SkippedOnlyWhenOvertaken,
                    Beyond, Before, Key

LEMMA StampMessageKeeps ==
  ASSUME PagIInv, NEW m \in Ids, StampMessage(m)
  PROVE  PagIInv'
<1> USE DEF PagIInv
<1>1. /\ stage[m] = "new" /\ m \notin seen
      /\ stage' \in [Ids -> {"new", "stamped", "committed", "purged"}]
      /\ stage'[m] = "stamped" /\ \A n \in Ids \ {m} : stage'[n] = stage[n]
      /\ created'[m] = pagNow /\ \A n \in Ids \ {m} : created'[n] = created[n]
      /\ UNCHANGED <<pagNow, after, seen, repeated, overtaken>>
  BY DEF StampMessage, PagTypeOK, GivenIsPast
<1>2. PagTypeOK'
  <2>1. created' \in [Ids -> 0..pagNow]
    BY PagingIs DEF StampMessage, PagTypeOK
  <2> QED
    BY <1>1, <2>1 DEF PagTypeOK
<1>3. Stamped'
  BY <1>1, PagingIs DEF Stamped, PagTypeOK
<1>4. seen \subseteq Ids
  BY DEF PagTypeOK
<1>5. CursorIsGiven'
  <2>1. ASSUME after \notin {Start, Done}
        PROVE  after.id \in seen /\ after = Key(after.id)'
    <3>1. after.id \in seen /\ after = Key(after.id)
      BY <2>1 DEF CursorIsGiven
    <3>2. created'[after.id] = created[after.id]
      BY <1>1, <1>4, <3>1
    <3> QED
      BY <1>1, <3>1, <3>2 DEF Key
  <2> QED
    BY <1>1, <2>1 DEF CursorIsGiven
<1>6. GivenIsPast'
  BY <1>1, <1>4 DEF GivenIsPast, Beyond
<1>7. NoRowTwice'
  BY <1>1 DEF NoRowTwice
<1>8. SkippedOnlyWhenOvertaken'
  <2>1. ASSUME NEW n \in Ids, stage'[n] = "committed", after # Start, ~ Beyond(n)'
        PROVE  n \in seen \cup overtaken
    <3>1. n # m /\ stage[n] = "committed" /\ ~ Beyond(n)
      BY <1>1, <2>1 DEF Beyond
    <3> QED
      BY <2>1, <3>1, BeyondIsAfter DEF SkippedOnlyWhenOvertaken
  <2> QED
    BY <1>1, <2>1 DEF SkippedOnlyWhenOvertaken, Beyond, Before, Key
<1> QED
  BY <1>2, <1>3, <1>5, <1>6, <1>7, <1>8

(* A commit behind the cursor is overtaken; it is not the cursor's row.    *)
LEMMA CommitMessageKeeps ==
  ASSUME PagIInv, NEW m \in Ids, CommitMessage(m)
  PROVE  PagIInv'
<1> USE DEF PagIInv
<1>1. /\ stage[m] = "stamped" /\ m \notin seen
      /\ stage' \in [Ids -> {"new", "stamped", "committed", "purged"}]
      /\ stage'[m] = "committed" /\ \A n \in Ids \ {m} : stage'[n] = stage[n]
      /\ UNCHANGED <<pagNow, created, after, seen, repeated>>
      /\ overtaken' = IF after # Start /\ Before(Key(m), after) THEN overtaken \cup {m} ELSE overtaken
  BY DEF CommitMessage, PagTypeOK, GivenIsPast
<1>2. PagTypeOK'
  BY <1>1 DEF PagTypeOK
<1>3. Stamped' /\ CursorIsGiven' /\ GivenIsPast' /\ NoRowTwice'
  BY <1>1 DEF Stamped, CursorIsGiven, GivenIsPast, NoRowTwice, Beyond, Key, PagTypeOK
<1>4. SkippedOnlyWhenOvertaken'
  <2>1. ASSUME NEW n \in Ids, stage'[n] = "committed", after # Start, ~ Before(after, Key(n))
        PROVE  n \in seen \cup overtaken'
    <3>1. CASE n # m
      BY <1>1, <2>1, <3>1 DEF SkippedOnlyWhenOvertaken
    <3>2. CASE n = m
      <4>1. after # Key(m)
        <5>1. SUFFICES ASSUME after = Key(m) PROVE FALSE
          OBVIOUS
        <5>2. after.id = m /\ after.created = created[m] /\ created[m] >= 1
          BY <1>1, <5>1 DEF Key, Stamped
        <5>3. after \notin {Start, Done}
          BY <5>2, CursorIs, PagingIs
        <5> QED
          BY <1>1, <5>2, <5>3 DEF CursorIsGiven
      <4>2. ~ (after.id = m /\ after.created = created[m])
        <5>1. SUFFICES ASSUME after.id = m, after.created = created[m] PROVE FALSE
          OBVIOUS
        <5>2. created[m] >= 1 /\ created[m] <= PagMaxTime
          BY <1>1, CursorIs, PagingIs DEF Stamped
        <5>3. after \notin {Start, Done}
          BY <5>1, <5>2, CursorIs, PagingIs
        <5> QED
          BY <1>1, <5>1, <5>3 DEF CursorIsGiven
      <4>3. Before(Key(m), after)
        BY <2>1, <3>2, <4>2, CursorIs DEF Before, Key
      <4> QED
        BY <1>1, <2>1, <3>2, <4>3
    <3> QED
      BY <3>1, <3>2
  <2> QED
    BY <1>1, <2>1 DEF SkippedOnlyWhenOvertaken, Before, Key
<1> QED
  BY <1>2, <1>3, <1>4

LEMMA PurgeMessageKeeps ==
  ASSUME PagIInv, NEW m \in Ids, PurgeMessage(m)
  PROVE  PagIInv'
<1> USE DEF PagIInv
<1>1. /\ stage[m] = "committed"
      /\ stage' \in [Ids -> {"new", "stamped", "committed", "purged"}]
      /\ stage'[m] = "purged" /\ \A n \in Ids \ {m} : stage'[n] = stage[n]
      /\ UNCHANGED <<pagNow, created, after, seen, repeated, overtaken>>
  BY DEF PurgeMessage, PagTypeOK
<1>2. PagTypeOK'
  BY <1>1 DEF PagTypeOK
<1> QED
  BY <1>1, <1>2 DEF Stamped, CursorIsGiven, GivenIsPast, NoRowTwice, SkippedOnlyWhenOvertaken,
                    Beyond, Before, Key, PagTypeOK

(* A page holds nothing that was given; what it leaves behind its last row *)
(* was given, or overtaken.                                                *)
LEMMA ListKeeps ==
  ASSUME PagIInv, List
  PROVE  PagIInv'
<1> USE DEF PagIInv
<1>1. /\ after # Done /\ seen' = seen \cup Page /\ repeated' = repeated \cup (seen \cap Page)
      /\ UNCHANGED <<pagNow, stage, created, overtaken>>
  BY DEF List
<1>2. /\ Page \subseteq Matching
      /\ \A m \in Matching : m \in Ids /\ stage[m] = "committed" /\ Beyond(m) /\ created[m] >= 1
  BY DEF Page, Matching, Stamped
<1>3. seen \cap Page = {}
  BY <1>2 DEF GivenIsPast
<1>4. ASSUME NEW m \in Ids, stage[m] = "committed", ~ Beyond(m)
      PROVE  m \in seen \cup overtaken
  <2>1. after # Start
    BY <1>4, CursorIs DEF Stamped, Beyond
  <2> QED
    BY <1>4, <2>1, BeyondIsAfter DEF SkippedOnlyWhenOvertaken
<1>5. seen' \subseteq Ids /\ repeated' = {} /\ repeated = {}
  BY <1>1, <1>2, <1>3 DEF PagTypeOK, NoRowTwice
<1>6. CASE Cardinality(Page) = PageLimit
  <2>1. PICK l \in Page : /\ \A n \in Page : n = l \/ Before(Key(n), Key(l))
                          /\ after' = Key(l)
    BY <1>6 DEF List
  <2>2. l \in Ids /\ created[l] >= 1 /\ Beyond(l)
    BY <1>2
  <2>3. after'.created = created[l] /\ after'.id = l
    BY <2>1 DEF Key
  <2>4. PagTypeOK'
    <3>1. Key(l) \in [created : 1..pagNow, id : Ids]
      BY <2>2, CursorIs DEF Key
    <3> QED
      BY <1>1, <1>5, <2>1, <3>1 DEF PagTypeOK
  <2>5. Stamped' /\ NoRowTwice'
    BY <1>1, <1>5 DEF Stamped, NoRowTwice
  <2>6. CursorIsGiven'
    BY <1>1, <2>1, <2>3 DEF CursorIsGiven, Key
  <2>7. \A n \in Ids : Beyond(n)' <=> Earlier(l, n)
    BY <1>1, <2>3 DEF Beyond, Earlier
  <2>8. GivenIsPast'
    <3>1. ASSUME NEW n \in seen PROVE ~ Earlier(l, n)
      BY <2>2, <3>1, CursorIs DEF GivenIsPast, Beyond, Earlier, PagTypeOK
    <3>2. ASSUME NEW n \in Page PROVE ~ Earlier(l, n)
      <4>1. n = l \/ Earlier(n, l)
        BY <2>1, BeforeIsEarlier
      <4> QED
        BY <1>2, <2>2, <4>1, CursorIs DEF Earlier
    <3>3. \A n \in seen \cup Page : stage[n] \in {"committed", "purged"}
      BY <1>2 DEF GivenIsPast
    <3> QED
      BY <1>1, <1>5, <2>7, <3>1, <3>2, <3>3 DEF GivenIsPast
  <2>9. SkippedOnlyWhenOvertaken'
    <3>1. ASSUME NEW n \in Ids, stage[n] = "committed", ~ Earlier(l, n)
          PROVE  n \in seen' \cup overtaken
      <4>1. CASE Beyond(n)
        <5>1. n \in Matching
          BY <3>1, <4>1 DEF Matching
        <5> QED
          BY <1>1, <3>1, <5>1, PageHasNoGap
      <4>2. CASE ~ Beyond(n)
        BY <1>1, <1>4, <3>1, <4>2
      <4> QED
        BY <4>1, <4>2
    <3>2. \A n \in Ids : Before(after, Key(n))' <=> Earlier(l, n)
      BY <1>1, <2>3 DEF Before, Key, Earlier
    <3> QED
      BY <1>1, <3>1, <3>2 DEF SkippedOnlyWhenOvertaken
  <2> QED
    BY <2>4, <2>5, <2>6, <2>8, <2>9
<1>7. CASE Cardinality(Page) # PageLimit
  <2>1. after' = Done /\ Page = Matching
    BY <1>7, ShortPageIsTheRest DEF List
  <2>2. PagTypeOK'
    BY <1>1, <1>5, <2>1 DEF PagTypeOK
  <2>3. Stamped' /\ NoRowTwice' /\ CursorIsGiven'
    BY <1>1, <1>5, <2>1 DEF Stamped, NoRowTwice, CursorIsGiven
  <2>4. GivenIsPast'
    <3>1. \A n \in Ids : ~ Beyond(n)'
      BY <1>1, <2>1, CursorIs, PagingIs DEF Beyond
    <3>2. \A n \in seen \cup Page : stage[n] \in {"committed", "purged"}
      BY <1>2 DEF GivenIsPast
    <3> QED
      BY <1>1, <1>5, <3>1, <3>2 DEF GivenIsPast
  <2>5. SkippedOnlyWhenOvertaken'
    <3>1. ASSUME NEW n \in Ids, stage[n] = "committed"
          PROVE  n \in seen' \cup overtaken
      BY <1>1, <1>4, <2>1, <3>1 DEF Matching
    <3> QED
      BY <1>1, <3>1 DEF SkippedOnlyWhenOvertaken
  <2> QED
    BY <2>2, <2>3, <2>4, <2>5
<1> QED
  BY <1>6, <1>7

LEMMA RestartsKeeps ==
  ASSUME PagIInv, Restarts
  PROVE  PagIInv'
BY DEF PagIInv, Restarts, PagTypeOK, Stamped, CursorIsGiven, GivenIsPast, NoRowTwice,
       SkippedOnlyWhenOvertaken

LEMMA PagInvariance == PagSpec => []PagIInv
<1>1. PagInit => PagIInv
  <2> SUFFICES ASSUME PagInit PROVE PagIInv
    OBVIOUS
  <2>1. PagTypeOK
    <3>1. 1 \in 1..PagMaxTime
      BY PagingIs
    <3>2. stage \in [Ids -> {"new", "stamped", "committed", "purged"}] /\ created \in [Ids -> 0..1]
      BY DEF PagInit
    <3> QED
      BY <3>1, <3>2 DEF PagInit, PagTypeOK
  <2> QED
    BY <2>1 DEF PagIInv, PagInit, Stamped, CursorIsGiven, GivenIsPast, NoRowTwice,
                SkippedOnlyWhenOvertaken
<1>2. PagIInv /\ [PagNext]_pagVars => PagIInv'
  <2> SUFFICES ASSUME PagIInv, [PagNext]_pagVars PROVE PagIInv'
    OBVIOUS
  <2>1. CASE PagNext
    BY <2>1, PagTickKeeps, ListKeeps, RestartsKeeps, StampMessageKeeps, CommitMessageKeeps,
       PurgeMessageKeeps DEF PagNext
  <2>2. CASE UNCHANGED pagVars
    BY <2>2 DEF pagVars, PagIInv, PagTypeOK, Stamped, CursorIsGiven, GivenIsPast, NoRowTwice,
                SkippedOnlyWhenOvertaken, Beyond, Before, Key
  <2> QED
    BY <2>1, <2>2
<1> QED
  BY <1>1, <1>2, PTL DEF PagSpec

(* Every variable of the list and its client keeps its type.               *)
THEOREM PagingTypeCorrect == PagSpec => []PagTypeOK
<1>1. PagIInv => PagTypeOK
  BY DEF PagIInv
<1> QED
  BY <1>1, PagInvariance, PTL

(* No row is given twice in a pass, whatever is committed or purged, and   *)
(* however many rows share a second.                                       *)
THEOREM NoRowIsGivenTwice == PagSpec => []NoRowTwice
<1>1. PagIInv => NoRowTwice
  BY DEF PagIInv
<1> QED
  BY <1>1, PagInvariance, PTL

(* No row is skipped but one that was committed behind the cursor.         *)
THEOREM OnlyOvertakenRowsAreSkipped == PagSpec => []SkippedOnlyWhenOvertaken
<1>1. PagIInv => SkippedOnlyWhenOvertaken
  BY DEF PagIInv
<1> QED
  BY <1>1, PagInvariance, PTL

-----------------------------------------------------------------------------
(* Migrations.                                                             *)

LEMMA ScriptsAre ==
  /\ Len(Scripts) \in Nat /\ Versions = 1..Len(Scripts) /\ Idempotent \subseteq Versions
  /\ \A v \in Versions : Len(Scripts[v]) \in Nat /\ DOMAIN Scripts[v] = 1..Len(Scripts[v])
  /\ MaxKills \in Nat
<1>1. /\ Scripts \in Seq(Seq(STRING)) /\ Idempotent \subseteq 1..Len(Scripts) /\ MaxKills \in Nat
  BY ScriptsAssumption DEF ScriptsAssumption
<1>2. \A v \in 1..Len(Scripts) : Scripts[v] \in Seq(STRING)
  BY <1>1
<1> QED
  BY <1>1, <1>2 DEF Versions

LEMMA CreatedIs ==
  ASSUME NEW v \in Versions
  PROVE  Created(v) = {Scripts[v][i] : i \in 1..Len(Scripts[v])}
BY ScriptsAre DEF Created, ToSet

(* The objects that are missing of a version that is recorded are those of *)
(* an idempotent script that is still to be applied.                       *)
RecordedIsThere ==
  \A v \in recorded : \A o \in Created(v) :
    o \in objects \/ \E u \in Idempotent \ recorded : o \in Created(u)

(* A container that is at a script has what is behind it on record, and    *)
(* has created what the statements behind it create.                       *)
Busy(c) == boot[c].at = "script"
Progress(c) == LET b == boot[c] IN
  /\ b.known \subseteq recorded /\ 1..(b.script - 1) \subseteq recorded
  /\ b.statement >= 1
  /\ b.script \in Versions => \A i \in 1..Len(Scripts[b.script]) :
                                i < b.statement => Scripts[b.script][i] \in objects

MigIInv == /\ MigTypeOK /\ RecordedIsThere
           /\ \A c \in Containers : (Busy(c) => Progress(c)) /\ (boot[c] = Up => recorded = Versions)

States == [at : {"script"}, known : SUBSET Versions, script : 1..Len(Scripts) + 1, statement : Nat]

LEMMA BusyIs ==
  ASSUME MigTypeOK, NEW c \in Containers
  PROVE  /\ Busy(c) => boot[c] \in States
         /\ boot[c] \in {Up, Down} => ~ Busy(c)
BY DEF MigTypeOK, Busy, Up, Down, States

(* One container moves on from a script: what it has done is on record.    *)
LEMMA NextScriptIs ==
  ASSUME MigTypeOK, NEW c \in Containers, NEW v \in Versions,
         AtScript(c, v), NextScript(c)
  PROVE  /\ boot'[c] = [at |-> "script", known |-> boot[c].known, script |-> v + 1, statement |-> 1]
         /\ \A d \in Containers \ {c} : boot'[d] = boot[d]
BY BusyIs DEF MigTypeOK, AtScript, NextScript, Busy, States

(* What the record says of an object is not undone by more of them.        *)
LEMMA RecordedStays ==
  ASSUME RecordedIsThere, objects \subseteq objects', recorded' = recorded
  PROVE  RecordedIsThere'
BY DEF RecordedIsThere

(* A container that stands still keeps its place, whatever the other does. *)
LEMMA OthersProgress ==
  ASSUME MigIInv, MigTypeOK', objects \subseteq objects', recorded \subseteq recorded',
         NEW d \in Containers, boot'[d] = boot[d]
  PROVE  (Busy(d) => Progress(d))' /\ (boot[d] = Up => recorded = Versions)'
<1>1. Busy(d) => Progress(d)'
  BY DEF MigIInv, Progress
<1>2. boot[d] = Up => recorded' = Versions
  BY DEF MigIInv, MigTypeOK
<1> QED
  BY <1>1, <1>2 DEF Busy

LEMMA MigInitEstablishes == MigInit => MigIInv
<1> SUFFICES ASSUME MigInit PROVE MigIInv
  OBVIOUS
<1>1. PICK v \in 0..Len(Scripts) :
        /\ recorded = 1..v
        /\ \/ objects = UNION {Created(u) : u \in 1..v}
           \/ objects = (UNION {Created(u) : u \in 1..v}) \ UNION {Created(u) : u \in Idempotent \ 1..v}
  BY DEF MigInit
<1>2. recorded \subseteq Versions
  BY <1>1, ScriptsAre
<1>3. objects \subseteq UNION {Created(u) : u \in Versions}
  BY <1>1, <1>2
<1>4. boot \in [Containers -> {Down, Up} \cup States] /\ \A c \in Containers : boot[c] = Down
  BY DEF MigInit
<1>5. MigTypeOK
  <2>1. torn \in BOOLEAN
    BY Zenon DEF MigInit
  <2>2. kills \in 0..MaxKills
    BY ScriptsAre DEF MigInit
  <2> QED
    BY <1>2, <1>3, <1>4, <2>1, <2>2 DEF MigTypeOK, States
<1>6. RecordedIsThere
  BY <1>1 DEF RecordedIsThere
<1>7. Up # Down
  BY DEF Up, Down
<1> QED
  BY <1>4, <1>5, <1>6, <1>7, BusyIs DEF MigIInv

LEMMA BeginKeeps ==
  ASSUME MigIInv, NEW c \in Containers, Begin(c)
  PROVE  MigIInv'
<1> DEFINE b == [at |-> "script", known |-> recorded, script |-> 1, statement |-> 1]
<1>1. boot' = [boot EXCEPT ![c] = b] /\ UNCHANGED <<objects, recorded, kills, torn>>
  BY DEF Begin
<1>2. b \in States
  BY ScriptsAre DEF MigIInv, MigTypeOK, States
<1>3. b.known = recorded /\ b.script = 1 /\ b.statement = 1 /\ b # Up
  BY DEF Up
<1> HIDE DEF b
<1>4. boot'[c] = b /\ \A d \in Containers \ {c} : boot'[d] = boot[d]
  BY <1>1 DEF MigIInv, MigTypeOK
<1>5. MigTypeOK'
  BY <1>1, <1>2 DEF MigIInv, MigTypeOK, States
<1>6. Progress(c)' /\ boot'[c] # Up
  BY <1>1, <1>3, <1>4 DEF Progress
<1> QED
  BY <1>1, <1>4, <1>5, <1>6, OthersProgress, RecordedStays DEF MigIInv

LEMMA SkipKeeps ==
  ASSUME MigIInv, NEW c \in Containers, NEW v \in Versions, Skip(c, v)
  PROVE  MigIInv'
<1>1. /\ AtScript(c, v) /\ v \in boot[c].known /\ NextScript(c)
      /\ UNCHANGED <<objects, recorded, kills, torn>>
  BY DEF Skip
<1> DEFINE b == [at |-> "script", known |-> boot[c].known, script |-> v + 1, statement |-> 1]
<1>2. boot'[c] = b /\ \A d \in Containers \ {c} : boot'[d] = boot[d]
  BY <1>1, NextScriptIs DEF MigIInv
<1>3. boot[c] \in States /\ boot[c].script = v /\ Progress(c)
  BY <1>1, BusyIs DEF MigIInv, AtScript, Busy
<1>4. b \in States /\ b.known = boot[c].known /\ b.script = v + 1 /\ b.statement = 1 /\ b # Up
  BY <1>3, ScriptsAre DEF States, Up
<1> HIDE DEF b
<1>5. MigTypeOK'
  BY <1>1, <1>2, <1>4 DEF MigIInv, MigTypeOK, States, NextScript
<1>6. Progress(c)' /\ boot'[c] # Up
  <2>1. 1..((v + 1) - 1) \subseteq recorded
    BY <1>1, <1>3, ScriptsAre DEF Progress
  <2> QED
    BY <1>1, <1>2, <1>3, <1>4, <2>1 DEF Progress
<1> QED
  BY <1>1, <1>2, <1>5, <1>6, OthersProgress, RecordedStays DEF MigIInv

LEMMA ExecuteKeeps ==
  ASSUME MigIInv, NEW c \in Containers, NEW v \in Versions, Execute(c, v)
  PROVE  MigIInv'
<1> DEFINE i == boot[c].statement
           object == Scripts[v][i]
<1>1. /\ AtScript(c, v) /\ i <= Len(Scripts[v]) /\ UNCHANGED <<recorded, kills, torn>>
      /\ \/ boot' = [boot EXCEPT ![c] = Down] /\ UNCHANGED objects
         \/ /\ boot' = [boot EXCEPT ![c].statement = @ + 1]
            /\ objects' = objects \cup {object}
  BY DEF Execute
<1>2. boot[c] \in States /\ boot[c].script = v /\ Progress(c) /\ i \in Nat /\ i >= 1
  BY <1>1, BusyIs DEF MigIInv, AtScript, Busy, Progress, States
<1>3. i \in 1..Len(Scripts[v]) /\ object \in Created(v)
  BY <1>1, <1>2, CreatedIs, ScriptsAre
<1>4. objects \subseteq objects' /\ objects' \subseteq UNION {Created(u) : u \in Versions}
  BY <1>1, <1>3 DEF MigIInv, MigTypeOK
<1>5. CASE boot' = [boot EXCEPT ![c] = Down]
  <2>1. boot'[c] = Down /\ \A d \in Containers \ {c} : boot'[d] = boot[d]
    BY <1>5 DEF MigIInv, MigTypeOK
  <2>2. MigTypeOK'
    BY <1>1, <1>4, <1>5 DEF MigIInv, MigTypeOK
  <2>3. ~ Busy(c)' /\ boot'[c] # Up
    BY <2>1 DEF Busy, Up, Down
  <2> QED
    BY <1>1, <1>4, <2>1, <2>2, <2>3, OthersProgress, RecordedStays DEF MigIInv
<1>6. CASE /\ boot' = [boot EXCEPT ![c].statement = @ + 1]
           /\ objects' = objects \cup {object}
  <2> DEFINE b == [at |-> "script", known |-> boot[c].known, script |-> v, statement |-> i + 1]
  <2>1. boot'[c] = b /\ \A d \in Containers \ {c} : boot'[d] = boot[d]
    BY <1>2, <1>6 DEF MigIInv, MigTypeOK, States
  <2>2. b \in States /\ b.known = boot[c].known /\ b.script = v /\ b.statement = i + 1 /\ b # Up
    BY <1>2, ScriptsAre DEF States, Up
  <2> HIDE DEF b
  <2>3. MigTypeOK'
    BY <1>1, <1>4, <1>6, <2>1, <2>2 DEF MigIInv, MigTypeOK, States
  <2>4. \A j \in 1..Len(Scripts[v]) : j < i + 1 => Scripts[v][j] \in objects'
    <3>1. ASSUME NEW j \in 1..Len(Scripts[v]), j < i + 1
          PROVE  Scripts[v][j] \in objects'
      <4>1. j < i \/ j = i
        BY <1>2, <3>1, ScriptsAre
      <4> QED
        BY <1>2, <1>6, <3>1, <4>1 DEF Progress
    <3> QED
      BY <3>1
  <2>5. Progress(c)' /\ boot'[c] # Up
    BY <1>1, <1>2, <2>1, <2>2, <2>4 DEF Progress
  <2> QED
    BY <1>1, <1>4, <2>1, <2>3, <2>5, OthersProgress, RecordedStays DEF MigIInv
<1> QED
  BY <1>1, <1>5, <1>6

(* A version that goes on record has all of its objects, so none of them   *)
(* is missing of another one any more.                                     *)
LEMMA RecordVersionKeeps ==
  ASSUME MigIInv, NEW c \in Containers, NEW v \in Versions, RecordVersion(c, v)
  PROVE  MigIInv'
<1>1. /\ AtScript(c, v) /\ boot[c].statement > Len(Scripts[v])
      /\ recorded' = recorded \cup {v} /\ UNCHANGED <<objects, kills, torn>>
      /\ boot' = [boot EXCEPT ![c] = Down] \/ NextScript(c)
  BY DEF RecordVersion
<1>2. boot[c] \in States /\ boot[c].script = v /\ Progress(c)
  BY <1>1, BusyIs DEF MigIInv, AtScript, Busy
<1>3. Created(v) \subseteq objects
  <2>1. boot[c].statement \in Nat /\ Len(Scripts[v]) \in Nat
    BY <1>2, ScriptsAre DEF States
  <2>2. \A i \in 1..Len(Scripts[v]) : Scripts[v][i] \in objects
    BY <1>1, <1>2, <2>1 DEF Progress
  <2> QED
    BY <2>2, CreatedIs
<1>4. RecordedIsThere'
  BY <1>1, <1>3 DEF MigIInv, RecordedIsThere
<1>5. recorded' \subseteq Versions
  BY <1>1 DEF MigIInv, MigTypeOK
<1>6. CASE boot' = [boot EXCEPT ![c] = Down]
  <2>1. boot'[c] = Down /\ \A d \in Containers \ {c} : boot'[d] = boot[d]
    BY <1>6 DEF MigIInv, MigTypeOK
  <2>2. MigTypeOK'
    BY <1>1, <1>5, <1>6 DEF MigIInv, MigTypeOK
  <2>3. ~ Busy(c)' /\ boot'[c] # Up
    BY <2>1 DEF Busy, Up, Down
  <2> QED
    BY <1>1, <1>4, <2>1, <2>2, <2>3, OthersProgress DEF MigIInv
<1>7. CASE NextScript(c)
  <2> DEFINE b == [at |-> "script", known |-> boot[c].known, script |-> v + 1, statement |-> 1]
  <2>1. boot'[c] = b /\ \A d \in Containers \ {c} : boot'[d] = boot[d]
    BY <1>1, <1>7, NextScriptIs DEF MigIInv
  <2>2. b \in States /\ b.known = boot[c].known /\ b.script = v + 1 /\ b.statement = 1 /\ b # Up
    BY <1>2, ScriptsAre DEF States, Up
  <2> HIDE DEF b
  <2>3. MigTypeOK'
    BY <1>1, <1>5, <1>7, <2>1, <2>2 DEF MigIInv, MigTypeOK, States, NextScript
  <2>4. 1..((v + 1) - 1) \subseteq recorded'
    BY <1>1, <1>2, ScriptsAre DEF Progress
  <2>5. Progress(c)' /\ boot'[c] # Up
    BY <1>1, <1>2, <2>1, <2>2, <2>4 DEF Progress
  <2> QED
    BY <1>1, <1>4, <2>1, <2>3, <2>5, OthersProgress DEF MigIInv
<1> QED
  BY <1>1, <1>6, <1>7

LEMMA ComeUpKeeps ==
  ASSUME MigIInv, NEW c \in Containers, ComeUp(c)
  PROVE  MigIInv'
<1>1. /\ AtScript(c, Len(Scripts) + 1) /\ boot' = [boot EXCEPT ![c] = Up]
      /\ UNCHANGED <<objects, recorded, kills, torn>>
  BY DEF ComeUp
<1>2. Progress(c) /\ boot[c].script = Len(Scripts) + 1
  BY <1>1 DEF MigIInv, AtScript, Busy
<1>3. recorded = Versions
  <2>1. Versions \subseteq recorded
    BY <1>2, ScriptsAre DEF Progress
  <2> QED
    BY <2>1 DEF MigIInv, MigTypeOK
<1>4. boot'[c] = Up /\ \A d \in Containers \ {c} : boot'[d] = boot[d]
  BY <1>1 DEF MigIInv, MigTypeOK
<1>5. MigTypeOK'
  BY <1>1 DEF MigIInv, MigTypeOK
<1>6. ~ Busy(c)'
  BY <1>4 DEF Busy, Up
<1> QED
  BY <1>1, <1>3, <1>4, <1>5, <1>6, OthersProgress, RecordedStays DEF MigIInv

LEMMA KillKeeps ==
  ASSUME MigIInv, NEW c \in Containers, Kill(c)
  PROVE  MigIInv'
<1>1. /\ boot' = [boot EXCEPT ![c] = Down] /\ kills < MaxKills /\ kills' = kills + 1
      /\ UNCHANGED <<objects, recorded>>
  BY DEF Kill
<1>2. torn' \in BOOLEAN
  BY DEF Kill, MigIInv, MigTypeOK
<1>3. boot'[c] = Down /\ \A d \in Containers \ {c} : boot'[d] = boot[d]
  BY <1>1 DEF MigIInv, MigTypeOK
<1>4. kills' \in 0..MaxKills
  BY <1>1, ScriptsAre DEF MigIInv, MigTypeOK
<1>5. MigTypeOK'
  BY <1>1, <1>2, <1>4 DEF MigIInv, MigTypeOK
<1>6. ~ Busy(c)' /\ boot'[c] # Up
  BY <1>3 DEF Busy, Up, Down
<1> QED
  BY <1>1, <1>3, <1>5, <1>6, OthersProgress, RecordedStays DEF MigIInv

(* The specification without its fairness.                                 *)
MigSteps == MigInit /\ [][MigNext]_migVars

LEMMA MigInvariance == MigSteps => []MigIInv
<1>1. MigIInv /\ [MigNext]_migVars => MigIInv'
  <2> SUFFICES ASSUME MigIInv, [MigNext]_migVars PROVE MigIInv'
    OBVIOUS
  <2>1. CASE MigNext
    BY <2>1, BeginKeeps, SkipKeeps, ExecuteKeeps, RecordVersionKeeps, ComeUpKeeps, KillKeeps
       DEF MigNext, Migrate
  <2>2. CASE UNCHANGED migVars
    BY <2>2 DEF migVars, MigIInv, MigTypeOK, RecordedIsThere, Busy, Progress
  <2> QED
    BY <2>1, <2>2
<1> QED
  BY MigInitEstablishes, <1>1, PTL DEF MigSteps

(* Every variable of the migrations keeps its type.                        *)
THEOREM MigrationsTypeCorrect == MigSpec => []MigTypeOK
<1>1. MigIInv => MigTypeOK
  BY DEF MigIInv
<1> QED
  BY <1>1, MigInvariance, PTL DEF MigSpec, MigSteps

(* A container that is up finds every version recorded and every object it *)
(* needs, whichever container created it and whichever was killed.         *)
THEOREM UpIsComplete == MigSpec => []UpMeansComplete
<1>1. ASSUME MigIInv, NEW c \in Containers, boot[c] = Up
      PROVE  recorded = Versions /\ objects = UNION {Created(v) : v \in Versions}
  <2>1. recorded = Versions
    BY <1>1 DEF MigIInv
  <2>2. \A v \in Versions : Created(v) \subseteq objects
    BY <1>1, <2>1, ScriptsAre DEF MigIInv, RecordedIsThere
  <2> QED
    BY <1>1, <2>1, <2>2 DEF MigIInv, MigTypeOK
<1>2. MigIInv => UpMeansComplete
  BY <1>1 DEF UpMeansComplete
<1> QED
  BY <1>2, MigInvariance, PTL DEF MigSpec, MigSteps

-----------------------------------------------------------------------------
(* Segments.                                                               *)

LEMMA SizesAre ==
  /\ Single7 \in Nat /\ Part7 \in Nat /\ SingleU \in Nat /\ PartU \in Nat
  /\ MaxSegments \in Nat /\ MaxBody \in Nat
  /\ 1 < Part7 /\ Part7 <= Single7 /\ 1 < PartU /\ PartU <= SingleU
  /\ MaxSegments < Part7 /\ MaxSegments < PartU
BY SegmentsAssumption DEF SegmentsAssumption

(* Rounding up.                                                            *)
LEMMA CeilDivIs ==
  ASSUME NEW n \in Nat, NEW d \in Nat, d > 0
  PROVE  /\ CeilDiv(n, d) \in Nat
         /\ n <= d * CeilDiv(n, d) /\ d * CeilDiv(n, d) < n + d
<1> DEFINE q == (n + d - 1) \div d
<1>1. n + d - 1 \in Nat
  OBVIOUS
<1>2. q \in Nat /\ d * q <= n + d - 1 /\ n + d - 1 < d * q + d
  BY <1>1
<1>3. d * q \in Int
  BY <1>2
<1> HIDE DEF q
<1>4. CeilDiv(n, d) = q
  BY DEF q, CeilDiv
<1> QED
  BY <1>2, <1>3, <1>4

(* c characters, of size n in all, fill the parts of p but for a waste: one *)
(* place at most in a part that was left, and none without a character of   *)
(* two places.                                                              *)
Waste(p, n, room) == (p.parts - 1) * room + p.fill - n
Filled(p, n, c, room) == /\ 0 <= Waste(p, n, room) /\ Waste(p, n, room) <= p.parts - 1
                         /\ Waste(p, n, room) <= n - c
                         /\ n > 0 => p.fill >= 1

PackState(c, room) == [parts : 1..(c + 1), fill : 0..room]

LEMMA PackKeepsFilled ==
  ASSUME NEW c \in Nat, NEW n \in Nat, NEW room \in Nat, room > 1, NEW size \in {1, 2},
         NEW p \in PackState(c, room), Filled(p, n, c, room)
  PROVE  /\ Pack(p, size, room) \in PackState(c + 1, room)
         /\ Filled(Pack(p, size, room), n + size, c + 1, room)
<1> DEFINE P == p.parts
           F == p.fill
           A == (P - 1) * room
<1>1. P \in Nat /\ P >= 1 /\ P <= c + 1 /\ F \in Nat /\ F <= room /\ size \in Nat
  BY DEF PackState
<1>2. A \in Int /\ ((P + 1) - 1) * room = A + room
  BY <1>1
<1>3. 0 <= A + F - n /\ A + F - n <= P - 1 /\ A + F - n <= n - c
  BY DEF Filled, Waste
<1>4. CASE F + size <= room
  <2> DEFINE q == [p EXCEPT !.fill = @ + size]
  <2>1. Pack(p, size, room) = q
    BY <1>4 DEF Pack
  <2>2. q \in PackState(c + 1, room) /\ q.parts = P /\ q.fill = F + size
    BY <1>1, <1>4 DEF PackState
  <2> HIDE DEF q, A
  <2>3. Waste(q, n + size, room) = A + (F + size) - (n + size)
    BY <2>2 DEF Waste, A
  <2>4. Filled(q, n + size, c + 1, room)
    BY <1>1, <1>2, <1>3, <2>2, <2>3 DEF Filled
  <2> QED
    BY <2>1, <2>2, <2>4
<1>5. CASE ~ (F + size <= room)
  <2> DEFINE q == [parts |-> P + 1, fill |-> size]
  <2>1. Pack(p, size, room) = q
    BY <1>5 DEF Pack
  <2>2. q \in PackState(c + 1, room) /\ q.parts = P + 1 /\ q.fill = size
    BY <1>1 DEF PackState
  <2> HIDE DEF q
  <2>3. Waste(q, n + size, room) = (A + room) + size - (n + size)
    BY <1>2, <2>2 DEF Waste
  <2> HIDE DEF A
  <2>4. room - F = 0 \/ (room - F = 1 /\ size = 2)
    BY <1>1, <1>5
  <2>5. A \in Int
    BY <1>2
  <2> DEFINE w == Waste(q, n + size, room)
  <2>6. w = (A + F - n) + (room - F) /\ w \in Int
    BY <1>1, <2>3, <2>5
  <2>7. 0 <= w /\ w <= (P + 1) - 1 /\ w <= (n + size) - (c + 1)
    BY <1>1, <1>3, <2>4, <2>5, <2>6
  <2>8. Filled(q, n + size, c + 1, room)
    BY <1>1, <2>2, <2>7 DEF Filled
  <2> QED
    BY <2>1, <2>2, <2>8
<1> QED
  BY <1>4, <1>5

(* How many parts that makes, beside the count by division.                *)
LEMMA FilledCounts ==
  ASSUME NEW c \in Nat, NEW n \in Nat, NEW room \in Nat, room > 1, n > 0,
         NEW p \in PackState(c, room), Filled(p, n, c, room),
         CeilDiv(n, room) < room
  PROVE  /\ CeilDiv(n, room) <= p.parts /\ p.parts <= CeilDiv(n, room) + 1
         /\ n = c => p.parts = CeilDiv(n, room)
<1> DEFINE P == p.parts
           F == p.fill
           k == CeilDiv(n, room)
           w == (P - 1) * room + F - n
<1>1. P \in Nat /\ P >= 1 /\ F \in Nat /\ 1 <= F /\ F <= room
  BY DEF PackState, Filled
<1>2. k \in Nat /\ k < room /\ n <= room * k /\ room * k < n + room
  BY CeilDivIs
<1>3. 0 <= w /\ w <= P - 1 /\ w <= n - c
  BY DEF Filled, Waste
<1>4. /\ (P - 1) * room \in Int /\ room * k \in Int
      /\ (P - 1) * room = room * P - room /\ room * P \in Int
  BY <1>1, <1>2
<1> HIDE DEF k, P, F
<1>5. k <= P
  <2> SUFFICES ASSUME k >= P + 1 PROVE FALSE
    BY <1>1, <1>2
  <2>1. room * k >= room * (P + 1) /\ room * (P + 1) = room * P + room
    BY <1>1, <1>2
  <2> QED
    BY <1>1, <1>2, <1>3, <1>4, <2>1
<1>6. P <= k + 1
  <2> SUFFICES ASSUME P >= k + 2 PROVE FALSE
    BY <1>1, <1>2
  <2> DEFINE r == room - 1
  <2>1. (P - 1) * r = (P - 1) * room - (P - 1) /\ (P - 1) * r \in Int
    BY <1>1
  <2>2. (P - 1) * r >= (k + 1) * r
    BY <1>1, <1>2
  <2>3. (k + 1) * r = room * k + room - k - 1
    BY <1>2
  <2> QED
    BY <1>1, <1>2, <1>3, <1>4, <2>1, <2>2, <2>3
<1>7. ASSUME n = c PROVE P <= k
  <2> SUFFICES ASSUME P >= k + 1 PROVE FALSE
    BY <1>1, <1>2
  <2>1. room * P >= room * (k + 1) /\ room * (k + 1) = room * k + room
    BY <1>1, <1>2
  <2> QED
    BY <1>1, <1>2, <1>3, <1>4, <1>7, <2>1
<1>8. k <= P /\ P <= k + 1 /\ (n = c => P = k)
  BY <1>1, <1>2, <1>5, <1>6, <1>7
<1> QED
  BY <1>8 DEF k, P

(* The inductive invariant: the encoder has packed what was written.       *)
SegIInv == /\ SegTypeOK
           /\ gsm7 => septets >= chars /\ Filled(packed7, septets, chars, Part7)
           /\ Filled(packedU, units, chars, PartU)

LEMMA SegTypeIs ==
  ASSUME SegTypeOK
  PROVE  /\ chars \in Nat /\ gsm7 \in BOOLEAN /\ septets \in Nat /\ units \in Nat
         /\ chars <= MaxBody + 1 /\ septets <= 2 * chars
         /\ chars <= units /\ units <= 2 * chars
         /\ packed7 \in PackState(chars, Part7) /\ packedU \in PackState(chars, PartU)
<1>1. chars \in Nat /\ chars <= MaxBody + 1
  BY SizesAre DEF SegTypeOK
<1>2. septets \in Nat /\ units \in Nat /\ septets <= 2 * chars
      /\ chars <= units /\ units <= 2 * chars
  BY <1>1 DEF SegTypeOK
<1> QED
  BY <1>1, <1>2 DEF SegTypeOK, PackState

LEMMA SegInitEstablishes == SegInit => SegIInv
<1> SUFFICES ASSUME SegInit PROVE SegIInv
  OBVIOUS
<1>1. chars = 0 /\ septets = 0 /\ units = 0 /\ gsm7 = TRUE
  BY DEF SegInit
<1> DEFINE e == [parts |-> 1, fill |-> 0]
<1>2. packed7 = e /\ packedU = e
  BY DEF SegInit, Empty
<1>3. e.parts = 1 /\ e.fill = 0
  OBVIOUS
<1>4. e \in [parts : 1..chars + 1, fill : 0..Part7] /\ e \in [parts : 1..chars + 1, fill : 0..PartU]
  BY <1>1, SizesAre
<1> HIDE DEF e
<1>5. Filled(e, 0, 0, Part7) /\ Filled(e, 0, 0, PartU)
  BY <1>3, SizesAre DEF Filled, Waste
<1>6. SegTypeOK
  BY <1>1, <1>2, <1>4, SizesAre DEF SegTypeOK
<1> QED
  BY <1>1, <1>2, <1>5, <1>6 DEF SegIInv

LEMMA WriteKeeps ==
  ASSUME SegIInv, NEW kind \in {"basic", "extension", "wide", "surrogate"}, Write(kind)
  PROVE  SegIInv'
<1>1. /\ chars \in Nat /\ gsm7 \in BOOLEAN /\ septets \in Nat /\ units \in Nat
      /\ septets <= 2 * chars /\ chars <= units /\ units <= 2 * chars
      /\ packed7 \in PackState(chars, Part7) /\ packedU \in PackState(chars, PartU)
  BY SegTypeIs DEF SegIInv
<1>2. chars <= MaxBody /\ chars' = chars + 1
  BY <1>1, SizesAre DEF Write, body_too_long
<1> DEFINE s == Septets(kind)
           u == Units(kind)
<1>3. s \in {1, 2} /\ u \in {1, 2}
  BY DEF Septets, Units
<1>4. /\ units' = units + u /\ packedU' = Pack(packedU, u, PartU)
      /\ septets' = (IF gsm7' THEN septets + s ELSE 0)
      /\ packed7' = (IF gsm7' THEN Pack(packed7, s, Part7) ELSE Empty)
  BY DEF Write
<1>5. gsm7' \in BOOLEAN /\ (gsm7' => gsm7)
  BY Zenon, <1>1 DEF Write
<1> HIDE DEF s, u
<1>6. packedU' \in PackState(chars + 1, PartU) /\ Filled(packedU', units + u, chars + 1, PartU)
  BY <1>1, <1>3, <1>4, SizesAre, PackKeepsFilled DEF SegIInv
<1>7. ASSUME gsm7'
      PROVE  /\ packed7' \in PackState(chars + 1, Part7)
             /\ Filled(packed7', septets + s, chars + 1, Part7)
             /\ septets' = septets + s /\ septets >= chars
  BY <1>1, <1>3, <1>4, <1>5, <1>7, SizesAre, PackKeepsFilled DEF SegIInv
<1>8. packed7' \in PackState(chars + 1, Part7)
  <2>1. CASE ~ gsm7'
    <3>1. packed7' = [parts |-> 1, fill |-> 0]
      BY <2>1, <1>4 DEF Empty
    <3>2. 1 \in 1..((chars + 1) + 1) /\ 0 \in 0..Part7
      BY <1>1, SizesAre
    <3> QED
      BY <3>1, <3>2 DEF PackState
  <2> QED
    BY <1>7, <2>1
<1>9. septets' \in 0..2 * chars'
  <2>1. CASE gsm7'
    BY <1>1, <1>2, <1>3, <1>7, <2>1
  <2>2. CASE ~ gsm7'
    BY <1>1, <1>2, <1>4, <2>2
  <2> QED
    BY <2>1, <2>2
<1>10. SegTypeOK'
  <2>1. chars' \in 0..MaxBody + 1 /\ units' \in chars'..2 * chars'
    BY <1>1, <1>2, <1>3, <1>4, SizesAre
  <2> QED
    BY <1>2, <1>5, <1>6, <1>8, <1>9, <2>1 DEF SegTypeOK, PackState
<1>11. gsm7' => septets' >= chars' /\ Filled(packed7', septets', chars', Part7)
  BY <1>1, <1>2, <1>3, <1>7
<1>12. Filled(packedU', units', chars', PartU)
  BY <1>2, <1>4, <1>6
<1> QED
  BY <1>10, <1>11, <1>12 DEF SegIInv, Filled, Waste

LEMMA SegInvariance == SegSpec => []SegIInv
<1>1. SegIInv /\ [SegNext]_segVars => SegIInv'
  <2>1. SegIInv /\ SegNext => SegIInv'
    BY WriteKeeps DEF SegNext
  <2>2. SegIInv /\ UNCHANGED segVars => SegIInv'
    BY DEF SegIInv, SegTypeOK, Filled, Waste, segVars
  <2> QED
    BY <2>1, <2>2
<1> QED
  BY <1>1, SegInitEstablishes, PTL DEF SegSpec

(* Every variable of the composer and the encoder keeps its type.          *)
THEOREM SegmentsTypeCorrect == SegSpec => []SegTypeOK
<1>1. SegIInv => SegTypeOK
  BY DEF SegIInv
<1> QED
  BY <1>1, SegInvariance, PTL

(* The tokens that the throttle takes for an accepted body are the parts   *)
(* that are sent, one short at most, for every size of an SMS.             *)
THEOREM WhatIsChargedIsSent == SegSpec => []ChargedIsSent
<1>1. ASSUME SegIInv PROVE ChargedIsSent
  <2> SUFFICES ASSUME ~body_too_long, NEW p \in EncodedParts
               PROVE  /\ count_segments <= p /\ p <= count_segments + 1
                      /\ (gsm7 /\ septets = chars) \/ (~gsm7 /\ units = chars)
                           => p = count_segments
    BY DEF ChargedIsSent
  <2>1. /\ chars \in Nat /\ gsm7 \in BOOLEAN /\ septets \in Nat /\ units \in Nat
        /\ packed7 \in PackState(chars, Part7) /\ packedU \in PackState(chars, PartU)
    BY <1>1, SegTypeIs DEF SegIInv
  <2>2. ~ (count_segments > MaxSegments)
    BY Zenon DEF body_too_long
  <2>3. CASE gsm7 /\ septets <= Single7
    BY <2>3 DEF EncodedParts, count_segments, Segments
  <2>4. CASE gsm7 /\ ~ (septets <= Single7)
    <3>1. count_segments = CeilDiv(septets, Part7) /\ p = packed7.parts
      BY <2>4 DEF EncodedParts, count_segments, Segments
    <3>2. septets > 0
      BY <2>1, <2>4, SizesAre
    <3>3. CeilDiv(septets, Part7) \in Nat
      <4>1. Part7 \in Nat /\ Part7 > 0
        BY SizesAre
      <4> QED
        BY <2>1, <4>1, CeilDivIs
    <3>4. CeilDiv(septets, Part7) < Part7
      BY <2>2, <3>1, <3>3, SizesAre
    <3>5. Filled(packed7, septets, chars, Part7)
      BY <1>1, <2>4 DEF SegIInv
    <3> QED
      BY <2>1, <2>4, <3>1, <3>2, <3>4, <3>5, SizesAre, FilledCounts
  <2>5. CASE ~ gsm7 /\ units <= SingleU
    BY <2>5 DEF EncodedParts, count_segments, Segments
  <2>6. CASE ~ gsm7 /\ ~ (units <= SingleU)
    <3>1. /\ count_segments = CeilDiv(units, PartU)
          /\ p \in {packedU.parts, CeilDiv(units, PartU)}
      BY <2>6 DEF EncodedParts, count_segments, Segments
    <3>2. units > 0
      BY <2>1, <2>6, SizesAre
    <3>3. CeilDiv(units, PartU) \in Nat
      <4>1. PartU \in Nat /\ PartU > 0
        BY SizesAre
      <4> QED
        BY <2>1, <4>1, CeilDivIs
    <3>4. CeilDiv(units, PartU) < PartU
      BY <2>2, <3>1, <3>3, SizesAre
    <3>5. Filled(packedU, units, chars, PartU)
      BY <1>1 DEF SegIInv
    <3>6. /\ CeilDiv(units, PartU) <= packedU.parts
          /\ packedU.parts <= CeilDiv(units, PartU) + 1
          /\ units = chars => packedU.parts = CeilDiv(units, PartU)
      BY <2>1, <3>2, <3>4, <3>5, SizesAre, FilledCounts
    <3>7. CASE p = packedU.parts
      BY <2>6, <3>1, <3>6, <3>7
    <3>8. CASE p = CeilDiv(units, PartU)
      BY <3>1, <3>3, <3>8
    <3> QED
      BY <3>1, <3>7, <3>8
  <2> QED
    BY <2>1, <2>3, <2>4, <2>5, <2>6
<1> QED
  BY <1>1, SegInvariance, PTL

-----------------------------------------------------------------------------
(* The limiter.                                                            *)

LEMMA LimitsAre ==
  /\ Limit \in Nat /\ Limit > 0 /\ Window \in Nat /\ LimMaxTime \in Nat /\ LimMaxTime > 0
  /\ LimLag \in Nat /\ LimLag < Window
BY LimiterAssumption DEF LimiterAssumption

LEMMA AllowedInIs ==
  ASSUME NEW from, NEW until
  PROVE  AllowedIn(from, until)
           = Cardinality({i \in 1..Len(allowed) : from < allowed[i] /\ allowed[i] <= until})
BY DEF AllowedIn, Quantify

(* What is pruned has left the window, and the first that stays has not.   *)
LEMMA PruneIsASuffix ==
  ASSUME NEW h \in Seq(Nat), NEW time \in Nat
  PROVE  \E x \in 1..Len(h) + 1 :
           /\ Prune(h, time) = SubSeq(h, x, Len(h))
           /\ \A j \in 1..(x - 1) : h[j] + Window <= time
           /\ x <= Len(h) => h[x] + Window > time
<1> DEFINE S == {i \in 1..Len(h) + 1 : \A j \in 1..(i - 1) : h[j] + Window <= time}
           T == {i \in 1..Len(h) : ~ (h[i] + Window <= time)} \cup {Len(h) + 1}
<1>1. Len(h) \in Nat /\ \A j \in 1..Len(h) : h[j] \in Nat
  OBVIOUS
<1>2. PICK x \in T : \A y \in T : x <= y
  <2>1. T \in SUBSET Nat /\ T # {}
    BY <1>1
  <2> QED
    BY <2>1, LeastNatural
<1>3. x \in 1..Len(h) + 1
  BY <1>1, <1>2
<1>4. \A j \in 1..(x - 1) : h[j] + Window <= time
  <2> SUFFICES ASSUME NEW j \in 1..(x - 1), ~ (h[j] + Window <= time) PROVE FALSE
    OBVIOUS
  <2>1. j \in 1..Len(h) /\ j < x
    BY <1>1, <1>3
  <2> QED
    BY <1>2, <1>3, <2>1
<1>5. x <= Len(h) => ~ (h[x] + Window <= time)
  BY <1>1, <1>2
<1>6. x \in S
  BY <1>3, <1>4
<1>7. \A y \in S : y <= x
  <2> SUFFICES ASSUME NEW y \in S, y > x PROVE FALSE
    BY <1>1, <1>3
  <2>1. x \in 1..(y - 1) /\ x <= Len(h)
    BY <1>1, <1>3
  <2> QED
    BY <1>5, <2>1
<1>8. Max(S) = x
  <2>1. \A y \in S : y \in Nat
    BY <1>1
  <2>2. x >= x /\ \A y \in S : x >= y
    BY <1>3, <1>7, <2>1
  <2>3. \A z \in S : (\A y \in S : z >= y) => z = x
    BY <1>3, <1>6, <1>7, <2>1
  <2> HIDE DEF S
  <2> QED
    BY <1>6, <2>2, <2>3 DEF Max
<1>9. Prune(h, time) = SubSeq(h, x, Len(h))
  BY <1>8 DEF Prune
<1>10. x <= Len(h) => h[x] + Window > time
  BY <1>1, <1>3, <1>5, LimitsAre
<1> QED
  BY <1>3, <1>4, <1>9, <1>10

(* The inductive invariant.  The hits that are left are the youngest of    *)
(* the allowed, each stamped no more than LimLag before it was allowed; an *)
(* allowed request whose hit was dropped is as good as a window old, so    *)
(* that Limit requests further on a window has passed.                     *)
Dropped == Len(allowed) - Len(hits)

Histories == hits \in Seq(Nat) /\ allowed \in Seq(Nat) /\ Len(hits) <= Len(allowed)

Clocks == /\ \A t \in Threads : now[t] # Away => limNow <= now[t] + LimLag
          /\ \A i \in 1..Len(allowed) : allowed[i] <= limNow
          /\ \A i, k \in 1..Len(allowed) : i <= k => allowed[i] <= allowed[k]

Matched == \A j \in 1..Len(hits) : /\ hits[j] <= allowed[Dropped + j]
                                   /\ allowed[Dropped + j] <= hits[j] + LimLag

Left == \A i \in 1..Dropped : allowed[i] + Window <= limNow + LimLag

Spaced == \A i, k \in 1..Len(allowed) :
            k >= i + Limit => allowed[i] + Window <= allowed[k] + LimLag

LimIInv == LimTypeOK /\ Histories /\ Clocks /\ Matched /\ Left /\ Spaced

LEMMA LimInitEstablishes == LimInit => LimIInv
<1> SUFFICES ASSUME LimInit PROVE LimIInv
  OBVIOUS
<1>1. /\ limNow = 1 /\ now = [t \in Threads |-> 0] /\ hits = <<>> /\ allowed = <<>>
      /\ denied = 0
  BY DEF LimInit, Away
<1>2. LimTypeOK
  BY <1>1, LimitsAre DEF LimTypeOK
<1>3. Histories /\ Clocks
  BY <1>1 DEF Histories, Clocks, Away
<1>4. Matched /\ Left /\ Spaced
  BY <1>1 DEF Matched, Left, Spaced, Dropped
<1> QED
  BY <1>2, <1>3, <1>4 DEF LimIInv

LEMMA LimTickKeeps == LimIInv /\ LimTick => LimIInv'
<1> SUFFICES ASSUME LimIInv, LimTick PROVE LimIInv'
  OBVIOUS
<1>1. /\ limNow \in Nat /\ limNow < LimMaxTime /\ limNow' = limNow + 1
      /\ now' = now /\ hits' = hits /\ allowed' = allowed /\ denied' = denied
  BY LimitsAre DEF LimTick, LimIInv, LimTypeOK
<1>2. LimTypeOK'
  <2>1. limNow' \in 1..LimMaxTime
    BY <1>1, LimitsAre
  <2>2. now' \in [Threads -> 0..limNow'] /\ denied' \in 0..limNow'
    <3>1. 0..limNow \subseteq 0..limNow'
      BY <1>1
    <3> QED
      BY <1>1, <3>1 DEF LimIInv, LimTypeOK
  <2>3. Len(hits') <= Limit /\ \A i \in 1..Len(hits') : hits'[i] \in 1..limNow'
    BY <1>1 DEF LimIInv, LimTypeOK
  <2> QED
    BY <2>1, <2>2, <2>3 DEF LimTypeOK
<1>3. Histories'
  BY <1>1 DEF LimIInv, Histories
<1>4. Clocks'
  <2>1. \A t \in Threads : now'[t] # Away => limNow' <= now'[t] + LimLag
    <3> SUFFICES ASSUME NEW t \in Threads, now[t] # Away PROVE limNow' <= now[t] + LimLag
      BY <1>1
    <3>1. now[t] \in Nat
      BY <1>1 DEF LimIInv, LimTypeOK
    <3>2. limNow < now[t] + LimLag
      BY DEF LimTick
    <3> QED
      BY <1>1, <3>1, <3>2, LimitsAre
  <2>2. \A i \in 1..Len(allowed) : allowed[i] <= limNow + 1
    BY <1>1 DEF LimIInv, Clocks, Histories
  <2> QED
    BY <1>1, <2>1, <2>2 DEF LimIInv, Clocks
<1>5. Matched' /\ Spaced'
  BY <1>1 DEF LimIInv, Matched, Spaced, Dropped
<1>6. Left'
  <2>1. \A i \in 1..Dropped : allowed[i] + Window <= limNow + LimLag
    BY DEF LimIInv, Left
  <2>2. \A i \in 1..Dropped : allowed[i] \in Nat
    BY DEF LimIInv, Histories, Dropped
  <2>3. \A i \in 1..Dropped : allowed[i] + Window <= (limNow + 1) + LimLag
    BY <1>1, <2>1, <2>2, LimitsAre
  <2> QED
    BY <1>1, <2>3 DEF Left, Dropped
<1> QED
  BY <1>2, <1>3, <1>4, <1>5, <1>6 DEF LimIInv

LEMMA ReadClockKeeps ==
  ASSUME LimIInv, NEW t \in Threads, ReadClock(t)
  PROVE  LimIInv'
<1>1. /\ now' = [now EXCEPT ![t] = limNow] /\ limNow' = limNow
      /\ hits' = hits /\ allowed' = allowed /\ denied' = denied
  BY DEF ReadClock
<1>2. limNow \in Nat /\ now \in [Threads -> 0..limNow]
  BY LimitsAre DEF LimIInv, LimTypeOK
<1>3. LimTypeOK'
  BY <1>1, <1>2 DEF LimIInv, LimTypeOK
<1>4. Clocks'
  <2>1. \A s \in Threads : now'[s] # Away => limNow <= now'[s] + LimLag
    BY <1>1, <1>2, LimitsAre DEF LimIInv, Clocks
  <2> QED
    BY <1>1, <2>1 DEF LimIInv, Clocks
<1>5. (Histories /\ Matched /\ Left /\ Spaced)'
  BY <1>1 DEF LimIInv, Histories, Matched, Left, Spaced, Dropped
<1> QED
  BY <1>3, <1>4, <1>5 DEF LimIInv

LEMMA LimTypeIs ==
  ASSUME LimIInv
  PROVE  /\ limNow \in Nat /\ limNow >= 1 /\ limNow <= LimMaxTime
         /\ now \in [Threads -> 0..limNow] /\ denied \in 0..limNow
         /\ hits \in Seq(Nat) /\ allowed \in Seq(Nat)
         /\ Len(hits) \in Nat /\ Len(allowed) \in Nat
         /\ Len(hits) <= Limit /\ Len(hits) <= Len(allowed)
         /\ \A i \in 1..Len(hits) : hits[i] \in 1..limNow /\ hits[i] \in Nat
         /\ \A i \in 1..Len(allowed) : allowed[i] \in Nat
BY LimitsAre DEF LimIInv, LimTypeOK, Histories

(* The state after the pruning: what is left matches the youngest, and     *)
(* all that are dropped are as good as a window old.                       *)
Older(left) == Len(allowed) - Len(left)

LEMMA PruneLeaves ==
  ASSUME LimIInv, NEW t \in Threads, now[t] # Away,
         NEW left, left = Prune(hits, now[t])
  PROVE  /\ left \in Seq(Nat) /\ Len(left) \in Nat /\ Len(left) <= Len(hits)
         /\ \A j \in 1..Len(left) : left[j] \in 1..limNow
         /\ \A j \in 1..Len(left) : /\ left[j] <= allowed[Older(left) + j]
                                    /\ allowed[Older(left) + j] <= left[j] + LimLag
         /\ \A i \in 1..Older(left) : allowed[i] + Window <= limNow + LimLag
         /\ Len(left) = Len(hits) /\ Len(hits) > 0 => hits[1] + Window > now[t]
<1> DEFINE L == Len(hits)
           n == Len(allowed)
<1>1. /\ limNow \in Nat /\ L \in Nat /\ n \in Nat /\ L <= n
      /\ hits \in Seq(Nat) /\ allowed \in Seq(Nat)
      /\ \A i \in 1..L : hits[i] \in 1..limNow /\ hits[i] \in Nat
      /\ \A i \in 1..n : allowed[i] \in Nat
      /\ now[t] \in Nat /\ now[t] <= limNow
  BY LimTypeIs
<1>2. PICK x \in 1..L + 1 :
           /\ Prune(hits, now[t]) = SubSeq(hits, x, L)
           /\ \A j \in 1..(x - 1) : hits[j] + Window <= now[t]
           /\ x <= L => hits[x] + Window > now[t]
  BY <1>1, PruneIsASuffix
<1>3. /\ left = SubSeq(hits, x, L) /\ x \in Nat /\ x >= 1 /\ x <= L + 1
  BY <1>1, <1>2
<1>4. /\ left \in Seq(Nat) /\ Len(left) = L - x + 1 /\ Len(left) \in Nat /\ Len(left) <= L
      /\ \A j \in 1..Len(left) : left[j] = hits[x + j - 1]
  BY <1>1, <1>3
<1>5. Older(left) = Dropped + (x - 1) /\ Dropped \in Nat /\ Dropped = n - L
  BY <1>1, <1>3, <1>4 DEF Older, Dropped
<1> HIDE DEF L, n
<1>6. ASSUME NEW j \in 1..Len(left)
      PROVE  /\ left[j] \in 1..limNow /\ left[j] <= allowed[Older(left) + j]
             /\ allowed[Older(left) + j] <= left[j] + LimLag
  <2>1. x + j - 1 \in 1..L /\ left[j] = hits[x + j - 1] /\ Dropped + (x + j - 1) = Older(left) + j
    BY <1>1, <1>3, <1>4, <1>5
  <2> QED
    BY <1>1, <2>1 DEF LimIInv, Matched, L
<1>7. ASSUME NEW i \in 1..Older(left) PROVE allowed[i] + Window <= limNow + LimLag
  <2>1. CASE i \in 1..Dropped
    BY <2>1 DEF LimIInv, Left
  <2>2. CASE ~ (i \in 1..Dropped)
    <3> DEFINE j == i - Dropped
    <3>1. j \in 1..(x - 1) /\ j \in 1..L /\ i = Dropped + j /\ i \in 1..n
      BY <1>1, <1>3, <1>5, <2>2
    <3> HIDE DEF j
    <3>2. hits[j] + Window <= now[t] /\ hits[j] \in Nat /\ allowed[i] \in Nat
      BY <1>1, <1>2, <3>1
    <3>3. allowed[i] <= hits[j] + LimLag
      BY <3>1 DEF LimIInv, Matched, L
    <3>4. LimLag \in Nat /\ Window \in Nat
      BY LimitsAre
    <3> DEFINE a == allowed[i]
               b == hits[j]
               c == now[t]
    <3>5. /\ a \in Nat /\ b \in Nat /\ c \in Nat /\ limNow \in Nat
          /\ b + Window <= c /\ a <= b + LimLag /\ c <= limNow
      BY <1>1, <3>2, <3>3
    <3> HIDE DEF a, b, c
    <3>6. a + Window <= limNow + LimLag
      BY <3>4, <3>5
    <3> QED
      BY <3>6 DEF a
  <2> QED
    BY <2>1, <2>2
<1>8. Len(left) = L /\ L > 0 => hits[1] + Window > now[t]
  BY <1>1, <1>2, <1>3, <1>4
<1> QED
  BY <1>4, <1>6, <1>7, <1>8 DEF L

LEMMA DenyKeeps ==
  ASSUME LimIInv, NEW t \in Threads, now[t] # Away,
         NEW left, left = Prune(hits, now[t]),
         now' = [now EXCEPT ![t] = Away], hits' = left, denied' = limNow,
         allowed' = allowed, limNow' = limNow
  PROVE  LimIInv'
<1>1. /\ limNow \in Nat /\ now \in [Threads -> 0..limNow] /\ Len(hits) <= Limit
      /\ Len(allowed) \in Nat /\ Len(hits) \in Nat /\ Len(hits) <= Len(allowed)
  BY LimTypeIs
<1>2. /\ left \in Seq(Nat) /\ Len(left) \in Nat /\ Len(left) <= Len(hits)
      /\ \A j \in 1..Len(left) : left[j] \in 1..limNow
      /\ \A j \in 1..Len(left) : /\ left[j] <= allowed[Older(left) + j]
                                 /\ allowed[Older(left) + j] <= left[j] + LimLag
      /\ \A i \in 1..Older(left) : allowed[i] + Window <= limNow + LimLag
  BY PruneLeaves
<1>3. LimTypeOK'
  <2>1. now' \in [Threads -> 0..limNow] /\ denied' \in 0..limNow
    BY <1>1 DEF Away
  <2>2. Len(hits') <= Limit
    BY <1>1, <1>2, LimitsAre
  <2> QED
    BY <1>2, <2>1, <2>2 DEF LimIInv, LimTypeOK
<1>4. Histories'
  BY <1>1, <1>2 DEF LimIInv, Histories
<1>5. Clocks'
  BY <1>1 DEF LimIInv, Clocks
<1>6. (Matched /\ Left)'
  BY <1>2 DEF Matched, Left, Dropped, Older
<1>7. Spaced'
  BY DEF LimIInv, Spaced
<1> QED
  BY <1>3, <1>4, <1>5, <1>6, <1>7 DEF LimIInv

LEMMA AllowKeeps ==
  ASSUME LimIInv, NEW t \in Threads, now[t] # Away,
         NEW left, left = Prune(hits, now[t]), HasRoom(left),
         now' = [now EXCEPT ![t] = Away], hits' = Append(left, now[t]), denied' = denied,
         allowed' = Append(allowed, limNow), limNow' = limNow
  PROVE  LimIInv'
<1> DEFINE n == Len(allowed)
           l == Len(left)
           time == now[t]
<1>1. /\ limNow \in Nat /\ now \in [Threads -> 0..limNow] /\ Len(hits) <= Limit
      /\ n \in Nat /\ Len(hits) \in Nat /\ Len(hits) <= n
      /\ allowed \in Seq(Nat) /\ \A i \in 1..n : allowed[i] \in Nat
  BY LimTypeIs
<1>2. /\ left \in Seq(Nat) /\ l \in Nat /\ l <= Len(hits)
      /\ \A j \in 1..l : left[j] \in 1..limNow
      /\ \A j \in 1..l : /\ left[j] <= allowed[Older(left) + j]
                         /\ allowed[Older(left) + j] <= left[j] + LimLag
      /\ \A i \in 1..Older(left) : allowed[i] + Window <= limNow + LimLag
  BY PruneLeaves
<1>3. /\ time \in Nat /\ time \in 1..limNow /\ time <= limNow /\ limNow <= time + LimLag
  <2>1. limNow <= now[t] + LimLag
    BY DEF LimIInv, Clocks
  <2> QED
    BY <1>1, <2>1 DEF Away
<1>4. Older(left) = n - l /\ n - l \in Nat /\ l < Limit /\ l + 1 \in Nat /\ n + 1 \in Nat
  BY <1>1, <1>2 DEF Older, HasRoom
<1> HIDE DEF time
<1>5. /\ hits' \in Seq(Nat) /\ Len(hits') = l + 1
      /\ \A j \in 1..l : hits'[j] = left[j]
      /\ hits'[l + 1] = time
  BY <1>2, <1>3 DEF time
<1>6. /\ allowed' \in Seq(Nat) /\ Len(allowed') = n + 1
      /\ \A i \in 1..n : allowed'[i] = allowed[i]
      /\ allowed'[n + 1] = limNow
  BY <1>1
<1>7. Dropped' = n - l
  BY <1>1, <1>2, <1>5, <1>6 DEF Dropped
<1> HIDE DEF n, l
<1>8. LimTypeOK'
  <2>1. now' \in [Threads -> 0..limNow]
    BY <1>1 DEF Away
  <2>2. Len(hits') <= Limit
    BY <1>2, <1>4, <1>5, LimitsAre
  <2>3. \A i \in 1..Len(hits') : hits'[i] \in 1..limNow
    <3> SUFFICES ASSUME NEW i \in 1..(l + 1) PROVE hits'[i] \in 1..limNow
      BY <1>5
    <3>1. i \in 1..l \/ i = l + 1
      BY <1>2
    <3> QED
      BY <1>2, <1>3, <1>5, <3>1
  <2> QED
    BY <2>1, <2>2, <2>3 DEF LimIInv, LimTypeOK
<1>9. Histories'
  BY <1>1, <1>2, <1>5, <1>6 DEF Histories
<1>10. \A i \in 1..(n + 1) : i \in 1..n \/ i = n + 1
  BY <1>1
<1>11. Clocks'
  <2>1. \A s \in Threads : now'[s] # Away => limNow <= now'[s] + LimLag
    BY <1>1 DEF LimIInv, Clocks
  <2>2. \A i \in 1..n : allowed[i] <= limNow
    BY DEF LimIInv, Clocks, n
  <2>3. \A i \in 1..(n + 1) : allowed'[i] <= limNow
    BY <1>1, <1>6, <1>10, <2>2
  <2>4. \A i, k \in 1..(n + 1) : i <= k => allowed'[i] <= allowed'[k]
    <3> SUFFICES ASSUME NEW i \in 1..(n + 1), NEW k \in 1..(n + 1), i <= k
                 PROVE  allowed'[i] <= allowed'[k]
      OBVIOUS
    <3>1. CASE k = n + 1
      BY <1>6, <2>3, <3>1
    <3>2. CASE k \in 1..n
      <4>1. i \in 1..n
        BY <1>1, <3>2
      <4> QED
        BY <1>6, <3>2, <4>1 DEF LimIInv, Clocks, n
    <3> QED
      BY <1>10, <3>1, <3>2
  <2> QED
    BY <1>6, <2>1, <2>3, <2>4 DEF Clocks
<1>12. Matched'
  <2> SUFFICES ASSUME NEW j \in 1..(l + 1)
               PROVE  /\ hits'[j] <= allowed'[(n - l) + j]
                      /\ allowed'[(n - l) + j] <= hits'[j] + LimLag
    BY <1>5, <1>7 DEF Matched
  <2>1. CASE j = l + 1
    <3>1. (n - l) + j = n + 1
      BY <1>1, <1>2, <2>1
    <3> QED
      BY <1>3, <1>5, <1>6, <2>1, <3>1
  <2>2. CASE j \in 1..l
    <3>1. (n - l) + j \in 1..n
      BY <1>1, <1>2, <1>4, <2>2
    <3> QED
      BY <1>2, <1>4, <1>5, <1>6, <2>2, <3>1
  <2>3. j = l + 1 \/ j \in 1..l
    BY <1>2
  <2> QED
    BY <2>1, <2>2, <2>3
<1>13. Left'
  <2> SUFFICES ASSUME NEW i \in 1..(n - l) PROVE allowed'[i] + Window <= limNow + LimLag
    BY <1>7 DEF Left
  <2>1. i \in 1..n
    BY <1>1, <1>2, <1>4
  <2> QED
    BY <1>2, <1>4, <1>6, <2>1
<1>14. Spaced'
  <2> SUFFICES ASSUME NEW i \in 1..(n + 1), NEW k \in 1..(n + 1), k >= i + Limit
               PROVE  allowed'[i] + Window <= allowed'[k] + LimLag
    BY <1>6 DEF Spaced
  <2>1. i \in 1..n
    BY <1>1, LimitsAre
  <2>2. CASE k = n + 1
    <3>1. i \in 1..(n - l)
      BY <1>1, <1>2, <1>4, <2>2, LimitsAre
    <3> QED
      BY <1>2, <1>4, <1>6, <2>1, <2>2, <3>1
  <2>3. CASE k \in 1..n
    BY <1>6, <2>1, <2>3 DEF LimIInv, Spaced, n
  <2> QED
    BY <1>10, <2>2, <2>3
<1> QED
  BY <1>8, <1>9, <1>11, <1>12, <1>13, <1>14 DEF LimIInv

LEMMA LimInvariance == LimSpec => []LimIInv
<1>1. LimIInv /\ [LimNext]_limVars => LimIInv'
  <2>1. ASSUME LimIInv, NEW t \in Threads, Decide(t) PROVE LimIInv'
    <3> DEFINE left == Prune(hits, now[t])
    <3>1. now[t] # Away /\ now' = [now EXCEPT ![t] = Away] /\ limNow' = limNow
      BY <2>1 DEF Decide
    <3>2. \/ /\ HasRoom(left)
             /\ hits' = Append(left, now[t]) /\ allowed' = Append(allowed, limNow)
             /\ denied' = denied
          \/ hits' = left /\ denied' = limNow /\ allowed' = allowed
      BY <2>1 DEF Decide
    <3> QED
      BY <2>1, <3>1, <3>2, AllowKeeps, DenyKeeps
  <2>2. LimIInv /\ LimNext => LimIInv'
    BY <2>1, LimTickKeeps, ReadClockKeeps DEF LimNext
  <2>3. LimIInv /\ UNCHANGED limVars => LimIInv'
    BY DEF LimIInv, LimTypeOK, Histories, Clocks, Matched, Left, Spaced, Dropped, limVars
  <2> QED
    BY <2>2, <2>3
<1> QED
  BY <1>1, LimInitEstablishes, PTL DEF LimSpec

(* Every variable of the limiter keeps its type, and the deque its bound.  *)
THEOREM LimiterTypeCorrect == LimSpec => []LimTypeOK
<1>1. LimIInv => LimTypeOK
  BY DEF LimIInv
<1> QED
  BY <1>1, LimInvariance, PTL

(* However many threads read the clock before they take the lock, and      *)
(* whatever the order, no window lets more than Limit requests through.    *)
THEOREM TheWindowIsBounded == LimSpec => []WindowIsBounded
<1>1. ASSUME LimIInv PROVE WindowIsBounded
  <2> SUFFICES ASSUME NEW w \in 1..LimMaxTime
               PROVE  AllowedIn(w, w + Window - LimLag) <= Limit
    BY DEF WindowIsBounded
  <2> DEFINE I == {i \in 1..Len(allowed) :
                     w < allowed[i] /\ allowed[i] <= w + Window - LimLag}
  <2>1. AllowedIn(w, w + Window - LimLag) = Cardinality(I)
    BY AllowedInIs
  <2>2. Len(allowed) \in Nat /\ \A i \in 1..Len(allowed) : allowed[i] \in Nat
    BY <1>1, LimTypeIs
  <2>3. CASE I = {}
    BY <2>1, <2>3, FS_EmptySet, LimitsAre
  <2>4. CASE I # {}
    <3>1. PICK a \in I : \A i \in I : a <= i
      <4>1. I \in SUBSET Nat
        BY <2>2
      <4> QED
        BY <2>4, <4>1, LeastNatural
    <3>2. \A i \in I : i \in a..(a + Limit - 1)
      <4> SUFFICES ASSUME NEW i \in I, i >= a + Limit PROVE FALSE
        BY <2>2, <3>1, LimitsAre
      <4>1. allowed[a] + Window <= allowed[i] + LimLag
        BY <1>1 DEF LimIInv, Spaced
      <4>2. w < allowed[a] /\ allowed[i] <= w + Window - LimLag
        BY <3>1
      <4>3. allowed[a] \in Nat /\ allowed[i] \in Nat /\ w \in Nat
        BY <2>2, LimitsAre
      <4> QED
        BY <4>1, <4>2, <4>3, LimitsAre
    <3>3. a \in Int /\ a + Limit - 1 \in Int /\ a <= a + Limit - 1
      BY <2>2, <3>1, LimitsAre
    <3>4. IsFiniteSet(a..(a + Limit - 1)) /\ Cardinality(a..(a + Limit - 1)) = Limit
      <4> DEFINE b == a + Limit - 1
      <4>1. b \in Int /\ a <= b /\ b - a + 1 = Limit
        BY <3>3, LimitsAre
      <4> HIDE DEF b
      <4>2. IsFiniteSet(a..b) /\ Cardinality(a..b) = Limit
        BY <3>3, <4>1, FS_Interval
      <4> QED
        BY <4>2 DEF b
    <3> HIDE DEF I
    <3>5. Cardinality(I) <= Limit
      BY <3>2, <3>4, FS_Subset
    <3> QED
      BY <2>1, <3>5
  <2> QED
    BY <2>3, <2>4
<1> QED
  BY <1>1, LimInvariance, PTL

(* No request is denied but after Limit others, in a window that waiting   *)
(* for the lock lengthens by LimLag at most.                               *)
THEOREM EveryDenialIsEarned == LimSpec => DenialIsEarned
<1> DEFINE Earned == AllowedIn(limNow - Window - LimLag, limNow) >= Limit
<1>1. ASSUME LimIInv, [LimNext]_limVars, denied' # denied PROVE Earned
  <2>1. PICK t \in Threads : Decide(t)
    BY <1>1 DEF LimNext, LimTick, ReadClock, limVars
  <2> DEFINE left == Prune(hits, now[t])
             h == Len(hits)
             I == {i \in 1..Len(allowed) :
                     limNow - Window - LimLag < allowed[i] /\ allowed[i] <= limNow}
  <2>2. now[t] # Away /\ ~HasRoom(left)
    BY <1>1, <2>1 DEF Decide
  <2>3. /\ limNow \in Nat /\ now \in [Threads -> 0..limNow] /\ h <= Limit
        /\ Len(allowed) \in Nat /\ h \in Nat /\ h <= Len(allowed)
        /\ \A i \in 1..h : hits[i] \in Nat
        /\ \A i \in 1..Len(allowed) : allowed[i] \in Nat
    BY <1>1, LimTypeIs
  <2>4. /\ Len(left) \in Nat /\ Len(left) <= h
        /\ Len(left) = h /\ h > 0 => hits[1] + Window > now[t]
    BY <1>1, <2>2, PruneLeaves
  <2>5. h = Limit /\ hits[1] + Window > now[t] /\ 1 \in 1..h
    BY <2>2, <2>3, <2>4, LimitsAre DEF HasRoom
  <2>6. limNow <= now[t] + LimLag /\ now[t] \in Nat
    BY <1>1, <2>2, <2>3 DEF LimIInv, Clocks
  <2>7. Dropped \in Nat /\ Dropped + Limit = Len(allowed) /\ Dropped = Len(allowed) - h
    BY <2>3, <2>5 DEF Dropped
  <2>8. hits[1] <= allowed[Dropped + 1] /\ hits[1] \in Nat
    BY <1>1, <2>3, <2>5 DEF LimIInv, Matched
  <2>9. ASSUME NEW i \in (Dropped + 1)..Len(allowed) PROVE i \in I
    <3>1. i \in 1..Len(allowed) /\ Dropped + 1 \in 1..Len(allowed) /\ Dropped + 1 <= i
      BY <2>3, <2>7
    <3>2. allowed[Dropped + 1] <= allowed[i] /\ allowed[i] <= limNow
      BY <1>1, <3>1 DEF LimIInv, Clocks
    <3>3. allowed[i] \in Nat /\ allowed[Dropped + 1] \in Nat
      BY <2>3, <3>1
    <3> DEFINE b == hits[1]
               c == now[t]
               a == allowed[Dropped + 1]
               z == allowed[i]
    <3>4. /\ a \in Nat /\ b \in Nat /\ c \in Nat /\ z \in Nat /\ limNow \in Nat
          /\ b <= a /\ a <= z /\ b + Window > c /\ limNow <= c + LimLag
      BY <2>3, <2>5, <2>6, <2>8, <3>2, <3>3
    <3> HIDE DEF a, b, c, z
    <3>5. limNow - Window - LimLag < z
      BY <3>4, LimitsAre
    <3> QED
      BY <3>1, <3>2, <3>5 DEF z
  <2>10. /\ IsFiniteSet((Dropped + 1)..Len(allowed))
         /\ Cardinality((Dropped + 1)..Len(allowed)) = Limit
    <3>1. Dropped + 1 \in Int /\ Len(allowed) \in Int /\ Dropped + 1 <= Len(allowed)
      BY <2>3, <2>7, LimitsAre
    <3>2. Len(allowed) - (Dropped + 1) + 1 = Limit
      BY <2>3, <2>7, LimitsAre
    <3> QED
      BY <3>1, <3>2, FS_Interval
  <2>11. IsFiniteSet(I) /\ Cardinality(I) \in Nat
    <3>1. IsFiniteSet(1..Len(allowed))
      BY <2>3, FS_Interval
    <3> QED
      BY <3>1, FS_Subset, FS_CardinalityType
  <2>12. AllowedIn(limNow - Window - LimLag, limNow) = Cardinality(I)
    BY AllowedInIs
  <2> HIDE DEF I
  <2>13. Cardinality((Dropped + 1)..Len(allowed)) <= Cardinality(I)
    BY <2>9, <2>11, FS_Subset
  <2> QED
    BY <2>10, <2>11, <2>12, <2>13, LimitsAre
<1>2. LimIInv /\ [LimNext]_limVars => [denied' # denied => Earned]_limVars
  BY <1>1
<1> QED
  BY <1>2, LimInvariance, PTL DEF LimSpec, DenialIsEarned

-----------------------------------------------------------------------------
(* The services together.                                                  *)

(* Each service behaves as its own module says: what is proved of one      *)
(* holds of all that stands around the queue (of the migrations, without   *)
(* their fairness).                                                        *)
THEOREM ServicesKeepTheirParts ==
  ServSpec => LimSpec /\ PagSpec /\ MigSteps /\ RepSpec /\ ThrSpec /\ SegSpec
<1>1. ServInit => LimInit /\ PagInit /\ MigInit /\ RepInit /\ ThrInit /\ SegInit
  BY DEF ServInit
<1>2. ASSUME NEW c \in Containers, MigrationsMove(c)
      PROVE  /\ MigNext
             /\ UNCHANGED <<limVars, pagVars, repVars, thrVars, segVars>>
  BY <1>2 DEF MigrationsMove, MigNext
<1>3. [ServNext]_servVars =>
        /\ [LimNext]_limVars /\ [PagNext]_pagVars /\ [MigNext]_migVars
        /\ [RepNext]_repVars /\ [ThrNext]_thrVars /\ [SegNext]_segVars
  BY <1>2 DEF ServNext, servVars, MigNext
<1> QED
  BY <1>1, <1>3, PTL DEF ServSpec, LimSpec, PagSpec, MigSteps, RepSpec, ThrSpec, SegSpec

(* Every service keeps its type, whichever of them moves.                  *)
THEOREM ServicesTypeCorrect == ServSpec => []ServTypeOK
<1>1. /\ LimTypeOK /\ PagTypeOK /\ MigTypeOK /\ RepTypeOK /\ ThrTypeOK /\ SegTypeOK
      => ServTypeOK
  BY DEF ServTypeOK
<1>2. MigIInv => MigTypeOK
  BY DEF MigIInv
<1> QED
  BY <1>1, <1>2, ServicesKeepTheirParts, LimiterTypeCorrect, PagingTypeCorrect, MigInvariance,
     ReportsTypeCorrect, ThrTypeCorrect, SegmentsTypeCorrect, PTL
=============================================================================
