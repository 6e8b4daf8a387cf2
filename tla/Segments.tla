------------------------------- MODULE Segments -----------------------------
(***************************************************************************)
(* Segments as the API charges them (count_segments, body_too_long of      *)
(* shared/sms.py) beside the parts that the modem's encoder makes of the   *)
(* same body, as it is written character by character.  A character has a  *)
(* kind: GSM-7 basic, GSM-7 extension (an escape and a septet), one that   *)
(* needs UCS-2, or one that needs a surrogate pair there.                  *)
(*                                                                         *)
(* The definitions named Bug... are faulty variants of the one that        *)
(* follows: no action uses them, they show that the properties can fail.   *)
(***************************************************************************)
EXTENDS Naturals, FiniteSets

CONSTANTS Single7, Part7,  \* septets of a single SMS, and of one of several
          SingleU, PartU,  \* the same in UCS-2 code units
          MaxSegments, MaxBody  \* MAX_SEGMENTS, MAX_BODY_CHARS

ASSUME SegmentsAssumption == /\ {Single7, Part7, SingleU, PartU, MaxSegments, MaxBody} \subseteq Nat
                             /\ 1 < Part7 /\ Part7 <= Single7 /\ 1 < PartU /\ PartU <= SingleU
                             /\ MaxSegments < Part7 /\ MaxSegments < PartU

VARIABLES chars,    \* the body's length
          gsm7,     \* all of it is in the GSM-7 tables
          septets,  \* what they add up to
          units,    \* its length in UTF-16
          packed7,  \* the encoder: parts filled so far, and the septets of the last
          packedU   \* the same in UCS-2

segVars == <<chars, gsm7, septets, units, packed7, packedU>>

Empty == [parts |-> 1, fill |-> 0]

SegInit == /\ chars = 0 /\ gsm7 = TRUE /\ septets = 0 /\ units = 0
           /\ packed7 = Empty /\ packedU = Empty

Septets(kind) == IF kind = "extension" THEN 2 ELSE 1
Units(kind) == IF kind = "surrogate" THEN 2 ELSE 1

(* A character that does not fit goes to the next part, undivided.         *)
Pack(p, size, room) == IF p.fill + size <= room THEN [p EXCEPT !.fill = @ + size]
                                                ELSE [parts |-> p.parts + 1, fill |-> size]

CeilDiv(n, d) == (n + d - 1) \div d

BugSegments(n, single, size) == IF n <= single THEN 1 ELSE n \div size

Segments(n, single, size) == IF n <= single THEN 1 ELSE CeilDiv(n, size)

count_segments == IF gsm7 THEN Segments(septets, Single7, Part7)
                          ELSE Segments(units, SingleU, PartU)

body_too_long == chars > MaxBody \/ count_segments > MaxSegments

(* A body is written on as long as it would be accepted.                   *)
Write(kind) ==
  /\ ~body_too_long
  /\ chars' = chars + 1
  /\ gsm7' = (gsm7 /\ kind \in {"basic", "extension"})
  /\ septets' = IF gsm7' THEN septets + Septets(kind) ELSE 0
  /\ units' = units + Units(kind)
  /\ packed7' = IF gsm7' THEN Pack(packed7, Septets(kind), Part7) ELSE Empty
  /\ packedU' = Pack(packedU, Units(kind), PartU)

SegNext == \E kind \in {"basic", "extension", "wide", "surrogate"} : Write(kind)

SegSpec == SegInit /\ [][SegNext]_segVars

(* How many parts it makes: surrogate pairs are kept together, or not.     *)
EncodedParts ==
  IF gsm7 THEN {IF septets <= Single7 THEN 1 ELSE packed7.parts}
          ELSE {IF units <= SingleU THEN 1 ELSE p : p \in {packedU.parts, CeilDiv(units, PartU)}}

-----------------------------------------------------------------------------
(* Type invariant.                                                         *)
SegTypeOK == /\ chars \in 0..MaxBody + 1 /\ gsm7 \in BOOLEAN
             /\ septets \in 0..2 * chars /\ units \in chars..2 * chars
             /\ packed7 \in [parts : 1..chars + 1, fill : 0..Part7]
             /\ packedU \in [parts : 1..chars + 1, fill : 0..PartU]

(* main.py:111: one token per segment.  What is charged is what is sent,    *)
(* but for one part more where characters that were not divided have left  *)
(* the parts unfilled: an accepted body needs one part above MaxSegments   *)
(* at most, and none that has no such character is charged short.          *)
ChargedIsSent ==
  ~body_too_long => \A p \in EncodedParts :
    /\ count_segments <= p /\ p <= count_segments + 1
    /\ (gsm7 /\ septets = chars) \/ (~gsm7 /\ units = chars) => p = count_segments
=============================================================================
