----------------------------- MODULE PanelProofs ----------------------------
(***************************************************************************)
(* Proofs about Settings and Accounts, for every number of requests and    *)
(* browsers, every set of names and passwords and every number of rows.    *)
(***************************************************************************)
EXTENDS MCPanel, TokensProofs, TLAPS

-----------------------------------------------------------------------------
(* Settings.  The inductive invariant: a look at the URL that nobody has   *)
(* overtaken is still right, and what a restart that needs no UPDATE has   *)
(* seen is still there, or was cleared for a boot that is yet to come.     *)

LooksAreRight ==
  \A r \in SetRequests \ stale :
    /\ job[r].op \in {"look", "strip"} => ~url
    /\ job[r].op \in {"rotate", "rotated"} => url

FlagIsSeen ==
  /\ worker = "saw" => flag
  /\ \A r \in SetRequests \ booted :
       job[r].op = "restart" /\ job[r].same => flag \/ worker = "exit"

SetIInv == /\ SetTypeOK /\ LooksAreRight /\ FlagIsSeen
           /\ PairPartedOnlyByStaleLook /\ RestartIsHonoured

(* What a request does next says nothing of the others.                    *)
LEMMA JobOfEach ==
  ASSUME SetTypeOK, NEW r \in SetRequests, NEW j, job' = [job EXCEPT ![r] = j]
  PROVE  job'[r] = j /\ \A q \in SetRequests \ {r} : job'[q] = job[q]
BY DEF SetTypeOK

LEMMA JobEnds ==
  ASSUME SetTypeOK, NEW r \in SetRequests, Ends(r)
  PROVE  job'[r].op = "none" /\ \A q \in SetRequests \ {r} : job'[q] = job[q]
<1>1. NoJob.op = "none"
  BY DEF NoJob
<1> QED
  BY <1>1, JobOfEach DEF Ends, Does

(* The types, part by part.                                                *)
LEMMA SetStepKeepsBooleans ==
  SetTypeOK /\ [SetNext]_setVars => {url, key, flag, crossed, owed}' \subseteq BOOLEAN
<1> SUFFICES ASSUME SetTypeOK, [SetNext]_setVars
             PROVE  {url, key, flag, crossed, owed}' \subseteq BOOLEAN
  OBVIOUS
<1>1. url \in BOOLEAN /\ key \in BOOLEAN /\ flag \in BOOLEAN /\ crossed \in BOOLEAN /\ owed \in BOOLEAN
  BY DEF SetTypeOK
<1>2. url' \in {url, TRUE, FALSE} /\ key' \in {key, TRUE, FALSE} /\ flag' \in {flag, TRUE, FALSE}
  BY DEF SetNext, setVars, pair, WorkerSees, WorkerClears, WorkerBoots, SetReads, SetCommits,
         ClearReads, ClearCommits, ClearLooks, StripCommits, RotateReads, RotateMerges,
         RotateCommits, RestartReads, RestartCommits, JobFails
<1>3. crossed' = crossed \/ \E r \in SetRequests : crossed' = (crossed \/ r \in stale)
  BY DEF SetNext, setVars, pair, WorkerSees, WorkerClears, WorkerBoots, SetReads, SetCommits,
         ClearReads, ClearCommits, ClearLooks, StripCommits, RotateReads, RotateMerges,
         RotateCommits, RestartReads, RestartCommits, JobFails
<1>4. owed' \in {owed, TRUE, FALSE} \/ \E r \in SetRequests : owed' = (owed \/ r \notin booted)
  BY DEF SetNext, setVars, pair, WorkerSees, WorkerClears, WorkerBoots, SetReads, SetCommits,
         ClearReads, ClearCommits, ClearLooks, StripCommits, RotateReads, RotateMerges,
         RotateCommits, RestartReads, RestartCommits, JobFails
<1>5. url' \in BOOLEAN /\ key' \in BOOLEAN /\ flag' \in BOOLEAN
  BY <1>1, <1>2
<1>6. crossed' \in BOOLEAN
  BY <1>1, <1>3
<1>7. owed' \in BOOLEAN
  BY <1>1, <1>4
<1> QED
  BY <1>5, <1>6, <1>7

LEMMA SetStepKeepsTypes == SetTypeOK /\ [SetNext]_setVars => SetTypeOK'
<1> SUFFICES ASSUME SetTypeOK, [SetNext]_setVars PROVE SetTypeOK'
  OBVIOUS
<1> DEFINE Jobs == [op : {"none", "clear", "look", "strip", "rotate"}]
                     \cup [op : {"set"}, url : BOOLEAN] \cup [op : {"rotated"}, key : BOOLEAN]
                     \cup [op : {"restart"}, flag : BOOLEAN, same : BOOLEAN]
<1>1. job' = job \/ \E r \in SetRequests, j \in Jobs : Does(r, j)
  <2> SUFFICES ASSUME SetNext PROVE job' = job \/ \E r \in SetRequests, j \in Jobs : Does(r, j)
    BY DEF setVars
  <2>1. NoJob \in Jobs
    BY DEF NoJob
  <2>2. CASE WorkerSees \/ WorkerClears \/ WorkerBoots
    BY <2>2 DEF WorkerSees, WorkerClears, WorkerBoots
  <2>3. ASSUME NEW r \in SetRequests, SetReads(r) PROVE \E j \in Jobs : Does(r, j)
    <3>1. [op |-> "set", url |-> url] \in Jobs
      BY DEF SetTypeOK
    <3> QED
      BY <2>3, <3>1 DEF SetReads
  <2>4. ASSUME NEW r \in SetRequests, ClearReads(r) PROVE \E j \in Jobs : Does(r, j)
    <3>1. [op |-> "clear"] \in Jobs /\ [op |-> "look"] \in Jobs
      OBVIOUS
    <3> QED
      BY <2>4, <3>1 DEF ClearReads
  <2>5. ASSUME NEW r \in SetRequests, ClearLooks(r) PROVE \E j \in Jobs : Does(r, j)
    <3>1. [op |-> "strip"] \in Jobs
      OBVIOUS
    <3> QED
      BY <2>1, <2>5, <3>1 DEF ClearLooks, Ends
  <2>6. ASSUME NEW r \in SetRequests, RotateReads(r) PROVE \E j \in Jobs : Does(r, j)
    <3>1. [op |-> "rotate"] \in Jobs
      OBVIOUS
    <3> QED
      BY <2>6, <3>1 DEF RotateReads
  <2>7. ASSUME NEW r \in SetRequests, RotateMerges(r) PROVE \E j \in Jobs : Does(r, j)
    <3>1. [op |-> "rotated", key |-> key] \in Jobs
      BY DEF SetTypeOK
    <3> QED
      BY <2>7, <3>1 DEF RotateMerges
  <2>8. ASSUME NEW r \in SetRequests, RestartReads(r) PROVE \E j \in Jobs : Does(r, j)
    <3>1. \A same \in {flag, FALSE} : [op |-> "restart", flag |-> flag, same |-> same] \in Jobs
      BY DEF SetTypeOK
    <3> QED
      BY <2>8, <3>1 DEF RestartReads
  <2>9. ASSUME NEW r \in SetRequests,
               \/ SetCommits(r) \/ ClearCommits(r) \/ StripCommits(r) \/ RotateCommits(r)
               \/ RestartCommits(r) \/ JobFails(r)
        PROVE  \E j \in Jobs : Does(r, j)
    BY <2>1, <2>9 DEF SetCommits, ClearCommits, StripCommits, RotateCommits, RestartCommits,
                      JobFails, Ends
  <2> QED
    BY <2>2, <2>3, <2>4, <2>5, <2>6, <2>7, <2>8, <2>9 DEF SetNext
<1>2. job' \in [SetRequests -> Jobs]
  BY <1>1 DEF SetTypeOK, Does
<1>3. worker' \in {"run", "saw", "exit"}
  BY DEF SetTypeOK, AfterClear, SetNext, setVars, WorkerSees, WorkerClears, WorkerBoots, SetReads,
         SetCommits, ClearReads, ClearCommits, ClearLooks, StripCommits, RotateReads,
         RotateMerges, RotateCommits, RestartReads, RestartCommits, JobFails
<1>4. stale' \subseteq SetRequests
  BY DEF SetTypeOK, Lookers, SetNext, setVars, WorkerSees, WorkerClears, WorkerBoots, SetReads,
         SetCommits, ClearReads, ClearCommits, ClearLooks, StripCommits, RotateReads,
         RotateMerges, RotateCommits, RestartReads, RestartCommits, JobFails
<1>5. booted' \subseteq SetRequests
  BY DEF SetTypeOK, SetNext, setVars, WorkerSees, WorkerClears, WorkerBoots, SetReads,
         SetCommits, ClearReads, ClearCommits, ClearLooks, StripCommits, RotateReads,
         RotateMerges, RotateCommits, RestartReads, RestartCommits, JobFails
<1> QED
  BY <1>2, <1>3, <1>4, <1>5, SetStepKeepsBooleans DEF SetTypeOK

(* Who sets or clears the URL makes every look at it stale that was right. *)
LEMMA SetStepKeepsLooks ==
  SetTypeOK /\ LooksAreRight /\ [SetNext]_setVars => LooksAreRight'
<1> SUFFICES ASSUME SetTypeOK, LooksAreRight, [SetNext]_setVars,
                    NEW q \in SetRequests, q \notin stale'
             PROVE  /\ job'[q].op \in {"look", "strip"} => ~url'
                    /\ job'[q].op \in {"rotate", "rotated"} => url'
  BY DEF LooksAreRight
<1> DEFINE Right == /\ job'[q].op \in {"look", "strip"} => ~url'
                    /\ job'[q].op \in {"rotate", "rotated"} => url'
<1> USE DEF Does, Ends, NoJob, pair
<1>1. q \notin stale => /\ job[q].op \in {"look", "strip"} => ~url
                        /\ job[q].op \in {"rotate", "rotated"} => url
  BY DEF LooksAreRight
<1>2. CASE UNCHANGED <<url, job, stale>>
  BY <1>1, <1>2
<1>3. ASSUME NEW r \in SetRequests, SetReads(r) \/ RestartReads(r) PROVE Right
  BY <1>1, <1>3, JobOfEach DEF SetReads, RestartReads
<1>4. ASSUME NEW r \in SetRequests, SetCommits(r) PROVE Right
  <2>1. q # r => job'[q] = job[q]
    BY <1>4, JobEnds DEF SetCommits
  <2>2. job'[r].op = "none"
    BY <1>4, JobEnds DEF SetCommits
  <2>3. CASE url
    BY <1>1, <1>4, <2>1, <2>2, <2>3 DEF SetCommits
  <2>4. CASE ~url
    BY <1>1, <1>4, <2>1, <2>2, <2>4 DEF SetCommits, Lookers
  <2> QED
    BY <2>3, <2>4
<1>5. ASSUME NEW r \in SetRequests, ClearReads(r) PROVE Right
  BY <1>1, <1>5, JobOfEach DEF ClearReads
<1>6. ASSUME NEW r \in SetRequests, ClearCommits(r) PROVE Right
  <2>1. q # r => job'[q] = job[q]
    BY <1>6, JobEnds DEF ClearCommits
  <2>2. job'[r].op = "none"
    BY <1>6, JobEnds DEF ClearCommits
  <2>3. CASE url
    BY <1>1, <1>6, <2>1, <2>2, <2>3 DEF ClearCommits, Lookers
  <2>4. CASE ~url
    BY <1>1, <1>6, <2>1, <2>2, <2>4 DEF ClearCommits
  <2> QED
    BY <2>3, <2>4
<1>7. ASSUME NEW r \in SetRequests, ClearLooks(r) PROVE Right
  BY <1>1, <1>7, JobOfEach DEF ClearLooks
<1>8. ASSUME NEW r \in SetRequests, RotateReads(r) PROVE Right
  BY <1>1, <1>8, JobOfEach DEF RotateReads, MayRotate
<1>9. ASSUME NEW r \in SetRequests, RotateMerges(r) PROVE Right
  BY <1>1, <1>9, JobOfEach DEF RotateMerges
<1>10. ASSUME NEW r \in SetRequests,
              StripCommits(r) \/ RotateCommits(r) \/ RestartCommits(r) \/ JobFails(r)
       PROVE  Right
  BY <1>1, <1>10, JobOfEach DEF StripCommits, RotateCommits, RestartCommits, JobFails
<1> QED
  BY <1>2, <1>3, <1>4, <1>5, <1>6, <1>7, <1>8, <1>9, <1>10
     DEF SetNext, setVars, WorkerSees, WorkerClears, WorkerBoots

(* Only a strip or a rotation parts the two, and not upon a right look.    *)
LEMMA SetStepKeepsPair ==
  SetTypeOK /\ LooksAreRight /\ PairPartedOnlyByStaleLook /\ [SetNext]_setVars
    => PairPartedOnlyByStaleLook'
<1> SUFFICES ASSUME SetTypeOK, LooksAreRight, PairPartedOnlyByStaleLook, [SetNext]_setVars
             PROVE  PairPartedOnlyByStaleLook'
  OBVIOUS
<1> USE DEF PairPartedOnlyByStaleLook, pair
<1>1. CASE UNCHANGED <<url, key, crossed>>
  BY <1>1
<1>2. ASSUME NEW r \in SetRequests, SetCommits(r) PROVE PairPartedOnlyByStaleLook'
  BY <1>2 DEF SetCommits
<1>3. ASSUME NEW r \in SetRequests, ClearCommits(r) PROVE PairPartedOnlyByStaleLook'
  BY <1>3 DEF ClearCommits
<1>4. ASSUME NEW r \in SetRequests, StripCommits(r) PROVE PairPartedOnlyByStaleLook'
  BY <1>4 DEF StripCommits, LooksAreRight
<1>5. ASSUME NEW r \in SetRequests, RotateCommits(r) PROVE PairPartedOnlyByStaleLook'
  BY <1>5 DEF RotateCommits, LooksAreRight
<1> QED
  BY <1>1, <1>2, <1>3, <1>4, <1>5
     DEF SetNext, setVars, WorkerSees, WorkerClears, WorkerBoots, SetReads, ClearReads,
         ClearLooks, RotateReads, RotateMerges, RestartReads, RestartCommits, JobFails

(* The flag is not cleared but by a worker that exits, and a boot marks    *)
(* every restart that has read the flag and not been answered.             *)
LEMMA SetStepKeepsFlag ==
  SetTypeOK /\ FlagIsSeen /\ RestartIsHonoured /\ [SetNext]_setVars
    => FlagIsSeen' /\ RestartIsHonoured'
<1> SUFFICES ASSUME SetTypeOK, FlagIsSeen, RestartIsHonoured, [SetNext]_setVars
             PROVE  FlagIsSeen' /\ RestartIsHonoured'
  OBVIOUS
<1> USE DEF FlagIsSeen, RestartIsHonoured, Does, Ends, NoJob, pair
<1>1. CASE WorkerSees
  BY <1>1 DEF WorkerSees
<1>2. CASE WorkerClears
  BY <1>2 DEF WorkerClears, AfterClear
<1>3. CASE WorkerBoots
  BY <1>3 DEF WorkerBoots
<1>4. ASSUME NEW r \in SetRequests, RestartReads(r) PROVE FlagIsSeen' /\ RestartIsHonoured'
  <2>1. PICK same \in {flag, FALSE} : Does(r, [op |-> "restart", flag |-> flag, same |-> same])
    BY <1>4 DEF RestartReads
  <2> DEFINE j == [op |-> "restart", flag |-> flag, same |-> same]
  <2>2. job'[r].same = same /\ \A q \in SetRequests \ {r} : job'[q] = job[q]
    <3>1. job' = [job EXCEPT ![r] = j] /\ j.same = same
      BY <2>1
    <3> HIDE DEF j
    <3> QED
      BY <3>1, JobOfEach
  <2>3. flag \in BOOLEAN
    BY DEF SetTypeOK
  <2> QED
    BY <1>4, <2>2, <2>3 DEF RestartReads
<1>5. ASSUME NEW r \in SetRequests, RestartCommits(r) PROVE FlagIsSeen' /\ RestartIsHonoured'
  <2>1. /\ job'[r].op = "none" /\ \A q \in SetRequests \ {r} : job'[q] = job[q]
        /\ worker' = worker /\ booted' = booted
    BY <1>5, JobEnds DEF RestartCommits
  <2>2. CASE job[r].same
    BY <1>5, <2>1, <2>2 DEF RestartCommits
  <2>3. CASE ~job[r].same
    BY <1>5, <2>1, <2>3 DEF RestartCommits
  <2> QED
    BY <2>2, <2>3
<1>6. ASSUME UNCHANGED <<flag, worker, booted, owed>>,
             NEW r \in SetRequests, NEW j, Does(r, j), j.op # "restart"
      PROVE  FlagIsSeen' /\ RestartIsHonoured'
  BY <1>6, JobOfEach
<1>7. ASSUME NEW r \in SetRequests, SetReads(r) \/ SetCommits(r) PROVE FlagIsSeen' /\ RestartIsHonoured'
  BY <1>6, <1>7 DEF SetReads, SetCommits
<1>8. ASSUME NEW r \in SetRequests,
             ClearReads(r) \/ ClearCommits(r) \/ ClearLooks(r) \/ StripCommits(r)
      PROVE  FlagIsSeen' /\ RestartIsHonoured'
  BY <1>6, <1>8 DEF ClearReads, ClearCommits, ClearLooks, StripCommits
<1>9. ASSUME NEW r \in SetRequests,
             RotateReads(r) \/ RotateMerges(r) \/ RotateCommits(r) \/ JobFails(r)
      PROVE  FlagIsSeen' /\ RestartIsHonoured'
  BY <1>6, <1>9 DEF RotateReads, RotateMerges, RotateCommits, JobFails
<1>10. CASE UNCHANGED setVars
  BY <1>10 DEF setVars
<1> QED
  BY <1>1, <1>2, <1>3, <1>4, <1>5, <1>7, <1>8, <1>9, <1>10 DEF SetNext

LEMMA SetInvariant == SetSpec => []SetIInv
<1>1. SetInit => SetIInv
  <2> SUFFICES ASSUME SetInit PROVE SetIInv
    OBVIOUS
  <2> USE DEF SetInit, NoJob
  <2>1. SetTypeOK
    <3>1. {url, key, flag, crossed, owed} \subseteq BOOLEAN
      OBVIOUS
    <3>2. job \in [SetRequests -> [op : {"none", "clear", "look", "strip", "rotate"}]]
      OBVIOUS
    <3> QED
      BY <3>1, <3>2 DEF SetTypeOK
  <2>2. LooksAreRight /\ FlagIsSeen
    BY DEF LooksAreRight, FlagIsSeen
  <2>3. PairPartedOnlyByStaleLook /\ RestartIsHonoured
    BY DEF PairPartedOnlyByStaleLook, RestartIsHonoured
  <2> QED
    BY <2>1, <2>2, <2>3 DEF SetIInv
<1>2. SetIInv /\ [SetNext]_setVars => SetIInv'
  BY SetStepKeepsTypes, SetStepKeepsLooks, SetStepKeepsPair, SetStepKeepsFlag DEF SetIInv
<1> QED
  BY <1>1, <1>2, PTL DEF SetSpec

(* What a request holds between its read and its commit fits its kind.     *)
THEOREM SettingsTypeCorrect == SetSpec => []SetTypeOK
BY SetInvariant, PTL DEF SetIInv

(* However many requests overlap: a URL has a secret and no URL leaves     *)
(* none, but for a commit upon a look at the URL that was overtaken.       *)
THEOREM PairStaysTogether == SetSpec => []PairPartedOnlyByStaleLook
BY SetInvariant, PTL DEF SetIInv

(* However requests, crashes and boots of the worker overlap: a restart    *)
(* that was accepted is still due until the worker has booted.             *)
THEOREM EveryRestartIsHonoured == SetSpec => []RestartIsHonoured
BY SetInvariant, PTL DEF SetIInv

-----------------------------------------------------------------------------
(* Accounts.  The inductive invariant: no row has ever had the name of the *)
(* environment's admin, a name is given to a new row only when the old one *)
(* is gone, and a cookie, or a login that is to issue one, carries the     *)
(* name of the row it was issued for.                                      *)

Issued(n, i) == IF i = 0 THEN n \in {EnvAdmin, NoName} ELSE i <= made /\ name[i] = n

RowsAreNew ==
  /\ \A i \in 1..made : name[i] # EnvAdmin
  /\ \A i, j \in 1..made : i < j /\ name[i] = name[j] => i \notin users
  /\ \A b \in Browsers : req[b].op = "create" => req[b].name # EnvAdmin

CookiesAreIssued ==
  \A b \in Browsers : /\ Issued(cookie[b], owner[b])
                      /\ req[b].op = "login" => Issued(req[b].name, req[b].row)

AccIInv == AccTypeOK /\ RowsAreNew /\ CookiesAreIssued

(* What a browser does next says nothing of the others.                    *)
LEMMA ReqOfEach ==
  ASSUME AccTypeOK, NEW b \in Browsers, NEW r, Goes(b, r)
  PROVE  req'[b] = r /\ \A a \in Browsers \ {b} : req'[a] = req[a]
BY DEF AccTypeOK, Goes

LEMMA ReqEnds ==
  ASSUME AccTypeOK, NEW b \in Browsers, Goes(b, NoReq)
  PROVE  req'[b].op = "none" /\ \A a \in Browsers \ {b} : req'[a] = req[a]
<1>1. NoReq.op = "none"
  BY DEF NoReq
<1> QED
  BY <1>1, ReqOfEach

Reqs == [op : {"none", "admitted"}]
          \cup [op : {"login"}, name : Names, row : 0..MaxAccounts]
          \cup [op : {"create"}, name : Names, pass : Passwords]
          \cup [op : {"change"}, row : Accounts, pass : Passwords]
          \cup [op : {"delete"}, row : Accounts]

LEMMA ReqTypes ==
  ASSUME AccTypeOK, NEW b \in Browsers, NEW r \in Reqs, Goes(b, r)
  PROVE  req' \in [Browsers -> Reqs]
BY DEF AccTypeOK, Goes, Reqs

LEMMA NoReqType == NoReq \in Reqs
BY DEF NoReq, Reqs

(* What a request holds, by its kind.                                      *)
LEMMA ReqHolds ==
  ASSUME AccTypeOK, NEW b \in Browsers
  PROVE  /\ req[b].op = "login" => req[b].name \in Names /\ req[b].row \in 0..MaxAccounts
         /\ req[b].op = "create" => req[b].name \in Names /\ req[b].pass \in Passwords
         /\ req[b].op = "change" => req[b].row \in Accounts /\ req[b].pass \in Passwords
         /\ req[b].op = "delete" => req[b].row \in Accounts
BY DEF AccTypeOK

LEMMA AccStepKeepsTypes == AccTypeOK /\ [AccNext]_accVars => AccTypeOK'
<1> SUFFICES ASSUME AccTypeOK, [AccNext]_accVars PROVE AccTypeOK'
  OBVIOUS
<1> USE NamesAssumption DEF NamesAssumption
<1>1. ASSUME NEW b \in Browsers, LoginIssues(b) PROVE AccTypeOK'
  <2>1. req' \in [Browsers -> Reqs]
    BY <1>1, ReqTypes, NoReqType DEF LoginIssues
  <2> QED
    BY <1>1, <2>1, ReqHolds DEF LoginIssues, AccTypeOK, Reqs
<1>2. ASSUME NEW b \in Browsers, Logout(b) PROVE AccTypeOK'
  BY <1>2 DEF Logout, AccTypeOK
<1>3. ASSUME NEW b \in Browsers, Admit(b) PROVE AccTypeOK'
  <2>1. [op |-> "admitted"] \in Reqs
    BY DEF Reqs
  <2>2. req' \in [Browsers -> Reqs]
    BY <1>3, <2>1, ReqTypes DEF Admit
  <2> QED
    BY <1>3, <2>2 DEF Admit, AccTypeOK, Reqs
<1>4. ASSUME NEW b \in Browsers, NoEffect(b) PROVE AccTypeOK'
  <2>1. req' \in [Browsers -> Reqs]
    BY <1>4, ReqTypes, NoReqType DEF NoEffect
  <2> QED
    BY <1>4, <2>1 DEF NoEffect, AccTypeOK, Reqs
<1>5. ASSUME NEW b \in Browsers, CreateCommits(b) PROVE AccTypeOK'
  <2>1. req' \in [Browsers -> Reqs]
    BY <1>5, ReqTypes, NoReqType DEF CreateCommits
  <2>2. CASE Unique(req[b].name)
    <3>1. /\ made' = made + 1 /\ made' \in 0..MaxAccounts /\ users' = users \cup {made'}
          /\ UNCHANGED <<cookie, owner>>
      BY <1>5, <2>2 DEF CreateCommits, AccTypeOK
    <3>2. users' \subseteq 1..made'
      BY <3>1 DEF AccTypeOK
    <3>3. name' \in [Accounts -> Names] /\ pass' \in [Accounts -> Passwords]
      BY <1>5, <2>2, ReqHolds DEF CreateCommits, AccTypeOK
    <3> QED
      BY <2>1, <3>1, <3>2, <3>3 DEF AccTypeOK, Reqs
  <2>3. CASE ~Unique(req[b].name)
    BY <1>5, <2>1, <2>3 DEF CreateCommits, AccTypeOK, Reqs
  <2> QED
    BY <2>2, <2>3
<1>6. ASSUME NEW b \in Browsers, ChangeCommits(b) PROVE AccTypeOK'
  <2>1. req' \in [Browsers -> Reqs]
    BY <1>6, ReqTypes, NoReqType DEF ChangeCommits
  <2>2. pass' \in [Accounts -> Passwords]
    BY <1>6, ReqHolds DEF ChangeCommits, AccTypeOK
  <2> QED
    BY <1>6, <2>1, <2>2 DEF ChangeCommits, AccTypeOK, Reqs
<1>7. ASSUME NEW b \in Browsers, DeleteCommits(b) PROVE AccTypeOK'
  <2>1. req' \in [Browsers -> Reqs]
    BY <1>7, ReqTypes, NoReqType DEF DeleteCommits
  <2> QED
    BY <1>7, <2>1 DEF DeleteCommits, AccTypeOK, Reqs
<1>8. ASSUME NEW b \in Browsers, NEW r \in Reqs, Goes(b, r),
             UNCHANGED <<users, name, pass, made, cookie, owner>>
      PROVE  AccTypeOK'
  <2>1. req' \in [Browsers -> Reqs]
    BY <1>8, ReqTypes
  <2> QED
    BY <1>8, <2>1 DEF AccTypeOK, Reqs
<1>9. ASSUME NEW b \in Browsers, NEW n \in Names, NEW p \in Passwords, LoginReads(b, n, p)
      PROVE  AccTypeOK'
  <2>1. users \cup {0} \subseteq 0..MaxAccounts
    BY DEF AccTypeOK
  <2>2. \A i \in 0..MaxAccounts : [op |-> "login", name |-> n, row |-> i] \in Reqs
    BY DEF Reqs
  <2> QED
    BY <1>8, <1>9, <2>1, <2>2 DEF LoginReads
<1>10. ASSUME NEW b \in Browsers, NEW n \in Names, NEW p \in Passwords, CreateReads(b, n, p)
       PROVE  AccTypeOK'
  <2>1. [op |-> "create", name |-> n, pass |-> p] \in Reqs
    BY DEF Reqs
  <2> QED
    BY <1>8, <1>10, <2>1 DEF CreateReads
<1>11. ASSUME NEW b \in Browsers, NEW i \in Accounts, DeleteReads(b, i) PROVE AccTypeOK'
  <2>1. [op |-> "delete", row |-> i] \in Reqs
    BY DEF Reqs
  <2> QED
    BY <1>8, <1>11, <2>1 DEF DeleteReads
<1>12. ASSUME NEW b \in Browsers, NEW i \in Accounts, NEW p \in Passwords, ChangeReads(b, i, p)
       PROVE  AccTypeOK'
  <2>1. [op |-> "change", row |-> i, pass |-> p] \in Reqs
    BY DEF Reqs
  <2> QED
    BY <1>8, <1>12, <2>1 DEF ChangeReads
<1>13. CASE UNCHANGED accVars
  BY <1>13 DEF accVars, AccTypeOK
<1> QED
  BY <1>1, <1>2, <1>3, <1>4, <1>5, <1>6, <1>7, <1>9, <1>10, <1>11, <1>12, <1>13 DEF AccNext

LEMMA RowCreated ==
  ASSUME AccTypeOK, NEW b \in Browsers, CreateCommits(b), Unique(req[b].name)
  PROVE  /\ made' = made + 1 /\ made' \in Accounts /\ users' = users \cup {made'}
         /\ name'[made'] = req[b].name /\ \A i \in 1..made : name'[i] = name[i]
<1>0. made \in Nat /\ MaxAccounts \in Nat
  BY NamesAssumption DEF NamesAssumption, AccTypeOK
<1>1. made' = made + 1 /\ made' \in Accounts /\ users' = users \cup {made'}
  BY <1>0 DEF CreateCommits, Accounts
<1>2. name' = [name EXCEPT ![made'] = req[b].name]
  BY DEF CreateCommits
<1>3. DOMAIN name = Accounts
  BY DEF AccTypeOK
<1>4. \A i \in 1..made : i \in Accounts /\ i # made'
  BY <1>0, <1>1 DEF Accounts
<1> QED
  BY <1>1, <1>2, <1>3, <1>4

(* Rows are only ever added under a name that no row has.                  *)
LEMMA AccStepKeepsRows == AccTypeOK /\ RowsAreNew /\ [AccNext]_accVars => RowsAreNew'
<1> SUFFICES ASSUME AccTypeOK, RowsAreNew, [AccNext]_accVars PROVE RowsAreNew'
  OBVIOUS
<1> USE NamesAssumption DEF NamesAssumption
<1>1. \A b \in Browsers : req'[b].op = "create" => req'[b].name # EnvAdmin
  <2>1. ASSUME NEW b \in Browsers, Goes(b, NoReq)
        PROVE  \A a \in Browsers : req'[a].op = "create" => req'[a].name # EnvAdmin
    BY <2>1, ReqEnds DEF RowsAreNew
  <2>2. ASSUME NEW b \in Browsers, NEW r, r.op # "create", Goes(b, r)
        PROVE  \A a \in Browsers : req'[a].op = "create" => req'[a].name # EnvAdmin
    BY <2>2, ReqOfEach DEF RowsAreNew
  <2>3. ASSUME NEW b \in Browsers, NEW n \in Names, NEW p \in Passwords, CreateReads(b, n, p)
        PROVE  \A a \in Browsers : req'[a].op = "create" => req'[a].name # EnvAdmin
    <3> DEFINE r == [op |-> "create", name |-> n, pass |-> p]
    <3>1. r.name # EnvAdmin /\ Goes(b, r)
      BY <2>3 DEF CreateReads
    <3> HIDE DEF r
    <3> QED
      BY <3>1, ReqOfEach DEF RowsAreNew
  <2>4. ASSUME NEW b \in Browsers, NEW n \in Names, NEW p \in Passwords, LoginReads(b, n, p)
        PROVE  \A a \in Browsers : req'[a].op = "create" => req'[a].name # EnvAdmin
    BY <2>2, <2>4 DEF LoginReads
  <2>5. ASSUME NEW b \in Browsers, NEW i \in Accounts, DeleteReads(b, i)
        PROVE  \A a \in Browsers : req'[a].op = "create" => req'[a].name # EnvAdmin
    BY <2>2, <2>5 DEF DeleteReads
  <2>6. ASSUME NEW b \in Browsers, NEW i \in Accounts, NEW p \in Passwords, ChangeReads(b, i, p)
        PROVE  \A a \in Browsers : req'[a].op = "create" => req'[a].name # EnvAdmin
    BY <2>2, <2>6 DEF ChangeReads
  <2>7. ASSUME NEW b \in Browsers,
               \/ LoginIssues(b) \/ CreateCommits(b) \/ ChangeCommits(b) \/ DeleteCommits(b)
               \/ NoEffect(b) \/ Admit(b) \/ Logout(b)
        PROVE  \A a \in Browsers : req'[a].op = "create" => req'[a].name # EnvAdmin
    BY <2>1, <2>2, <2>7
       DEF RowsAreNew, LoginIssues, CreateCommits, ChangeCommits, DeleteCommits, NoEffect, Admit, Logout
  <2>8. CASE UNCHANGED accVars
    BY <2>8 DEF RowsAreNew, accVars
  <2> QED
    BY <2>3, <2>4, <2>5, <2>6, <2>7, <2>8 DEF AccNext
<1>2. /\ \A i \in 1..made' : name'[i] # EnvAdmin
      /\ \A i, j \in 1..made' : i < j /\ name'[i] = name'[j] => i \notin users'
  <2>1. CASE UNCHANGED <<name, made>> /\ users' \subseteq users
    BY <2>1 DEF RowsAreNew
  <2>2. ASSUME NEW b \in Browsers, CreateCommits(b), Unique(req[b].name)
        PROVE  /\ \A i \in 1..made' : name'[i] # EnvAdmin
               /\ \A i, j \in 1..made' : i < j /\ name'[i] = name'[j] => i \notin users'
    <3>1. made' = made + 1 /\ made' \in Accounts /\ users' = users \cup {made'}
      BY <2>2, RowCreated
    <3>2. name'[made'] = req[b].name /\ \A i \in 1..made : name'[i] = name[i]
      BY <2>2, RowCreated
    <3>3. 1..made' = 1..made \cup {made'}
      BY <3>1 DEF AccTypeOK
    <3>4. req[b].name # EnvAdmin /\ \A i \in users : name[i] # req[b].name
      BY <2>2 DEF CreateCommits, RowsAreNew, Unique
    <3>5. \A i \in 1..made' : name'[i] # EnvAdmin
      BY <3>2, <3>3, <3>4 DEF RowsAreNew
    <3>6. ASSUME NEW i \in 1..made', NEW j \in 1..made', i < j, name'[i] = name'[j]
          PROVE  i \notin users'
      <4>1. i \in 1..made /\ i # made'
        BY <3>1, <3>6 DEF AccTypeOK
      <4>2. CASE j = made'
        BY <3>1, <3>2, <3>4, <3>6, <4>1, <4>2
      <4>3. CASE j # made'
        <5>1. j \in 1..made
          BY <3>3, <4>3
        <5> QED
          BY <3>1, <3>2, <3>6, <4>1, <5>1 DEF RowsAreNew
      <4> QED
        BY <4>2, <4>3
    <3> QED
      BY <3>5, <3>6
  <2> QED
    BY <2>1, <2>2
       DEF AccNext, accVars, LoginIssues, Logout, Admit, NoEffect, CreateCommits, ChangeCommits,
           DeleteCommits, LoginReads, CreateReads, DeleteReads, ChangeReads
<1> QED
  BY <1>1, <1>2 DEF RowsAreNew

(* A row keeps its name for ever, so what was issued stays so.             *)
LEMMA IssuedStays ==
  ASSUME AccTypeOK, [AccNext]_accVars, NEW n, NEW i \in 0..MaxAccounts, Issued(n, i)
  PROVE  Issued(n, i)'
<1>1. CASE UNCHANGED <<name, made>>
  BY <1>1 DEF Issued
<1>2. ASSUME NEW b \in Browsers, CreateCommits(b), Unique(req[b].name) PROVE Issued(n, i)'
  <2>1. made' = made + 1 /\ \A j \in 1..made : name'[j] = name[j]
    BY <1>2, RowCreated
  <2> QED
    BY <2>1 DEF Issued, AccTypeOK
<1> QED
  BY <1>1, <1>2
     DEF AccNext, accVars, LoginIssues, Logout, Admit, NoEffect, CreateCommits, ChangeCommits,
         DeleteCommits, LoginReads, CreateReads, DeleteReads, ChangeReads

LEMMA AccStepKeepsCookies ==
  AccTypeOK /\ CookiesAreIssued /\ [AccNext]_accVars => CookiesAreIssued'
<1> SUFFICES ASSUME AccTypeOK, CookiesAreIssued, [AccNext]_accVars, NEW a \in Browsers
             PROVE  /\ Issued(cookie[a], owner[a])'
                    /\ req'[a].op = "login" => Issued(req[a].name, req[a].row)'
  BY DEF CookiesAreIssued
<1> DEFINE Cookie == Issued(cookie[a], owner[a])'
           Login == req'[a].op = "login" => Issued(req[a].name, req[a].row)'
<1> USE NamesAssumption DEF NamesAssumption
<1>1. owner[a] \in 0..MaxAccounts /\ Issued(cookie[a], owner[a])
  BY DEF AccTypeOK, CookiesAreIssued
<1>2. req[a].op = "login" => req[a].row \in 0..MaxAccounts /\ Issued(req[a].name, req[a].row)
  BY ReqHolds DEF CookiesAreIssued
<1>3. cookie'[a] = cookie[a] /\ owner'[a] = owner[a] => Cookie
  BY <1>1, IssuedStays DEF Issued
<1>4. req'[a] = req[a] => Login
  BY <1>2, IssuedStays DEF Issued
<1>5. ASSUME NEW b \in Browsers, LoginIssues(b) PROVE Cookie /\ Login
  <2>1. Login
    BY <1>4, <1>5, ReqEnds DEF LoginIssues
  <2>2. CASE a = b
    <3>1. cookie'[a] = req[a].name /\ owner'[a] = req[a].row /\ name' = name /\ made' = made
      BY <1>5, <2>2 DEF LoginIssues, AccTypeOK
    <3> QED
      BY <1>2, <1>5, <2>1, <2>2, <3>1 DEF LoginIssues, Issued
  <2>3. CASE a # b
    BY <1>3, <1>5, <2>1, <2>3 DEF LoginIssues, AccTypeOK
  <2> QED
    BY <2>2, <2>3
<1>6. ASSUME NEW b \in Browsers, Logout(b) PROVE Cookie /\ Login
  <2>1. CASE a = b
    BY <1>4, <1>6, <2>1 DEF Logout, AccTypeOK, Issued
  <2>2. CASE a # b
    BY <1>3, <1>4, <1>6, <2>2 DEF Logout, AccTypeOK
  <2> QED
    BY <2>1, <2>2
<1>7. ASSUME NEW b \in Browsers, NEW r, r.op # "login", Goes(b, r), UNCHANGED <<cookie, owner>>
      PROVE  Cookie /\ Login
  BY <1>3, <1>4, <1>7, ReqOfEach
<1>8. ASSUME NEW b \in Browsers, NEW n \in Names, NEW p \in Passwords, LoginReads(b, n, p)
      PROVE  Cookie /\ Login
  <2>1. PICK i \in users \cup {0} :
          /\ Goes(b, [op |-> "login", name |-> n, row |-> i])
          /\ Issued(n, i)
    <3>1. users \subseteq 1..made /\ made \in Nat
      BY DEF AccTypeOK
    <3>2. \A i \in users : i # 0 /\ i <= made
      BY <3>1
    <3> QED
      BY <1>8, <3>2 DEF LoginReads, Issued
  <2> DEFINE r == [op |-> "login", name |-> n, row |-> i]
  <2>2. Goes(b, r) /\ r.name = n /\ r.row = i
    BY <2>1
  <2> HIDE DEF r
  <2>3. a = b => req'[a] = r
    BY <2>2, ReqOfEach
  <2>4. name' = name /\ made' = made /\ cookie' = cookie /\ owner' = owner
    BY <1>8 DEF LoginReads
  <2>5. CASE a = b
    BY <1>3, <2>1, <2>2, <2>3, <2>4, <2>5 DEF Issued
  <2>6. CASE a # b
    BY <1>3, <1>4, <2>2, <2>4, <2>6, ReqOfEach
  <2> QED
    BY <2>5, <2>6
<1>9. ASSUME NEW b \in Browsers,
             CreateCommits(b) \/ ChangeCommits(b) \/ DeleteCommits(b) \/ NoEffect(b) \/ Admit(b)
      PROVE  Cookie /\ Login
  <2>1. NoReq.op # "login"
    BY DEF NoReq
  <2> QED
    BY <1>7, <1>9, <2>1 DEF CreateCommits, ChangeCommits, DeleteCommits, NoEffect, Admit
<1>10. ASSUME NEW b \in Browsers, NEW n \in Names, NEW p \in Passwords, CreateReads(b, n, p)
       PROVE  Cookie /\ Login
  BY <1>7, <1>10 DEF CreateReads
<1>11. ASSUME NEW b \in Browsers, NEW i \in Accounts, DeleteReads(b, i) PROVE Cookie /\ Login
  BY <1>7, <1>11 DEF DeleteReads
<1>12. ASSUME NEW b \in Browsers, NEW i \in Accounts, NEW p \in Passwords, ChangeReads(b, i, p)
       PROVE  Cookie /\ Login
  BY <1>7, <1>12 DEF ChangeReads
<1>13. CASE UNCHANGED accVars
  BY <1>3, <1>4, <1>13 DEF accVars
<1> QED
  BY <1>5, <1>6, <1>8, <1>9, <1>10, <1>11, <1>12, <1>13 DEF AccNext

LEMMA AccInvariant == AccSpec => []AccIInv
<1>1. AccInit => AccIInv
  <2> SUFFICES ASSUME AccInit PROVE AccIInv
    OBVIOUS
  <2> USE NamesAssumption DEF NamesAssumption, AccInit
  <2>1. pass \in [Accounts -> Passwords]
    <3>1. (CHOOSE p \in Passwords : TRUE) \in Passwords
      OBVIOUS
    <3> QED
      BY <3>1
  <2>2. req \in [Browsers -> Reqs] /\ \A b \in Browsers : req[b].op = "none"
    BY DEF NoReq, Reqs
  <2>3. AccTypeOK
    BY <2>1, <2>2 DEF AccTypeOK, Reqs
  <2>4. RowsAreNew
    BY <2>2 DEF RowsAreNew
  <2>5. CookiesAreIssued
    BY <2>2 DEF CookiesAreIssued, Issued
  <2> QED
    BY <2>3, <2>4, <2>5 DEF AccIInv
<1>2. AccIInv /\ [AccNext]_accVars => AccIInv'
  BY AccStepKeepsTypes, AccStepKeepsRows, AccStepKeepsCookies DEF AccIInv
<1> QED
  BY <1>1, <1>2, PTL DEF AccSpec

(* Rows, cookies and requests in progress hold what they should.           *)
THEOREM AccountsTypeCorrect == AccSpec => []AccTypeOK
BY AccInvariant, PTL DEF AccIInv

(* However many creations overlap: a name has one row, and the name of the *)
(* environment's admin none.                                               *)
THEOREM EveryNameIsUnique == AccSpec => []NamesAreUnique
<1>1. AccIInv => NamesAreUnique
  <2> SUFFICES ASSUME AccIInv PROVE NamesAreUnique
    OBVIOUS
  <2>1. users \subseteq 1..made /\ made \in Nat
    BY DEF AccIInv, AccTypeOK
  <2>2. ASSUME NEW i \in users, NEW j \in users, name[i] = name[j] PROVE i = j
    <3>1. i \in 1..made /\ j \in 1..made
      BY <2>1
    <3>2. ~(i < j) /\ ~(j < i)
      BY <2>2, <3>1 DEF AccIInv, RowsAreNew
    <3> QED
      BY <2>1, <3>1, <3>2
  <2> QED
    BY <2>1, <2>2 DEF AccIInv, RowsAreNew, NamesAreUnique
<1> QED
  BY <1>1, AccInvariant, PTL

(* However logins and deletions overlap: whoever is admitted has a cookie  *)
(* for a row that exists, for the environment's admin, or for a name that  *)
(* was given to a younger row.                                             *)
THEOREM EverySessionNeedsAccount == AccSpec => SessionNeedsAccount
<1> DEFINE Admitted(b) == \/ owner[b] = 0
                          \/ owner[b] \in users
                          \/ \E i \in users : owner[b] < i /\ name[i] = name[owner[b]]
<1>1. ASSUME AccIInv, NEW b \in Browsers, Admit(b) PROVE Admitted(b)
  <2> SUFFICES ASSUME owner[b] # 0, owner[b] \notin users
               PROVE  \E i \in users : owner[b] < i /\ name[i] = name[owner[b]]
    OBVIOUS
  <2>1. owner[b] \in 1..made /\ name[owner[b]] = cookie[b]
    BY <1>1 DEF AccIInv, AccTypeOK, CookiesAreIssued, Issued
  <2>2. PICK i \in users : name[i] = name[owner[b]]
    BY <1>1, <2>1 DEF AccIInv, RowsAreNew, Admit, Known
  <2>3. i \in 1..made /\ i # owner[b]
    BY <1>1, <2>2 DEF AccIInv, AccTypeOK
  <2>4. ~(i < owner[b])
    BY <1>1, <2>1, <2>2, <2>3 DEF AccIInv, RowsAreNew
  <2>5. owner[b] < i
    BY <1>1, <2>1, <2>3, <2>4 DEF AccIInv, AccTypeOK
  <2> QED
    BY <2>2, <2>5
<1>2. ASSUME AccIInv, AccNext, NEW b \in Browsers, req[b].op # "admitted", req'[b].op = "admitted"
      PROVE  Admit(b)
  <2>0. AccTypeOK
    BY <1>2 DEF AccIInv
  <2>1. ASSUME NEW a \in Browsers, NEW r, Goes(a, r), r.op # "admitted" PROVE FALSE
    BY <1>2, <2>0, <2>1, ReqOfEach
  <2>2. NoReq.op # "admitted"
    BY DEF NoReq
  <2>3. ASSUME NEW a \in Browsers,
               LoginIssues(a) \/ NoEffect(a) \/ CreateCommits(a) \/ ChangeCommits(a) \/ DeleteCommits(a)
        PROVE  FALSE
    BY <2>1, <2>2, <2>3 DEF LoginIssues, NoEffect, CreateCommits, ChangeCommits, DeleteCommits
  <2>4. ASSUME NEW a \in Browsers, Logout(a) PROVE FALSE
    BY <1>2, <2>4 DEF Logout
  <2>5. ASSUME NEW a \in Browsers, NEW n \in Names, NEW p \in Passwords,
               LoginReads(a, n, p) \/ CreateReads(a, n, p)
        PROVE  FALSE
    BY <2>1, <2>5 DEF LoginReads, CreateReads
  <2>6. ASSUME NEW a \in Browsers, NEW i \in Accounts, DeleteReads(a, i) PROVE FALSE
    BY <2>1, <2>6 DEF DeleteReads
  <2>7. ASSUME NEW a \in Browsers, NEW i \in Accounts, NEW p \in Passwords, ChangeReads(a, i, p)
        PROVE  FALSE
    BY <2>1, <2>7 DEF ChangeReads
  <2>8. ASSUME NEW a \in Browsers, Admit(a) PROVE Admit(b)
    <3>1. a = b
      BY <1>2, <2>0, <2>8, ReqOfEach DEF Admit
    <3> QED
      BY <2>8, <3>1
  <2> QED
    BY <1>2, <2>3, <2>4, <2>5, <2>6, <2>7, <2>8 DEF AccNext
<1>3. AccIInv /\ [AccNext]_accVars =>
        [\A b \in Browsers : (req[b].op # "admitted" /\ req'[b].op = "admitted") => Admitted(b)]_accVars
  BY <1>1, <1>2
<1> QED
  BY <1>3, AccInvariant, PTL DEF AccSpec, SessionNeedsAccount

-----------------------------------------------------------------------------
(* The panel as a whole.                                                   *)

(* Each table of the panel behaves as its own module says: what is proved  *)
(* of a table holds of the panel.                                          *)
THEOREM PanelKeepsItsParts == PanelSpec => TokSpec /\ AccSpec /\ SetSpec
<1>1. PanelInit => TokInit /\ AccInit /\ SetInit
  BY DEF PanelInit
<1>2. [PanelNext]_panelVars => [TokNext]_tokVars /\ [AccNext]_accVars /\ [SetNext]_setVars
  BY DEF PanelNext, panelVars
<1> QED
  BY <1>1, <1>2, PTL DEF PanelSpec, TokSpec, AccSpec, SetSpec

(* Every table keeps its type, whichever of them moves.                    *)
THEOREM PanelTypeCorrect == PanelSpec => []PanelTypeOK
<1>1. TokTypeOK /\ AccTypeOK /\ SetTypeOK => PanelTypeOK
  BY DEF PanelTypeOK
<1> QED
  BY <1>1, PanelKeepsItsParts, TokensTypeCorrect, AccountsTypeCorrect, SettingsTypeCorrect, PTL
=============================================================================
