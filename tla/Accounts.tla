------------------------------- MODULE Accounts -----------------------------
(***************************************************************************)
(* Admin users, their logins and sessions (routes_admin.py).  A session is *)
(* a signed cookie that carries a username and no more; every request of   *)
(* the panel looks that name up, in a session of its own, before its       *)
(* handler reads what it works on, hashes a password if it has to, and     *)
(* commits.                                                                *)
(*                                                                         *)
(* The definitions named Bug... are faulty variants of the one that        *)
(* follows: no action uses them, they show that the properties can fail.   *)
(***************************************************************************)
EXTENDS Naturals

CONSTANTS Names,        \* usernames
          EnvAdmin,     \* ADMIN_USER, the name the environment gives
          Passwords,    \* passwords
          Browsers,     \* browsers, each with one request at a time
          MaxAccounts,  \* bound: rows of admin_users ever created
          NoName        \* no cookie

ASSUME NamesAssumption == /\ EnvAdmin \in Names /\ NoName \notin Names
                          /\ Passwords # {} /\ MaxAccounts \in Nat

Accounts == 1..MaxAccounts

VARIABLES users,    \* admin_users: the rows that exist, by number
          name,     \* their username
          pass,     \* the password their hash is of
          made,     \* rows created so far
          cookie,   \* per browser: the username its cookie carries
          owner,    \* history: the row that cookie was issued for, 0 for EnvAdmin
          req       \* per browser: the request in progress

accVars == <<users, name, pass, made, cookie, owner, req>>

NoReq == [op |-> "none"]

AccInit == /\ users = {}
           /\ name = [i \in Accounts |-> EnvAdmin]
           /\ pass \in [Accounts -> {CHOOSE p \in Passwords : TRUE}]
           /\ made = 0
           /\ cookie = [b \in Browsers |-> NoName]
           /\ owner = [b \in Browsers |-> 0]
           /\ req = [b \in Browsers |-> NoReq]

Goes(b, r) == req' = [req EXCEPT ![b] = r]

-----------------------------------------------------------------------------
(* login: the row is read first, then the password is verified against     *)
(* what was read, which takes a noticeable time, then the cookie is set.   *)
(* A name that is not the row's own falls back on the environment.         *)

LoginReads(b, n, p) ==
  /\ req[b] = NoReq
  /\ \/ \E i \in users : name[i] = n /\ pass[i] = p /\ Goes(b, [op |-> "login", name |-> n, row |-> i])
     \/ n = EnvAdmin /\ Goes(b, [op |-> "login", name |-> n, row |-> 0])
  /\ UNCHANGED <<users, name, pass, made, cookie, owner>>

LoginIssues(b) ==
  /\ req[b].op = "login"
  /\ cookie' = [cookie EXCEPT ![b] = req[b].name]
  /\ owner' = [owner EXCEPT ![b] = req[b].row]
  /\ Goes(b, NoReq)
  /\ UNCHANGED <<users, name, pass, made>>

(* logout deletes the cookie, and so does its age of 12 hours.             *)
Logout(b) == /\ req[b] = NoReq /\ cookie[b] # NoName
             /\ cookie' = [cookie EXCEPT ![b] = NoName]
             /\ owner' = [owner EXCEPT ![b] = 0]
             /\ UNCHANGED <<users, name, pass, made, req>>

-----------------------------------------------------------------------------
(* require_admin.                                                          *)

BugKnown(n) == n = EnvAdmin \/ \E i \in 1..made : name[i] = n

Known(n) == n = EnvAdmin \/ \E i \in users : name[i] = n

Admit(b) == /\ req[b] = NoReq
            /\ Known(cookie[b])
            /\ Goes(b, [op |-> "admitted"])
            /\ UNCHANGED <<users, name, pass, made, cookie, owner>>

-----------------------------------------------------------------------------
(* The handlers: what they read, and what they commit.                     *)

CreateReads(b, n, p) ==
  /\ req[b].op = "admitted"
  /\ n # EnvAdmin
  /\ \A i \in users : name[i] # n
  /\ Goes(b, [op |-> "create", name |-> n, pass |-> p])
  /\ UNCHANGED <<users, name, pass, made, cookie, owner>>

ChangeReads(b, i, p) ==
  /\ req[b].op = "admitted"
  /\ i \in users
  /\ Goes(b, [op |-> "change", row |-> i, pass |-> p])
  /\ UNCHANGED <<users, name, pass, made, cookie, owner>>

DeleteReads(b, i) ==
  /\ req[b].op = "admitted"
  /\ i \in users
  /\ Goes(b, [op |-> "delete", row |-> i])
  /\ UNCHANGED <<users, name, pass, made, cookie, owner>>

BugUnique(n) == TRUE

(* The column is UNIQUE: an INSERT that comes second raises.               *)
Unique(n) == \A i \in users : name[i] # n

CreateCommits(b) ==
  /\ req[b].op = "create"
  /\ IF Unique(req[b].name)
       THEN /\ made < MaxAccounts
            /\ made' = made + 1
            /\ users' = users \cup {made'}
            /\ name' = [name EXCEPT ![made'] = req[b].name]
            /\ pass' = [pass EXCEPT ![made'] = req[b].pass]
       ELSE UNCHANGED <<users, name, pass, made>>
  /\ Goes(b, NoReq)
  /\ UNCHANGED <<cookie, owner>>

(* The UPDATE of a row that was deleted raises.                            *)
ChangeCommits(b) ==
  /\ req[b].op = "change"
  /\ pass' = IF req[b].row \in users THEN [pass EXCEPT ![req[b].row] = req[b].pass] ELSE pass
  /\ Goes(b, NoReq)
  /\ UNCHANGED <<users, name, made, cookie, owner>>

DeleteCommits(b) ==
  /\ req[b].op = "delete"
  /\ users' = users \ {req[b].row}
  /\ Goes(b, NoReq)
  /\ UNCHANGED <<name, pass, made, cookie, owner>>

(* Another page, an answer without effect, or a commit that fails.         *)
NoEffect(b) == /\ req[b].op \in {"admitted", "create", "change", "delete"}
               /\ Goes(b, NoReq)
               /\ UNCHANGED <<users, name, pass, made, cookie, owner>>

-----------------------------------------------------------------------------
AccNext == \E b \in Browsers :
  \/ LoginIssues(b) \/ Logout(b) \/ Admit(b) \/ NoEffect(b)
  \/ CreateCommits(b) \/ ChangeCommits(b) \/ DeleteCommits(b)
  \/ \E n \in Names, p \in Passwords : LoginReads(b, n, p) \/ CreateReads(b, n, p)
  \/ \E i \in Accounts : DeleteReads(b, i) \/ \E p \in Passwords : ChangeReads(b, i, p)

AccSpec == AccInit /\ [][AccNext]_accVars

-----------------------------------------------------------------------------
(* Type invariant.                                                         *)
AccTypeOK ==
  /\ users \subseteq 1..made
  /\ name \in [Accounts -> Names] /\ pass \in [Accounts -> Passwords]
  /\ made \in 0..MaxAccounts
  /\ cookie \in [Browsers -> Names \cup {NoName}]
  /\ owner \in [Browsers -> 0..MaxAccounts]
  /\ req \in [Browsers -> [op : {"none", "admitted"}]
                 \cup [op : {"login"}, name : Names, row : 0..MaxAccounts]
                 \cup [op : {"create"}, name : Names, pass : Passwords]
                 \cup [op : {"change"}, row : Accounts, pass : Passwords]
                 \cup [op : {"delete"}, row : Accounts]]

(* One row per username, and none for the name of the environment's admin, *)
(* however creations overlap: login and require_admin would raise on two.  *)
NamesAreUnique ==
  /\ \A i, j \in users : name[i] = name[j] => i = j
  /\ \A i \in users : name[i] # EnvAdmin

(* A request comes in only under a name that is the environment's or has a *)
(* row at that moment: a session whose user was deleted is refused, also   *)
(* one that a login issued after the deletion, until the name is given to  *)
(* another row.                                                            *)
SessionNeedsAccount ==
  [][\A b \in Browsers : (req[b].op # "admitted" /\ req'[b].op = "admitted") =>
       \/ owner[b] = 0
       \/ owner[b] \in users
       \/ \E i \in users : owner[b] < i /\ name[i] = name[owner[b]]]_accVars

(* users.md: deleting a user, then recreating it, does end the session.    *)
DeletedSessionsStayEnded ==
  [][\A b \in Browsers : (req[b].op # "admitted" /\ req'[b].op = "admitted") =>
       owner[b] = 0 \/ owner[b] \in users]_accVars
=============================================================================
