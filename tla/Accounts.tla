------------------------------ MODULE Accounts ------------------------------
(***************************************************************************)
(* The accounts of the console and the sessions that are signed in with    *)
(* them (users.go, web.go).  The accounts are rows of SQLite, the sessions *)
(* a map in memory; a request reads and writes them one statement at a     *)
(* time, and no lock spans two of its steps.                               *)
(*                                                                         *)
(* A password stands for its hash.  A request that is refused ends.        *)
(***************************************************************************)
EXTENDS Naturals, FiniteSets

CONSTANTS
  Names,      \* account names, finitely many
  Passwords,  \* passwords that pass validation
  Tokens,     \* session tokens, each random: one in use is never issued again
  Requests,   \* requests in flight
  Faults,     \* whether a query or a statement may fail
  None        \* no account, no session, no argument

RoleAdmin == "admin"
RoleViewer == "viewer"
Roles == {RoleAdmin, RoleViewer}

User == [pass : Passwords, role : Roles]

ASSUME AccountsAssumption ==
  /\ Faults \in BOOLEAN
  /\ None \notin User

VARIABLES
  users,      \* the users table: name -> account, or None
  sess,       \* sessions.m: token -> session, or None
  pc,         \* the statement each request has reached
  job,        \* what each request is about
  legacy,     \* the account an older version left in the settings, or None
  hurried     \* history: requests whose check no longer says what is written

vars == <<users, sess, pc, job, legacy, hurried>>

(***************************************************************************)
(* cred and sound are history: the password the session was obtained with, *)
(* and whether what the login had read of the account was still so when it *)
(* issued the session.                                                     *)
(***************************************************************************)
Session == [user : Names, role : Roles, cred : Passwords, sound : BOOLEAN]

Job == [op   : {"none", "setup", "login", "create", "password", "role", "delete"},
        tok  : Tokens \cup {None},
        name : Names \cup {None},
        pass : Passwords \cup {None},
        role : Roles \cup {None}]

NoJob == [op |-> "none", tok |-> None, name |-> None, pass |-> None,
          role |-> None]

\* What may take an administrator away.
Takes(j) == j.op = "delete" \/ (j.op = "role" /\ j.role = RoleViewer)

Places == {"idle", "auth", "insert", "issue", "self", "lastRole", "lastCount",
           "write", "drop"}

Present == {n \in Names : users[n] # None}
Admins == {n \in Present : users[n].role = RoleAdmin}

-----------------------------------------------------------------------------

(***************************************************************************)
(* A fresh database, or the one an older version has left.                 *)
(***************************************************************************)
Migrated(us) ==
  IF (\A n \in Names : us[n] = None) /\ legacy # None
  THEN [us EXCEPT ![legacy.name] = [pass |-> legacy.pass, role |-> RoleAdmin]]
  ELSE us

Init ==
  /\ legacy \in [name : Names, pass : Passwords] \cup {None}
  /\ users = Migrated([n \in Names |-> None])
  /\ sess = [t \in Tokens |-> None]
  /\ pc = [p \in Requests |-> "idle"]
  /\ job = [p \in Requests |-> NoJob]
  /\ hurried = {}

(***************************************************************************)
(* How a request moves.  It begins with the first thing it reads.          *)
(***************************************************************************)
Begin(p, place, j) ==
  /\ pc[p] = "idle"
  /\ pc' = [pc EXCEPT ![p] = place]
  /\ job' = [job EXCEPT ![p] = j]

GoTo(p, place) ==
  /\ pc' = [pc EXCEPT ![p] = place]
  /\ UNCHANGED job

Over(p) ==
  /\ pc' = [pc EXCEPT ![p] = "idle"]
  /\ job' = [job EXCEPT ![p] = NoJob]

(***************************************************************************)
(* The history.  A request is hurried when another one has changed what it *)
(* has read of the table (the account it logs in to, that there is none,   *)
(* who the administrators are) before it does something about it, or when  *)
(* a query of its own failed and it went on.                               *)
(***************************************************************************)
Outdated(q) ==
  \/ pc[q] = "issue" /\ users'[job[q].name] # users[job[q].name]
  \/ pc[q] = "insert" /\ job[q].op = "setup" /\ Present' # Present
  \/ pc[q] = "write" /\ Takes(job[q]) /\ Admins' # Admins

Hurries(p) == hurried' = (hurried \cup {q \in Requests : Outdated(q)}) \ {p}

Finish(p) == Over(p) /\ hurried' = hurried \ {p}

-----------------------------------------------------------------------------

(***************************************************************************)
(* First run.  UserCount answers 0 when its query fails.                   *)
(***************************************************************************)
\* Mutant: one account is not yet enough.
NeedsSetupTwo == Cardinality(Present) <= 1

NeedsSetup == Present = {}

Setup(p) ==
  /\ \/ NeedsSetup /\ UNCHANGED hurried
     \/ Faults /\ hurried' = hurried \cup {p}
  /\ \E n \in Names, w \in Passwords :
       Begin(p, "insert", [NoJob EXCEPT !.op = "setup", !.name = n, !.pass = w,
                                        !.role = RoleAdmin])
  /\ UNCHANGED <<users, sess, legacy>>

(***************************************************************************)
(* Login: Authenticate reads the row, the session is issued afterwards     *)
(* with the role that was read.                                            *)
(***************************************************************************)
Login(p) ==
  /\ \E n \in Present :
       Begin(p, "issue", [NoJob EXCEPT !.op = "login", !.name = n,
                            !.pass = users[n].pass, !.role = users[n].role])
  /\ UNCHANGED <<users, sess, legacy, hurried>>

(***************************************************************************)
(* A session agrees with its account.                                      *)
(***************************************************************************)
Agrees(s) ==
  /\ users[s.user] # None
  /\ users[s.user].role = s.role
  /\ users[s.user].pass = s.cred

Fresh(t) == sess[t] = None /\ \A q \in Requests : job[q].tok # t

Issue(p) ==
  /\ pc[p] = "issue"
  /\ \E t \in Tokens :
       /\ Fresh(t)
       /\ sess' = [sess EXCEPT ![t] =
            [user |-> job[p].name, role |-> job[p].role, cred |-> job[p].pass,
             sound |-> p \notin hurried]]
  /\ Finish(p)
  /\ UNCHANGED <<users, legacy>>

(***************************************************************************)
(* Logout, or a session past its expiry, which get treats as absent.       *)
(***************************************************************************)
EndSession(t) ==
  /\ sess[t] # None
  /\ sess' = [sess EXCEPT ![t] = None]
  /\ UNCHANGED <<users, pc, job, legacy, hurried>>

(***************************************************************************)
(* Changing one's own password: the session says whose it is, then the old *)
(* password is verified; it may be right or wrong.                         *)
(***************************************************************************)
ChangePassword(p) ==
  /\ \E t \in Tokens, w \in Passwords :
       /\ sess[t] # None
       /\ Begin(p, "auth", [NoJob EXCEPT !.op = "password", !.name = sess[t].user,
                                         !.pass = w])
  /\ UNCHANGED <<users, sess, legacy, hurried>>

Authenticate(p) ==
  /\ pc[p] = "auth"
  /\ \/ users[job[p].name] # None /\ GoTo(p, "write") /\ UNCHANGED hurried
     \/ Finish(p)
  /\ UNCHANGED <<users, sess, legacy>>

-----------------------------------------------------------------------------

(***************************************************************************)
(* The requests of an administrator: what guard and admin let through.     *)
(* A token that is dead when guard reads it stays dead, so one read of the *)
(* session stands for both of theirs.                                      *)
(***************************************************************************)
IsAdmin(t) == sess[t] # None /\ sess[t].role = RoleAdmin

AddUser(p) ==
  /\ \E t \in Tokens, n \in Names, w \in Passwords, r \in Roles :
       /\ IsAdmin(t)
       /\ Begin(p, "insert", [NoJob EXCEPT !.op = "create", !.name = n, !.pass = w,
                                           !.role = r])
  /\ UNCHANGED <<users, sess, legacy, hurried>>

ResetPassword(p) ==
  /\ \E t \in Tokens, n \in Names, w \in Passwords :
       /\ IsAdmin(t)
       /\ Begin(p, "write", [NoJob EXCEPT !.op = "password", !.name = n, !.pass = w])
  /\ UNCHANGED <<users, sess, legacy, hurried>>

\* Mutant: the check is made for the wrong role.
ChangeRoleInverted(p) ==
  /\ \E t \in Tokens, n \in Names, r \in Roles :
       /\ IsAdmin(t)
       /\ Begin(p, IF r = RoleViewer THEN "write" ELSE "lastRole",
                [NoJob EXCEPT !.op = "role", !.name = n, !.role = r])
  /\ UNCHANGED <<users, sess, legacy, hurried>>

ChangeRole(p) ==
  /\ \E t \in Tokens, n \in Names, r \in Roles :
       /\ IsAdmin(t)
       /\ Begin(p, IF r = RoleAdmin THEN "write" ELSE "lastRole",
                [NoJob EXCEPT !.op = "role", !.name = n, !.role = r])
  /\ UNCHANGED <<users, sess, legacy, hurried>>

RemoveUser(p) ==
  /\ \E t \in Tokens, n \in Names :
       /\ IsAdmin(t)
       /\ Begin(p, "self", [NoJob EXCEPT !.op = "delete", !.tok = t, !.name = n])
  /\ UNCHANGED <<users, sess, legacy, hurried>>

(***************************************************************************)
(* Nobody deletes the account they are signed in with.  The session is     *)
(* read once more: one that has ended meanwhile is nobody's.               *)
(***************************************************************************)
NotSelf(p) ==
  /\ pc[p] = "self"
  /\ IF sess[job[p].tok] # None /\ sess[job[p].tok].user = job[p].name
     THEN Finish(p)
     ELSE /\ pc' = [pc EXCEPT ![p] = "lastRole"]
          /\ job' = [job EXCEPT ![p].tok = None]
          /\ UNCHANGED hurried
  /\ UNCHANGED <<users, sess, legacy>>

(***************************************************************************)
(* isLastAdmin: two queries.  A first query that fails counts as "not      *)
(* found", one that fails second ends the request.                         *)
(***************************************************************************)
LastRole(p) ==
  /\ pc[p] = "lastRole"
  /\ \/ /\ job[p].name \notin Admins
        /\ GoTo(p, "write") /\ UNCHANGED hurried
     \/ /\ job[p].name \in Admins
        /\ GoTo(p, "lastCount") /\ UNCHANGED hurried
     \/ /\ Faults
        /\ GoTo(p, "write") /\ hurried' = hurried \cup {p}
  /\ UNCHANGED <<users, sess, legacy>>

\* Mutant: the count is compared with 0.
LastCountZero(p) ==
  /\ pc[p] = "lastCount"
  /\ IF Cardinality(Admins) > 0 THEN GoTo(p, "write") /\ UNCHANGED hurried ELSE Finish(p)
  /\ UNCHANGED <<users, sess, legacy>>

LastCount(p) ==
  /\ pc[p] = "lastCount"
  /\ \/ Cardinality(Admins) > 1 /\ GoTo(p, "write") /\ UNCHANGED hurried
     \/ (Cardinality(Admins) <= 1 \/ Faults) /\ Finish(p)
  /\ UNCHANGED <<users, sess, legacy>>

(***************************************************************************)
(* The statements that write, and what the handler does after them.        *)
(***************************************************************************)
InsertUser(p) ==
  /\ pc[p] = "insert"
  /\ \/ /\ users[job[p].name] = None
        /\ users' = [users EXCEPT ![job[p].name] = [pass |-> job[p].pass,
                                                    role |-> job[p].role]]
        /\ IF job[p].op = "setup" THEN GoTo(p, "issue") ELSE Over(p)
        /\ Hurries(p)
     \/ /\ users[job[p].name] # None \/ Faults
        /\ UNCHANGED users
        /\ Finish(p)
  /\ UNCHANGED <<sess, legacy>>

Written(j) ==
  CASE j.op = "password" -> [users EXCEPT ![j.name].pass = j.pass]
    [] j.op = "role"     -> [users EXCEPT ![j.name].role = j.role]
    [] j.op = "delete"   -> [users EXCEPT ![j.name] = None]

Write(p) ==
  /\ pc[p] = "write"
  /\ \/ /\ users[job[p].name] # None
        /\ users' = Written(job[p])
        /\ GoTo(p, "drop")
        /\ Hurries(p)
     \/ /\ users[job[p].name] = None \/ Faults
        /\ UNCHANGED users
        /\ Finish(p)
  /\ UNCHANGED <<sess, legacy>>

\* Mutant: dropUser stops at the first session it finds.
DropUserOne(p) ==
  /\ pc[p] = "drop"
  /\ \/ \E t \in Tokens : sess[t] # None /\ sess[t].user = job[p].name
                          /\ sess' = [sess EXCEPT ![t] = None]
     \/ UNCHANGED sess /\ \A t \in Tokens : sess[t] # None => sess[t].user # job[p].name
  /\ Finish(p)
  /\ UNCHANGED <<users, legacy>>

DropUser(p) ==
  /\ pc[p] = "drop"
  /\ sess' = [t \in Tokens |->
                IF sess[t] # None /\ sess[t].user = job[p].name THEN None ELSE sess[t]]
  /\ Finish(p)
  /\ UNCHANGED <<users, legacy>>

(***************************************************************************)
(* The process ends, wherever its requests are, and starts again.          *)
(***************************************************************************)
Restart ==
  /\ users' = Migrated(users)
  /\ sess' = [t \in Tokens |-> None]
  /\ pc' = [p \in Requests |-> "idle"]
  /\ job' = [p \in Requests |-> NoJob]
  /\ hurried' = {}
  /\ UNCHANGED legacy

Next ==
  \/ \E p \in Requests :
       \/ Setup(p) \/ Login(p) \/ Issue(p)
       \/ ChangePassword(p) \/ Authenticate(p)
       \/ AddUser(p) \/ ResetPassword(p) \/ ChangeRole(p) \/ RemoveUser(p)
       \/ NotSelf(p) \/ LastRole(p) \/ LastCount(p)
       \/ InsertUser(p) \/ Write(p) \/ DropUser(p)
  \/ \E t \in Tokens : EndSession(t)
  \/ Restart

Spec == Init /\ [][Next]_vars

-----------------------------------------------------------------------------

(***************************************************************************)
(* Type invariant.  A request that has begun knows what it is about.       *)
(***************************************************************************)
Fits(place, j) ==
  /\ place \in {"insert", "issue"} => j.pass \in Passwords /\ j.role \in Roles
  /\ place = "insert" => j.op \in {"setup", "create"}
  /\ place = "auth" => j.op = "password"
  /\ place \in {"auth", "write"} =>
       /\ j.op \in {"password", "role", "delete"}
       /\ j.op = "password" => j.pass \in Passwords
       /\ j.op = "role" => j.role \in Roles
  /\ place \in {"self", "lastRole", "lastCount"} => Takes(j)
  /\ place = "self" => j.op = "delete" /\ j.tok \in Tokens
  /\ place # "idle" => j.name \in Names

TypeOK ==
  /\ users \in [Names -> User \cup {None}]
  /\ sess \in [Tokens -> Session \cup {None}]
  /\ pc \in [Requests -> Places]
  /\ job \in [Requests -> Job]
  /\ legacy \in [name : Names, pass : Passwords] \cup {None}
  /\ hurried \subseteq {p \in Requests : pc[p] \in {"insert", "issue", "write"}}
  /\ \A p \in Requests : Fits(pc[p], job[p])

(***************************************************************************)
(* "A cookie never outlives the credential behind it": a session is, as    *)
(* soon as its account's password or role changes or the account is gone,  *)
(* about to be dropped, whatever other requests, failures and restarts come*)
(* in between.  The sessions it leaves out are those of a login during     *)
(* which the account changed: dropUser came before they were issued.       *)
(***************************************************************************)
NoOutlived ==
  \A t \in Tokens :
    sess[t] # None /\ sess[t].sound /\ ~Agrees(sess[t]) =>
      \E p \in Requests : pc[p] = "drop" /\ job[p].name = sess[t].user

(***************************************************************************)
(* SetRole and DeleteUser refuse to take away the last administrator, which*)
(* would leave nobody who can add a target or create an account.  Requests *)
(* overlap and queries fail: the last one goes only by the statement of a  *)
(* request that another one has overtaken since it counted, or whose query *)
(* for the role failed; no other write, setup or restart does it.          *)
(***************************************************************************)
LastAdminKept ==
  [][Admins # {} /\ Admins' = {} =>
       \E p \in hurried : pc[p] = "write" /\ pc'[p] = "drop"]_vars

(***************************************************************************)
(* Setup is open until an account exists and closed ever after: the account*)
(* it makes is the first, unless another request made one while this one   *)
(* was hashing its password, or the count failed.                          *)
(***************************************************************************)
SetupClosed ==
  [][\A p \in Requests :
       p \notin hurried /\ job[p].op = "setup" /\ users' # users /\ pc[p] # pc'[p] =>
         Present = {}]_vars

=============================================================================
