--------------------------- MODULE AccountsProofs ---------------------------
(***************************************************************************)
(* Theorems about Accounts, for any number of accounts, sessions and       *)
(* requests.                                                               *)
(***************************************************************************)
EXTENDS Accounts, FiniteSetTheorems, TLAPS

(***************************************************************************)
(* Types.                                                                  *)
(***************************************************************************)
LEMMA NoJobType == NoJob \in Job
BY DEF NoJob, Job

\* The account that is made of a single admin setting is an account.
LEMMA MigratedType ==
  ASSUME TypeOK, NEW us \in [Names -> User \cup {None}]
  PROVE  Migrated(us) \in [Names -> User \cup {None}]
<1>1. CASE legacy = None
  BY <1>1 DEF Migrated
<1>2. CASE legacy # None
  <2>1. legacy.name \in Names /\ legacy.pass \in Passwords
    BY <1>2 DEF TypeOK
  <2>2. [pass |-> legacy.pass, role |-> RoleAdmin] \in User
    BY <2>1 DEF User, Roles
  <2> QED
    BY <2>1, <2>2 DEF Migrated
<1> QED
  BY <1>1, <1>2

\* The program starts with typed state.
LEMMA TypeInit == Init => TypeOK
<1> SUFFICES ASSUME Init PROVE TypeOK
  OBVIOUS
<1>1. [n \in Names |-> None] \in [Names -> User \cup {None}]
  OBVIOUS
<1>2. users \in [Names -> User \cup {None}]
  <2>1. CASE legacy = None
    BY <1>1, <2>1 DEF Init, Migrated
  <2>2. CASE legacy # None
    <3>1. legacy.name \in Names /\ legacy.pass \in Passwords
      BY <2>2 DEF Init
    <3>2. [pass |-> legacy.pass, role |-> RoleAdmin] \in User
      BY <3>1 DEF User, Roles
    <3> QED
      BY <3>1, <3>2 DEF Init, Migrated
  <2> QED
    BY <2>1, <2>2
<1>3. pc \in [Requests -> Places] /\ job \in [Requests -> Job]
  BY NoJobType DEF Init, Places
<1>4. \A p \in Requests : Fits(pc[p], job[p])
  BY DEF Init, Fits
<1> QED
  BY <1>2, <1>3, <1>4 DEF Init, TypeOK

(***************************************************************************)
(* The three ways a request moves keep the types, if the job fits where it *)
(* goes.                                                                   *)
(***************************************************************************)
Moved == /\ pc' \in [Requests -> Places]
         /\ job' \in [Requests -> Job]
         /\ \A q \in Requests : Fits(pc'[q], job'[q])

\* A request that moves to a place keeps its type, with what the place needs.
LEMMA MoveType ==
  ASSUME TypeOK, NEW p \in Requests, NEW place \in Places, NEW j \in Job,
         Fits(place, j),
         pc' = [pc EXCEPT ![p] = place],
         job' = [job EXCEPT ![p] = j]
  PROVE  Moved
<1>1. pc' \in [Requests -> Places] /\ job' \in [Requests -> Job]
  BY DEF TypeOK
<1>2. ASSUME NEW q \in Requests PROVE Fits(pc'[q], job'[q])
  <2>1. CASE q = p
    <3>1. pc'[q] = place /\ job'[q] = j
      BY <2>1 DEF TypeOK
    <3> QED
      BY <3>1
  <2>2. CASE q # p
    <3>1. pc'[q] = pc[q] /\ job'[q] = job[q]
      BY <2>2 DEF TypeOK
    <3> QED
      BY <3>1 DEF TypeOK
  <2> QED
    BY <2>1, <2>2
<1> QED
  BY <1>1, <1>2 DEF Moved

\* ... one that begins,
LEMMA BeginType ==
  ASSUME TypeOK, NEW p \in Requests, NEW place \in Places, NEW j \in Job,
         Fits(place, j), Begin(p, place, j)
  PROVE  Moved
BY MoveType DEF Begin

\* ... one that goes on with what it has,
LEMMA GoToType ==
  ASSUME TypeOK, NEW p \in Requests, NEW place \in Places,
         Fits(place, job[p]), GoTo(p, place)
  PROVE  Moved
<1>1. job[p] \in Job /\ job' = [job EXCEPT ![p] = job[p]]
  BY DEF TypeOK, GoTo
<1> QED
  BY <1>1, MoveType DEF GoTo

\* ... and one that ends.
LEMMA FinishType ==
  ASSUME TypeOK, NEW p \in Requests, Over(p) \/ Finish(p)
  PROVE  Moved
<1>1. "idle" \in Places /\ Fits("idle", NoJob)
  BY DEF Places, Fits
<1> QED
  BY <1>1, NoJobType, MoveType DEF Finish, Over

(***************************************************************************)
(* Every action moves one request that was not about to drop sessions, but *)
(* for DropUser, EndSession and Restart.                                   *)
(***************************************************************************)
LEMMA MovesOne ==
  ASSUME TypeOK, NEW p \in Requests,
         \/ Setup(p) \/ Login(p) \/ Issue(p)
         \/ ChangePassword(p) \/ Authenticate(p)
         \/ AddUser(p) \/ ResetPassword(p) \/ ChangeRole(p) \/ RemoveUser(p)
         \/ NotSelf(p) \/ LastRole(p) \/ LastCount(p)
         \/ InsertUser(p) \/ Write(p)
  PROVE  /\ pc[p] # "drop"
         /\ \E place, j : pc' = [pc EXCEPT ![p] = place] /\ job' = [job EXCEPT ![p] = j]
<1>1. \A place : GoTo(p, place) =>
        \E pl, j : pc' = [pc EXCEPT ![p] = pl] /\ job' = [job EXCEPT ![p] = j]
  <2>1. job = [job EXCEPT ![p] = job[p]]
    BY DEF TypeOK
  <2> QED
    BY <2>1 DEF GoTo
<1>2. Over(p) \/ Finish(p) =>
        \E pl, j : pc' = [pc EXCEPT ![p] = pl] /\ job' = [job EXCEPT ![p] = j]
  BY DEF Finish, Over
<1>3. \A place, j : Begin(p, place, j) =>
        /\ pc[p] = "idle"
        /\ \E pl, k : pc' = [pc EXCEPT ![p] = pl] /\ job' = [job EXCEPT ![p] = k]
  BY DEF Begin
<1>4. CASE \/ Setup(p) \/ Login(p) \/ ChangePassword(p)
           \/ AddUser(p) \/ ResetPassword(p) \/ ChangeRole(p) \/ RemoveUser(p)
  <2>1. \E place, j : Begin(p, place, j)
    BY <1>4, Zenon DEF Setup, Login, ChangePassword, AddUser, ResetPassword,
       ChangeRole, RemoveUser
  <2> QED
    BY <2>1, <1>3
<1>5. CASE Issue(p)
  BY <1>5, <1>2 DEF Issue
<1>6. CASE Authenticate(p)
  BY <1>6, <1>1, <1>2 DEF Authenticate
<1>7. CASE NotSelf(p)
  <2>1. CASE Finish(p)
    BY <2>1, <1>2, <1>7 DEF NotSelf
  <2>2. CASE /\ pc' = [pc EXCEPT ![p] = "lastRole"]
             /\ job' = [job EXCEPT ![p].tok = None]
    <3>1. job' = [job EXCEPT ![p] = [job[p] EXCEPT !.tok = None]]
      BY <2>2 DEF TypeOK
    <3> QED
      BY <2>2, <3>1, <1>7 DEF NotSelf
  <2> QED
    BY <2>1, <2>2, <1>7 DEF NotSelf
<1>8. CASE LastRole(p)
  BY <1>8, <1>1 DEF LastRole
<1>9. CASE LastCount(p)
  BY <1>9, <1>1, <1>2 DEF LastCount
<1>10. CASE InsertUser(p)
  BY <1>10, <1>1, <1>2 DEF InsertUser
<1>11. CASE Write(p)
  BY <1>11, <1>1, <1>2 DEF Write
<1> QED
  BY <1>4, <1>5, <1>6, <1>7, <1>8, <1>9, <1>10, <1>11

(***************************************************************************)
(* Every other request stays where it is, and is hurried only if the table *)
(* has changed under it.                                                   *)
(***************************************************************************)
Acts(p) ==
  \/ Setup(p) \/ Login(p) \/ Issue(p)
  \/ ChangePassword(p) \/ Authenticate(p)
  \/ AddUser(p) \/ ResetPassword(p) \/ ChangeRole(p) \/ RemoveUser(p)
  \/ NotSelf(p) \/ LastRole(p) \/ LastCount(p)
  \/ InsertUser(p) \/ Write(p) \/ DropUser(p)

\* Whoever acts, the others rest.
LEMMA OthersRest ==
  ASSUME TypeOK, NEW p \in Requests, Acts(p), NEW q \in Requests \ {p}
  PROVE  /\ pc'[q] = pc[q] /\ job'[q] = job[q]
         /\ q \in hurried' <=> q \in hurried \/ (users' # users /\ Outdated(q))
<1>1. pc'[q] = pc[q] /\ job'[q] = job[q]
  <2>1. CASE DropUser(p)
    BY <2>1 DEF DropUser, Finish, Over, TypeOK
  <2>2. CASE ~DropUser(p)
    BY <2>2, MovesOne DEF Acts, TypeOK
  <2> QED
    BY <2>1, <2>2
<1>2. Outdated(q) => users' # users
  BY DEF Outdated, Present, Admins
<1>3. Hurries(p) => (q \in hurried' <=> q \in hurried \/ (users' # users /\ Outdated(q)))
  BY <1>2 DEF Hurries
<1>4. users' = users /\ (UNCHANGED hurried \/ hurried' = hurried \cup {p}
                         \/ hurried' = hurried \ {p}) =>
        (q \in hurried' <=> q \in hurried \/ (users' # users /\ Outdated(q)))
  OBVIOUS
<1>5. \/ Hurries(p)
      \/ users' = users /\ (UNCHANGED hurried \/ hurried' = hurried \cup {p}
                             \/ hurried' = hurried \ {p})
  BY DEF Acts, Setup, Login, Issue, ChangePassword, Authenticate, AddUser, ResetPassword,
     ChangeRole, RemoveUser, NotSelf, LastRole, LastCount, InsertUser, Write, DropUser, Finish
<1> QED
  BY <1>1, <1>3, <1>4, <1>5

\* A hurried request is one that has read something and not yet acted on it.
LEMMA HurriedType ==
  ASSUME TypeOK, NEW p \in Requests, Acts(p), Moved
  PROVE  hurried' \subseteq {q \in Requests : pc'[q] \in {"insert", "issue", "write"}}
<1> DEFINE Place == {"insert", "issue", "write"}
<1>1. ASSUME NEW q \in hurried', q # p PROVE q \in Requests /\ pc'[q] \in Place
  <2>1. q \in Requests
    BY <1>1 DEF Acts, Setup, Login, Issue, ChangePassword, Authenticate, AddUser,
       ResetPassword, ChangeRole, RemoveUser, NotSelf, LastRole, LastCount, InsertUser,
       Write, DropUser, Finish, Hurries, TypeOK
  <2>2. pc'[q] = pc[q] /\ (q \in hurried \/ Outdated(q))
    BY <1>1, <2>1, OthersRest
  <2>3. pc[q] \in Place
    BY <2>2 DEF TypeOK, Outdated
  <2> QED
    BY <2>1, <2>2, <2>3
<1>2. ASSUME p \in hurried' PROVE pc'[p] \in Place
  <2>1. p \in hurried => pc[p] \in Place
    BY DEF TypeOK
  <2>2. CASE Setup(p)
    BY <2>2 DEF Setup, Begin, TypeOK
  <2>3. CASE LastRole(p)
    BY <2>1, <2>3, <1>2 DEF LastRole, GoTo, TypeOK
  <2>4. CASE \/ Login(p) \/ ChangePassword(p) \/ Authenticate(p) \/ AddUser(p)
             \/ ResetPassword(p) \/ ChangeRole(p) \/ RemoveUser(p) \/ NotSelf(p)
             \/ LastCount(p)
    <3>1. pc[p] \notin Place /\ (p \in hurried' => p \in hurried)
      BY <2>4 DEF Login, ChangePassword, Authenticate, AddUser, ResetPassword, ChangeRole,
         RemoveUser, NotSelf, LastCount, Begin, Finish
    <3> QED
      BY <3>1, <2>1, <1>2
  <2>5. CASE Issue(p) \/ InsertUser(p) \/ Write(p) \/ DropUser(p)
    BY <2>5, <1>2 DEF Issue, InsertUser, Write, DropUser, Finish, Hurries
  <2> QED
    BY <2>2, <2>3, <2>4, <2>5 DEF Acts
<1> QED
  BY <1>1, <1>2

(***************************************************************************)
(* Every action keeps the types: first those that only begin a request or  *)
(* take it further, then those that change accounts or sessions.           *)
(***************************************************************************)
LEMMA TypeBegin ==
  ASSUME TypeOK, NEW p \in Requests,
         \/ Setup(p) \/ Login(p) \/ ChangePassword(p)
         \/ AddUser(p) \/ ResetPassword(p) \/ ChangeRole(p) \/ RemoveUser(p)
  PROVE  TypeOK'
<1>1. {"insert", "issue", "auth", "write", "lastRole", "self"} \subseteq Places
  BY DEF Places
<1>2. UNCHANGED <<users, sess, legacy>>
  BY DEF Setup, Login, ChangePassword, AddUser, ResetPassword, ChangeRole, RemoveUser
<1>3. Moved
  <2>1. CASE Setup(p)
    <3>1. PICK n \in Names, w \in Passwords :
            Begin(p, "insert", [NoJob EXCEPT !.op = "setup", !.name = n, !.pass = w,
                                             !.role = RoleAdmin])
      BY <2>1 DEF Setup
    <3> DEFINE j == [NoJob EXCEPT !.op = "setup", !.name = n, !.pass = w,
                                  !.role = RoleAdmin]
    <3>2. j \in Job /\ Fits("insert", j)
      BY DEF NoJob, Job, Fits, Roles
    <3> QED
      BY <1>1, <3>1, <3>2, BeginType
  <2>2. CASE Login(p)
    <3>1. PICK n \in Present :
            Begin(p, "issue", [NoJob EXCEPT !.op = "login", !.name = n,
                                 !.pass = users[n].pass, !.role = users[n].role])
      BY <2>2 DEF Login
    <3> DEFINE j == [NoJob EXCEPT !.op = "login", !.name = n,
                                  !.pass = users[n].pass, !.role = users[n].role]
    <3>2. n \in Names /\ users[n] \in User
      BY DEF Present, TypeOK
    <3>3. j \in Job /\ Fits("issue", j)
      BY <3>2 DEF NoJob, Job, Fits, User
    <3> QED
      BY <1>1, <3>1, <3>3, BeginType
  <2>3. CASE ChangePassword(p)
    <3>1. PICK t \in Tokens, w \in Passwords :
            /\ sess[t] # None
            /\ Begin(p, "auth", [NoJob EXCEPT !.op = "password", !.name = sess[t].user,
                                              !.pass = w])
      BY <2>3 DEF ChangePassword
    <3> DEFINE j == [NoJob EXCEPT !.op = "password", !.name = sess[t].user,
                                  !.pass = w]
    <3>2. sess[t].user \in Names
      BY <3>1 DEF TypeOK, Session
    <3>3. j \in Job /\ Fits("auth", j)
      BY <3>2 DEF NoJob, Job, Fits
    <3> QED
      BY <1>1, <3>1, <3>3, BeginType
  <2>4. CASE AddUser(p)
    <3>1. PICK n \in Names, w \in Passwords, r \in Roles :
            Begin(p, "insert", [NoJob EXCEPT !.op = "create", !.name = n, !.pass = w,
                                             !.role = r])
      BY <2>4 DEF AddUser
    <3> DEFINE j == [NoJob EXCEPT !.op = "create", !.name = n, !.pass = w, !.role = r]
    <3>2. j \in Job /\ Fits("insert", j)
      BY DEF NoJob, Job, Fits
    <3> QED
      BY <1>1, <3>1, <3>2, BeginType
  <2>5. CASE ResetPassword(p)
    <3>1. PICK n \in Names, w \in Passwords :
            Begin(p, "write", [NoJob EXCEPT !.op = "password", !.name = n, !.pass = w])
      BY <2>5 DEF ResetPassword
    <3> DEFINE j == [NoJob EXCEPT !.op = "password", !.name = n, !.pass = w]
    <3>2. j \in Job /\ Fits("write", j)
      BY DEF NoJob, Job, Fits
    <3> QED
      BY <1>1, <3>1, <3>2, BeginType
  <2>6. CASE ChangeRole(p)
    <3>1. PICK n \in Names, r \in Roles :
            Begin(p, IF r = RoleAdmin THEN "write" ELSE "lastRole",
                  [NoJob EXCEPT !.op = "role", !.name = n, !.role = r])
      BY <2>6 DEF ChangeRole
    <3> DEFINE j == [NoJob EXCEPT !.op = "role", !.name = n, !.role = r]
               place == IF r = RoleAdmin THEN "write" ELSE "lastRole"
    <3>2. j \in Job /\ Fits(place, j) /\ place \in Places
      BY <1>1 DEF NoJob, Job, Fits, Takes, Roles
    <3> QED
      BY <3>1, <3>2, BeginType
  <2>7. CASE RemoveUser(p)
    <3>1. PICK t \in Tokens, n \in Names :
            Begin(p, "self", [NoJob EXCEPT !.op = "delete", !.tok = t, !.name = n])
      BY <2>7 DEF RemoveUser
    <3> DEFINE j == [NoJob EXCEPT !.op = "delete", !.tok = t, !.name = n]
    <3>2. j \in Job /\ Fits("self", j)
      BY DEF NoJob, Job, Fits, Takes
    <3> QED
      BY <1>1, <3>1, <3>2, BeginType
  <2> QED
    BY <2>1, <2>2, <2>3, <2>4, <2>5, <2>6, <2>7
<1> QED
  BY <1>2, <1>3, HurriedType DEF TypeOK, Moved, Acts

\* The checks before a write change nothing but the request.
LEMMA TypeCheck ==
  ASSUME TypeOK, NEW p \in Requests,
         Authenticate(p) \/ NotSelf(p) \/ LastRole(p) \/ LastCount(p)
  PROVE  TypeOK'
<1>1. {"write", "lastRole", "lastCount"} \subseteq Places
  BY DEF Places
<1>2. UNCHANGED <<users, sess, legacy>>
  BY DEF Authenticate, NotSelf, LastRole, LastCount
<1>3. job[p] \in Job /\ Fits(pc[p], job[p])
  BY DEF TypeOK
<1>4. Moved
  <2>1. CASE Authenticate(p)
    <3>1. Fits("write", job[p])
      BY <2>1, <1>3 DEF Authenticate, Fits, Job
    <3> QED
      BY <2>1, <3>1, <1>1, GoToType, FinishType DEF Authenticate
  <2>2. CASE NotSelf(p)
    <3>1. CASE Finish(p)
      BY <3>1, FinishType
    <3>2. CASE /\ pc' = [pc EXCEPT ![p] = "lastRole"]
               /\ job' = [job EXCEPT ![p].tok = None]
      <4> DEFINE j == [job[p] EXCEPT !.tok = None]
      <4>1. j \in Job /\ job' = [job EXCEPT ![p] = j]
        BY <1>3, <3>2 DEF Job
      <4>2. Fits("lastRole", j)
        BY <2>2, <1>3 DEF NotSelf, Fits, Takes, Job
      <4> QED
        BY <4>1, <4>2, <3>2, <1>1, MoveType
    <3> QED
      BY <2>2, <3>1, <3>2 DEF NotSelf
  <2>3. CASE LastRole(p)
    <3>1. Fits("write", job[p]) /\ Fits("lastCount", job[p])
      BY <2>3, <1>3 DEF LastRole, Fits, Takes, Job, Roles
    <3> QED
      BY <2>3, <3>1, <1>1, GoToType DEF LastRole
  <2>4. CASE LastCount(p)
    <3>1. Fits("write", job[p])
      BY <2>4, <1>3 DEF LastCount, Fits, Takes, Job, Roles
    <3> QED
      BY <2>4, <3>1, <1>1, GoToType, FinishType DEF LastCount
  <2> QED
    BY <2>1, <2>2, <2>3, <2>4
<1> QED
  BY <1>2, <1>4, HurriedType DEF TypeOK, Moved, Acts

\* A new session is the checked account's.
LEMMA TypeIssue ==
  ASSUME TypeOK, NEW p \in Requests, Issue(p)
  PROVE  TypeOK'
<1>1. Fits("issue", job[p])
  BY DEF TypeOK, Issue
<1>2. PICK t \in Tokens : sess' = [sess EXCEPT ![t] =
        [user |-> job[p].name, role |-> job[p].role, cred |-> job[p].pass,
         sound |-> p \notin hurried]]
  BY DEF Issue
<1>4. sess' \in [Tokens -> Session \cup {None}]
  BY <1>1, <1>2 DEF TypeOK, Session, Fits
<1>5. Moved
  BY FinishType DEF Issue
<1> QED
  BY <1>4, <1>5, HurriedType DEF TypeOK, Moved, Issue, Acts

\* A new account has a name, a password and a role.
LEMMA TypeInsert ==
  ASSUME TypeOK, NEW p \in Requests, InsertUser(p)
  PROVE  TypeOK'
<1>1. Fits("insert", job[p])
  BY DEF TypeOK, InsertUser
<1>2. [pass |-> job[p].pass, role |-> job[p].role] \in User
  BY <1>1 DEF Fits, User
<1>3. users' \in [Names -> User \cup {None}]
  BY <1>2 DEF TypeOK, InsertUser
<1>4. "issue" \in Places /\ Fits("issue", job[p])
  BY <1>1 DEF Places, Fits
<1>5. Moved
  BY <1>4, GoToType, FinishType DEF InsertUser
<1> QED
  BY <1>3, <1>5, HurriedType DEF TypeOK, Moved, InsertUser, Acts

\* A write changes an account that may be gone by now.
LEMMA TypeWrite ==
  ASSUME TypeOK, NEW p \in Requests, Write(p)
  PROVE  TypeOK'
<1>1. Fits("write", job[p])
  BY DEF TypeOK, Write
<1>2. users' \in [Names -> User \cup {None}]
  <2>1. CASE UNCHANGED users
    BY <2>1 DEF TypeOK
  <2>2. CASE users[job[p].name] # None /\ users' = Written(job[p])
    <3>1. users[job[p].name] \in User
      BY <2>2, <1>1 DEF TypeOK, Fits
    <3>2. CASE job[p].op = "password"
      BY <3>1, <3>2, <2>2, <1>1 DEF Written, TypeOK, User, Fits
    <3>3. CASE job[p].op = "role"
      BY <3>1, <3>3, <2>2, <1>1 DEF Written, TypeOK, User, Fits
    <3>4. CASE job[p].op = "delete"
      BY <3>4, <2>2 DEF Written, TypeOK
    <3> QED
      BY <3>2, <3>3, <3>4, <1>1 DEF Fits
  <2> QED
    BY <2>1, <2>2 DEF Write
<1>3. "drop" \in Places /\ Fits("drop", job[p])
  BY <1>1 DEF Places, Fits
<1>4. Moved
  BY <1>3, GoToType, FinishType DEF Write
<1> QED
  BY <1>2, <1>4, HurriedType DEF TypeOK, Moved, Write, Acts

\* DropUser only takes sessions away.
LEMMA TypeDrop ==
  ASSUME TypeOK, NEW p \in Requests, DropUser(p)
  PROVE  TypeOK'
<1>1. sess' \in [Tokens -> Session \cup {None}]
  BY DEF TypeOK, DropUser
<1>2. Moved
  BY FinishType DEF DropUser
<1> QED
  BY <1>1, <1>2, HurriedType DEF TypeOK, Moved, DropUser, Acts

\* So does a session's end.
LEMMA TypeEnd ==
  ASSUME TypeOK, NEW t \in Tokens, EndSession(t)
  PROVE  TypeOK'
<1>1. sess' \in [Tokens -> Session \cup {None}]
  BY DEF TypeOK, EndSession
<1> QED
  BY <1>1 DEF TypeOK, EndSession

\* A restart keeps the accounts and nothing else.
LEMMA TypeRestart ==
  ASSUME TypeOK, Restart
  PROVE  TypeOK'
<1>1. users' \in [Names -> User \cup {None}]
  BY MigratedType DEF TypeOK, Restart
<1>2. \A q \in Requests : Fits("idle", NoJob)
  BY DEF Fits
<1>3. pc' \in [Requests -> Places] /\ job' \in [Requests -> Job]
  BY NoJobType DEF Restart, Places
<1> QED
  BY <1>1, <1>2, <1>3 DEF TypeOK, Restart

\* Every step keeps the types.
LEMMA TypeNext == TypeOK /\ [Next]_vars => TypeOK'
<1> SUFFICES ASSUME TypeOK, [Next]_vars PROVE TypeOK'
  OBVIOUS
<1>1. CASE UNCHANGED vars
  BY <1>1 DEF vars, TypeOK
<1>2. CASE Next
  BY <1>2, TypeBegin, TypeCheck, TypeIssue, TypeInsert, TypeWrite, TypeDrop,
     TypeEnd, TypeRestart DEF Next
<1> QED
  BY <1>1, <1>2

(***************************************************************************)
(* Every variable keeps its type, and a request that has begun knows what  *)
(* it is about.                                                            *)
(***************************************************************************)
THEOREM AccountsTyped == Spec => []TypeOK
BY TypeInit, TypeNext, PTL DEF Spec

-----------------------------------------------------------------------------

(***************************************************************************)
(* What a request has read.  As long as it is not hurried, that is still   *)
(* so: the account a login is for, that there is none yet, or that another *)
(* administrator is left when the one it is about is gone.                 *)
(***************************************************************************)
Spares(j) == Takes(j) => j.name \notin Admins \/ \E a \in Admins : a # j.name

StillSo(p) ==
  /\ pc[p] = "issue" =>
       users[job[p].name] = [pass |-> job[p].pass, role |-> job[p].role]
  /\ pc[p] = "insert" /\ job[p].op = "setup" => Present = {}
  /\ pc[p] = "write" => Spares(job[p])

ReadInv == \A p \in Requests : p \notin hurried => StillSo(p)

\* Where there are two administrators, there is one beside any account.
LEMMA Another ==
  ASSUME TypeOK, Cardinality(Admins) > 1, NEW n
  PROVE  \E a \in Admins : a # n
<1> SUFFICES ASSUME Admins \subseteq {n} PROVE FALSE
  OBVIOUS
<1>1. IsFiniteSet({n}) /\ Cardinality({n}) = 1
  BY FS_Singleton
<1>2. Cardinality(Admins) \in Nat /\ Cardinality(Admins) <= 1
  BY <1>1, FS_Subset, FS_CardinalityType
<1> QED
  BY <1>2

\* What another request has read is still so, or that one is hurried now.
LEMMA ReadOther ==
  ASSUME TypeOK, ReadInv, NEW p \in Requests, Acts(p), NEW q \in Requests \ {p},
         q \notin hurried'
  PROVE  StillSo(q)'
<1>1. pc'[q] = pc[q] /\ job'[q] = job[q] /\ q \notin hurried
      /\ (users' = users \/ ~Outdated(q))
  BY OthersRest
<1>2. StillSo(q)
  BY <1>1 DEF ReadInv
<1>3. CASE users' = users
  BY <1>1, <1>2, <1>3 DEF StillSo, Spares, Present, Admins
<1>4. CASE ~Outdated(q)
  <2>1. Spares(job[q]) /\ (Takes(job[q]) => Admins' = Admins) => Spares(job[q])'
    BY <1>1 DEF Spares, Takes
  <2> QED
    BY <1>1, <1>2, <1>4, <2>1 DEF StillSo, Outdated
<1> QED
  BY <1>1, <1>3, <1>4

\* A request that begins has read nothing yet, or what it has read is so.
LEMMA ReadBegin ==
  ASSUME TypeOK, NEW p \in Requests, p \notin hurried',
         \/ Setup(p) \/ Login(p) \/ ChangePassword(p)
         \/ AddUser(p) \/ ResetPassword(p) \/ ChangeRole(p) \/ RemoveUser(p)
  PROVE  StillSo(p)'
<1>1. users' = users
  BY DEF Setup, Login, ChangePassword, AddUser, ResetPassword, ChangeRole, RemoveUser
<1>2. ASSUME NEW place, NEW j, Begin(p, place, j),
             place = "issue" => users[j.name] = [pass |-> j.pass, role |-> j.role],
             place = "insert" /\ j.op = "setup" => Present = {},
             place = "write" => ~Takes(j)
      PROVE  StillSo(p)'
  <2>1. pc'[p] = place /\ job'[p] = j
    BY <1>2 DEF Begin, TypeOK
  <2> QED
    BY <1>1, <1>2, <2>1 DEF StillSo, Spares, Takes, Present
<1>3. CASE Setup(p)
  <2>1. PICK n \in Names, w \in Passwords :
          Begin(p, "insert", [NoJob EXCEPT !.op = "setup", !.name = n, !.pass = w,
                                           !.role = RoleAdmin])
    BY <1>3 DEF Setup
  <2>2. Present = {}
    BY <1>3 DEF Setup, NeedsSetup
  <2>3. "insert" # "issue" /\ "insert" # "write"
    OBVIOUS
  <2> QED
    BY <1>2, <2>1, <2>2, <2>3
<1>4. CASE Login(p)
  <2>1. PICK n \in Present :
          Begin(p, "issue", [NoJob EXCEPT !.op = "login", !.name = n,
                               !.pass = users[n].pass, !.role = users[n].role])
    BY <1>4 DEF Login
  <2> DEFINE j == [NoJob EXCEPT !.op = "login", !.name = n,
                                !.pass = users[n].pass, !.role = users[n].role]
  <2>2. users[n] \in User
    BY DEF Present, TypeOK
  <2>3. j.name = n /\ j.pass = users[n].pass /\ j.role = users[n].role
    BY DEF NoJob
  <2>4. users[j.name] = [pass |-> j.pass, role |-> j.role]
    BY <2>2, <2>3 DEF User
  <2>5. "issue" # "insert" /\ "issue" # "write"
    OBVIOUS
  <2> QED
    BY <1>2, <2>1, <2>4, <2>5
<1>5. CASE AddUser(p)
  <2>1. PICK n \in Names, w \in Passwords, r \in Roles :
          Begin(p, "insert", [NoJob EXCEPT !.op = "create", !.name = n, !.pass = w,
                                           !.role = r])
    BY <1>5 DEF AddUser
  <2>2. [NoJob EXCEPT !.op = "create", !.name = n, !.pass = w, !.role = r].op # "setup"
    BY DEF NoJob
  <2>3. "insert" # "issue" /\ "insert" # "write"
    OBVIOUS
  <2> QED
    BY <1>2, <2>1, <2>2, <2>3
<1>6. CASE ResetPassword(p)
  <2>1. PICK n \in Names, w \in Passwords :
          Begin(p, "write", [NoJob EXCEPT !.op = "password", !.name = n, !.pass = w])
    BY <1>6 DEF ResetPassword
  <2>2. ~Takes([NoJob EXCEPT !.op = "password", !.name = n, !.pass = w])
    BY DEF NoJob, Takes
  <2>3. "write" # "issue" /\ "write" # "insert"
    OBVIOUS
  <2> QED
    BY <1>2, <2>1, <2>2, <2>3
<1>7. CASE ChangeRole(p)
  <2>1. PICK n \in Names, r \in Roles :
          Begin(p, IF r = RoleAdmin THEN "write" ELSE "lastRole",
                [NoJob EXCEPT !.op = "role", !.name = n, !.role = r])
    BY <1>7 DEF ChangeRole
  <2> DEFINE place == IF r = RoleAdmin THEN "write" ELSE "lastRole"
  <2>2. r = RoleAdmin => ~Takes([NoJob EXCEPT !.op = "role", !.name = n, !.role = r])
    BY DEF NoJob, Takes, RoleAdmin, RoleViewer
  <2>3. place # "issue" /\ place # "insert" /\ (place = "write" => r = RoleAdmin)
    OBVIOUS
  <2> HIDE DEF place
  <2> QED
    BY <1>2, <2>1, <2>2, <2>3 DEF place
<1>8. CASE ChangePassword(p) \/ RemoveUser(p)
  <2>1. PICK place \in {"auth", "self"} : \E j : Begin(p, place, j)
    BY <1>8, Zenon DEF ChangePassword, RemoveUser
  <2> QED
    BY <1>2, <2>1
<1> QED
  BY <1>3, <1>4, <1>5, <1>6, <1>7, <1>8

\* One that goes on has just read it, or is done.
LEMMA ReadGoOn ==
  ASSUME TypeOK, NEW p \in Requests, p \notin hurried',
         \/ Issue(p) \/ Authenticate(p) \/ NotSelf(p) \/ LastRole(p) \/ LastCount(p)
         \/ InsertUser(p) \/ Write(p) \/ DropUser(p)
  PROVE  StillSo(p)'
<1>1. pc'[p] \notin {"issue", "insert", "write"} => StillSo(p)'
  BY DEF StillSo
<1>2. Over(p) \/ Finish(p) => StillSo(p)'
  BY <1>1 DEF Finish, Over, TypeOK
<1>3. GoTo(p, "write") /\ users' = users /\ Spares(job[p]) => StillSo(p)'
  BY DEF GoTo, StillSo, Spares, Takes, Admins, Present, TypeOK
<1>4. CASE Authenticate(p)
  <2>1. Spares(job[p])
    BY <1>4 DEF Authenticate, TypeOK, Fits, Spares, Takes
  <2> QED
    BY <1>4, <2>1, <1>2, <1>3 DEF Authenticate
<1>5. CASE NotSelf(p)
  BY <1>5, <1>1, <1>2 DEF NotSelf, TypeOK
<1>6. CASE LastRole(p)
  <2>1. CASE job[p].name \notin Admins /\ GoTo(p, "write")
    BY <1>6, <2>1, <1>3 DEF LastRole, Spares
  <2>2. CASE GoTo(p, "lastCount")
    BY <2>2, <1>1 DEF GoTo, TypeOK
  <2> QED
    BY <1>6, <2>1, <2>2 DEF LastRole
<1>7. CASE LastCount(p)
  <2>1. CASE Cardinality(Admins) > 1 /\ GoTo(p, "write")
    <3>1. Spares(job[p])
      BY <2>1, Another DEF Spares
    <3> QED
      BY <1>7, <2>1, <3>1, <1>3 DEF LastCount
  <2> QED
    BY <1>7, <2>1, <1>2 DEF LastCount
<1>8. CASE InsertUser(p)
  <2>1. CASE GoTo(p, "issue")
    <3>1. /\ users' = [users EXCEPT ![job[p].name] = [pass |-> job[p].pass,
                                                      role |-> job[p].role]]
          /\ job' = job /\ job[p].name \in Names /\ pc'[p] = "issue"
      BY <1>8, <2>1 DEF InsertUser, Finish, Over, GoTo, TypeOK, Fits
    <3>2. users'[job'[p].name] = [pass |-> job'[p].pass, role |-> job'[p].role]
      BY <3>1 DEF TypeOK
    <3> QED
      BY <3>1, <3>2 DEF StillSo
  <2> QED
    BY <1>8, <2>1, <1>2 DEF InsertUser
<1>9. CASE Write(p)
  BY <1>9, <1>1, <1>2 DEF Write, GoTo, TypeOK
<1>10. CASE Issue(p) \/ DropUser(p)
  BY <1>10, <1>2 DEF Issue, DropUser
<1> QED
  BY <1>4, <1>5, <1>6, <1>7, <1>8, <1>9, <1>10

\* Whatever happens, what an unhurried request has read is still so.
LEMMA ReadNext == TypeOK /\ ReadInv /\ [Next]_vars => ReadInv'
<1> SUFFICES ASSUME TypeOK, ReadInv, [Next]_vars,
                    NEW q \in Requests, q \notin hurried'
             PROVE  StillSo(q)'
  BY DEF ReadInv
<1>1. ASSUME NEW p \in Requests, Acts(p) PROVE StillSo(q)'
  BY <1>1, ReadOther, ReadBegin, ReadGoOn DEF Acts
<1>2. CASE UNCHANGED <<users, pc, job, hurried>>
  BY <1>2 DEF ReadInv, StillSo, Spares, Present, Admins
<1>3. CASE Restart
  BY <1>3 DEF Restart, StillSo
<1>4. Next => Restart \/ UNCHANGED <<users, pc, job, hurried>> \/ \E p \in Requests : Acts(p)
  BY DEF Next, Acts, EndSession
<1> QED
  BY <1>1, <1>2, <1>3, <1>4 DEF vars

-----------------------------------------------------------------------------

(***************************************************************************)
(* Sessions.  Pending(n): a request has changed account n and is about to  *)
(* drop its sessions.                                                      *)
(***************************************************************************)
Pending(n) == \E q \in Requests : pc[q] = "drop" /\ job[q].name = n

(***************************************************************************)
(* Only the request itself takes away its promise.                         *)
(***************************************************************************)
LEMMA PendingStays ==
  ASSUME TypeOK, NEW p \in Requests, pc[p] # "drop", NEW place, NEW j,
         pc' = [pc EXCEPT ![p] = place], job' = [job EXCEPT ![p] = j],
         NEW n, Pending(n)
  PROVE  Pending(n)'
<1>1. PICK q \in Requests : pc[q] = "drop" /\ job[q].name = n
  BY DEF Pending
<1>2. pc'[q] = "drop" /\ job'[q].name = n
  BY <1>1 DEF TypeOK
<1> QED
  BY <1>2 DEF Pending

\* Every step keeps the promise to drop what a write has outlived.
LEMMA OutlivedNext == TypeOK /\ TypeOK' /\ ReadInv /\ NoOutlived /\ [Next]_vars => NoOutlived'
<1> SUFFICES ASSUME TypeOK, TypeOK', ReadInv, NoOutlived, [Next]_vars,
                    NEW t \in Tokens,
                    sess'[t] # None, sess'[t].sound, ~Agrees(sess[t])'
             PROVE  Pending(sess[t].user)'
  BY DEF NoOutlived, Pending
<1>1. sess[t] # None /\ sess[t].sound /\ ~Agrees(sess[t]) => Pending(sess[t].user)
  BY DEF NoOutlived, Pending
<1>2. CASE UNCHANGED vars
  <2>1. sess'[t] = sess[t] /\ ~Agrees(sess[t])
    BY <1>2 DEF vars, Agrees
  <2> QED
    BY <2>1, <1>1, <1>2 DEF vars, Pending
<1>3. ASSUME NEW p \in Requests,
             \/ Setup(p) \/ Login(p) \/ ChangePassword(p) \/ Authenticate(p)
             \/ AddUser(p) \/ ResetPassword(p) \/ ChangeRole(p) \/ RemoveUser(p)
             \/ NotSelf(p) \/ LastRole(p) \/ LastCount(p)
      PROVE  Pending(sess[t].user)'
  <2>1. UNCHANGED <<users, sess>>
    BY <1>3 DEF Setup, Login, ChangePassword, Authenticate, AddUser, ResetPassword,
       ChangeRole, RemoveUser, NotSelf, LastRole, LastCount
  <2>2. ~Agrees(sess[t]) /\ sess'[t] = sess[t]
    BY <2>1 DEF Agrees
  <2>3. Pending(sess[t].user)
    BY <2>2, <1>1
  <2> QED
    BY <2>1, <2>3, <1>3, MovesOne, PendingStays
<1>4. ASSUME NEW p \in Requests, Issue(p)
      PROVE  Pending(sess[t].user)'
  <2>1. PICK u \in Tokens : sess' = [sess EXCEPT ![u] =
          [user |-> job[p].name, role |-> job[p].role, cred |-> job[p].pass,
           sound |-> p \notin hurried]]
    BY <1>4 DEF Issue
  <2>2. users' = users
    BY <1>4 DEF Issue
  <2>3. t # u
    <3> SUFFICES ASSUME t = u PROVE FALSE
      OBVIOUS
    <3>1. sess'[t] = [user |-> job[p].name, role |-> job[p].role, cred |-> job[p].pass,
                      sound |-> p \notin hurried]
      BY <2>1 DEF TypeOK
    <3>2. p \notin hurried
      <4> SUFFICES ASSUME p \in hurried PROVE FALSE
        OBVIOUS
      <4>1. (p \notin hurried) = FALSE
        OBVIOUS
      <4>2. sess'[t] = [user |-> job[p].name, role |-> job[p].role, cred |-> job[p].pass,
                        sound |-> FALSE]
        BY <3>1, <4>1
      <4> QED
        BY <4>2
    <3>3. users[job[p].name] = [pass |-> job[p].pass, role |-> job[p].role]
          /\ job[p].pass \in Passwords /\ job[p].role \in Roles
      BY <1>4, <3>2 DEF Issue, ReadInv, StillSo, TypeOK, Fits
    <3>4. users[job[p].name] # None
      BY <3>3, AccountsAssumption DEF User
    <3> QED
      BY <3>1, <3>3, <3>4, <2>2 DEF Agrees
  <2>4. sess'[t] = sess[t] /\ ~Agrees(sess[t])
    BY <2>1, <2>2, <2>3 DEF Agrees, TypeOK
  <2>5. Pending(sess[t].user)
    BY <2>4, <1>1
  <2> QED
    BY <2>4, <2>5, <1>4, MovesOne, PendingStays
<1>5. ASSUME NEW p \in Requests, InsertUser(p)
      PROVE  Pending(sess[t].user)'
  <2>1. sess' = sess
    BY <1>5 DEF InsertUser
  <2>2. \A n \in Names : users[n] # None => users'[n] = users[n]
    BY <1>5 DEF InsertUser, TypeOK
  <2>3. sess[t].user \in Names
    BY <2>1 DEF TypeOK, Session
  <2>4. ~Agrees(sess[t])
    BY <2>1, <2>2, <2>3 DEF Agrees
  <2>5. Pending(sess[t].user)
    BY <2>1, <2>4, <1>1
  <2> QED
    BY <2>1, <2>5, <1>5, MovesOne, PendingStays
<1>6. ASSUME NEW p \in Requests, Write(p)
      PROVE  Pending(sess[t].user)'
  <2>1. sess' = sess
    BY <1>6 DEF Write
  <2>2. CASE UNCHANGED users
    <3>1. Pending(sess[t].user)
      BY <2>1, <2>2, <1>1 DEF Agrees
    <3> QED
      BY <2>1, <3>1, <1>6, MovesOne, PendingStays
  <2>3. CASE users' = Written(job[p]) /\ GoTo(p, "drop")
    <3>1. CASE job[p].name = sess[t].user
      <4>1. pc'[p] = "drop" /\ job'[p].name = sess[t].user
        BY <2>3, <3>1 DEF GoTo, TypeOK
      <4> QED
        BY <2>1, <4>1 DEF Pending
    <3>2. CASE job[p].name # sess[t].user
      <4>1. Fits("write", job[p])
        BY <1>6 DEF Write, TypeOK
      <4>2. sess[t].user \in Names
        BY <2>1 DEF TypeOK, Session
      <4>3. users'[sess[t].user] = users[sess[t].user]
        BY <2>3, <3>2, <4>1, <4>2 DEF Written, Fits, TypeOK
      <4>4. Pending(sess[t].user)
        BY <2>1, <4>3, <1>1 DEF Agrees
      <4> QED
        BY <2>1, <4>4, <1>6, MovesOne, PendingStays
    <3> QED
      BY <3>1, <3>2
  <2> QED
    BY <2>2, <2>3, <1>6 DEF Write
<1>7. ASSUME NEW p \in Requests, DropUser(p)
      PROVE  Pending(sess[t].user)'
  <2>1. sess'[t] = sess[t] /\ sess[t].user # job[p].name /\ users' = users
    BY <1>7 DEF DropUser, TypeOK
  <2>2. PICK q \in Requests : pc[q] = "drop" /\ job[q].name = sess[t].user
    BY <2>1, <1>1 DEF Agrees, Pending
  <2>3. pc'[q] = "drop" /\ job'[q].name = sess[t].user
    BY <2>1, <2>2, <1>7 DEF DropUser, Finish, Over, TypeOK
  <2> QED
    BY <2>1, <2>3 DEF Pending
<1>8. ASSUME NEW u \in Tokens, EndSession(u)
      PROVE  Pending(sess[t].user)'
  <2>1. sess'[t] = sess[t] /\ UNCHANGED <<users, pc, job>>
    BY <1>8 DEF EndSession, TypeOK
  <2> QED
    BY <2>1, <1>1 DEF Agrees, Pending
<1>9. CASE Restart
  BY <1>9 DEF Restart
<1>10. CASE Next
  BY <1>10, <1>3, <1>4, <1>5, <1>6, <1>7, <1>8, <1>9, Zenon DEF Next
<1> QED
  BY <1>2, <1>10

(***************************************************************************)
(* A session never outlives the account it was issued for, as its login    *)
(* read it: as soon as they differ, its end is pending (NoOutlived;        *)
(* users.go, web.go: dropUser).                                            *)
(***************************************************************************)
THEOREM SessionsFollow == Spec => []NoOutlived
<1>1. Init => NoOutlived /\ ReadInv
  BY DEF Init, NoOutlived, ReadInv, StillSo
<1> QED
  BY <1>1, TypeInit, TypeNext, ReadNext, OutlivedNext, PTL DEF Spec

-----------------------------------------------------------------------------

(***************************************************************************)
(* What a step that leaves no administrator is: the write of a hurried     *)
(* request.                                                                *)
(***************************************************************************)
LEMMA AdminStep ==
  ASSUME TypeOK, ReadInv, [Next]_vars, Admins # {}, Admins' = {}
  PROVE  \E p \in hurried : pc[p] = "write" /\ pc'[p] = "drop"
<1>1. PICK a \in Admins : TRUE
  OBVIOUS
<1>2. a \in Names /\ users[a] # None /\ users[a] \in User /\ users[a].role = RoleAdmin
  BY DEF Admins, Present, TypeOK
<1>3. \A n \in Admins : users'[n] # users[n]
  BY DEF Admins, Present
<1>4. ASSUME NEW p \in Requests, InsertUser(p) PROVE FALSE
  <2>1. users'[a] = users[a]
    BY <1>2, <1>4 DEF InsertUser, TypeOK
  <2> QED
    BY <2>1, <1>3
<1>5. ASSUME NEW p \in Requests, Write(p)
      PROVE  p \in hurried /\ pc[p] = "write" /\ pc'[p] = "drop"
  <2>1. users' = Written(job[p]) /\ pc[p] = "write" /\ pc'[p] = "drop"
    BY <1>3, <1>5 DEF Write, GoTo, TypeOK
  <2>2. Fits("write", job[p])
    BY <2>1 DEF TypeOK
  <2>3. SUFFICES ASSUME p \notin hurried PROVE FALSE
    BY <2>1
  <2>4. \A n \in Names : n # job[p].name => users'[n] = users[n]
    BY <2>1, <2>2 DEF Written, Fits, TypeOK
  <2>5. job[p].name = a
    BY <1>2, <1>3, <2>4
  <2>6. CASE Takes(job[p])
    <3>1. Spares(job[p])
      BY <2>1, <2>3 DEF ReadInv, StillSo
    <3>2. PICK b \in Admins : b # a
      BY <2>5, <2>6, <3>1 DEF Spares
    <3>3. b \in Names
      BY DEF Admins, Present
    <3> QED
      BY <1>3, <2>4, <2>5, <3>2, <3>3
  <2>7. CASE job[p].op = "password" \/ (job[p].op = "role" /\ job[p].role = RoleAdmin)
    <3>1. users'[a] \in User /\ users'[a].role = RoleAdmin
      BY <1>2, <2>1, <2>2, <2>5, <2>7 DEF Written, Fits, TypeOK, User
    <3>2. users'[a] # None
      BY <3>1, AccountsAssumption
    <3> QED
      BY <1>2, <3>1, <3>2 DEF Admins, Present
  <2> QED
    BY <2>2, <2>6, <2>7 DEF Fits, Roles, Takes
<1>6. CASE Restart
  BY <1>2, <1>3, <1>6 DEF Restart, Migrated
<1>7. \A p \in Requests : Acts(p) => InsertUser(p) \/ Write(p) \/ UNCHANGED users
  BY DEF Acts, Setup, Login, Issue, ChangePassword, Authenticate, AddUser, ResetPassword,
     ChangeRole, RemoveUser, NotSelf, LastRole, LastCount, DropUser
<1>8. Next => Restart \/ UNCHANGED users \/ \E p \in Requests : Acts(p)
  BY DEF Next, Acts, EndSession
<1>9. users' # users
  BY <1>1, <1>3
<1> QED
  BY <1>4, <1>5, <1>6, <1>7, <1>8, <1>9 DEF vars

(***************************************************************************)
(* SetRole and DeleteUser take away the last administrator only where the  *)
(* administrators have changed since isLastAdmin read them, or its first   *)
(* query failed; nothing else takes the last one away, however requests    *)
(* overlap, statements fail and the process restarts (LastAdminKept;       *)
(* users.go: isLastAdmin).                                                 *)
(***************************************************************************)
THEOREM LastAdminStays == Spec => LastAdminKept
<1>1. Init => ReadInv
  BY DEF Init, ReadInv, StillSo
<1>2. TypeOK /\ ReadInv /\ [Next]_vars =>
        [Admins # {} /\ Admins' = {} =>
           \E p \in hurried : pc[p] = "write" /\ pc'[p] = "drop"]_vars
  BY AdminStep
<1> QED
  BY <1>1, <1>2, TypeInit, TypeNext, ReadNext, PTL DEF Spec, LastAdminKept

(***************************************************************************)
(* The account that the first-run form makes is the first, unless another  *)
(* request made one after this one had looked, or the look failed          *)
(* (SetupClosed; web.go: handleSetup).                                     *)
(***************************************************************************)
THEOREM SetupMakesTheFirst == Spec => SetupClosed
<1> DEFINE Made(p) == p \notin hurried /\ job[p].op = "setup" /\ users' # users /\ pc[p] # pc'[p]
<1>1. Init => ReadInv
  BY DEF Init, ReadInv, StillSo
<1>2. ASSUME TypeOK, ReadInv, [Next]_vars, NEW p \in Requests, Made(p)
      PROVE  Present = {}
  <2>1. CASE Restart
    BY <1>2, <2>1 DEF Restart, Migrated, Present
  <2>2. ASSUME NEW q \in Requests, Acts(q) PROVE Present = {}
    <3>1. q = p
      BY <1>2, <2>2, OthersRest
    <3>2. CASE InsertUser(q)
      BY <1>2, <3>1, <3>2 DEF InsertUser, ReadInv, StillSo
    <3>3. CASE Write(q)
      BY <1>2, <3>1, <3>3 DEF Write, TypeOK, Fits
    <3>4. InsertUser(q) \/ Write(q)
      BY <1>2, <2>2 DEF Acts, Setup, Login, Issue, ChangePassword, Authenticate, AddUser,
         ResetPassword, ChangeRole, RemoveUser, NotSelf, LastRole, LastCount, DropUser
    <3> QED
      BY <3>2, <3>3, <3>4
  <2>3. Next => Restart \/ UNCHANGED users \/ \E q \in Requests : Acts(q)
    BY DEF Next, Acts, EndSession
  <2> QED
    BY <1>2, <2>1, <2>2, <2>3 DEF vars
<1>3. TypeOK /\ ReadInv /\ [Next]_vars => [\A p \in Requests : Made(p) => Present = {}]_vars
  BY <1>2
<1> QED
  BY <1>1, <1>3, TypeInit, TypeNext, ReadNext, PTL DEF Spec, SetupClosed

=============================================================================
