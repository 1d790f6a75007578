------------------------- MODULE AdministrationProofs -------------------------
(***************************************************************************)
(* Accounts for any number of people, requests and sessions: whoever a     *)
(* request or a session is about is an account, open registration makes    *)
(* one administrator, and a change of password or activity ends the        *)
(* sessions it condemns.  Then the settings, for any number of tabs and    *)
(* nodes: nobody is sent to Anthropic first without a key, and with no     *)
(* read under way across a change every copy of the engine's address and   *)
(* every page that says it is current is right.                            *)
(***************************************************************************)
EXTENDS Access, AdminSettings, FiniteSetTheorems, TLAPS


(* Under the lock at most one registration is between its recount and its *)
(* insert; one of open registration has seen that nobody was ever opened. *)
LockInv == \A t \in Tasks : task[t].pc \in {"recount", "insert"} => lock = {t}
OpenedThere == \A u \in opened : user[u].there
InsertFresh == \A t \in Tasks : task[t].pc = "insert" /\ task[t].own = 0 => opened = {}
OneOpened == \A u, v \in opened : u = v

IInv == TypeOK /\ LockInv /\ OpenedThere /\ InsertFresh /\ OneOpened

UsersOK == user \in [Users -> Account]
SessionsOK == session \in [Sids -> Session]
TasksOK ==
    /\ task \in [Tasks -> Request]
    /\ \A t \in Tasks : task[t].pc \notin {"idle", "roll"} => task[t].who \in Users
BoundsOK == born \in 0..MaxSessions /\ requests \in 0..MaxCalls

LEMMA TypeParts ==
    /\ TypeOK <=> /\ UsersOK /\ SessionsOK /\ TasksOK /\ BoundsOK
                  /\ lock \subseteq Tasks /\ opened \subseteq Users
    /\ TypeOK' <=> /\ UsersOK' /\ SessionsOK' /\ TasksOK' /\ BoundsOK'
                   /\ lock' \subseteq Tasks /\ opened' \subseteq Users
  BY DEF TypeOK, UsersOK, SessionsOK, TasksOK, BoundsOK

(* Nobody is removed, and no request becomes one that holds the lock.      *)
NoneRemoved == \A u \in Users : user[u].there => user'[u].there
NoneLocks ==
    \A t \in Tasks : task'[t].pc \in {"recount", "insert"} =>
        task'[t].pc = task[t].pc /\ task'[t].own = task[t].own

LEMMA BystandersKeep ==
    ASSUME IInv, NoneRemoved, NoneLocks, UNCHANGED <<lock, opened>>,
           UsersOK', SessionsOK', TasksOK', BoundsOK'
    PROVE  IInv'
<1>1. TypeOK'
  BY TypeParts DEF IInv
<1>2. LockInv' /\ InsertFresh'
  BY DEF IInv, LockInv, InsertFresh, NoneLocks
<1>3. OpenedThere' /\ OneOpened'
  BY TypeParts DEF IInv, OpenedThere, OneOpened, NoneRemoved
<1> QED BY <1>1, <1>2, <1>3 DEF IInv

(* A request that ends up neither in the recount nor in the insert.        *)
LEMMA TaskMoves ==
    ASSUME TasksOK, NEW t \in Tasks, NEW r \in Request, task' = [task EXCEPT ![t] = r],
           r.pc \notin {"recount", "insert"}, r.pc \notin {"idle", "roll"} => r.who \in Users
    PROVE  TasksOK' /\ NoneLocks
  BY DEF TasksOK, NoneLocks

LEMMA Goes ==
    ASSUME TasksOK, NEW t \in Tasks, NEW pc \in Pc \ {"recount", "insert", "idle", "roll"},
           Goto(t, pc), task[t].pc \notin {"idle", "roll"}
    PROVE  TasksOK' /\ NoneLocks
<1> DEFINE r == [task[t] EXCEPT !.pc = pc]
<1>1. task' = [task EXCEPT ![t] = r]
  BY DEF Goto
<1>2. r \in Request /\ r.pc = pc /\ r.who = task[t].who
  BY DEF TasksOK, Request
<1>3. task[t].who \in Users
  BY DEF TasksOK
<1> HIDE DEF r
<1> QED BY <1>1, <1>2, <1>3, TaskMoves

LEMMA RestIsRequest == Rest \in Request /\ Rest.pc = "idle"
  BY DEF Rest, Request, Pc, Roles

LEMMA Finishes ==
    ASSUME TasksOK, NEW t \in Tasks, Finish(t)
    PROVE  TasksOK' /\ NoneLocks
  BY RestIsRequest, TaskMoves DEF Finish

LEMMA BeginKeeps ==
    ASSUME TasksOK, BoundsOK, NEW t \in Tasks, NEW r \in Request, Begin(t, r), born' = born,
           r.pc \notin {"recount", "insert"}, r.pc \notin {"idle", "roll"} => r.who \in Users
    PROVE  TasksOK' /\ NoneLocks /\ BoundsOK'
<1>1. task' = [task EXCEPT ![t] = r]
  BY DEF Begin
<1>2. BoundsOK'
  BY AccessAssumption DEF Begin, BoundsOK
<1> QED BY <1>1, <1>2, TaskMoves

LEMMA NobodyThere == ASSUME countUsers = 0 PROVE \A u \in Users : ~user[u].there
<1> DEFINE There == {u \in Users : user[u].there}
<1>1. IsFiniteSet(There)
  BY AccessAssumption, FS_Subset
<1>2. There = {}
  BY <1>1, FS_EmptySet DEF countUsers
<1> QED BY <1>2

(* Requests begin.                                                         *)
LEMMA StartKeeps == ASSUME IInv, NEW t \in Tasks, Start(t) PROVE IInv'
<1> USE DEF Pc, Roles
<1>1. UsersOK /\ SessionsOK /\ TasksOK /\ BoundsOK
  BY TypeParts DEF IInv
<1>2. \A u \in Users : user[u].hash \in Nat /\ user[u].role \in Roles
  BY <1>1 DEF UsersOK, Account
<1>3. \A s \in Sids : s \in Nat /\ (session[s] # NoSession => session[s].user \in Users)
  BY <1>1, AccessAssumption DEF SessionsOK, Session, Sids
<1> DEFINE Keeps == UsersOK' /\ SessionsOK' /\ TasksOK' /\ BoundsOK'
                    /\ NoneRemoved /\ NoneLocks /\ UNCHANGED <<lock, opened>>
<1>4. ASSUME NEW r \in Request, Begin(t, r), UNCHANGED <<user, session, born, lock, opened>>,
             r.pc \notin {"recount", "insert", "idle"}, r.pc # "roll" => r.who \in Users
      PROVE  Keeps
  BY <1>1, <1>4, BeginKeeps DEF UsersOK, SessionsOK, NoneRemoved
<1>5. ASSUME NEW u \in Users, StartRegister(t, u) PROVE Keeps
  <2>1. [Rest EXCEPT !.pc = "lock", !.who = u] \in Request
    BY DEF Rest, Request
  <2> QED BY <1>4, <1>5, <2>1 DEF StartRegister, Rest
<1>6. ASSUME NEW u \in Users, StartLogin(t, u) PROVE Keeps
  <2>1. [Rest EXCEPT !.pc = "create", !.who = u, !.hash = user[u].hash] \in Request
    BY <1>2 DEF Rest, Request
  <2> QED BY <1>4, <1>6, <2>1 DEF StartLogin, Rest
<1>7. ASSUME NEW u \in Users, StartDisable(t, u) PROVE Keeps
  <2>1. [Rest EXCEPT !.pc = "disable", !.who = u] \in Request
    BY DEF Rest, Request
  <2> QED BY <1>4, <1>7, <2>1 DEF StartDisable, Rest
<1>8. ASSUME NEW u \in Users, NEW role \in Roles, StartSso(t, u, role) PROVE Keeps
  <2>1. CASE user[u].there
    <3> DEFINE pc == IF user[u].role = role THEN "create" ELSE "role"
    <3>1. [Rest EXCEPT !.pc = pc, !.who = u, !.sso = TRUE, !.role = role] \in Request
      BY <1>2 DEF Rest, Request
    <3> QED BY <1>4, <1>8, <2>1, <3>1 DEF StartSso, Rest
  <2>2. CASE ~user[u].there
    <3> DEFINE r == [Rest EXCEPT !.pc = "create", !.who = u, !.sso = TRUE]
               new == [NoAccount EXCEPT !.there = TRUE, !.role = role, !.on = TRUE]
    <3>1. r \in Request /\ r.pc = "create" /\ r.who = u
      BY DEF Rest, Request
    <3>2. new \in Account /\ new.there
      BY DEF NoAccount, Account
    <3>3. Begin(t, r) /\ user' = [user EXCEPT ![u] = new] /\ UNCHANGED <<session, born, lock, opened>>
      BY <1>8, <2>2 DEF StartSso
    <3> HIDE DEF r, new
    <3>4. TasksOK' /\ NoneLocks /\ BoundsOK'
      BY <1>1, <3>1, <3>3, BeginKeeps
    <3>5. UsersOK' /\ NoneRemoved
      BY <1>1, <3>2, <3>3 DEF UsersOK, NoneRemoved
    <3>6. SessionsOK'
      BY <1>1, <3>3 DEF SessionsOK
    <3> QED BY <3>3, <3>4, <3>5, <3>6
  <2> QED BY <2>1, <2>2
<1>9. ASSUME NEW s \in Sids, session[s] # NoSession, StartChange(t, s) \/ StartRoll(t, s) PROVE Keeps
  <2>1. /\ [Rest EXCEPT !.pc = "hash", !.who = session[s].user, !.own = s] \in Request
        /\ [Rest EXCEPT !.pc = "roll", !.own = s] \in Request
    BY <1>3, <1>9 DEF Rest, Request
  <2>2. session[s].user \in Users
    BY <1>3, <1>9
  <2> QED BY <1>4, <1>9, <2>1, <2>2 DEF StartChange, StartRoll, Rest
<1>10. ASSUME NEW s \in Sids, NEW u \in Users, StartCreateStaff(t, s, u) PROVE Keeps
  <2>1. [Rest EXCEPT !.pc = "lock", !.who = u, !.own = s] \in Request
    BY <1>3 DEF Rest, Request
  <2> QED BY <1>4, <1>10, <2>1 DEF StartCreateStaff, Rest
<1>11. ASSUME NEW s \in Sids, NEW u \in Users, StartReset(t, s, u) PROVE Keeps
  <2>1. [Rest EXCEPT !.pc = "hash", !.who = u] \in Request
    BY DEF Rest, Request
  <2> QED BY <1>4, <1>11, <2>1 DEF StartReset, Rest
<1>12. ASSUME NEW s \in Sids, NEW u \in Users, NEW enabled \in BOOLEAN, StartAccess(t, s, u, enabled)
       PROVE  Keeps
  <2> DEFINE pc == IF enabled THEN "grant" ELSE IF user[u].role = "admin" THEN "admins" ELSE "deny"
  <2>1. [Rest EXCEPT !.pc = pc, !.who = u] \in Request
    BY DEF Rest, Request
  <2> QED BY <1>4, <1>12, <2>1 DEF StartAccess, Rest
<1>12a. ASSUME NEW u \in Users, StartRotate(t, u) PROVE Keeps
  <2>1. [Rest EXCEPT !.pc = "hash", !.who = u] \in Request
    BY DEF Rest, Request
  <2> QED BY <1>4, <1>12a, <2>1 DEF StartRotate, Rest
<1>13. Keeps
  BY <1>5, <1>6, <1>7, <1>8, <1>9, <1>10, <1>11, <1>12, <1>12a DEF Start
<1> QED BY <1>13, BystandersKeep

LEMMA CondemnKeeps ==
    ASSUME SessionsOK, NEW t \in Tasks, task[t].who \in Users, Condemn(t)
    PROVE  SessionsOK'
<1> SUFFICES ASSUME NEW s \in Sids, session[s].user = task[t].who
             PROVE  [session[s] EXCEPT !.condemned = TRUE] \in Session
  BY DEF Condemn, SessionsOK
<1>1. session[s] \in Session /\ session[s] # NoSession
  BY AccessAssumption DEF SessionsOK, NoSession
<1> QED BY <1>1 DEF Session

(* Steps of requests that are none of a registration.                      *)
LEMMA AccountStepKeeps ==
    ASSUME IInv, NEW t \in Tasks,
           \/ ReadRole(t) \/ CountAdmins(t) \/ SetRole(t) \/ CreateSession(t)
           \/ maybeRollSession(t) \/ SetHash(t) \/ Disable(t) \/ EndSessions(t)
           \/ ReadAdmins(t) \/ ReadDenials(t) \/ Upsert(t)
    PROVE  IInv'
<1> USE DEF Pc, Roles
<1>1. UsersOK /\ SessionsOK /\ TasksOK /\ BoundsOK
  BY TypeParts DEF IInv
<1>2. task[t] \in Request /\ (task[t].pc \notin {"idle", "roll"} => task[t].who \in Users)
  BY <1>1 DEF TasksOK
<1>2a. task[t].who \in Users => user[task[t].who] \in Account
  BY <1>1 DEF UsersOK
<1> DEFINE Keeps == UsersOK' /\ SessionsOK' /\ TasksOK' /\ BoundsOK'
                    /\ NoneRemoved /\ NoneLocks /\ UNCHANGED <<lock, opened>>
<1> SUFFICES Keeps
  BY BystandersKeep
<1>3. ASSUME UNCHANGED <<user, session, born, requests, lock, opened>>,
             Finish(t) \/ \E pc \in Pc \ {"recount", "insert", "idle", "roll"} : Goto(t, pc),
             task[t].pc \notin {"idle", "roll"}
      PROVE  Keeps
  <2>1. TasksOK' /\ NoneLocks
    BY <1>1, <1>3, Goes, Finishes
  <2> QED BY <1>1, <1>3, <2>1 DEF UsersOK, SessionsOK, BoundsOK, NoneRemoved
\* One account changes, and is not removed.
<1>4. ASSUME NEW a \in Account, user' = [user EXCEPT ![task[t].who] = a], a.there = user[task[t].who].there,
             SessionsOK', UNCHANGED <<born, requests, lock, opened>>,
             Finish(t) \/ \E pc \in Pc \ {"recount", "insert", "idle", "roll"} : Goto(t, pc),
             task[t].pc \notin {"idle", "roll"}
      PROVE  Keeps
  <2>1. TasksOK' /\ NoneLocks
    BY <1>1, <1>4, Goes, Finishes
  <2> QED BY <1>1, <1>2, <1>4, <2>1 DEF UsersOK, BoundsOK, NoneRemoved
<1>4a. UNCHANGED session => SessionsOK'
  BY <1>1 DEF SessionsOK
<1>5. CASE ReadRole(t)
  BY <1>3, <1>5 DEF ReadRole
<1>6. CASE CountAdmins(t)
  BY <1>3, <1>6 DEF CountAdmins
<1>7. CASE SetRole(t)
  <2> DEFINE a == [user[task[t].who] EXCEPT !.role = task[t].role]
  <2>1. a \in Account /\ a.there = user[task[t].who].there
    BY <1>2, <1>2a, <1>7 DEF SetRole, Account, Request
  <2>2. user' = [user EXCEPT ![task[t].who] = a]
    BY <1>7 DEF SetRole
  <2> HIDE DEF a
  <2> QED BY <1>4, <1>4a, <1>7, <2>1, <2>2 DEF SetRole
<1>8. CASE SetHash(t)
  <2> DEFINE a == [user[task[t].who] EXCEPT !.hash = user[task[t].who].hash + 1, !.known = TRUE]
  <2>1. a \in Account /\ a.there = user[task[t].who].there
    <3>1. user[task[t].who] \in Account /\ user[task[t].who].hash + 1 \in Nat
      BY <1>2, <1>2a, <1>8 DEF SetHash, Account
    <3>2. \A n \in Nat : LET b == [user[task[t].who] EXCEPT !.hash = n, !.known = TRUE]
                        IN  b \in Account /\ b.there = user[task[t].who].there
      BY <3>1 DEF Account
    <3> QED BY <3>1, <3>2
  <2>2. user' = [user EXCEPT ![task[t].who] = a]
    BY <1>8 DEF SetHash
  <2>3. SessionsOK'
    BY <1>1, <1>2, <1>8, CondemnKeeps DEF SetHash
  <2> HIDE DEF a
  <2> QED BY <1>4, <1>8, <2>1, <2>2, <2>3 DEF SetHash
<1>9. CASE Disable(t)
  <2> DEFINE a == [user[task[t].who] EXCEPT !.on = FALSE]
  <2>1. a \in Account /\ a.there = user[task[t].who].there
    BY <1>2, <1>2a, <1>9 DEF Disable, Account
  <2>2. user' = [user EXCEPT ![task[t].who] = a]
    BY <1>9 DEF Disable
  <2>3. SessionsOK'
    BY <1>1, <1>2, <1>9, CondemnKeeps DEF Disable
  <2> HIDE DEF a
  <2> QED BY <1>4, <1>9, <2>1, <2>2, <2>3 DEF Disable
<1>10. CASE Upsert(t)
  <2> DEFINE a == [user[task[t].who] EXCEPT !.denied = (task[t].pc = "deny")]
  <2>1. a \in Account /\ a.there = user[task[t].who].there
    BY <1>2, <1>2a, <1>10 DEF Upsert, Account
  <2>2. user' = [user EXCEPT ![task[t].who] = a]
    BY <1>10 DEF Upsert
  <2> HIDE DEF a
  <2> QED BY <1>4, <1>4a, <1>10, <2>1, <2>2 DEF Upsert
<1>11. CASE CreateSession(t)
  <2> DEFINE h == IF task[t].sso THEN user[task[t].who].hash ELSE task[t].hash
             new == [user |-> task[t].who, condemned |-> FALSE, age |-> "young", hash |-> h]
  <2>0. h \in Nat /\ task[t].who \in Users
    BY <1>2, <1>2a, <1>11 DEF CreateSession, Account, Request
  <2>1. new \in Session
    BY <2>0 DEF Session
  <2>2. SessionsOK' /\ BoundsOK'
    BY <1>1, <1>11, <2>1, AccessAssumption DEF CreateSession, SessionsOK, BoundsOK, Sids
  <2>3. TasksOK' /\ NoneLocks
    BY <1>1, <1>11, Finishes DEF CreateSession
  <2> QED BY <1>1, <1>11, <2>2, <2>3 DEF CreateSession, UsersOK, NoneRemoved
<1>12. CASE maybeRollSession(t)
  <2>1. SessionsOK'
    BY <1>1, <1>12 DEF maybeRollSession, RollExpiry, SessionsOK, Session
  <2>2. TasksOK' /\ NoneLocks
    BY <1>1, <1>12, Finishes DEF maybeRollSession
  <2> QED BY <1>1, <1>12, <2>1, <2>2 DEF maybeRollSession, UsersOK, BoundsOK, NoneRemoved
<1>13. CASE EndSessions(t)
  <2> DEFINE now == user[task[t].who].hash
  <2>1. now \in Nat
    BY <1>1, <1>2, <1>13 DEF EndSessions, UsersOK, Account
  <2>2. ASSUME NEW s \in Sids PROVE session'[s] \in Session
    <3>1. session[s] \in Session
      BY <1>1 DEF SessionsOK
    <3>2. session[s].user = task[t].who => [session[s] EXCEPT !.hash = now] \in Session
      BY <1>2, <1>13, <2>1, <3>1, AccessAssumption DEF EndSessions, Session, NoSession
    <3> QED BY <1>13, <3>1, <3>2 DEF EndSessions, Session
  <2>3. SessionsOK'
    BY <1>13, <2>2 DEF EndSessions, SessionsOK
  <2>6. TasksOK' /\ NoneLocks
    BY <1>1, <1>13, Finishes DEF EndSessions
  <2> QED BY <1>1, <1>13, <2>3, <2>6 DEF EndSessions, UsersOK, BoundsOK, NoneRemoved
<1>14. CASE ReadAdmins(t)
  <2> DEFINE r == [task[t] EXCEPT !.pc = "denials",
                                  !.seen = Admins]
  <2>1. r \in Request /\ r.pc = "denials" /\ r.who = task[t].who
    BY <1>2 DEF Request, Admins
  <2>2. task' = [task EXCEPT ![t] = r]
    BY <1>14 DEF ReadAdmins
  <2> HIDE DEF r
  <2>3. TasksOK' /\ NoneLocks
    BY <1>1, <1>2, <1>14, <2>1, <2>2, TaskMoves DEF ReadAdmins
  <2> QED BY <1>1, <1>14, <2>3 DEF ReadAdmins, UsersOK, SessionsOK, BoundsOK, NoneRemoved
<1>15. CASE ReadDenials(t)
  BY <1>3, <1>15 DEF ReadDenials
<1> QED BY <1>5, <1>6, <1>7, <1>8, <1>9, <1>10, <1>11, <1>12, <1>13, <1>14, <1>15

(* The steps of a registration.                                            *)
LEMMA LockKeeps == ASSUME IInv, NEW t \in Tasks, LockRegister(t) PROVE IInv'
<1>1. /\ \A r \in Tasks : task[r].pc \notin {"recount", "insert"}
      /\ task[t] \in Request /\ task[t].who \in Users
  BY DEF IInv, TypeOK, LockInv, LockRegister, TakeLock
<1> DEFINE r == [task[t] EXCEPT !.pc = "recount"]
<1>2. r \in Request /\ r.pc = "recount" /\ r.who \in Users
  BY <1>1 DEF Request, Pc
<1>3. task' = [task EXCEPT ![t] = r] /\ lock' = {t} /\ UNCHANGED <<user, session, born, opened, requests>>
  BY DEF LockRegister, TakeLock, Goto
<1> HIDE DEF r
<1>4. TypeOK'
  BY <1>2, <1>3 DEF IInv, TypeOK
<1>5. LockInv' /\ InsertFresh'
  BY <1>1, <1>2, <1>3 DEF IInv, TypeOK, LockInv, InsertFresh
<1>6. OpenedThere' /\ OneOpened'
  BY <1>3 DEF IInv, OpenedThere, OneOpened
<1> QED BY <1>4, <1>5, <1>6 DEF IInv

LEMMA RecountKeeps == ASSUME IInv, NEW t \in Tasks, Recount(t) PROVE IInv'
<1>1. /\ lock = {t} /\ task[t] \in Request /\ task[t].who \in Users
      /\ \A r \in Tasks : task[r].pc \in {"recount", "insert"} => r = t
  BY DEF IInv, TypeOK, LockInv, Recount
<1>2. countUsers = 0 => opened = {}
  BY NobodyThere DEF IInv, TypeOK, OpenedThere
<1>3. PICK r \in Request :
        /\ task' = [task EXCEPT ![t] = r]
        /\ \/ r = Rest /\ lock' = {}
           \/ r.pc = "insert" /\ r.who = task[t].who /\ (r.own = 0 => opened = {}) /\ lock' = lock
  <2>1. [task[t] EXCEPT !.pc = "insert", !.role = "admin"] \in Request
    BY <1>1 DEF Request, Pc, Roles
  <2>2. [task[t] EXCEPT !.pc = "insert", !.role = "staff"] \in Request
    BY <1>1 DEF Request, Pc, Roles
  <2>3. CASE countUsers = 0
    <3> DEFINE r == [task[t] EXCEPT !.pc = "insert", !.role = "admin"]
    <3>1. task' = [task EXCEPT ![t] = r] /\ lock' = lock
      BY <2>3 DEF Recount
    <3>2. r.pc = "insert" /\ r.who = task[t].who
      BY <1>1 DEF Request
    <3> QED BY <1>2, <2>1, <2>3, <3>1, <3>2
  <2>4. CASE countUsers # 0 /\ task[t].own # 0
    <3> DEFINE r == [task[t] EXCEPT !.pc = "insert", !.role = "staff"]
    <3>1. task' = [task EXCEPT ![t] = r] /\ lock' = lock
      BY <2>4 DEF Recount
    <3>2. r.pc = "insert" /\ r.who = task[t].who /\ r.own # 0
      BY <1>1, <2>4 DEF Request
    <3> QED BY <2>2, <3>1, <3>2
  <2>5. CASE countUsers # 0 /\ task[t].own = 0
    BY <1>1, <2>5, RestIsRequest DEF Recount, Finish
  <2> QED BY <2>3, <2>4, <2>5
<1>4. UNCHANGED <<user, session, born, opened, requests>>
  BY DEF Recount
<1>5. TypeOK'
  BY <1>1, <1>3, <1>4, RestIsRequest DEF IInv, TypeOK
<1>6. LockInv' /\ InsertFresh'
  BY <1>1, <1>3, <1>4, RestIsRequest DEF IInv, TypeOK, LockInv, InsertFresh
<1>7. OpenedThere' /\ OneOpened'
  BY <1>4 DEF IInv, OpenedThere, OneOpened
<1> QED BY <1>5, <1>6, <1>7 DEF IInv

LEMMA InsertKeeps == ASSUME IInv, NEW t \in Tasks, InsertUser(t) PROVE IInv'
<1>1. /\ lock = {t} /\ task[t] \in Request /\ task[t].who \in Users
      /\ \A r \in Tasks : task[r].pc \in {"recount", "insert"} => r = t
      /\ task[t].own = 0 => opened = {}
  BY DEF IInv, TypeOK, LockInv, InsertFresh, InsertUser
<1>2. task' = [task EXCEPT ![t] = Rest] /\ lock' = {} /\ UNCHANGED <<session, born, requests>>
  BY <1>1 DEF InsertUser, Finish
<1>3. LockInv' /\ InsertFresh'
  BY <1>1, <1>2, RestIsRequest DEF IInv, TypeOK, LockInv, InsertFresh
<1>4. CASE user[task[t].who].there
  <2>1. UNCHANGED <<user, opened>>
    BY <1>4 DEF InsertUser
  <2>2. TypeOK'
    BY <1>2, <2>1, RestIsRequest DEF IInv, TypeOK
  <2> QED BY <1>3, <2>1, <2>2 DEF IInv, OpenedThere, OneOpened
<1>5. CASE ~user[task[t].who].there
  <2> DEFINE u == task[t].who
             new == [NoAccount EXCEPT !.there = TRUE, !.role = task[t].role, !.on = TRUE, !.known = TRUE]
  <2>1. new \in Account /\ new.there
    BY <1>1 DEF NoAccount, Account, Request
  <2>2. user' = [user EXCEPT ![u] = new]
    BY <1>5 DEF InsertUser
  <2>3. opened' = IF task[t].own = 0 THEN {u} ELSE opened
    BY <1>1, <1>5 DEF InsertUser
  <2> HIDE DEF new
  <2>4. TypeOK'
    BY <1>1, <1>2, <2>1, <2>2, <2>3, RestIsRequest DEF IInv, TypeOK
  <2>5. OpenedThere' /\ OneOpened'
    BY <1>1, <2>1, <2>2, <2>3 DEF IInv, TypeOK, OpenedThere, OneOpened
  <2> QED BY <1>3, <2>4, <2>5 DEF IInv
<1> QED BY <1>4, <1>5

(* What happens beside the requests.                                       *)
LEMMA OthersKeep ==
    ASSUME IInv,
           \/ \E s \in Sids : Logout(s) \/ Age(s)
           \/ \E u \in Users : destroyByIdentity(u) \/ Enable(u) \/ CreateBreakGlass(u)
           \/ pruneSessions
    PROVE  IInv'
<1>1. UsersOK /\ SessionsOK /\ TasksOK /\ BoundsOK
  BY TypeParts DEF IInv
<1> DEFINE Keeps == UsersOK' /\ SessionsOK' /\ NoneRemoved
                    /\ UNCHANGED <<task, born, requests, lock, opened>>
<1> SUFFICES Keeps
  <2>1. Keeps => TasksOK' /\ BoundsOK' /\ NoneLocks
    BY <1>1 DEF TasksOK, BoundsOK, NoneLocks
  <2> QED BY <2>1, BystandersKeep
<1>2. ASSUME NEW s \in Sids, Logout(s) PROVE Keeps
  BY <1>1, <1>2 DEF Logout, UsersOK, SessionsOK, Session, NoneRemoved
<1>3. ASSUME NEW s \in Sids, Age(s) PROVE Keeps
  <2>1. \A age \in {"old", "expired"} :
           session[s].age \in {"young", "old"} => [session[s] EXCEPT !.age = age] \in Session
    BY <1>1 DEF SessionsOK, Session, NoSession
  <2>2. SessionsOK'
    BY <1>1, <1>3, <2>1 DEF Age, SessionsOK
  <2> QED BY <1>1, <1>3, <2>2 DEF Age, UsersOK, NoneRemoved
<1>4. ASSUME NEW u \in Users, destroyByIdentity(u) PROVE Keeps
  BY <1>1, <1>4 DEF destroyByIdentity, UsersOK, SessionsOK, Session, NoneRemoved
<1>5. ASSUME NEW u \in Users, Enable(u) PROVE Keeps
  BY <1>1, <1>5 DEF Enable, UsersOK, SessionsOK, Account, NoneRemoved
<1>6. CASE pruneSessions
  BY <1>1, <1>6 DEF pruneSessions, UsersOK, SessionsOK, Session, NoneRemoved
<1>7. ASSUME NEW u \in Users, CreateBreakGlass(u) PROVE Keeps
  <2> DEFINE new == [NoAccount EXCEPT !.there = TRUE, !.role = "admin", !.on = TRUE, !.known = TRUE]
  <2>1. new \in Account /\ new.there
    BY DEF NoAccount, Account, Roles
  <2>2. user' = [user EXCEPT ![u] = new]
    BY <1>7 DEF CreateBreakGlass
  <2> HIDE DEF new
  <2> QED BY <1>1, <1>7, <2>1, <2>2 DEF CreateBreakGlass, UsersOK, SessionsOK, NoneRemoved
<1> QED BY <1>2, <1>3, <1>4, <1>5, <1>6, <1>7

LEMMA InitKeeps == AccessInit => IInv
<1> SUFFICES ASSUME AccessInit PROVE IInv
  OBVIOUS
<1>1. NoAccount \in Account /\ NoSession \in Session
  BY DEF NoAccount, Account, Session, Roles
<1>2. TypeOK
  BY <1>1, RestIsRequest, AccessAssumption DEF AccessInit, TypeOK
<1> QED BY <1>2, RestIsRequest DEF AccessInit, IInv, LockInv, OpenedThere, InsertFresh, OneOpened

LEMMA NextKeeps == ASSUME IInv, [AccessNext]_accessVars PROVE IInv'
<1>1. ASSUME NEW t \in Tasks, Start(t) \/ Step(t) PROVE IInv'
  BY <1>1, StartKeeps, AccountStepKeeps, LockKeeps, RecountKeeps, InsertKeeps DEF Step
<1>2. CASE UNCHANGED accessVars
  BY <1>2 DEF accessVars, IInv, TypeOK, LockInv, OpenedThere, InsertFresh, OneOpened
<1> QED BY <1>1, <1>2, OthersKeep DEF AccessNext

LEMMA SoundFromInvariant == IInv => AccountsAreSound
<1> SUFFICES ASSUME IInv PROVE OneFirstAdmin
  BY DEF IInv, AccountsAreSound
<1>1. CASE opened = {}
  BY <1>1, FS_EmptySet DEF OneFirstAdmin
<1>2. CASE opened # {}
  <2>1. PICK u \in opened : opened = {u}
    BY <1>2 DEF IInv, OneOpened
  <2>2. Cardinality({u}) = 1
    BY FS_Singleton
  <2> QED BY <2>1, <2>2 DEF OneFirstAdmin
<1> QED BY <1>1, <1>2

(* Whatever registrations race on an empty database, and whatever signs in *)
(* or changes beside them, one administrator comes of open registration    *)
(* (services/auth.ts), and every request and session is about a person.    *)
THEOREM OneAdminFromRegistration == AccessSpec => []AccountsAreSound
<1>1. AccessInit => IInv
  BY InitKeeps
<1>2. IInv /\ [AccessNext]_accessVars => IInv'
  BY NextKeeps
<1>3. IInv => AccountsAreSound
  BY SoundFromInvariant
<1> QED BY <1>1, <1>2, <1>3, PTL DEF AccessSpec

-----------------------------------------------------------------------------
(* Sessions that a change has condemned end.                               *)

Ending == {"end", "endAll"}

(* A condemned session waits for a change of its user's whose ending is    *)
(* not one that the session asked for itself.                              *)
Ends(t, s) == task[t].pc \in Ending /\ task[t].who = session[s].user /\ task[t].own # s
CondemnedWait == \A s \in Sids : session[s].condemned => \E t \in Tasks : Ends(t, s)

(* A step that ends no ending and condemns nothing.                        *)
OthersStay(t) == \A q \in Tasks : q # t => task'[q] = task[q]
NoneCondemned ==
    \A s \in Sids : session'[s].condemned => session[s].condemned /\ session'[s].user = session[s].user

LEMMA WaitKept ==
    ASSUME CondemnedWait, NoneCondemned, NEW t, OthersStay(t), t \in Tasks => task[t].pc \notin Ending
    PROVE  CondemnedWait'
<1> SUFFICES ASSUME NEW s \in Sids, session'[s].condemned PROVE \E q \in Tasks : Ends(q, s)'
  BY DEF CondemnedWait
<1>1. session[s].condemned /\ session'[s].user = session[s].user
  BY DEF NoneCondemned
<1>2. PICK q \in Tasks : Ends(q, s)
  BY <1>1 DEF CondemnedWait
<1>3. q # t
  BY <1>2 DEF Ends
<1>4. task'[q] = task[q]
  BY <1>3 DEF OthersStay
<1> QED BY <1>1, <1>2, <1>4 DEF Ends

(* Requests begin and go on beside the endings.                            *)
LEMMA StepsBesideEndings ==
    ASSUME IInv, NEW t \in Tasks,
           \/ Start(t) \/ LockRegister(t) \/ Recount(t) \/ InsertUser(t)
           \/ ReadRole(t) \/ CountAdmins(t) \/ SetRole(t) \/ CreateSession(t)
           \/ maybeRollSession(t) \/ ReadAdmins(t) \/ ReadDenials(t) \/ Upsert(t)
    PROVE  NoneCondemned /\ OthersStay(t) /\ task[t].pc \notin Ending
<1>0. task \in [Tasks -> Request] /\ session \in [Sids -> Session]
  BY DEF IInv, TypeOK
<1>s. UNCHANGED session => NoneCondemned
  BY DEF NoneCondemned
<1>1. CASE Start(t)
  <2>1. task[t].pc = "idle" /\ UNCHANGED session /\ OthersStay(t)
    BY <1>0, <1>1 DEF Start, StartRegister, StartLogin, StartDisable, StartRotate, StartSso, StartChange,
       StartRoll, StartCreateStaff, StartReset, StartAccess, Begin, OthersStay
  <2> QED BY <1>s, <2>1 DEF Ending
<1>2. CASE LockRegister(t) \/ Recount(t) \/ InsertUser(t)
  BY <1>0, <1>s, <1>2 DEF LockRegister, Recount, InsertUser, Goto, Finish, OthersStay, Ending
<1>3. CASE ReadRole(t) \/ CountAdmins(t) \/ SetRole(t)
  BY <1>0, <1>s, <1>3 DEF ReadRole, CountAdmins, SetRole, Goto, OthersStay, Ending
<1>4. CASE ReadAdmins(t) \/ ReadDenials(t) \/ Upsert(t)
  BY <1>0, <1>s, <1>4 DEF ReadAdmins, ReadDenials, Upsert, Goto, Finish, OthersStay, Ending
<1>5. CASE CreateSession(t)
  <2>1. \A s \in Sids : session'[s] = session[s] \/ session'[s].condemned = FALSE
    BY <1>0, <1>5 DEF CreateSession
  <2> QED BY <1>0, <1>5, <2>1 DEF CreateSession, Finish, OthersStay, Ending, NoneCondemned
<1>6. CASE maybeRollSession(t)
  <2>1. \A s \in Sids : /\ session'[s].condemned = session[s].condemned
                        /\ session'[s].user = session[s].user
    BY <1>0, <1>6 DEF maybeRollSession, RollExpiry, Session
  <2> QED BY <1>0, <1>6, <2>1 DEF maybeRollSession, Finish, OthersStay, Ending, NoneCondemned
<1> QED BY <1>1, <1>2, <1>3, <1>4, <1>5, <1>6

LEMMA BesideRequests ==
    ASSUME IInv, CondemnedWait,
           \/ \E s \in Sids : Logout(s) \/ Age(s)
           \/ \E u \in Users : destroyByIdentity(u) \/ Enable(u) \/ CreateBreakGlass(u)
           \/ pruneSessions
    PROVE  CondemnedWait'
<1>0. session \in [Sids -> Session] /\ UNCHANGED task
  BY DEF IInv, TypeOK, Logout, Age, destroyByIdentity, Enable, CreateBreakGlass, pruneSessions
<1> SUFFICES NoneCondemned
  <2>1. NoneCondemned /\ UNCHANGED task => CondemnedWait'
    BY DEF NoneCondemned, CondemnedWait, Ends
  <2> QED BY <1>0, <2>1
<1>1. ASSUME NEW s \in Sids, Logout(s) \/ Age(s) PROVE NoneCondemned
  <2>1. CASE Logout(s)
    BY <1>0, <2>1 DEF Logout, NoneCondemned, NoSession
  <2>2. CASE Age(s)
    <3>1. PICK age \in {"old", "expired"} : session' = [session EXCEPT ![s].age = age]
      BY <2>2 DEF Age
    <3>2. \A r \in Sids : session'[r].condemned = session[r].condemned /\ session'[r].user = session[r].user
      BY <1>0, <3>1 DEF Session, NoSession
    <3> QED BY <3>2 DEF NoneCondemned
  <2> QED BY <1>1, <2>1, <2>2
<1>2. ASSUME NEW u \in Users, destroyByIdentity(u) PROVE NoneCondemned
  BY <1>0, <1>2 DEF destroyByIdentity, NoneCondemned, NoSession
<1>3. ASSUME NEW u \in Users, Enable(u) \/ CreateBreakGlass(u) PROVE NoneCondemned
  BY <1>3 DEF Enable, CreateBreakGlass, NoneCondemned
<1>4. CASE pruneSessions
  BY <1>0, <1>4 DEF pruneSessions, NoneCondemned, NoSession
<1> QED BY <1>1, <1>2, <1>3, <1>4

(* A change that takes hold is the one its sessions wait for.              *)
LEMMA CondemnedBegin ==
    ASSUME IInv, CondemnedWait, NEW t \in Tasks, SetHash(t) \/ Disable(t)
    PROVE  CondemnedWait'
<1>0. /\ session \in [Sids -> Session] /\ task \in [Tasks -> Request]
      /\ task[t].pc \in {"hash", "disable"} /\ Condemn(t)
  BY DEF IInv, TypeOK, SetHash, Disable
<1>1. /\ task'[t].pc \in Ending /\ task'[t].who = task[t].who /\ task'[t].own = task[t].own
      /\ \A q \in Tasks : q # t => task'[q] = task[q]
  BY <1>0 DEF SetHash, Disable, Goto, Request, Ending
<1> SUFFICES ASSUME NEW s \in Sids, session'[s].condemned PROVE \E q \in Tasks : Ends(q, s)'
  BY DEF CondemnedWait
<1>2. session'[s].user = session[s].user
  BY <1>0 DEF Condemn, Session
<1>3. CASE session[s].user = task[t].who /\ s # task[t].own
  BY <1>1, <1>2, <1>3 DEF Ends
<1>4. CASE ~(session[s].user = task[t].who /\ s # task[t].own)
  <2>1. session'[s] = session[s]
    BY <1>0, <1>4 DEF Condemn
  <2>2. PICK q \in Tasks : Ends(q, s)
    BY <2>1 DEF CondemnedWait
  <2>3. q # t
    BY <1>0, <2>2 DEF Ends, Ending
  <2> QED BY <1>1, <1>2, <2>2, <2>3 DEF Ends
<1> QED BY <1>3, <1>4

(* What an ending leaves condemned waits for another one.                  *)
LEMMA CondemnedEnd ==
    ASSUME IInv, CondemnedWait, NEW t \in Tasks, EndSessions(t)
    PROVE  CondemnedWait'
<1>0. session \in [Sids -> Session] /\ task \in [Tasks -> Request]
  BY DEF IInv, TypeOK
<1> SUFFICES ASSUME NEW s \in Sids, session'[s].condemned PROVE \E q \in Tasks : Ends(q, s)'
  BY DEF CondemnedWait
<1>1. s \notin Others(t)
  BY <1>0 DEF EndSessions, NoSession
<1>2. session[s].condemned /\ session'[s].user = session[s].user
  BY <1>0, <1>1 DEF EndSessions, Session
<1>3. PICK q \in Tasks : Ends(q, s)
  BY <1>2 DEF CondemnedWait
<1>4. q # t
  BY <1>1, <1>3 DEF Ends, Others
<1>5. task'[q] = task[q]
  BY <1>0, <1>4 DEF EndSessions, Finish
<1> QED BY <1>2, <1>3, <1>5 DEF Ends

LEMMA CondemnedInvariant == AccessSpec => [](IInv /\ CondemnedWait)
<1>1. AccessInit => IInv /\ CondemnedWait
  BY InitKeeps DEF AccessInit, CondemnedWait, NoSession
<1>2. ASSUME IInv, CondemnedWait, [AccessNext]_accessVars
      PROVE  IInv' /\ CondemnedWait'
  <2>1. CASE \E t \in Tasks : SetHash(t) \/ Disable(t)
    BY <1>2, <2>1, NextKeeps, CondemnedBegin
  <2>2. CASE \E t \in Tasks : EndSessions(t)
    BY <1>2, <2>2, NextKeeps, CondemnedEnd
  <2>3. CASE UNCHANGED accessVars
    BY <1>2, <2>3, NextKeeps DEF accessVars, CondemnedWait, Ends
  <2>4. CASE \E t \in Tasks : NoneCondemned /\ OthersStay(t) /\ task[t].pc \notin Ending
    BY <1>2, <2>4, NextKeeps, WaitKept
  <2> QED BY <1>2, <2>1, <2>2, <2>3, <2>4, NextKeeps, StepsBesideEndings, BesideRequests
          DEF AccessNext, Step
<1> QED BY <1>1, <1>2, PTL DEF AccessSpec

(* A change of password, a reset and a disabling (changePassword and       *)
(* adminResetPassword of services/auth.ts, setActive) end every session    *)
(* that was there when they took hold but the changer's own, whatever      *)
(* signs in, rolls and changes beside them.                                *)
THEOREM CondemnedSessionsEnd == AccessSpec => []SessionsEnd
<1>1. IInv /\ CondemnedWait => SessionsEnd
  BY DEF CondemnedWait, SessionsEnd, Ends, Ending, EndPending
<1> QED BY <1>1, CondemnedInvariant, PTL
-----------------------------------------------------------------------------
(* The settings: shapes of rows, copies, reads and pages.                  *)

SettingOf ==
    [policy : Policy \cup {Unset}, provider : [Pinned -> {"default"} \cup ProviderId],
     key : BOOLEAN, url : Address]
CopyOf == [there : BOOLEAN, url : Address, age : Nat]
LoadOf == [pc : {"idle", "read"}, node : Nodes, what : {"engine", "provider"}, url : Address]
ChangeOf ==
    [kind : {"policy"}, value : Policy, proc : {"none"}]
    \cup [kind : {"pin"}, value : {"default"} \cup ProviderId, proc : Pinned]
    \cup [kind : {"key"}, value : {Unset}, proc : {"none"}]
    \cup [kind : {"url"}, value : Address, proc : {"none"}]
RequestOf == ChangeOf \cup [kind : {"none", "clear"}, value : {Unset}, proc : {"none"}]

ClearingPc == {"clear", "policy", "setPolicy", "pins"}
TabOf ==
    [pc : {"rest", "write", "drop", "fetch", "config", "cfgRead", "listRead"} \cup ClearingPc,
     request : RequestOf, seen : [url : Address, policy : Policy, key : BOOLEAN],
     read : Address, todo : SUBSET Pinned, current : BOOLEAN]

(* A tab that writes or has written carries a change, one that clears the  *)
(* key the request to clear it; the Engines page changes the address only. *)
Carries(t) ==
    /\ tab[t].pc \in {"write", "drop"} => /\ tab[t].request \in ChangeOf
                                          /\ Page[t] = "engines" => tab[t].request.kind = "url"
    /\ tab[t].pc \in ClearingPc => tab[t].request.kind = "clear"

Shapes ==
    /\ setting \in SettingOf
    /\ engine \in CopyOf /\ provider \in [Nodes -> CopyOf]
    /\ load \in [Loaders -> LoadOf]
    /\ \A l \in Loaders : load[l].what = "engine" => load[l].node = "api"
    /\ tab \in [Tabs -> TabOf]
    /\ \A t \in Tabs : Carries(t)

(* Who is routed to Anthropic first without a key was set to it without    *)
(* one, or a clearing under way has yet to come to it.                     *)
Cleared(t) == tab[t].pc \in {"clear", "policy", "setPolicy"}
NoKey == ~setting.key /\ ~EnvKey /\ ~half
AnthropicFirst == setting.policy \in {"anthropic-only", "anthropic-first"}
PolicyInv ==
    NoKey /\ AnthropicFirst => "policy" \in blind \/ \E t \in Tabs : Cleared(t)
PinInv(p) ==
    NoKey /\ setting.provider[p] = "anthropic" =>
        p \in blind \/ \E t \in Tabs : Cleared(t) \/ (tab[t].pc = "pins" /\ p \in tab[t].todo)

RoutingInv == Shapes /\ PolicyInv /\ \A p \in Pinned : PinInv(p)

LEMMA PoliciesResolve ==
    ASSUME NEW s, s.policy \in Policy \cup {Unset}
    PROVE  /\ resolveProviderPolicy(s) \in Policy
           /\ (providerOrderFor(resolveProviderPolicy(s)).primary = "local")
                 <=> s.policy \notin {"anthropic-only", "anthropic-first"}
           /\ (WithoutAnthropic(resolveProviderPolicy(s)) = resolveProviderPolicy(s))
                 <=> s.policy \notin {"anthropic-only", "anthropic-first"}
  BY DEF resolveProviderPolicy, Resolved, Policy, Unset, providerOrderFor, WithoutAnthropic

LEMMA AnthropicPolicies ==
    ASSUME NEW p \in Policy
    PROVE  (providerOrderFor(p).primary = "anthropic") <=> p \in {"anthropic-only", "anthropic-first"}
  BY DEF Policy, providerOrderFor

LEMMA ShapesInit == SettingsInit => Shapes
<1> SUFFICES ASSUME SettingsInit PROVE Shapes
  OBVIOUS
<1>1. setting \in SettingOf
  BY DEF SettingsInit, SettingOf, Address, Unset, Policy
<1>2. NoCopy \in CopyOf
  BY DEF NoCopy, CopyOf, Address
<1>3. NoLoad \in LoadOf /\ NoLoad.node = "api"
  BY DEF NoLoad, LoadOf, Address, Nodes
<1>4. Shown \in [url : Address, policy : Policy, key : BOOLEAN]
  BY <1>1, PoliciesResolve DEF Shown, SettingOf
<1>5. NoRequest \in RequestOf
  BY DEF NoRequest, RequestOf
<1>6. \A t \in Tabs : tab[t] \in TabOf /\ tab[t].pc = "rest"
  BY <1>4, <1>5 DEF SettingsInit, TabOf, Address
<1>7. tab \in [Tabs -> TabOf]
  BY <1>6 DEF SettingsInit
<1> QED
  BY <1>1, <1>2, <1>3, <1>6, <1>7 DEF SettingsInit, Shapes, Carries, ClearingPc, NoLoad

LEMMA RoutingInit == SettingsInit => RoutingInv
<1> SUFFICES ASSUME SettingsInit PROVE RoutingInv
  OBVIOUS
<1>1. PolicyInv
  BY DEF SettingsInit, PolicyInv, AnthropicFirst, Unset
<1>2. ASSUME NEW p \in Pinned PROVE PinInv(p)
  BY DEF SettingsInit, PinInv
<1> QED BY ShapesInit, <1>1, <1>2 DEF RoutingInv

-----------------------------------------------------------------------------
(* One tab moves, or nothing but copies and reads change.                  *)

LEMMA TabMoves ==
    ASSUME Shapes, NEW t \in Tabs, tab' \in [Tabs -> TabOf],
           \A s \in Tabs \ {t} : /\ tab'[s].pc = tab[s].pc /\ tab'[s].request = tab[s].request,
           Carries(t)', UNCHANGED load,
           setting' \in SettingOf, engine' \in CopyOf, provider' \in [Nodes -> CopyOf]
    PROVE  Shapes'
  BY DEF Shapes, Carries

LEMMA CopiesMove ==
    ASSUME Shapes, UNCHANGED <<setting, tab>>,
           engine' \in CopyOf, provider' \in [Nodes -> CopyOf],
           load' \in [Loaders -> LoadOf],
           \A l \in Loaders : load'[l].what = "engine" => load'[l].node = "api"
    PROVE  Shapes'
  BY DEF Shapes, Carries

(* Whatever leaves the settings alone and no clearing behind.              *)
LEMMA RoutingStays ==
    ASSUME RoutingInv, Shapes', UNCHANGED <<setting, blind>>, half => half',
           \A t \in Tabs : /\ Cleared(t) => Cleared(t)' \/ half'
                           /\ tab[t].pc = "pins" => \/ half'
                                                    \/ tab'[t].pc = "pins" /\ tab'[t].todo = tab[t].todo
                                                    \/ tab[t].todo = {}
    PROVE  RoutingInv'
<1>1. PolicyInv'
  BY DEF RoutingInv, PolicyInv, NoKey, AnthropicFirst
<1>2. ASSUME NEW p \in Pinned PROVE PinInv(p)'
  BY DEF RoutingInv, PinInv, NoKey
<1> QED BY <1>1, <1>2 DEF RoutingInv

LEMMA SomeCopies ==
    ASSUME Shapes
    PROVE  /\ NoCopy \in CopyOf /\ NoLoad \in LoadOf
           /\ \A url \in Address : StoredEngine(url) \in CopyOf /\ StoredProvider(url) \in CopyOf
           /\ setting.url \in Address /\ Unset \in Address
           /\ Shown \in [url : Address, policy : Policy, key : BOOLEAN]
           /\ NoRequest \in RequestOf
  BY PoliciesResolve DEF Shapes, SettingOf, NoCopy, CopyOf, NoLoad, LoadOf, Address, Nodes,
     StoredEngine, StoredProvider, Shown, NoRequest, RequestOf

LEMMA UseEngineKeeps == ASSUME NEW l \in Loaders, RoutingInv, UseEngine(l) PROVE RoutingInv'
<1>1. Shapes BY DEF RoutingInv
<1>2. engine' \in CopyOf /\ provider' \in [Nodes -> CopyOf]
  BY <1>1 DEF UseEngine, Shapes, Hit
<1>3. load' \in [Loaders -> LoadOf]
  BY <1>1, SomeCopies DEF UseEngine, Shapes, LoadOf, Nodes
<1>4. \A k \in Loaders : load'[k].what = "engine" => load'[k].node = "api"
  BY <1>1 DEF UseEngine, Shapes
<1>5. Shapes'
  BY <1>1, <1>2, <1>3, <1>4, CopiesMove DEF UseEngine
<1> QED BY <1>5, RoutingStays DEF UseEngine, Cleared

LEMMA BuildKeeps ==
    ASSUME NEW l \in Loaders, NEW n \in Nodes, RoutingInv, buildProviderForId(l, n)
    PROVE  RoutingInv'
<1>1. Shapes BY DEF RoutingInv
<1>2. engine' \in CopyOf /\ provider' \in [Nodes -> CopyOf]
  BY <1>1 DEF buildProviderForId, Shapes, Hit
<1>3. load' \in [Loaders -> LoadOf]
  BY <1>1, SomeCopies DEF buildProviderForId, Shapes, LoadOf
<1>4. \A k \in Loaders : load'[k].what = "engine" => load'[k].node = "api"
  BY <1>1 DEF buildProviderForId, Shapes
<1>5. Shapes'
  BY <1>1, <1>2, <1>3, <1>4, CopiesMove DEF buildProviderForId
<1> QED BY <1>5, RoutingStays DEF buildProviderForId, Cleared

LEMMA LoadedKeeps == ASSUME NEW l \in Loaders, RoutingInv, Loaded(l) PROVE RoutingInv'
<1>1. Shapes BY DEF RoutingInv
<1>a. load[l] \in LoadOf BY <1>1 DEF Shapes
<1>b. load[l].url \in Address /\ load[l].node \in Nodes BY <1>a DEF LoadOf
<1>2. engine' \in CopyOf /\ provider' \in [Nodes -> CopyOf]
  BY <1>1, <1>b, SomeCopies DEF Loaded, Shapes
<1>3. load' \in [Loaders -> LoadOf]
  BY <1>1, SomeCopies DEF Loaded, Shapes
<1>4. \A k \in Loaders : load'[k].what = "engine" => load'[k].node = "api"
  BY <1>1 DEF Loaded, Shapes, NoLoad
<1>5. Shapes'
  BY <1>1, <1>2, <1>3, <1>4, CopiesMove DEF Loaded
<1> QED BY <1>5, RoutingStays DEF Loaded, Cleared

LEMMA AgesKeep ==
    ASSUME RoutingInv, AgeEngine \/ \E n \in Nodes : AgeProvider(n)
    PROVE  RoutingInv'
<1>1. Shapes BY DEF RoutingInv
<1>2. engine' \in CopyOf /\ provider' \in [Nodes -> CopyOf] /\ UNCHANGED load
  BY <1>1 DEF AgeEngine, AgeProvider, Shapes, CopyOf
<1>5. Shapes'
  BY <1>1, <1>2, CopiesMove DEF AgeEngine, AgeProvider, Shapes
<1> QED BY <1>5, RoutingStays DEF AgeEngine, AgeProvider, Cleared

-----------------------------------------------------------------------------
(* The requests.                                                           *)

(* A tab that leaves no clearing behind, and leaves the settings alone.    *)
LEMMA TabGoes ==
    ASSUME RoutingInv, NEW t \in Tabs, tab' \in [Tabs -> TabOf],
           \A s \in Tabs \ {t} : tab'[s] = tab[s],
           tab[t].pc \notin ClearingPc \/ half', half => half',
           Carries(t)', UNCHANGED <<setting, blind, load>>,
           engine' \in CopyOf, provider' \in [Nodes -> CopyOf]
    PROVE  RoutingInv'
<1>1. Shapes'
  BY TabMoves DEF RoutingInv, Shapes
<1> QED
  BY <1>1, RoutingStays DEF Cleared, ClearingPc

LEMMA SendKeeps ==
    ASSUME NEW t \in Tabs, NEW request \in RequestOf, RoutingInv, Send(t, request),
           request.kind # "clear" => request \in ChangeOf,
           Page[t] = "engines" => request.kind = "url"
    PROVE  RoutingInv'
<1>1. Shapes BY DEF RoutingInv
<1>2. tab[t] \in TabOf
  BY <1>1 DEF Shapes
<1>3. tab'[t] \in TabOf /\ tab' \in [Tabs -> TabOf]
  BY <1>1, <1>2 DEF Send, TabOf, ClearingPc, Shapes
<1>4. Carries(t)'
  BY <1>1, <1>2 DEF Carries, Send, ClearingPc, Shapes, TabOf
<1> QED
  BY <1>1, <1>3, <1>4, TabGoes DEF Send, ClearingPc, Shapes

LEMMA ClickKeeps == ASSUME NEW t \in Tabs, RoutingInv, Click(t) PROVE RoutingInv'
<1>1. Shapes BY DEF RoutingInv
<1>2. ASSUME NEW policy \in Offered, switchPolicy(t, policy) PROVE RoutingInv'
  <2>1. Ask("policy", policy, "none") \in ChangeOf
    BY AdminAssumption DEF Ask, ChangeOf
  <2> QED BY <1>2, <2>1, SendKeeps DEF switchPolicy, RequestOf
<1>3. ASSUME NEW p \in Pinned, NEW choice \in Choices, setAiSetting(t, p, choice)
      PROVE  RoutingInv'
  <2>1. Ask("pin", choice, p) \in ChangeOf
    BY AdminAssumption DEF Ask, ChangeOf
  <2> QED BY <1>3, <2>1, SendKeeps DEF setAiSetting, RequestOf
<1>4. ASSUME NEW url \in Address, onSaveOllama(t, url) \/ onSaveEngine(t, url) \/ onResetEngine(t)
      PROVE  RoutingInv'
  <2>1. /\ Ask("url", url, "none") \in ChangeOf /\ Ask("url", url, "none").kind = "url"
        /\ Ask("url", Unset, "none") \in ChangeOf /\ Ask("url", Unset, "none").kind = "url"
    BY DEF Ask, ChangeOf, Address
  <2> QED BY <1>4, <2>1, SendKeeps DEF onSaveOllama, onSaveEngine, onResetEngine, RequestOf
<1>5. CASE onSetKey(t)
  <2>1. Ask("key", Unset, "none") \in ChangeOf
    BY DEF Ask, ChangeOf
  <2> QED BY <1>5, <2>1, SendKeeps DEF onSetKey, RequestOf
<1>6. CASE onClearKey(t)
  <2>1. Ask("clear", Unset, "none") \in RequestOf /\ Ask("clear", Unset, "none").kind = "clear"
    BY DEF Ask, RequestOf
  <2> QED BY <1>6, <2>1, SendKeeps DEF onClearKey
<1>7. CASE Reload(t)
  <2>1. tab[t] \in TabOf
    BY <1>1 DEF Shapes
  <2>2. tab' \in [Tabs -> TabOf] /\ Carries(t)'
    BY <1>1, <1>7, <2>1 DEF Reload, Shapes, TabOf, Carries, ClearingPc, Changing
  <2> QED BY <1>1, <1>7, <2>2, TabGoes DEF Reload, Shapes, ClearingPc
<1>8. Unset \in Address BY DEF Address
<1> QED BY <1>2, <1>3, <1>4, <1>5, <1>6, <1>7, <1>8 DEF Click

LEMMA DieKeeps == ASSUME NEW t \in Tabs, RoutingInv, Die(t) PROVE RoutingInv'
<1>1. Shapes /\ tab[t] \in TabOf BY DEF RoutingInv, Shapes
<1>2. tab' \in [Tabs -> TabOf] /\ Carries(t)'
  BY <1>1, SomeCopies DEF Die, Shapes, TabOf, Carries, ClearingPc
<1>3. tab[t].pc \notin ClearingPc \/ half'
  BY <1>1 DEF Die, Shapes, Carries
<1> QED BY <1>1, <1>2, <1>3, TabGoes DEF Die, Shapes

LEMMA AnswersKeep ==
    ASSUME NEW t \in Tabs, RoutingInv, AnswerConfig(t) \/ FetchProvider(t) \/ FetchEngines(t)
    PROVE  RoutingInv'
<1>1. Shapes /\ tab[t] \in TabOf BY DEF RoutingInv, Shapes
<1>2. engine' \in CopyOf /\ provider' \in [Nodes -> CopyOf] /\ tab[t].read \in Address
  BY <1>1, SomeCopies DEF AnswerConfig, FetchProvider, FetchEngines, Shapes, TabOf, Hit
<1>a. engine.url \in Address BY <1>1 DEF Shapes, CopyOf
<1>3. tab' \in [Tabs -> TabOf] /\ Carries(t)' /\ tab[t].pc \notin ClearingPc
  <2>1. CASE AnswerConfig(t)
    BY <1>1, <1>2, <2>1, SomeCopies DEF AnswerConfig, Advance, Shapes, TabOf, Carries, ClearingPc
  <2>2. CASE FetchProvider(t)
    BY <1>1, <1>2, <2>2, SomeCopies DEF FetchProvider, Show, Shapes, TabOf, Carries, ClearingPc
  <2>3. CASE FetchEngines(t)
    BY <1>1, <1>2, <1>a, <2>3, SomeCopies DEF FetchEngines, Show, Shapes, TabOf, Carries, ClearingPc
  <2> QED BY <2>1, <2>2, <2>3
<1>4. \A s \in Tabs \ {t} : tab'[s] = tab[s]
  BY <1>1 DEF AnswerConfig, Advance, FetchProvider, FetchEngines, Show, Shapes
<1> QED BY <1>2, <1>3, <1>4, TabGoes DEF AnswerConfig, FetchProvider, FetchEngines

LEMMA DropKeeps == ASSUME NEW t \in Tabs, RoutingInv, Drop(t) PROVE RoutingInv'
<1>1. Shapes /\ tab[t] \in TabOf BY DEF RoutingInv, Shapes
<1>2. engine' \in CopyOf /\ provider' \in [Nodes -> CopyOf]
  BY <1>1, SomeCopies DEF Drop, Shapes
<1>3. tab' \in [Tabs -> TabOf] /\ Carries(t)'
  BY <1>1 DEF Drop, Shapes, TabOf, Carries, ClearingPc
<1> QED BY <1>1, <1>2, <1>3, TabGoes DEF Drop, Shapes, ClearingPc

(* What a change writes, and what it is about.                             *)
LEMMA ChangeWritten ==
    ASSUME setting \in SettingOf, NEW r \in ChangeOf
    PROVE  /\ Changed(r) \in SettingOf
           /\ r.kind # "url" => Changed(r).url = setting.url
           /\ r.kind # "key" => Changed(r).key = setting.key
           /\ r.kind = "key" => Changed(r).key
           /\ r.kind # "policy" => Changed(r).policy = setting.policy
           /\ r.kind = "policy" =>
                  /\ Changed(r).policy = r.value
                  /\ NamesAnthropic(r) <=> r.value \in {"anthropic-only", "anthropic-first"}
                  /\ Subject(r) = {"policy"}
           /\ r.kind # "pin" => Changed(r).provider = setting.provider
           /\ r.kind = "pin" =>
                  /\ r.proc \in Pinned
                  /\ Changed(r).provider[r.proc] = r.value
                  /\ \A p \in Pinned \ {r.proc} : Changed(r).provider[p] = setting.provider[p]
                  /\ NamesAnthropic(r) <=> r.value = "anthropic"
                  /\ Subject(r) = {r.proc}
<1>1. CASE r.kind = "policy"
  <2>1. r.value \in Policy /\ Changed(r) = [setting EXCEPT !.policy = r.value] /\ Subject(r) = {"policy"}
    BY <1>1 DEF Changed, ChangeOf, Subject
  <2>2. NamesAnthropic(r) <=> providerOrderFor(r.value).primary = "anthropic"
    BY <1>1 DEF NamesAnthropic
  <2> QED BY <1>1, <2>1, <2>2, AnthropicPolicies DEF SettingOf
<1>2. CASE r.kind = "pin"
  <2>1. /\ r.value \in {"default"} \cup ProviderId /\ r.proc \in Pinned
        /\ Changed(r) = [setting EXCEPT !.provider[r.proc] = r.value] /\ Subject(r) = {r.proc}
        /\ NamesAnthropic(r) <=> r.value = "anthropic"
    BY <1>2 DEF Changed, ChangeOf, Subject, NamesAnthropic
  <2> QED BY <1>2, <2>1 DEF SettingOf
<1>3. CASE r.kind = "key"
  BY <1>3 DEF Changed, SettingOf, Subject
<1>4. CASE r.kind = "url"
  <2>1. r.value \in Address
    BY <1>4 DEF ChangeOf
  <2> QED BY <1>4, <2>1 DEF Changed, SettingOf, Subject
<1> QED BY <1>1, <1>2, <1>3, <1>4 DEF ChangeOf

LEMMA SubjectOnly ==
    ASSUME NEW r \in ChangeOf
    PROVE  /\ "policy" \in Subject(r) => r.kind = "policy"
           /\ \A p \in Pinned : p \in Subject(r) => r.kind = "pin" /\ r.proc = p
<1>1. "policy" \notin Pinned
  BY AdminAssumption DEF Process
<1>2. CASE r.kind = "policy"
  BY <1>1, <1>2 DEF Subject
<1>3. CASE r.kind = "pin"
  <2>1. Subject(r) = {r.proc} /\ r.proc \in Pinned
    BY <1>3 DEF Subject, ChangeOf
  <2> QED BY <1>1, <1>3, <2>1
<1>4. CASE r.kind \notin {"policy", "pin"}
  BY <1>4 DEF Subject
<1> QED BY <1>2, <1>3, <1>4

(* The changed setting is not decided for Anthropic unseen.                *)
LEMMA WriteKeeps == ASSUME NEW t \in Tabs, RoutingInv, Write(t) PROVE RoutingInv'
<1>1. Shapes /\ tab[t] \in TabOf /\ tab[t].request \in ChangeOf
  BY DEF RoutingInv, Shapes, Write, Carries
<1> DEFINE r == tab[t].request
<1>2. setting' = Changed(r) /\ setting' \in SettingOf
  BY <1>1, ChangeWritten DEF Write, Shapes
<1>3. /\ tab[t].pc = "write" /\ tab' \in [Tabs -> TabOf]
      /\ \A s \in Tabs : /\ tab'[s].request = tab[s].request /\ tab'[s].todo = tab[s].todo
                         /\ tab'[s].pc = IF s = t THEN "drop" ELSE tab[s].pc
  BY <1>1 DEF Write, Shapes, TabOf
<1>4. Shapes'
  <2>1. Carries(t)
    BY <1>1 DEF Shapes
  <2>2. tab'[t].pc = "drop" /\ tab'[t].request = tab[t].request
    BY <1>3
  <2>3. Carries(t)'
    BY <1>1, <1>3, <2>1, <2>2 DEF Carries, ClearingPc
  <2> QED BY <1>1, <1>2, <1>3, <2>3, TabMoves DEF Write, Shapes
<1>5. \A s \in Tabs : /\ Cleared(s) => Cleared(s)'
                      /\ tab[s].pc = "pins" => tab'[s].pc = "pins" /\ tab'[s].todo = tab[s].todo
  BY <1>3 DEF Write, Cleared
<1>6. /\ UNCHANGED half
      /\ ~setting.key /\ NamesAnthropic(r) => Subject(r) \subseteq blind'
      /\ \A x \in blind : x \notin Subject(r) => x \in blind'
  BY DEF Write
<1>7. /\ NoKey' => NoKey
      /\ setting' \in SettingOf /\ r \in ChangeOf /\ setting \in SettingOf
  BY <1>1, <1>2, <1>6, ChangeWritten DEF NoKey, Shapes
<1>8. PolicyInv'
  <2>1. CASE r.kind = "policy"
    BY <1>2, <1>6, <1>7, <2>1, ChangeWritten DEF PolicyInv, AnthropicFirst, NoKey
  <2>2. CASE r.kind # "policy"
    <3>1. setting'.policy = setting.policy /\ "policy" \notin Subject(r)
      BY <1>2, <1>7, <2>2, ChangeWritten, SubjectOnly
    <3>2. AnthropicFirst' => AnthropicFirst
      BY <3>1 DEF AnthropicFirst
    <3> QED BY <1>5, <1>6, <1>7, <3>1, <3>2 DEF RoutingInv, PolicyInv
  <2> QED BY <2>1, <2>2
<1>9. ASSUME NEW p \in Pinned PROVE PinInv(p)'
  <2>0. r.kind = "pin" => /\ setting'.provider[r.proc] = r.value /\ Subject(r) = {r.proc}
                          /\ NamesAnthropic(r) <=> r.value = "anthropic"
                          /\ \A q \in Pinned \ {r.proc} : setting'.provider[q] = setting.provider[q]
    BY <1>2, <1>7, ChangeWritten
  <2>1. CASE r.kind = "pin" /\ r.proc = p
    <3>1. setting'.provider[p] = r.value /\ Subject(r) = {p}
      BY <2>0, <2>1
    <3> QED BY <1>6, <1>7, <2>0, <2>1, <3>1 DEF PinInv, NoKey
  <2>2. CASE r.kind # "pin" \/ r.proc # p
    <3>1. setting'.provider[p] = setting.provider[p] /\ p \notin Subject(r)
      <4>1. p \notin Subject(r)
        BY <1>7, <2>2, SubjectOnly
      <4>2. setting'.provider = setting.provider \/ r.kind = "pin"
        BY <1>2, <1>7, ChangeWritten
      <4> QED BY <2>0, <2>2, <4>1, <4>2
    <3> QED BY <1>5, <1>6, <1>7, <3>1 DEF RoutingInv, PinInv
  <2> QED BY <2>1, <2>2
<1> QED BY <1>4, <1>8, <1>9 DEF RoutingInv

(* The steps of a clearing: what it has not come to yet is still its task. *)
LEMMA ClearKeyKeeps == ASSUME NEW t \in Tabs, RoutingInv, ClearKey(t) PROVE RoutingInv'
<1>1. Shapes /\ tab[t] \in TabOf BY DEF RoutingInv, Shapes
<1>2. setting' \in SettingOf /\ provider' \in [Nodes -> CopyOf]
  BY <1>1, SomeCopies DEF ClearKey, Shapes, SettingOf
<1>3. /\ tab' \in [Tabs -> TabOf] /\ Carries(t)'
      /\ \A s \in Tabs \ {t} : tab'[s] = tab[s]
      /\ ~EnvKey => Cleared(t)'
  BY <1>1 DEF ClearKey, Advance, Shapes, TabOf, Carries, ClearingPc, Cleared
<1>4. Shapes'
  BY <1>1, <1>2, <1>3, TabMoves DEF ClearKey, Shapes
<1> QED BY <1>3, <1>4 DEF RoutingInv, PolicyInv, PinInv, NoKey

LEMMA ResetPolicyKeeps == ASSUME NEW t \in Tabs, RoutingInv, ResetPolicy(t) PROVE RoutingInv'
<1>1. Shapes /\ tab[t] \in TabOf BY DEF RoutingInv, Shapes
<1>2. /\ tab' \in [Tabs -> TabOf] /\ Carries(t)'
      /\ \A s \in Tabs \ {t} : tab'[s] = tab[s]
      /\ \/ ~AnthropicFirst /\ tab'[t].pc = "pins" /\ tab'[t].todo = Pinned
         \/ Cleared(t)'
  <2>1. (WithoutAnthropic(resolveProviderPolicy(setting)) = resolveProviderPolicy(setting))
           <=> ~AnthropicFirst
    BY <1>1, PoliciesResolve DEF Shapes, SettingOf, AnthropicFirst
  <2> QED BY <1>1, <2>1 DEF ResetPolicy, Shapes, TabOf, Carries, ClearingPc, Cleared
<1>4. Shapes'
  BY <1>1, <1>2, TabMoves DEF ResetPolicy, Shapes
<1>5. UNCHANGED <<setting, blind, half>>
  BY DEF ResetPolicy
<1>6. PolicyInv'
  BY <1>2, <1>5 DEF RoutingInv, PolicyInv, NoKey, AnthropicFirst, Cleared
<1>7. ASSUME NEW p \in Pinned PROVE PinInv(p)'
  BY <1>2, <1>5 DEF RoutingInv, PinInv, NoKey, Cleared
<1> QED BY <1>4, <1>6, <1>7 DEF RoutingInv

LEMMA SetPolicyKeeps == ASSUME NEW t \in Tabs, RoutingInv, SetPolicy(t) PROVE RoutingInv'
<1>1. Shapes /\ tab[t] \in TabOf BY DEF RoutingInv, Shapes
<1>2. /\ setting' \in SettingOf /\ ~AnthropicFirst'
      /\ setting'.provider = setting.provider /\ setting'.key = setting.key
  BY <1>1 DEF SetPolicy, Shapes, SettingOf, AnthropicFirst, Policy
<1>3. /\ tab' \in [Tabs -> TabOf] /\ Carries(t)'
      /\ \A s \in Tabs \ {t} : tab'[s] = tab[s]
      /\ tab'[t].pc = "pins" /\ tab'[t].todo = Pinned
  BY <1>1 DEF SetPolicy, Shapes, TabOf, Carries, ClearingPc
<1>4. Shapes'
  BY <1>1, <1>2, <1>3, TabMoves DEF SetPolicy, Shapes
<1>5. PolicyInv'
  BY <1>2 DEF PolicyInv
<1>6. ASSUME NEW p \in Pinned PROVE PinInv(p)'
  <2>1. p # "policy" BY AdminAssumption DEF Process
  <2> QED BY <1>2, <1>3, <2>1 DEF RoutingInv, PinInv, NoKey, Cleared, SetPolicy
<1> QED BY <1>4, <1>5, <1>6 DEF RoutingInv

LEMMA ResetPinKeeps ==
    ASSUME NEW t \in Tabs, NEW q \in Pinned, RoutingInv, ResetPin(t, q)
    PROVE  RoutingInv'
<1>1. Shapes /\ tab[t] \in TabOf BY DEF RoutingInv, Shapes
<1>2. /\ setting' \in SettingOf /\ setting'.provider[q] # "anthropic"
      /\ setting'.policy = setting.policy /\ setting'.key = setting.key
      /\ \A p \in Pinned \ {q} : setting'.provider[p] = setting.provider[p]
  BY <1>1 DEF ResetPin, Shapes, SettingOf
<1>3. /\ tab' \in [Tabs -> TabOf] /\ Carries(t)'
      /\ \A s \in Tabs \ {t} : tab'[s] = tab[s]
      /\ tab'[t].pc = "pins" /\ tab[t].pc = "pins" /\ tab'[t].todo = tab[t].todo \ {q}
  BY <1>1 DEF ResetPin, Shapes, TabOf, Carries, ClearingPc
<1>4. Shapes'
  BY <1>1, <1>2, <1>3, TabMoves DEF ResetPin, Shapes
<1>5. q # "policy" /\ blind' = blind \ {q} /\ UNCHANGED half
  BY AdminAssumption DEF Process, ResetPin
<1>6. PolicyInv'
  BY <1>2, <1>3, <1>5 DEF RoutingInv, PolicyInv, NoKey, AnthropicFirst, Cleared
<1>7. ASSUME NEW p \in Pinned PROVE PinInv(p)'
  <2>1. CASE p = q
    BY <1>2, <2>1 DEF PinInv
  <2>2. CASE p # q
    BY <1>2, <1>3, <1>5, <2>2 DEF RoutingInv, PinInv, NoKey, Cleared
  <2> QED BY <2>1, <2>2
<1> QED BY <1>4, <1>6, <1>7 DEF RoutingInv

LEMMA EndClearKeeps == ASSUME NEW t \in Tabs, RoutingInv, EndClear(t) PROVE RoutingInv'
<1>1. Shapes /\ tab[t] \in TabOf BY DEF RoutingInv, Shapes
<1>2. /\ tab' \in [Tabs -> TabOf] /\ Carries(t)'
      /\ \A s \in Tabs \ {t} : tab'[s] = tab[s]
      /\ provider' \in [Nodes -> CopyOf]
  BY <1>1, SomeCopies DEF EndClear, Advance, Shapes, TabOf, Carries, ClearingPc
<1>3. Shapes'
  BY <1>1, <1>2, TabMoves DEF EndClear, Shapes
<1> QED BY <1>2, <1>3, RoutingStays DEF EndClear, Cleared

LEMMA RoutingStep == ASSUME RoutingInv, [SettingsNext]_settingsVars PROVE RoutingInv'
<1>1. ASSUME NEW t \in Tabs, Handle(t) PROVE RoutingInv'
  BY <1>1, WriteKeeps, DropKeeps, AnswersKeep, ClearKeyKeeps, ResetPolicyKeeps, SetPolicyKeeps,
     EndClearKeeps, ResetPinKeeps DEF Handle
<1>2. CASE UNCHANGED settingsVars
  BY <1>2, RoutingStays DEF settingsVars, RoutingInv, Shapes, Carries, Cleared
<1> QED
  BY <1>1, <1>2, ClickKeeps, DieKeeps, UseEngineKeeps, LoadedKeeps, BuildKeeps, AgesKeep
  DEF SettingsNext

(* Who clears the key gives up every route that needs it: a clearing that  *)
(* has ended, in any of the tabs, has been through the policy and all pins *)
(* (routes/admin.ts, DELETE /llm-provider/anthropic-key).                  *)
THEOREM RoutesFollowTheKey == SettingsSpec => []RoutingFollowsKey
<1>1. SettingsInit => RoutingInv
  BY RoutingInit
<1>2. RoutingInv /\ [SettingsNext]_settingsVars => RoutingInv'
  BY RoutingStep
<1>3. RoutingInv => RoutingFollowsKey
  <2> SUFFICES ASSUME RoutingInv, ~setting.key, ~EnvKey, ~Clearing, ~half
               PROVE  /\ \/ providerOrderFor(resolveProviderPolicy(setting)).primary = "local"
                         \/ "policy" \in blind
                      /\ \A p \in Pinned : setting.provider[p] = "anthropic" => p \in blind
    BY DEF RoutingFollowsKey
  <2>1. \A t \in Tabs : tab[t].pc \notin ClearingPc
    BY DEF RoutingInv, Shapes, Carries, Clearing, ClearingPc
  <2>2. \/ providerOrderFor(resolveProviderPolicy(setting)).primary = "local"
        \/ "policy" \in blind
    BY <2>1, PoliciesResolve
    DEF RoutingInv, PolicyInv, NoKey, AnthropicFirst, Cleared, ClearingPc, Shapes, SettingOf
  <2> QED BY <2>1, <2>2 DEF RoutingInv, PinInv, NoKey, Cleared, ClearingPc
<1> QED BY <1>1, <1>2, <1>3, PTL DEF SettingsSpec

-----------------------------------------------------------------------------
(* The address: while a change waits for the reads that are under way, and *)
(* reads for the change, what has been read of it is what is stored, and   *)
(* the engine's copy is out of date only until the change has dropped it.  *)

ChangesUrl(t) == tab[t].pc = "drop" /\ tab[t].request.kind = "url"
EngineTrue == engine.there => engine.url = setting.url
LoadsTrue ==
    \A l \in Loaders : load[l].pc = "read" /\ load[l].what = "engine" => load[l].url = setting.url
AnswersTrue ==
    \A t \in Tabs : tab[t].pc \in {"cfgRead", "listRead"} => tab[t].read = setting.url
CurrentTrue(t) ==
    tab[t].current => IF tab[t].pc = "rest" THEN tab[t].seen.url = setting.url
                      ELSE Page[t] = "engines" => EngineTrue

CopyInv ==
    /\ Shapes
    /\ LoadsTrue /\ AnswersTrue
    /\ EngineTrue \/ \E t \in Tabs : ChangesUrl(t)
    /\ \A t \in Tabs : CurrentTrue(t)

LEMMA CopyInit == SettingsInit => CopyInv
<1> SUFFICES ASSUME SettingsInit PROVE CopyInv
  OBVIOUS
<1>1. EngineTrue /\ LoadsTrue /\ AnswersTrue
  BY DEF SettingsInit, EngineTrue, LoadsTrue, AnswersTrue, NoCopy, NoLoad
<1>2. ASSUME NEW t \in Tabs PROVE CurrentTrue(t)
  BY DEF SettingsInit, CurrentTrue
<1> QED BY ShapesInit, <1>1, <1>2 DEF CopyInv

(* The stored address and the tabs stay, or the copy comes from it.        *)
LEMMA CopyStays ==
    ASSUME CopyInv, Shapes', UNCHANGED <<setting, tab>>, LoadsTrue',
           EngineTrue => EngineTrue'
    PROVE  CopyInv'
<1>1. AnswersTrue'
  BY DEF CopyInv, AnswersTrue
<1>2. ASSUME NEW t \in Tabs PROVE CurrentTrue(t)'
  BY DEF CopyInv, CurrentTrue
<1>3. EngineTrue' \/ \E t \in Tabs : ChangesUrl(t)'
  BY DEF CopyInv, ChangesUrl
<1> QED BY <1>1, <1>2, <1>3 DEF CopyInv

(* One tab moves, without a change of the address.                         *)
LEMMA CopyGoes ==
    ASSUME CopyInv, Shapes', NEW t \in Tabs, UNCHANGED load, setting'.url = setting.url,
           \A s \in Tabs \ {t} : tab'[s] = tab[s],
           tab'[t].pc \in {"cfgRead", "listRead"} => tab'[t].read = setting.url,
           EngineTrue => EngineTrue', ChangesUrl(t) => ChangesUrl(t)' \/ EngineTrue', CurrentTrue(t)'
    PROVE  CopyInv'
<1>1. LoadsTrue' /\ AnswersTrue'
  BY DEF CopyInv, LoadsTrue, AnswersTrue
<1>2. ASSUME NEW s \in Tabs PROVE CurrentTrue(s)'
  <2>1. CASE s # t
    BY <2>1 DEF CopyInv, CurrentTrue
  <2> QED BY <2>1
<1>3. EngineTrue' \/ \E s \in Tabs : ChangesUrl(s)'
  <2>1. CASE EngineTrue
    BY <2>1
  <2>2. ASSUME NEW s \in Tabs, ChangesUrl(s) PROVE EngineTrue' \/ \E u \in Tabs : ChangesUrl(u)'
    BY <2>2 DEF ChangesUrl
  <2> QED BY <2>1, <2>2 DEF CopyInv
<1> QED BY <1>1, <1>2, <1>3 DEF CopyInv

LEMMA StoredIsTrue ==
    ASSUME NEW url, url = setting.url, UNCHANGED setting, engine' = StoredEngine(url)
    PROVE  EngineTrue'
  BY DEF StoredEngine, EngineTrue

LEMMA ReadsKeepCopy ==
    ASSUME ~LoadsStraddle, CopyInv, Shapes', NEW l \in Loaders,
           UseEngine(l) \/ Loaded(l) \/ \E n \in Nodes : buildProviderForId(l, n)
    PROVE  CopyInv'
<1>1. Shapes /\ LoadsTrue BY DEF CopyInv
<1>2. CASE UseEngine(l)
  <2>1. LoadsTrue'
    BY <1>1, <1>2 DEF UseEngine, LoadsTrue, Shapes
  <2>2. EngineTrue => EngineTrue'
    BY <1>2 DEF UseEngine, EngineTrue, Hit
  <2> QED BY <1>2, <2>1, <2>2, CopyStays DEF UseEngine
<1>3. ASSUME NEW n \in Nodes, buildProviderForId(l, n) PROVE CopyInv'
  <2>1. LoadsTrue' /\ (EngineTrue => EngineTrue')
    BY <1>1, <1>3 DEF buildProviderForId, LoadsTrue, EngineTrue, Shapes
  <2> QED BY <1>3, <2>1, CopyStays DEF buildProviderForId
<1>4. CASE Loaded(l)
  <2>1. LoadsTrue'
    BY <1>1, <1>4 DEF Loaded, LoadsTrue, Shapes, NoLoad
  <2>2. EngineTrue => EngineTrue'
    <3>1. CASE load[l].what = "engine"
      BY <1>1, <1>4, <3>1, StoredIsTrue DEF Loaded, LoadsTrue
    <3>2. CASE load[l].what # "engine"
      BY <1>4, <3>2 DEF Loaded, EngineTrue
    <3> QED BY <3>1, <3>2
  <2> QED BY <1>4, <2>1, <2>2, CopyStays DEF Loaded
<1> QED BY <1>2, <1>3, <1>4

LEMMA AgesKeepCopy ==
    ASSUME CopyInv, Shapes', AgeEngine \/ \E n \in Nodes : AgeProvider(n)
    PROVE  CopyInv'
<1>1. EngineTrue => EngineTrue'
  BY DEF AgeEngine, AgeProvider, EngineTrue, CopyInv, Shapes, CopyOf
<1>2. LoadsTrue'
  BY DEF AgeEngine, AgeProvider, LoadsTrue, CopyInv
<1> QED BY <1>1, <1>2, CopyStays DEF AgeEngine, AgeProvider

LEMMA ClicksKeepCopy ==
    ASSUME CopyInv, Shapes', NEW t \in Tabs, Click(t) \/ Die(t)
    PROVE  CopyInv'
<1>1. Shapes /\ tab[t] \in TabOf BY DEF CopyInv, Shapes
<1>2. ASSUME NEW request, Send(t, request) PROVE CopyInv'
  <2>1. /\ \A s \in Tabs \ {t} : tab'[s] = tab[s]
        /\ tab'[t].pc \in {"clear", "write"} /\ ~tab'[t].current /\ tab[t].pc = "rest"
    BY <1>1, <1>2 DEF Send, Shapes, TabOf
  <2> QED BY <1>2, <2>1, CopyGoes DEF Send, CurrentTrue, ChangesUrl, EngineTrue
<1>3. CASE Reload(t)
  <2>1. /\ \A s \in Tabs \ {t} : tab'[s] = tab[s]
        /\ tab'[t].pc = "fetch" /\ tab[t].pc = "rest" /\ tab'[t].current = ~Changing
    BY <1>1, <1>3 DEF Reload, Shapes, TabOf
  <2>2. ~Changing => EngineTrue
    BY DEF CopyInv, Changing, ChangesUrl
  <2>3. EngineTrue <=> EngineTrue'
    BY <1>3 DEF Reload, EngineTrue
  <2> QED BY <1>3, <2>1, <2>2, <2>3, CopyGoes DEF Reload, CurrentTrue, ChangesUrl
<1>4. CASE Die(t)
  <2>1. /\ \A s \in Tabs \ {t} : tab'[s] = tab[s]
        /\ tab'[t].pc = "rest" /\ ~tab'[t].current /\ tab[t].pc # "drop"
    BY <1>1, <1>4 DEF Die, Shapes, TabOf
  <2> QED BY <1>4, <2>1, CopyGoes DEF Die, CurrentTrue, ChangesUrl, EngineTrue
<1> QED
  BY <1>2, <1>3, <1>4 DEF Click, switchPolicy, setAiSetting, onSaveOllama, onSaveEngine,
     onSetKey, onClearKey, onResetEngine

(* The steps of a clearing leave the address alone, and the tab nothing    *)
(* current to show.                                                        *)
LEMMA ClearsKeepCopy ==
    ASSUME CopyInv, Shapes', NEW t \in Tabs,
           ClearKey(t) \/ ResetPolicy(t) \/ SetPolicy(t) \/ EndClear(t)
              \/ \E p \in Pinned : ResetPin(t, p)
    PROVE  CopyInv'
<1>1. Shapes /\ tab[t] \in TabOf /\ setting \in SettingOf BY DEF CopyInv, Shapes
<1>2. tab[t].pc \in ClearingPc
  BY DEF ClearKey, ResetPolicy, SetPolicy, EndClear, ResetPin, ClearingPc
<1>3. /\ \A s \in Tabs \ {t} : tab'[s] = tab[s]
      /\ tab'[t].pc \in {"fetch"} \cup ClearingPc /\ tab'[t].current = tab[t].current
  BY <1>1 DEF ClearKey, ResetPolicy, SetPolicy, EndClear, ResetPin, Advance, ClearingPc, Shapes, TabOf
<1>4. setting'.url = setting.url
  BY <1>1 DEF ClearKey, ResetPolicy, SetPolicy, EndClear, ResetPin, SettingOf
<1>5. UNCHANGED <<engine, load>>
  BY DEF ClearKey, ResetPolicy, SetPolicy, EndClear, ResetPin
<1>6. EngineTrue <=> EngineTrue'
  BY <1>4, <1>5 DEF EngineTrue
<1>7. CurrentTrue(t)'
  BY <1>2, <1>3, <1>6 DEF CopyInv, CurrentTrue, ClearingPc
<1> QED BY <1>2, <1>3, <1>4, <1>5, <1>6, <1>7, CopyGoes DEF ChangesUrl, ClearingPc

LEMMA AnswersKeepCopy ==
    ASSUME CopyInv, Shapes', NEW t \in Tabs, AnswerConfig(t) \/ FetchProvider(t) \/ FetchEngines(t)
    PROVE  CopyInv'
<1>1. Shapes /\ tab[t] \in TabOf BY DEF CopyInv, Shapes
<1>2. UNCHANGED <<setting, load>> /\ tab[t].pc \notin {"rest", "drop"}
  BY DEF AnswerConfig, FetchProvider, FetchEngines
<1>3. \A s \in Tabs \ {t} : tab'[s] = tab[s]
  BY <1>1 DEF AnswerConfig, Advance, FetchProvider, FetchEngines, Show, Shapes
<1>4. EngineTrue => EngineTrue'
  BY <1>2, StoredIsTrue
  DEF AnswerConfig, FetchProvider, FetchEngines, EngineTrue, Hit, CopyInv, AnswersTrue
<1>5. tab'[t].pc \in {"cfgRead", "listRead"} => tab'[t].read = setting.url
  BY <1>1 DEF AnswerConfig, Advance, FetchProvider, FetchEngines, Show, Shapes, TabOf
<1>6. CurrentTrue(t)'
  <2>1. CASE AnswerConfig(t)
    BY <1>1, <1>2, <1>4, <2>1 DEF AnswerConfig, Advance, Shapes, TabOf, CurrentTrue, CopyInv
  <2>2. CASE FetchProvider(t)
    BY <1>1, <1>2, <2>2 DEF FetchProvider, Show, Shapes, TabOf, CurrentTrue, Shown
  <2>3. CASE FetchEngines(t)
    <3>1. \/ tab'[t].pc # "rest"
          \/ tab'[t].seen.url = engine.url /\ Fresh(engine)
          \/ tab'[t].seen.url = tab[t].read /\ tab[t].pc = "listRead"
      <4>1. /\ Fresh(engine) /\ Show(t, [tab[t].seen EXCEPT !.url = engine.url])
            => tab'[t].seen.url = engine.url
        BY <1>1 DEF Show, Shapes, TabOf
      <4>2. Show(t, [tab[t].seen EXCEPT !.url = tab[t].read]) => tab'[t].seen.url = tab[t].read
        BY <1>1 DEF Show, Shapes, TabOf
      <4>3. tab' = [tab EXCEPT ![t].pc = "listRead", ![t].read = setting.url] => tab'[t].pc # "rest"
        BY <1>1 DEF Shapes, TabOf
      <4> QED BY <2>3, <4>1, <4>2, <4>3 DEF FetchEngines
    <3>2. tab'[t].current = tab[t].current /\ Page[t] = "engines"
      BY <1>1, <2>3 DEF FetchEngines, Show, Shapes, TabOf
    <3>3. tab[t].current => EngineTrue
      BY <1>2, <3>2 DEF CopyInv, CurrentTrue
    <3> QED BY <1>2, <1>4, <3>1, <3>2, <3>3 DEF CurrentTrue, EngineTrue, Fresh, CopyInv, AnswersTrue
  <2> QED BY <2>1, <2>2, <2>3
<1> QED BY <1>2, <1>3, <1>4, <1>5, <1>6, CopyGoes DEF ChangesUrl

LEMMA DropKeepsCopy == ASSUME CopyInv, Shapes', NEW t \in Tabs, Drop(t) PROVE CopyInv'
<1>1. Shapes /\ tab[t] \in TabOf BY DEF CopyInv, Shapes
<1>2. UNCHANGED <<setting, load>> /\ tab[t].pc = "drop"
  BY DEF Drop
<1>3. /\ \A s \in Tabs \ {t} : tab'[s] = tab[s]
      /\ tab'[t].pc \in {"config", "fetch"}
  BY <1>1 DEF Drop, Shapes, TabOf
<1>4. EngineTrue => EngineTrue'
  BY DEF Drop, EngineTrue, NoCopy
<1>5. ChangesUrl(t) => EngineTrue'
  BY DEF ChangesUrl, Drop, DropsEngine, EngineTrue, NoCopy
<1>6. Page[t] = "engines" => ChangesUrl(t)
  BY <1>1, <1>2 DEF Shapes, Carries, ChangesUrl
<1> QED BY <1>2, <1>3, <1>4, <1>5, <1>6, CopyGoes DEF CurrentTrue

(* Nothing of the address is being read when it is written, and no page    *)
(* counts as current after.                                                *)
LEMMA WriteKeepsCopy ==
    ASSUME ~LoadsStraddle, CopyInv, Shapes', NEW t \in Tabs, Write(t)
    PROVE  CopyInv'
<1>1. Shapes /\ tab[t] \in TabOf /\ tab[t].request \in ChangeOf /\ setting \in SettingOf
  BY DEF CopyInv, Shapes, Write, Carries
<1> DEFINE r == tab[t].request
<1>2. /\ tab[t].pc = "write" /\ UNCHANGED <<engine, load>>
      /\ r.kind = "url" => ~Reading
      /\ r.kind # "url" => setting'.url = setting.url
  BY <1>1, ChangeWritten DEF Write
<1>3. \A s \in Tabs : /\ tab'[s].request = tab[s].request /\ tab'[s].read = tab[s].read
                      /\ tab'[s].seen = tab[s].seen
                      /\ tab'[s].pc = IF s = t THEN "drop" ELSE tab[s].pc
                      /\ tab'[s].current => tab[s].current /\ r.kind # "url"
  BY <1>1 DEF Write, Shapes, TabOf
<1>4. CASE r.kind = "url"
  <2>1. LoadsTrue' /\ AnswersTrue'
    BY <1>1, <1>2, <1>3, <1>4 DEF LoadsTrue, AnswersTrue, Reading, Shapes
  <2>2. ChangesUrl(t)'
    BY <1>3, <1>4 DEF ChangesUrl
  <2>3. \A s \in Tabs : CurrentTrue(s)'
    BY <1>3, <1>4 DEF CurrentTrue
  <2> QED BY <2>1, <2>2, <2>3 DEF CopyInv
<1>5. CASE r.kind # "url"
  <2>1. LoadsTrue' /\ AnswersTrue' /\ (EngineTrue <=> EngineTrue')
    BY <1>2, <1>3, <1>5 DEF CopyInv, LoadsTrue, AnswersTrue, EngineTrue
  <2>2. ASSUME NEW s \in Tabs PROVE (ChangesUrl(s) => ChangesUrl(s)') /\ CurrentTrue(s)'
    BY <1>2, <1>3, <1>5, <2>1 DEF CopyInv, ChangesUrl, CurrentTrue
  <2>3. EngineTrue' \/ \E s \in Tabs : ChangesUrl(s)'
    BY <2>1, <2>2 DEF CopyInv
  <2> QED BY <2>1, <2>2, <2>3 DEF CopyInv
<1> QED BY <1>4, <1>5

(* Both pages show the address that is stored, though one of them reads it *)
(* from a copy which only the other's route knows to be out of date        *)
(* (routes/admin.ts:541, engines.ts:162), as long as no read of it falls   *)
(* between a change and its invalidation.                                  *)
THEOREM SettingsStayConsistent == ~LoadsStraddle => (SettingsSpec => []SettingsAgree)
<1> SUFFICES ASSUME ~LoadsStraddle PROVE SettingsSpec => []SettingsAgree
  OBVIOUS
<1>1. SettingsInit => RoutingInv /\ CopyInv
  BY RoutingInit, CopyInit
<1>2. RoutingInv /\ CopyInv /\ [SettingsNext]_settingsVars => RoutingInv' /\ CopyInv'
  <2> SUFFICES ASSUME RoutingInv, CopyInv, [SettingsNext]_settingsVars PROVE CopyInv'
    BY RoutingStep
  <2>1. Shapes'
    BY RoutingStep DEF RoutingInv
  <2>2. ASSUME NEW t \in Tabs, Handle(t) PROVE CopyInv'
    BY <2>1, <2>2, WriteKeepsCopy, DropKeepsCopy, AnswersKeepCopy, ClearsKeepCopy DEF Handle
  <2>3. CASE UNCHANGED settingsVars
    BY <2>1, <2>3, CopyStays DEF settingsVars, CopyInv, LoadsTrue, EngineTrue
  <2> QED
    BY <2>1, <2>2, <2>3, ClicksKeepCopy, ReadsKeepCopy, AgesKeepCopy DEF SettingsNext
<1>3. CopyInv => FetchedIsStored
  BY DEF CopyInv, CurrentTrue, FetchedIsStored
<1>4. SettingsSpec => [](RoutingInv /\ CopyInv)
  BY <1>1, <1>2, PTL DEF SettingsSpec
<1>5. RoutingFollowsKey /\ FetchedIsStored => SettingsAgree
  BY DEF SettingsAgree
<1> QED BY <1>3, <1>4, <1>5, RoutesFollowTheKey, PTL
=============================================================================
