-------------------------------- MODULE Access --------------------------------
(***************************************************************************)
(* Who is let in (services/auth.ts, lib/vibe-auth.ts, vibe-auth-users.ts,  *)
(* middleware/auth.ts) and who may let others in (services/               *)
(* feature-access.ts): the first registration, password and single         *)
(* sign-on, sessions that roll and expire, password changes and resets     *)
(* that end sessions, role sync, and the grant of Access Management with   *)
(* its last-admin guard.  A request is a task; each await is a step.       *)
(*                                                                         *)
(* A password is what it was last set to: hash counts how often it was     *)
(* set.  What a session row does not say is kept beside it as history: the *)
(* password its sign-in was verified against, and whether a change that    *)
(* ends the sessions of its user has been made since it began.             *)
(***************************************************************************)
EXTENDS Naturals, FiniteSets

CONSTANTS
    Users,          \* accounts: people, and the break-glass account where there is one
    BreakGlass,     \* that account (lib/breakglass.ts); outside Users when there is none
    Tasks,          \* requests under way at one time
    MaxCalls,       \* bound: requests in all
    MaxSessions,    \* bound: sessions ever created
    RolesOverlap    \* may two changes of roles, access or activity overlap?

Nobody == "nobody"

ASSUME AccessAssumption ==
    /\ Nobody \notin Users
    /\ IsFiniteSet(Users) /\ IsFiniteSet(Tasks)
    /\ MaxCalls \in Nat /\ MaxSessions \in Nat /\ RolesOverlap \in BOOLEAN

Roles == {"admin", "staff"}
Sids == 1..MaxSessions
NoAccount == [there |-> FALSE, role |-> "staff", on |-> FALSE, known |-> FALSE, hash |-> 0,
              denied |-> FALSE]
NoSession == [user |-> Nobody, hash |-> 0, condemned |-> FALSE, age |-> "gone"]
Rest == [pc |-> "idle", who |-> Nobody, own |-> 0, sso |-> FALSE, hash |-> 0, role |-> "staff",
         seen |-> {}]

VARIABLES
    user,       \* users and their admin.accessControl override
    session,    \* sessions
    born,       \* how many sessions there have been
    task,       \* requests under way
    lock,       \* holder of the registration lock
    opened,     \* history: who became admin through open registration
    requests

accessVars == <<user, session, born, task, lock, opened, requests>>

AccessInit ==
    /\ user = [u \in Users |-> NoAccount]
    /\ session = [s \in Sids |-> NoSession] /\ born = 0
    /\ task = [t \in Tasks |-> Rest]
    /\ lock = {} /\ opened = {} /\ requests = 0

\* Administrators who can sign in; role sync leaves the break-glass account out.
Admins == {u \in Users : user[u].there /\ user[u].role = "admin"}
ActiveAdmins == {u \in Admins \ {BreakGlass} : user[u].on}
KeepAccess == {u \in Admins : user[u].on /\ ~user[u].denied}
countUsers == Cardinality({u \in Users : user[u].there})

\* getSession: neither the session has expired nor the account is disabled.
SignedIn(s) == session[s].age \in {"young", "old"} /\ user[session[s].user].on
Actor(s) == user[session[s].user]

-----------------------------------------------------------------------------
(* Requests.                                                               *)

Reassigning == {"role", "count", "setRole", "disable", "endAll", "admins", "denials", "deny"}
Overlap == \E t \in Tasks : task[t].pc \in Reassigning

Begin(t, request) ==
    /\ task[t].pc = "idle" /\ requests < MaxCalls
    /\ request.pc \in Reassigning => RolesOverlap \/ ~Overlap
    /\ task' = [task EXCEPT ![t] = request]
    /\ requests' = requests + 1

Goto(t, pc) == task' = [task EXCEPT ![t].pc = pc]
Finish(t) == task' = [task EXCEPT ![t] = Rest]

\* POST /register: the early count, before the password is hashed.
StartRegister(t, u) ==
    /\ countUsers = 0
    /\ Begin(t, [Rest EXCEPT !.pc = "lock", !.who = u])
    /\ UNCHANGED <<user, session, born, lock, opened>>

\* POST /users.
StartCreateStaff(t, s, u) ==
    /\ SignedIn(s) /\ Actor(s).role = "admin"
    /\ Begin(t, [Rest EXCEPT !.pc = "lock", !.who = u, !.own = s])
    /\ UNCHANGED <<user, session, born, lock, opened>>

\* Mutant form: no advisory lock.
LockFreely(t) == lock' = lock \union {t}

TakeLock(t) == lock = {} /\ lock' = {t}

LockRegister(t) ==
    /\ task[t].pc = "lock"
    /\ TakeLock(t)
    /\ Goto(t, "recount")
    /\ UNCHANGED <<user, session, born, opened, requests>>

\* The decision that counts.
Recount(t) ==
    /\ task[t].pc = "recount"
    /\ \/ countUsers = 0
          /\ task' = [task EXCEPT ![t].pc = "insert", ![t].role = "admin"] /\ UNCHANGED lock
       \/ countUsers # 0 /\ task[t].own # 0
          /\ task' = [task EXCEPT ![t].pc = "insert", ![t].role = "staff"] /\ UNCHANGED lock
       \/ countUsers # 0 /\ task[t].own = 0
          /\ Finish(t) /\ lock' = lock \ {t}
    /\ UNCHANGED <<user, session, born, opened, requests>>

\* An email that is registered already is a conflict.
InsertUser(t) ==
    /\ task[t].pc = "insert"
    /\ LET u == task[t].who IN
       IF user[u].there THEN UNCHANGED <<user, opened>>
       ELSE /\ user' = [user EXCEPT ![u] = [NoAccount EXCEPT !.there = TRUE, !.role = task[t].role,
                                                        !.on = TRUE, !.known = TRUE]]
            /\ opened' = IF task[t].own = 0 THEN opened \union {u} ELSE opened
    /\ Finish(t) /\ lock' = lock \ {t}
    /\ UNCHANGED <<session, born, requests>>

-----------------------------------------------------------------------------
(* Sign-in.                                                                *)

\* POST /login with the right password: the row is read and verified.  A
\* password nobody holds (SSO users) and a disabled account are refused.
StartLogin(t, u) ==
    /\ user[u].there /\ user[u].known /\ user[u].on
    /\ Begin(t, [Rest EXCEPT !.pc = "create", !.who = u, !.hash = user[u].hash])
    /\ UNCHANGED <<user, session, born, lock, opened>>

\* The engine resolves an identity to its user; a new one is provisioned,
\* a known one has its role synchronised.  A disabled user is refused, and no
\* identity ever resolves to the break-glass account.
StartSso(t, u, role) ==
    /\ u # BreakGlass
    /\ \/ /\ ~user[u].there
          /\ Begin(t, [Rest EXCEPT !.pc = "create", !.who = u, !.sso = TRUE])
          /\ user' = [user EXCEPT ![u] =
                         [NoAccount EXCEPT !.there = TRUE, !.role = role, !.on = TRUE]]
       \/ /\ user[u].there /\ user[u].on
          /\ Begin(t, [Rest EXCEPT !.pc = IF user[u].role = role THEN "create" ELSE "role",
                                   !.who = u, !.sso = TRUE, !.role = role])
          /\ UNCHANGED user
    /\ UNCHANGED <<session, born, lock, opened>>

\* setRole reads the row; only a demotion needs another admin.
ReadRole(t) ==
    /\ task[t].pc = "role"
    /\ Goto(t, IF user[task[t].who].role = task[t].role THEN "create"
               ELSE IF task[t].role = "staff" THEN "count" ELSE "setRole")
    /\ UNCHANGED <<user, session, born, lock, opened, requests>>

\* Mutant form: the count does not leave the user out.
CountAll(u) == ActiveAdmins

countOtherActiveAdmins(u) == ActiveAdmins \ {u}

CountAdmins(t) ==
    /\ task[t].pc = "count"
    /\ Goto(t, IF countOtherActiveAdmins(task[t].who) = {} THEN "create" ELSE "setRole")
    /\ UNCHANGED <<user, session, born, lock, opened, requests>>

SetRole(t) ==
    /\ task[t].pc = "setRole"
    /\ user' = [user EXCEPT ![task[t].who].role = task[t].role]
    /\ Goto(t, "create")
    /\ UNCHANGED <<session, born, lock, opened, requests>>

\* createSession; the row names its user, not the password it was given for.
CreateSession(t) ==
    /\ task[t].pc = "create" /\ born < MaxSessions
    /\ born' = born + 1
    /\ session' = [session EXCEPT ![born'] =
                       [user |-> task[t].who, condemned |-> FALSE, age |-> "young",
                        hash |-> IF task[t].sso THEN user[task[t].who].hash ELSE task[t].hash]]
    /\ Finish(t)
    /\ UNCHANGED <<user, lock, opened, requests>>

-----------------------------------------------------------------------------
(* Sessions end, roll and expire.                                          *)

Logout(s) ==
    /\ session[s] # NoSession
    /\ session' = [session EXCEPT ![s] = NoSession]
    /\ UNCHANGED <<user, born, task, lock, opened, requests>>

\* Back-channel logout of a resolved user.
destroyByIdentity(u) ==
    /\ u # BreakGlass
    /\ \E s \in Sids : session[s].user = u
    /\ session' = [s \in Sids |-> IF session[s].user = u THEN NoSession ELSE session[s]]
    /\ UNCHANGED <<user, born, task, lock, opened, requests>>

Age(s) ==
    /\ \/ session[s].age = "young" /\ session' = [session EXCEPT ![s].age = "old"]
       \/ session[s].age = "old" /\ session' = [session EXCEPT ![s].age = "expired"]
    /\ UNCHANGED <<user, born, task, lock, opened, requests>>

\* A request on a session past half its life, which is then extended.
StartRoll(t, s) ==
    /\ session[s].age = "old" /\ SignedIn(s)
    /\ Begin(t, [Rest EXCEPT !.pc = "roll", !.own = s])
    /\ UNCHANGED <<user, session, born, lock, opened>>

\* An UPDATE: it changes nothing when the row is gone.
RollExpiry(s) == session' = [session EXCEPT ![s] =
    IF @ # NoSession THEN [@ EXCEPT !.age = "young"] ELSE @]

maybeRollSession(t) ==
    /\ task[t].pc = "roll"
    /\ RollExpiry(task[t].own)
    /\ Finish(t)
    /\ UNCHANGED <<user, born, lock, opened, requests>>

pruneSessions ==
    /\ \E s \in Sids : session[s].age = "expired"
    /\ session' = [s \in Sids |-> IF session[s].age = "expired" THEN NoSession ELSE session[s]]
    /\ UNCHANGED <<user, born, task, lock, opened, requests>>

-----------------------------------------------------------------------------
(* Passwords and activity.                                                 *)

\* changePassword: the current password is verified against the row the
\* session was loaded with.
StartChange(t, s) ==
    /\ SignedIn(s) /\ Actor(s).known
    /\ Begin(t, [Rest EXCEPT !.pc = "hash", !.who = session[s].user, !.own = s])
    /\ UNCHANGED <<user, session, born, lock, opened>>

\* adminResetPassword: never for the break-glass account ...
StartReset(t, s, u) ==
    /\ SignedIn(s) /\ Actor(s).role = "admin" /\ user[u].there /\ u # BreakGlass
    /\ Begin(t, [Rest EXCEPT !.pc = "hash", !.who = u])
    /\ UNCHANGED <<user, session, born, lock, opened>>

\* ... whose password the command line rotates (setLocalPassword).
StartRotate(t, u) ==
    /\ u = BreakGlass /\ user[u].there
    /\ Begin(t, [Rest EXCEPT !.pc = "hash", !.who = u])
    /\ UNCHANGED <<user, session, born, lock, opened>>

\* `breakglass ensure`: createLocalUser, which takes no registration lock.
CreateBreakGlass(u) ==
    /\ u = BreakGlass /\ ~user[u].there
    /\ user' = [user EXCEPT ![u] = [NoAccount EXCEPT !.there = TRUE, !.role = "admin",
                                                     !.on = TRUE, !.known = TRUE]]
    /\ UNCHANGED <<session, born, task, lock, opened, requests>>

\* History: the sessions that are there when a change for `u` takes hold are
\* to end, all but the one that asked for it.
Condemn(t) == session' = [s \in Sids |->
    IF session[s].user = task[t].who /\ s # task[t].own THEN [session[s] EXCEPT !.condemned = TRUE]
    ELSE session[s]]

SetHash(t) ==
    /\ task[t].pc = "hash"
    /\ user' = [user EXCEPT ![task[t].who].hash = @ + 1, ![task[t].who].known = TRUE]
    /\ Goto(t, "end")
    /\ Condemn(t)
    /\ UNCHANGED <<born, lock, opened, requests>>

\* setActive.
StartDisable(t, u) ==
    /\ user[u].there
    /\ Begin(t, [Rest EXCEPT !.pc = "disable", !.who = u])
    /\ UNCHANGED <<user, session, born, lock, opened>>

Disable(t) ==
    /\ task[t].pc = "disable"
    /\ user' = [user EXCEPT ![task[t].who].on = FALSE]
    /\ Goto(t, "endAll")
    /\ Condemn(t)
    /\ UNCHANGED <<born, lock, opened, requests>>

Enable(u) ==
    /\ user[u].there /\ ~user[u].on
    /\ user' = [user EXCEPT ![u].on = TRUE]
    /\ UNCHANGED <<session, born, task, lock, opened, requests>>

\* Mutant form: eq for ne, the session that asks is the one that ends.
OwnOnly(t) ==
    {s \in Sids : session[s].user = task[t].who /\ (task[t].own # 0 => s = task[t].own)}

\* Every session of the user but the one that made the change.
Others(t) == {s \in Sids : session[s].user = task[t].who /\ s # task[t].own}

\* The session that made the change stays signed in, as one of the new password.
EndSessions(t) ==
    /\ task[t].pc \in {"end", "endAll"}
    /\ LET u == task[t].who IN
       session' = [s \in Sids |->
           IF s \in Others(t) THEN NoSession
           ELSE IF session[s].user = u THEN [session[s] EXCEPT !.hash = user[u].hash]
                ELSE session[s]]
    /\ Finish(t)
    /\ UNCHANGED <<user, born, lock, opened, requests>>

-----------------------------------------------------------------------------
(* Access Management.                                                      *)

\* PATCH /feature-access: an admin who holds it sets it for a user.
StartAccess(t, s, u, enabled) ==
    /\ SignedIn(s) /\ Actor(s).role = "admin" /\ ~Actor(s).denied /\ user[u].there
    /\ Begin(t, [Rest EXCEPT !.pc = IF enabled THEN "grant"
                                    ELSE IF user[u].role = "admin" THEN "admins" ELSE "deny",
                             !.who = u])
    /\ UNCHANGED <<user, session, born, lock, opened>>

ReadAdmins(t) ==
    /\ task[t].pc = "admins"
    /\ task' = [task EXCEPT ![t].pc = "denials",
                            ![t].seen = Admins]
    /\ UNCHANGED <<user, session, born, lock, opened, requests>>

\* Disabled administrators and the break-glass account count.
adminsRetainingAccessControl(t) == {a \in task[t].seen : a # task[t].who /\ ~user[a].denied}

ReadDenials(t) ==
    /\ task[t].pc = "denials"
    /\ IF adminsRetainingAccessControl(t) = {} THEN Finish(t) ELSE Goto(t, "deny")
    /\ UNCHANGED <<user, session, born, lock, opened, requests>>

Upsert(t) ==
    /\ task[t].pc \in {"grant", "deny"}
    /\ user' = [user EXCEPT ![task[t].who].denied = (task[t].pc = "deny")]
    /\ Finish(t)
    /\ UNCHANGED <<session, born, lock, opened, requests>>

-----------------------------------------------------------------------------
Step(t) ==
    \/ LockRegister(t) \/ Recount(t) \/ InsertUser(t)
    \/ ReadRole(t) \/ CountAdmins(t) \/ SetRole(t) \/ CreateSession(t)
    \/ maybeRollSession(t) \/ SetHash(t) \/ Disable(t) \/ EndSessions(t)
    \/ ReadAdmins(t) \/ ReadDenials(t) \/ Upsert(t)

Start(t) ==
    \/ \E u \in Users :
          StartRegister(t, u) \/ StartLogin(t, u) \/ StartDisable(t, u) \/ StartRotate(t, u)
    \/ \E u \in Users, role \in Roles : StartSso(t, u, role)
    \/ \E s \in Sids : session[s] # NoSession /\ (StartChange(t, s) \/ StartRoll(t, s))
    \/ \E s \in Sids, u \in Users :
          /\ session[s] # NoSession
          /\ \/ StartCreateStaff(t, s, u) \/ StartReset(t, s, u)
             \/ \E enabled \in BOOLEAN : StartAccess(t, s, u, enabled)

AccessNext ==
    \/ \E t \in Tasks : Start(t) \/ Step(t)
    \/ \E s \in Sids : Logout(s) \/ Age(s)
    \/ \E u \in Users : destroyByIdentity(u) \/ Enable(u) \/ CreateBreakGlass(u)
    \/ pruneSessions

AccessSpec == AccessInit /\ [][AccessNext]_accessVars

-----------------------------------------------------------------------------
(* Properties.                                                             *)

Pc == {"idle", "lock", "recount", "insert", "create", "role", "count", "setRole", "roll",
       "hash", "end", "disable", "endAll", "grant", "deny", "admins", "denials"}

Account == [there : BOOLEAN, role : Roles, on : BOOLEAN, known : BOOLEAN, hash : Nat,
            denied : BOOLEAN]
Session == {NoSession} \cup [user : Users, hash : Nat, condemned : BOOLEAN,
                             age : {"young", "old", "expired"}]
Request == [pc : Pc, who : Users \cup {Nobody}, own : Nat, sso : BOOLEAN, hash : Nat, role : Roles,
            seen : SUBSET Users]

\* Whoever a request or a session is about is an account.
TypeOK ==
    /\ user \in [Users -> Account]
    /\ session \in [Sids -> Session]
    /\ task \in [Tasks -> Request]
    /\ \A t \in Tasks : task[t].pc \notin {"idle", "roll"} => task[t].who \in Users
    /\ born \in 0..MaxSessions /\ requests \in 0..MaxCalls
    /\ lock \subseteq Tasks /\ opened \subseteq Users

\* Open registration makes one admin, however many registrations race on an
\* empty database, each having counted no users.
OneFirstAdmin == Cardinality(opened) <= 1

\* Accounts are well formed, and open registration makes one of them.
AccountsAreSound == TypeOK /\ OneFirstAdmin

\* A change of user u's password or activity that has not ended the sessions yet.
EndPending(u) == \E t \in Tasks : task[t].who = u /\ task[t].pc \in {"end", "endAll"}

\* A password change, a reset and a disabling end every session that was there
\* when they took hold but the changer's own, and no session comes back from
\* that: not one a request is rolling at that moment, nor the own session of
\* another change under way.
SessionsEnd == \A s \in Sids : session[s].condemned => EndPending(session[s].user)

\* "a stolen 30-day rolling cookie must not outlive the password it was issued
\* under" (services/auth.ts:245): once no change is half done, a session is of
\* the password as it is.
SessionsFollowPassword ==
    \A s \in Sids : session[s] # NoSession =>
        \/ session[s].hash = user[session[s].user].hash
        \/ EndPending(session[s].user)

\* "Role sync never demotes the last remaining admin" (docs/sso.md:51).
NeverLastDemoted ==
    [][\A u \in Users : user[u].role = "admin" /\ user'[u].role = "staff"
           => ActiveAdmins' # {}]_accessVars

\* "Refuses to remove Access Management from the last admin who holds it, which
\* would lock the firm out" (services/feature-access.ts:103): after a revocation
\* somebody who can sign in holds it still.
AccessKept ==
    [][\A u \in Users : u \in KeepAccess /\ user'[u].denied => KeepAccess' # {}]_accessVars

===============================================================================
