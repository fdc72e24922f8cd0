------------------------------- MODULE Access -------------------------------
(***************************************************************************)
(* Users in two systems without a common commit: rows of app_users in the  *)
(* database, logins at the identity provider.  Handlers that change a user *)
(* hold the lock of its company, but setting up a login, correcting an     *)
(* administrator's email and the platform's switches do not take it.  So a *)
(* handler is one step only where it writes nothing it has read: an update *)
(* of a user reads and writes in two, and setting up and removing a login, *)
(* which go back and forth between the systems, in several.                *)
(*                                                                         *)
(* One login may serve users of several companies.  Permissions other than *)
(* "has the system role Main Admin", names and error texts are left out,   *)
(* and so is who acts: a platform administrator may do all of it.  Of a    *)
(* request with a version only the accepted case is a step.                *)
(***************************************************************************)
EXTENDS Naturals, FiniteSets

CONSTANTS Users,       \* ids of app_users; an id is used once
          Companies,
          CompanyOf,   \* the company of a user
          FirstAdmin,  \* the user a company is created with
          Founder,     \* the company the system is seeded with
          Emails,
          FirstEmail,  \* the email of its administrator
          Logins,      \* ids of the identity provider; an id is used once
          Callers,     \* requests that set up a login
          Sessions,    \* browsers
          MaxRequests, \* bound: requests of people that change something
          None,
          Removed      \* a row that was deleted

Pending == "pending:"   \* identity_id of a user whose login is not known

UserRecords ==
    [email : Emails, login : Logins \cup {Pending}, linked : BOOLEAN, admin : BOOLEAN,
     active : BOOLEAN, seen : BOOLEAN, sync : {"pending", "ready", "failed"},
     version : Nat, auth : Nat]

LoginRecords ==
    [email : Emails, owner : Users, enabled : BOOLEAN, used : BOOLEAN, gone : BOOLEAN]

ASSUME AccessAssumption ==
    /\ IsFiniteSet(Users) /\ Logins # {} /\ Pending \notin Logins
    /\ CompanyOf \in [Users -> Companies]
    /\ FirstAdmin \in [Companies -> Users]
    /\ \A c \in Companies : CompanyOf[FirstAdmin[c]] = c
    /\ Founder \in Companies /\ FirstEmail \in Emails
    /\ MaxRequests \in Nat
    /\ {None, Removed} \cap (Users \cup Logins \cup Emails) = {} /\ None # Removed
    /\ {None, Removed} \cap UserRecords = {} /\ None \notin LoginRecords

VARIABLES row,      \* app_users: None, Removed or a record
          company,  \* tenants: "none", "active", "inactive"
          idp,      \* logins: None or a record, kept with gone = TRUE when deleted
          setup,    \* the calls of provision
          holder,   \* per company, the update or removal that holds its lock
          session,  \* what a browser's session remembers
          changes,  \* history: changes of a user's access
          cut,      \* history: logins deleted although a row kept or got them
          crossed,  \* history: logins whose user got another email by an edit
          requests  \* counts towards MaxRequests

vars == <<row, company, idp, setup, holder, session, changes, cut, crossed, requests>>

Idle == [pc |-> "idle"]

Exists(u) == row[u] \notin {None, Removed}
Present == {u \in Users : Exists(u)}
Members(c) == {u \in Present : CompanyOf[u] = c}
Lives(l) == idp[l] # None /\ ~ idp[l].gone
Named(e) == {l \in Logins : Lives(l) /\ idp[l].email = e}   \* at most one
PointingAt(l) == {u \in Present : row[u].login = l}

Init ==
    LET u == FirstAdmin[Founder]
        l == CHOOSE x \in Logins : TRUE
        e == FirstEmail
    IN  /\ company = [c \in Companies |-> IF c = Founder THEN "active" ELSE "none"]
        /\ row = [x \in Users |->
                    IF x = u
                    THEN [email |-> e, login |-> l, linked |-> FALSE, admin |-> TRUE,
                          active |-> TRUE, seen |-> TRUE, sync |-> "ready",
                          version |-> 1, auth |-> 1]
                    ELSE None]
        /\ idp = [x \in Logins |->
                    IF x = l
                    THEN [email |-> e, owner |-> u, enabled |-> TRUE, used |-> TRUE,
                          gone |-> FALSE]
                    ELSE None]
        /\ setup = [k \in Callers |-> Idle]
        /\ holder = [c \in Companies |-> Idle]
        /\ session = [s \in Sessions |-> None]
        /\ changes = [x \in Users |-> 0]
        /\ cut = {} /\ crossed = {}
        /\ requests = 0

-----------------------------------------------------------------------------
(* Handlers under the lock of the company (mutate), and of the platform.   *)

\* mutate: the lock is free and the company may be worked in.
Open(c) == company[c] = "active" /\ holder[c] = Idle

Request == requests < MaxRequests /\ requests' = requests + 1

EmailFree(u, e) == \A o \in Members(CompanyOf[u]) \ {u} : row[o].email # e

\* users_company_identity_idx
LoginFree(u, l) == \A o \in Members(CompanyOf[u]) \ {u} : row[o].login # l

\* Logins the platform may attach a new user with this email to.
Known(e) == {row[o].login : o \in {x \in Present : row[x].email = e}} \ {Pending}

\* The removals that have decided to delete login l.
Deciding(l) == {c \in Companies : holder[c].pc \in {"delete", "commit"} /\ holder[c].login = l
                                   /\ holder[c].delete}

Insert(u, e, admin, l) ==
    /\ row' = [row EXCEPT ![u] =
                 [email |-> e, login |-> l, linked |-> l # Pending, admin |-> admin,
                  active |-> TRUE, seen |-> FALSE,
                  sync |-> IF l = Pending THEN "pending" ELSE "ready",
                  version |-> 1, auth |-> 1]]
    /\ cut' = IF l # Pending /\ Deciding(l) # {} THEN cut \cup {l} ELSE cut

CreateUser(u, e, admin, platform) ==
    /\ row[u] = None /\ Open(CompanyOf[u]) /\ Request /\ EmailFree(u, e)
    /\ \E l \in IF platform /\ Known(e) # {} THEN Known(e) ELSE {Pending} :
         LoginFree(u, l) /\ Insert(u, e, admin, l)
    /\ UNCHANGED <<company, idp, setup, holder, session, changes, crossed>>

CreateCompany(c, e) ==
    /\ company[c] = "none" /\ Request
    /\ company' = [company EXCEPT ![c] = "active"]
    /\ \E l \in IF Known(e) # {} THEN Known(e) ELSE {Pending} :
         Insert(FirstAdmin[c], e, TRUE, l)
    /\ UNCHANGED <<idp, setup, holder, session, changes, crossed>>

\* Mutant: the user itself counts as another administrator.
ProtectAdminWithSelf(u, admin, active) ==
    row[u].admin /\ row[u].active /\ ~ (admin /\ active) =>
       \E o \in Members(CompanyOf[u]) :
          row[o].admin /\ row[o].active /\ row[o].sync = "ready"

\* protectAdmin: whoever stops being an active Main Admin leaves another one.
ProtectAdmin(u, admin, active) ==
    row[u].admin /\ row[u].active /\ ~ (admin /\ active) =>
       \E o \in Members(CompanyOf[u]) \ {u} :
          row[o].admin /\ row[o].active /\ row[o].sync = "ready"

\* updateUser, its reads: only the email of a user without a login may change.
CheckUpdate(u, e, admin, active) ==
    /\ Exists(u) /\ Open(CompanyOf[u]) /\ Request
    /\ ProtectAdmin(u, admin, active)
    /\ e # row[u].email => row[u].login = Pending
    /\ holder' = [holder EXCEPT ![CompanyOf[u]] =
                    [pc |-> "update", user |-> u, email |-> e, admin |-> admin, active |-> active]]
    /\ UNCHANGED <<row, company, idp, setup, session, changes, cut, crossed>>

\* Mutant: sessions end on a change of the role only.
RaiseForRole(u, admin, active) == IF row[u].admin # admin THEN 1 ELSE 0

\* Sessions end on a change of the role or the status, which the lock keeps as they were read.
Raise(u, admin, active) == IF <<row[u].admin, row[u].active>> # <<admin, active>> THEN 1 ELSE 0

\* updateUser, its write: by the id alone, with the email that was given or read.
WriteUpdate(c) ==
    LET job == holder[c]
        u == job.user
    IN  /\ job.pc = "update" /\ EmailFree(u, job.email)
        /\ row' = [row EXCEPT ![u].email = job.email, ![u].admin = job.admin,
                              ![u].active = job.active, ![u].version = @ + 1,
                              ![u].auth = @ + Raise(u, job.admin, job.active),
                              ![u].sync = "pending"]
        /\ changes' = [changes EXCEPT ![u] =
                         IF row[u].admin = job.admin /\ row[u].active = job.active
                         THEN @ ELSE @ + 1]
        /\ crossed' = IF row[u].login # Pending /\ row[u].email # job.email
                      THEN crossed \cup {row[u].login} ELSE crossed
        /\ holder' = [holder EXCEPT ![c] = Idle]
        /\ UNCHANGED <<company, idp, setup, session, cut, requests>>

\* assign: the plants of a user; all that matters here is its version.
AssignPlants(u) ==
    /\ Exists(u) /\ Open(CompanyOf[u]) /\ Request /\ ~ row[u].admin
    /\ row' = [row EXCEPT ![u].version = @ + 1]
    /\ UNCHANGED <<company, idp, setup, holder, session, changes, cut, crossed>>

\* email, with invite = FALSE: not for a login that several companies share.
ResetPassword(u) ==
    /\ Exists(u) /\ Open(CompanyOf[u]) /\ Request
    /\ row[u].active /\ row[u].sync = "ready" /\ Cardinality(PointingAt(row[u].login)) <= 1
    /\ row' = [row EXCEPT ![u].auth = @ + 1]
    /\ changes' = [changes EXCEPT ![u] = @ + 1]
    /\ UNCHANGED <<company, idp, setup, holder, session, cut, crossed>>

\* platform_company, update: the status of a company.
SwitchStatus(c) ==
    /\ company[c] # "none" /\ Request
    /\ company' = [company EXCEPT ![c] = IF @ = "active" THEN "inactive" ELSE "active"]
    /\ row' = [u \in Users |-> IF u \in Members(c) THEN [row[u] EXCEPT !.auth = @ + 1] ELSE row[u]]
    /\ changes' = [u \in Users |-> IF u \in Members(c) THEN changes[u] + 1 ELSE changes[u]]
    /\ UNCHANGED <<idp, setup, holder, session, cut, crossed>>

InSetup(u) == \E k \in Callers : setup[k].pc # "idle" /\ setup[k].user = u

\* platform_company, onboarding: the oldest Main Admin.
Onboarding(c) == {u \in Members(c) : row[u].admin /\ (u = FirstAdmin[c] \/
                    ~ (Exists(FirstAdmin[c]) /\ row[FirstAdmin[c]].admin))}

\* correctAdminEmail: under the lock of the user, not of the company.  The
\* reads of the identity provider and the commit are one step.
CorrectAdminEmail(u, e) ==
    /\ Exists(u) /\ u \in Onboarding(CompanyOf[u]) /\ ~ InSetup(u)
    /\ Request /\ e # row[u].email /\ ~ row[u].seen
    /\ row[u].login # Pending => ~ (Lives(row[u].login) /\ idp[row[u].login].used)
    /\ Named(e) = {} /\ EmailFree(u, e)
    /\ row' = [row EXCEPT ![u].email = e, ![u].login = Pending, ![u].linked = FALSE,
                          ![u].sync = "pending", ![u].version = @ + 1, ![u].auth = @ + 1]
    /\ changes' = [changes EXCEPT ![u] = @ + 1]
    /\ UNCHANGED <<company, idp, setup, holder, session, cut, crossed>>

-----------------------------------------------------------------------------
(* provision and syncIdentity, under the lock of the user.                 *)

Step(k, pc) == setup' = [setup EXCEPT ![k].pc = pc]
End(k) == setup' = [setup EXCEPT ![k] = Idle]

\* Try the lock and read the user.  After a creation or a change, or as retry.
StartSetup(k, u) ==
    /\ setup[k] = Idle /\ Exists(u) /\ ~ InSetup(u) /\ row[u].sync # "ready"
    /\ setup' = [setup EXCEPT ![k] =
                   [pc |-> IF row[u].login = Pending THEN "lookup" ELSE "check",
                    user |-> u, login |-> row[u].login, email |-> row[u].email,
                    active |-> row[u].active, version |-> row[u].version]]
    /\ UNCHANGED <<row, company, idp, holder, session, changes, cut, crossed, requests>>

Unchanged(k) == Exists(setup[k].user) /\ row[setup[k].user].version = setup[k].version

\* An error of the provider or of a check: recorded, unless the user has changed.
Fail(k) ==
    /\ row' = IF Unchanged(k) THEN [row EXCEPT ![setup[k].user].sync = "failed"] ELSE row
    /\ End(k)

\* Mutant: any login with this email is taken over.
LookupForeign(k) ==
    LET found == Named(setup[k].email)
    IN  /\ setup[k].pc = "lookup"
        /\ \/ found = {} /\ Step(k, "post")
           \/ \E l \in found : setup' = [setup EXCEPT ![k].pc = "check", ![k].login = l]
        /\ UNCHANGED <<row, company, idp, holder, session, changes, cut, crossed, requests>>

\* A login with this email is taken over when it was made for this user.
Lookup(k) ==
    LET found == Named(setup[k].email)
        own == {l \in found : idp[l].owner = setup[k].user}
    IN  /\ setup[k].pc = "lookup"
        /\ \/ found = {} /\ Step(k, "post") /\ UNCHANGED row
           \/ /\ \E l \in own : setup' = [setup EXCEPT ![k].pc = "check", ![k].login = l]
              /\ UNCHANGED row
           \/ found # own /\ Fail(k)
        /\ UNCHANGED <<company, idp, holder, session, changes, cut, crossed, requests>>

\* The login is made; the answer may be lost.  A taken name is refused.
Post(k) ==
    LET call == setup[k]
        l == CHOOSE x \in Logins : idp[x] = None
    IN  /\ call.pc = "post"
        /\ \/ Named(call.email) # {} /\ Fail(k) /\ UNCHANGED idp
           \/ /\ Named(call.email) = {} /\ \E x \in Logins : idp[x] = None
              /\ idp' = [idp EXCEPT ![l] =
                           [email |-> call.email, owner |-> call.user,
                            enabled |-> call.active, used |-> FALSE, gone |-> FALSE]]
              /\ \/ setup' = [setup EXCEPT ![k].pc = "check", ![k].login = l] /\ UNCHANGED row
                 \/ Fail(k)
        /\ UNCHANGED <<company, holder, session, changes, cut, crossed, requests>>

Check(k) ==
    /\ setup[k].pc = "check"
    /\ \/ Lives(setup[k].login) /\ Step(k, "save") /\ UNCHANGED row
       \/ ~ Lives(setup[k].login) /\ Fail(k)
    /\ UNCHANGED <<company, idp, holder, session, changes, cut, crossed, requests>>

\* The login is recorded, unless the user has changed since it was read.
SaveLogin(k) ==
    LET u == setup[k].user
        l == setup[k].login
    IN  /\ setup[k].pc = "save" /\ LoginFree(u, l)
        /\ row' = IF Unchanged(k)
                  THEN [row EXCEPT ![u].login = l, ![u].sync = "ready"]
                  ELSE row
        /\ cut' = IF Unchanged(k) /\ Deciding(l) # {} THEN cut \cup {l} ELSE cut
        /\ End(k)
        /\ UNCHANGED <<company, idp, holder, session, changes, crossed, requests>>

\* The provider cannot be reached, or the index refuses the login.
Fails(k) ==
    /\ \/ setup[k].pc \in {"lookup", "post", "check"}
       \/ setup[k].pc = "save" /\ ~ LoginFree(setup[k].user, setup[k].login)
    /\ Fail(k)
    /\ UNCHANGED <<company, idp, holder, session, changes, cut, crossed, requests>>

\* The process dies: nothing is recorded, the lock is given back.
CrashSetup(k) ==
    /\ setup[k].pc # "idle" /\ End(k)
    /\ UNCHANGED <<row, company, idp, holder, session, changes, cut, crossed, requests>>

-----------------------------------------------------------------------------
(* removeUser: one transaction, with the login deleted inside it.          *)

CheckRemoval(u) ==
    LET c == CompanyOf[u]
    IN  /\ Exists(u) /\ Open(c) /\ Request /\ ProtectAdmin(u, row[u].admin, FALSE)
        /\ holder' = [holder EXCEPT ![c] = [pc |-> "find", user |-> u,
                                              login |-> row[u].login, email |-> row[u].email]]
        /\ UNCHANGED <<row, company, idp, setup, session, changes, cut, crossed>>

\* Mutant: a login is taken to be its user's own.
ElsewhereNever(l, pending) == FALSE

\* identity_company_count: is the login used by another user?
Elsewhere(l, pending) == Cardinality(PointingAt(l)) > (IF pending THEN 0 ELSE 1)

\* The users besides u that the count of login l has seen.  It takes for granted
\* that it counts u, also after correctAdminEmail has detached u: then nobody.
OthersSeen(u, l, pending) ==
    IF pending \/ u \in PointingAt(l) THEN PointingAt(l) \ {u} ELSE {}

\* Which login to delete.  Of a user who was never set up it is the one that
\* has the user's email, whoever it was made for.
FindLogin(c) ==
    LET job == holder[c]
        pending == job.login = Pending
        subjects == IF pending THEN Named(job.email) ELSE {job.login}
    IN  /\ job.pc = "find"
        /\ \/ \E l \in subjects :
                holder' = [holder EXCEPT ![c] =
                              [pc |-> IF Elsewhere(l, pending) THEN "commit" ELSE "delete",
                               user |-> job.user, login |-> l,
                               delete |-> ~ Elsewhere(l, pending),
                               others |-> OthersSeen(job.user, l, pending)]]
           \/ /\ subjects = {}
              /\ holder' = [holder EXCEPT ![c] =
                               [pc |-> "commit", user |-> job.user, login |-> None,
                                delete |-> FALSE, others |-> {}]]
        /\ UNCHANGED <<row, company, idp, setup, session, changes, cut, crossed, requests>>

DeleteLogin(c) ==
    LET l == holder[c].login
        user == holder[c].user
    IN  /\ holder[c].pc = "delete"
        /\ holder' = [holder EXCEPT ![c].pc = "commit"]
        /\ idp' = [idp EXCEPT ![l].gone = TRUE]
        /\ cut' = IF \/ ~ PointingAt(l) \subseteq holder[c].others \cup {user}
                     \/ \E k \in Callers : setup[k].pc = "save" /\ setup[k].login = l
                  THEN cut \cup {l} ELSE cut
        /\ UNCHANGED <<row, company, setup, session, changes, crossed, requests>>

CommitRemoval(c) ==
    /\ holder[c].pc = "commit"
    /\ row' = [row EXCEPT ![holder[c].user] = Removed]
    /\ holder' = [holder EXCEPT ![c] = Idle]
    /\ UNCHANGED <<company, idp, setup, session, changes, cut, crossed, requests>>

\* An update or a removal ends: the provider fails, a statement fails or the
\* process dies.  The database takes everything back, the provider nothing.
Abort(c) ==
    /\ holder[c].pc # "idle"
    /\ holder' = [holder EXCEPT ![c] = Idle]
    /\ cut' = IF holder[c].pc = "commit" /\ holder[c].delete
              THEN cut \cup {holder[c].login} ELSE cut
    /\ UNCHANGED <<row, company, idp, setup, session, changes, crossed, requests>>

-----------------------------------------------------------------------------
(* Sessions.                                                               *)

\* session_memberships
Memberships(l) == {u \in PointingAt(l) : row[u].active /\ company[CompanyOf[u]] = "active"}

\* callback: the session remembers the auth version of every membership.
SignIn(s, l) ==
    /\ session[s] = None   \* bound: a browser signs in once
    /\ Lives(l) /\ idp[l].enabled /\ Memberships(l) # {}
    /\ session' = [session EXCEPT ![s] =
                     [login |-> l, members |-> Memberships(l),
                      auth |-> [u \in Users |-> IF u \in Memberships(l) THEN row[u].auth ELSE 0],
                      changes |-> changes]]
    /\ row' = [u \in Users |-> IF u \in Memberships(l) THEN [row[u] EXCEPT !.seen = TRUE] ELSE row[u]]
    /\ idp' = [idp EXCEPT ![l].used = TRUE]
    /\ UNCHANGED <<company, setup, holder, changes, cut, crossed, requests>>

\* accessDb, after switchCompany to the company of u.
Accepts(s, u) ==
    /\ session[s] # None /\ u \in Memberships(session[s].login)
    /\ session[s].auth[u] = row[u].auth

-----------------------------------------------------------------------------
People ==
    \/ \E u \in Users, e \in Emails, admin, b \in BOOLEAN :
          CreateUser(u, e, admin, b) \/ CheckUpdate(u, e, admin, b)
    \/ \E u \in Users : AssignPlants(u) \/ ResetPassword(u) \/ CheckRemoval(u)
    \/ \E c \in Companies, e \in Emails : CreateCompany(c, e)
    \/ \E c \in Companies : SwitchStatus(c)
    \/ \E u \in Users, e \in Emails : CorrectAdminEmail(u, e)

Requests ==
    \/ \E k \in Callers : \/ \E u \in Users : StartSetup(k, u)
                          \/ Lookup(k) \/ Post(k) \/ Check(k)
                          \/ SaveLogin(k) \/ Fails(k) \/ CrashSetup(k)
    \/ \E c \in Companies : \/ WriteUpdate(c) \/ FindLogin(c) \/ DeleteLogin(c)
                            \/ CommitRemoval(c) \/ Abort(c)
    \/ \E s \in Sessions, l \in Logins : SignIn(s, l)

Next == People \/ Requests

Spec == Init /\ [][Next]_vars

-----------------------------------------------------------------------------
(* Properties.                                                             *)

\* However people create, change, deactivate and remove users, a company never
\* is without an active Main Admin (protectAdmin).
AlwaysAdmin ==
    \A c \in Companies : company[c] # "none" =>
       \E u \in Members(c) : row[u].admin /\ row[u].active

\* The login of a user was made for that user, or the platform attached the user
\* to it, and it has the email the user has now: a setup that raced with an
\* edit does not attach the login of the old email (provision).  Another email
\* it may have only if an update that had read its user without a login wrote
\* the email after the login was saved (updateUser); the platform attaches
\* further users to such a login by that email.
LoginMatches ==
    \A u \in Present : row[u].login # Pending =>
       LET l == idp[row[u].login]
       IN  /\ l # None /\ (l.email = row[u].email \/ row[u].login \in crossed)
           /\ l.owner = u \/ row[u].linked

\* A login some company's user points at is deleted only by a removal that lost
\* a race: it was undone after the deletion, a user was attached to the login
\* after the removal had counted its users, or the removed user was detached
\* from it before that, and the count took the other one for him (removeUser).
LoginKept ==
    \A u \in Present : row[u].login # Pending /\ ~ Lives(row[u].login) =>
       \/ row[u].login \in cut
       \/ holder[CompanyOf[u]].pc = "commit" /\ holder[CompanyOf[u]].user = u

\* A session is accepted only while nobody has changed the role or the status of
\* its user, reset the password or switched the company off since the sign-in
\* (accessDb compares auth_version).
SessionAsGranted ==
    \A s \in Sessions, u \in Users :
       Accepts(s, u) => changes[u] = session[s].changes[u]
=============================================================================
