---------------------------- MODULE AccessProofs ----------------------------
(***************************************************************************)
(* For any users, companies, logins, callers and sessions: a company never *)
(* is without an active Main Admin, a login belongs to the user it is      *)
(* recorded with, none is deleted under another user but in the races the  *)
(* model names, and a session is good for what was granted at the sign-in. *)
(***************************************************************************)
EXTENDS Access, FiniteSetTheorems, TLAPS

SetupRecords ==
    [pc : {"lookup", "post", "check", "save"}, user : Users, login : Logins \cup {Pending},
     email : Emails, active : BOOLEAN, version : Nat]

FindRecords == [pc : {"find"}, user : Users, login : Logins \cup {Pending}, email : Emails]

DecidedRecords ==
    [pc : {"delete", "commit"}, user : Users, login : Logins \cup {None}, delete : BOOLEAN,
     others : SUBSET Users]

UpdateRecords ==
    [pc : {"update"}, user : Users, email : Emails, admin : BOOLEAN, active : BOOLEAN]

Holders == FindRecords \cup DecidedRecords \cup UpdateRecords \cup {Idle}

SessionRecords ==
    [login : Logins, members : SUBSET Users, auth : [Users -> Nat], changes : [Users -> Nat]]

TypeOK ==
    /\ row \in [Users -> UserRecords \cup {None, Removed}]
    /\ company \in [Companies -> {"none", "active", "inactive"}]
    /\ idp \in [Logins -> LoginRecords \cup {None}]
    /\ setup \in [Callers -> SetupRecords \cup {Idle}]
    /\ holder \in [Companies -> Holders]
    /\ session \in [Sessions -> SessionRecords \cup {None}]
    /\ changes \in [Users -> Nat]
    /\ cut \subseteq Logins /\ crossed \subseteq Logins
    /\ requests \in Nat

\* Users belong to companies that have been created.
CompanyInv == \A u \in Users : row[u] # None => company[CompanyOf[u]] # "none"

\* An administrator stays besides the user whose update or removal holds the
\* lock, unless the update leaves an administrator.
RemovalInv ==
    \A c \in Companies : holder[c].pc # "idle" =>
       LET job == holder[c]
       IN  /\ Exists(job.user) /\ CompanyOf[job.user] = c
           /\ \/ job.pc = "update" /\ job.admin /\ job.active
              \/ \E o \in Members(c) : o # job.user /\ row[o].admin /\ row[o].active
           /\ job.pc # "update" /\ job.login \in Logins => idp[job.login] # None
           /\ job.pc = "delete" => job.login \in Logins /\ job.delete /\ job.others = {}
           /\ job.pc = "commit" /\ job.delete => job.login \in Logins

\* The version a session is compared by counts the changes.
AuthInv ==
    \A u \in Users : /\ row[u] = None => changes[u] = 0
                     /\ Exists(u) => row[u].auth = changes[u] + 1

SessionInv ==
    \A s \in Sessions : session[s] # None =>
       \A u \in Users : session[s].auth[u] # 0 =>
          session[s].auth[u] = session[s].changes[u] + 1

\* The login a setup is about to save is the one of its user's email, of now
\* if the user has kept the version.
CallInv(k) ==
    setup[k].pc # "idle" =>
       LET call == setup[k]
       IN  /\ row[call.user] # None
           /\ Exists(call.user) => call.version <= row[call.user].version
           /\ Unchanged(k) => call.email = row[call.user].email
           /\ call.pc \in {"check", "save"} =>
                 /\ call.login \in Logins /\ idp[call.login] # None
                 /\ idp[call.login].email = call.email \/ call.login \in crossed
                 /\ \/ idp[call.login].owner = call.user
                    \/ Unchanged(k) => row[call.user].linked
           /\ call.pc = "save" => Lives(call.login) \/ call.login \in cut

SetupInv == \A k \in Callers : CallInv(k)

\* LoginKept, with the removal that has just deleted the login.
KeptInv ==
    \A u \in Present : row[u].login # Pending /\ ~ Lives(row[u].login) =>
       \/ row[u].login \in cut
       \/ LET job == holder[CompanyOf[u]]
          IN  job.pc = "commit" /\ job.user = u /\ job.delete /\ job.login = row[u].login

IInv ==
    /\ TypeOK /\ CompanyInv /\ AlwaysAdmin /\ RemovalInv /\ AuthInv /\ SessionInv
    /\ LoginMatches /\ SetupInv /\ KeptInv

-----------------------------------------------------------------------------
(* What the steps do to the rows of users and to logins.                   *)

\* A row is as it was, or it is the same user with the same email, login and
\* part, maybe of a later version.
Same(r, q) ==
    \/ q = r
    \/ /\ r \in UserRecords /\ q \in UserRecords
       /\ q.email = r.email /\ q.login = r.login /\ q.linked = r.linked
       /\ q.admin = r.admin /\ q.active = r.active /\ q.version >= r.version

CalmRows == \A u \in Users : Same(row[u], row'[u])

\* The steps that change no user's email, login or part.
Calm ==
    \/ \E u \in Users : AssignPlants(u) \/ ResetPassword(u) \/ CheckRemoval(u)
    \/ \E u \in Users, e \in Emails, admin, b \in BOOLEAN : CheckUpdate(u, e, admin, b)
    \/ \E c \in Companies : SwitchStatus(c)
    \/ \E k \in Callers : \/ \E u \in Users : StartSetup(k, u)
                          \/ Lookup(k) \/ Post(k) \/ Check(k) \/ Fails(k) \/ CrashSetup(k)
    \/ \E c \in Companies : FindLogin(c) \/ DeleteLogin(c) \/ Abort(c)
    \/ \E s \in Sessions, l \in Logins : SignIn(s, l)
    \/ UNCHANGED vars

\* A user of a company is inserted, by that company or by the platform.
Inserts(u, e, admin, l) ==
    /\ u \in Users /\ e \in Emails /\ l \in Logins \cup {Pending} /\ admin \in BOOLEAN
    /\ row[u] = None
    /\ l # Pending => l \in Known(e)
    /\ Insert(u, e, admin, l)
    /\ company'[CompanyOf[u]] = "active"
    /\ \A c \in Companies : company'[c] = company[c] \/ c = CompanyOf[u]
    /\ company' \in [Companies -> {"none", "active", "inactive"}]
    /\ \A c \in Companies : company[c] = "none" /\ company'[c] # "none" => admin
    /\ UNCHANGED <<idp, setup, holder, session, changes>>
    /\ requests' \in Nat

\* The user of a record is one of the two values that are none only.
LEMMA RowTypes ==
  ASSUME TypeOK, NEW u \in Users
  PROVE  /\ row[u] \in UserRecords \/ row[u] = None \/ row[u] = Removed
         /\ Exists(u) <=> row[u] \in UserRecords
         /\ None \notin UserRecords /\ Removed \notin UserRecords /\ None # Removed
BY AccessAssumption DEF TypeOK, Exists

LEMMA MemberFacts ==
  ASSUME NEW u, NEW c
  PROVE  /\ u \in Present <=> u \in Users /\ Exists(u)
         /\ u \in Members(c) <=> u \in Users /\ Exists(u) /\ CompanyOf[u] = c
BY DEF Present, Members

LEMMA RemovalTypes ==
  ASSUME TypeOK, NEW c \in Companies
  PROVE  /\ \/ holder[c] = Idle
            \/ holder[c] \in FindRecords
            \/ holder[c] \in DecidedRecords
            \/ holder[c] \in UpdateRecords
         /\ holder[c].pc \in {"idle", "find", "delete", "commit", "update"}
         /\ holder[c].pc = "idle" <=> holder[c] = Idle
         /\ holder[c].pc = "find" <=> holder[c] \in FindRecords
         /\ holder[c].pc \in {"delete", "commit"} <=> holder[c] \in DecidedRecords
         /\ holder[c].pc = "update" <=> holder[c] \in UpdateRecords
<1>1. \/ holder[c] = Idle \/ holder[c] \in FindRecords
      \/ holder[c] \in DecidedRecords \/ holder[c] \in UpdateRecords
  BY DEF TypeOK, Holders
<1>2. CASE holder[c] = Idle
  BY <1>2 DEF Idle, FindRecords, DecidedRecords, UpdateRecords
<1>3. CASE holder[c] \in FindRecords
  BY <1>3 DEF Idle, FindRecords, DecidedRecords, UpdateRecords
<1>4. CASE holder[c] \in DecidedRecords
  BY <1>4 DEF Idle, FindRecords, DecidedRecords, UpdateRecords
<1>5. CASE holder[c] \in UpdateRecords
  BY <1>5 DEF Idle, FindRecords, DecidedRecords, UpdateRecords
<1>6. QED
  BY <1>1, <1>2, <1>3, <1>4, <1>5

LEMMA SetupTypes ==
  ASSUME TypeOK, NEW k \in Callers
  PROVE  /\ setup[k] = Idle \/ setup[k] \in SetupRecords
         /\ setup[k].pc = "idle" <=> setup[k] = Idle
         /\ setup[k].pc # "idle" <=> setup[k] \in SetupRecords
<1>1. setup[k] = Idle \/ setup[k] \in SetupRecords
  BY DEF TypeOK
<1>2. CASE setup[k] = Idle
  BY <1>2 DEF Idle, SetupRecords
<1>3. CASE setup[k] \in SetupRecords
  BY <1>3 DEF Idle, SetupRecords
<1>4. QED
  BY <1>1, <1>2, <1>3

\* A failed setup writes nothing but the state of the setup.
LEMMA FailRows ==
  ASSUME TypeOK, NEW k \in Callers, setup[k] \in SetupRecords, Fail(k)
  PROVE  /\ CalmRows
         /\ row' \in [Users -> UserRecords \cup {None, Removed}]
         /\ setup' = [setup EXCEPT ![k] = Idle]
         /\ \A u \in Users : Exists(u) => row'[u].auth = row[u].auth
         /\ \A u \in Users : row'[u] \in UserRecords <=> row[u] \in UserRecords
<1> DEFINE u == setup[k].user
<1>1. u \in Users
  BY DEF SetupRecords
<1>2. CASE ~ Unchanged(k)
  BY <1>2 DEF Fail, End, CalmRows, Same, TypeOK
<1>3. CASE Unchanged(k)
  <2>1. row[u] \in UserRecords
    BY <1>1, <1>3, RowTypes DEF Unchanged
  <2>2. PICK r : r = [row[u] EXCEPT !.sync = "failed"]
    OBVIOUS
  <2>3. /\ r \in UserRecords /\ r.email = row[u].email /\ r.login = row[u].login
        /\ r.linked = row[u].linked /\ r.admin = row[u].admin /\ r.active = row[u].active
        /\ r.version = row[u].version /\ r.auth = row[u].auth /\ r.version >= row[u].version
    BY <2>1, <2>2 DEF UserRecords
  <2>4. row' = [row EXCEPT ![u] = r] /\ setup' = [setup EXCEPT ![k] = Idle]
    BY <1>3, <2>2 DEF Fail, End
  <2>5. row'[u] = r /\ (\A x \in Users : x # u => row'[x] = row[x])
    BY <1>1, <2>4 DEF TypeOK
  <2>6. row' \in [Users -> UserRecords \cup {None, Removed}]
    BY <1>1, <2>3, <2>4 DEF TypeOK
  <2>7. CalmRows
    BY <2>1, <2>3, <2>5 DEF CalmRows, Same
  <2>8. QED
    BY <2>1, <2>3, <2>4, <2>5, <2>6, <2>7
<1>4. QED
  BY <1>2, <1>3

LEMMA CalmStep ==
  ASSUME TypeOK, Calm
  PROVE  CalmRows /\ row' \in [Users -> UserRecords \cup {None, Removed}]
<1>1. CASE UNCHANGED row
  BY <1>1 DEF TypeOK, CalmRows, Same
<1>2. ASSUME NEW u \in Users, NEW r \in UserRecords, row[u] \in UserRecords,
             r.email = row[u].email, r.login = row[u].login, r.linked = row[u].linked,
             r.admin = row[u].admin, r.active = row[u].active, r.version >= row[u].version,
             row' = [row EXCEPT ![u] = r]
      PROVE  CalmRows /\ row' \in [Users -> UserRecords \cup {None, Removed}]
  <2>1. row'[u] = r /\ (\A x \in Users : x # u => row'[x] = row[x])
    BY <1>2 DEF TypeOK
  <2>2. CalmRows
    BY <1>2, <2>1 DEF CalmRows, Same
  <2>3. QED
    BY <1>2, <2>2 DEF TypeOK
<1>3. ASSUME NEW u \in Users, AssignPlants(u)
      PROVE  CalmRows /\ row' \in [Users -> UserRecords \cup {None, Removed}]
  <2>1. row[u] \in UserRecords
    BY <1>3, RowTypes DEF AssignPlants
  <2>2. PICK r : r = [row[u] EXCEPT !.version = @ + 1]
    OBVIOUS
  <2>3. /\ r \in UserRecords /\ r.email = row[u].email /\ r.login = row[u].login
        /\ r.linked = row[u].linked /\ r.admin = row[u].admin /\ r.active = row[u].active
        /\ r.version >= row[u].version
    BY <2>1, <2>2 DEF UserRecords
  <2>4. row' = [row EXCEPT ![u] = r]
    BY <1>3, <2>2 DEF AssignPlants
  <2>5. QED
    BY <2>1, <2>3, <2>4, <1>2
<1>4. ASSUME NEW u \in Users, ResetPassword(u)
      PROVE  CalmRows /\ row' \in [Users -> UserRecords \cup {None, Removed}]
  <2>1. row[u] \in UserRecords
    BY <1>4, RowTypes DEF ResetPassword
  <2>2. PICK r : r = [row[u] EXCEPT !.auth = @ + 1]
    OBVIOUS
  <2>3. /\ r \in UserRecords /\ r.email = row[u].email /\ r.login = row[u].login
        /\ r.linked = row[u].linked /\ r.admin = row[u].admin /\ r.active = row[u].active
        /\ r.version >= row[u].version
    BY <2>1, <2>2 DEF UserRecords
  <2>4. row' = [row EXCEPT ![u] = r]
    BY <1>4, <2>2 DEF ResetPassword
  <2>5. QED
    BY <2>1, <2>3, <2>4, <1>2
<1>5. ASSUME NEW k \in Callers, Fail(k), setup[k] \in SetupRecords
      PROVE  CalmRows /\ row' \in [Users -> UserRecords \cup {None, Removed}]
  BY <1>5, FailRows
<1>6. ASSUME NEW k \in Callers, Lookup(k) \/ Post(k) \/ Check(k) \/ Fails(k)
      PROVE  CalmRows /\ row' \in [Users -> UserRecords \cup {None, Removed}]
  <2>1. setup[k] \in SetupRecords
    BY <1>6, SetupTypes DEF Lookup, Post, Check, Fails
  <2>2. Fail(k) \/ UNCHANGED row
    BY <1>6 DEF Lookup, Post, Check, Fails
  <2>3. QED
    BY <2>1, <2>2, <1>1, <1>5
<1>7. ASSUME NEW c \in Companies, SwitchStatus(c)
      PROVE  CalmRows /\ row' \in [Users -> UserRecords \cup {None, Removed}]
  <2>1. ASSUME NEW u \in Users
        PROVE  Same(row[u], row'[u]) /\ row'[u] \in UserRecords \cup {None, Removed}
    <3>1. CASE u \in Members(c)
      <4>1. row[u] \in UserRecords
        BY <3>1, RowTypes, MemberFacts
      <4>2. PICK r : r = [row[u] EXCEPT !.auth = @ + 1]
        OBVIOUS
      <4>3. row'[u] = r
        BY <1>7, <3>1, <4>2 DEF SwitchStatus
      <4>4. /\ r \in UserRecords /\ r.email = row[u].email /\ r.login = row[u].login
            /\ r.linked = row[u].linked /\ r.admin = row[u].admin /\ r.active = row[u].active
            /\ r.version >= row[u].version
        BY <4>1, <4>2 DEF UserRecords
      <4>5. QED
        BY <4>1, <4>3, <4>4 DEF Same
    <3>2. CASE u \notin Members(c)
      BY <1>7, <3>2 DEF SwitchStatus, Same, TypeOK
    <3>3. QED
      BY <3>1, <3>2
  <2>2. row' = [u \in Users |-> row'[u]]
    BY <1>7 DEF SwitchStatus
  <2>3. QED
    BY <2>1, <2>2 DEF CalmRows
<1>8. ASSUME NEW s \in Sessions, NEW l \in Logins, SignIn(s, l)
      PROVE  CalmRows /\ row' \in [Users -> UserRecords \cup {None, Removed}]
  <2>1. ASSUME NEW u \in Users
        PROVE  Same(row[u], row'[u]) /\ row'[u] \in UserRecords \cup {None, Removed}
    <3>1. CASE u \in Memberships(l)
      <4>1. row[u] \in UserRecords
        BY <3>1, RowTypes, MemberFacts DEF Memberships, PointingAt
      <4>2. PICK r : r = [row[u] EXCEPT !.seen = TRUE]
        OBVIOUS
      <4>3. row'[u] = r
        BY <1>8, <3>1, <4>2 DEF SignIn
      <4>6. TRUE \in BOOLEAN
        OBVIOUS
      <4>7. r \in UserRecords
        BY <4>1, <4>2, <4>6 DEF UserRecords
      <4>4. /\ r.email = row[u].email /\ r.login = row[u].login
            /\ r.linked = row[u].linked /\ r.admin = row[u].admin /\ r.active = row[u].active
            /\ r.version >= row[u].version
        BY <4>1, <4>2 DEF UserRecords
      <4>5. QED
        BY <4>1, <4>3, <4>4, <4>7 DEF Same
    <3>2. CASE u \notin Memberships(l)
      BY <1>8, <3>2 DEF SignIn, Same, TypeOK
    <3>3. QED
      BY <3>1, <3>2
  <2>2. row' = [u \in Users |-> row'[u]]
    BY <1>8 DEF SignIn
  <2>3. QED
    BY <2>1, <2>2 DEF CalmRows
<1>9. ASSUME NEW u \in Users,
             CheckRemoval(u) \/ \E e \in Emails, admin, b \in BOOLEAN : CheckUpdate(u, e, admin, b)
      PROVE  UNCHANGED row
  BY <1>9 DEF CheckRemoval, CheckUpdate
<1>10. ASSUME NEW c \in Companies, FindLogin(c) \/ DeleteLogin(c) \/ Abort(c)
       PROVE  UNCHANGED row
  BY <1>10 DEF FindLogin, DeleteLogin, Abort
<1>11. ASSUME NEW k \in Callers, CrashSetup(k) \/ \E u \in Users : StartSetup(k, u)
       PROVE  UNCHANGED row
  BY <1>11 DEF CrashSetup, StartSetup
<1>12. CASE UNCHANGED vars
  BY <1>12, <1>1 DEF vars
<1>13. QED
  BY <1>1, <1>3, <1>4, <1>6, <1>7, <1>8, <1>9, <1>10, <1>11, <1>12 DEF Calm

LEMMA CompanyCreated ==
  ASSUME TypeOK, CompanyInv, NEW c \in Companies, NEW e \in Emails, CreateCompany(c, e)
  PROVE  \E l : Inserts(FirstAdmin[c], e, TRUE, l)
<1> DEFINE u == FirstAdmin[c]
<1>1. PICK l \in IF Known(e) # {} THEN Known(e) ELSE {Pending} : Insert(u, e, TRUE, l)
  BY DEF CreateCompany
<1>2. l \in Logins \cup {Pending} /\ (l # Pending => l \in Known(e))
  BY <1>1, RowTypes, MemberFacts DEF Known, UserRecords
<1>3. u \in Users /\ CompanyOf[u] = c
  BY AccessAssumption
<1>4. row[u] = None
  BY <1>3 DEF CreateCompany, CompanyInv
<1>5. /\ company' = [company EXCEPT ![c] = "active"]
      /\ UNCHANGED <<idp, setup, holder, session, changes>>
      /\ requests' \in Nat
  BY DEF CreateCompany, Request, TypeOK
<1>6. QED
  BY <1>1, <1>2, <1>3, <1>4, <1>5 DEF Inserts, TypeOK

\* The steps that are not calm.
LEMMA StepCases ==
  ASSUME TypeOK, CompanyInv, [Next]_vars
  PROVE  \/ Calm
         \/ \E u, e, admin, l : Inserts(u, e, admin, l)
         \/ \E c \in Companies : WriteUpdate(c)
         \/ \E u \in Users, e \in Emails : CorrectAdminEmail(u, e)
         \/ \E k \in Callers : SaveLogin(k)
         \/ \E c \in Companies : CommitRemoval(c)
<1>1. ASSUME NEW u \in Users, NEW e \in Emails, NEW admin \in BOOLEAN, NEW b \in BOOLEAN,
             CreateUser(u, e, admin, b)
      PROVE  \E l : Inserts(u, e, admin, l)
  <2>1. PICK l \in IF b /\ Known(e) # {} THEN Known(e) ELSE {Pending} : Insert(u, e, admin, l)
    BY <1>1 DEF CreateUser
  <2>2. l \in Logins \cup {Pending} /\ (l # Pending => l \in Known(e))
    BY <2>1, RowTypes, MemberFacts DEF Known, UserRecords
  <2>3. row[u] = None /\ company[CompanyOf[u]] = "active" /\ requests' \in Nat
    BY <1>1 DEF CreateUser, Open, Request, TypeOK
  <2>4. UNCHANGED <<company, idp, setup, holder, session, changes>>
    BY <1>1 DEF CreateUser
  <2>5. QED
    BY <2>1, <2>2, <2>3, <2>4 DEF Inserts, TypeOK
<1>2. ASSUME NEW c \in Companies, NEW e \in Emails, CreateCompany(c, e)
      PROVE  \E l : Inserts(FirstAdmin[c], e, TRUE, l)
  BY <1>2, CompanyCreated
<1>3. QED
  BY <1>1, <1>2 DEF Next, People, Requests, Calm

\* Every other row is as it was.
Only(u) == \A x \in Users : x # u => row'[x] = row[x]

LEMMA InsertRow ==
  ASSUME TypeOK, NEW u, NEW e, NEW admin, NEW l, Inserts(u, e, admin, l)
  PROVE  /\ row' \in [Users -> UserRecords \cup {None, Removed}]
         /\ Only(u) /\ row'[u] \in UserRecords
         /\ row'[u].email = e /\ row'[u].login = l /\ row'[u].admin = admin /\ row'[u].active
         /\ l # Pending => row'[u].linked
         /\ row'[u].auth = 1
<1>1. PICK r : r = [email |-> e, login |-> l, linked |-> l # Pending, admin |-> admin,
                    active |-> TRUE, seen |-> FALSE,
                    sync |-> IF l = Pending THEN "pending" ELSE "ready",
                    version |-> 1, auth |-> 1]
  OBVIOUS
<1>2. row' = [row EXCEPT ![u] = r]
  BY <1>1 DEF Inserts, Insert
<1>3. (l # Pending) \in BOOLEAN /\ TRUE \in BOOLEAN /\ FALSE \in BOOLEAN
  OBVIOUS
<1>4. (IF l = Pending THEN "pending" ELSE "ready") \in {"pending", "ready", "failed"}
  OBVIOUS
<1>5. r \in UserRecords
  BY <1>1, <1>3, <1>4 DEF Inserts, UserRecords
<1>6. row'[u] = r /\ Only(u) /\ row' \in [Users -> UserRecords \cup {None, Removed}]
  BY <1>2, <1>5 DEF Inserts, TypeOK, Only
<1>7. /\ r.email = e /\ r.login = l /\ r.admin = admin /\ r.active
      /\ l # Pending => r.linked
      /\ r.auth = 1
  BY <1>1
<1>8. QED
  BY <1>5, <1>6, <1>7

LEMMA UpdateRow ==
  ASSUME TypeOK, RemovalInv, NEW c \in Companies, WriteUpdate(c)
  PROVE  LET u == holder[c].user
         IN  /\ row' \in [Users -> UserRecords \cup {None, Removed}]
             /\ u \in Users /\ holder[c] \in UpdateRecords /\ CompanyOf[u] = c
             /\ row[u] \in UserRecords /\ Only(u) /\ row'[u] \in UserRecords
             /\ row'[u].email = holder[c].email
             /\ row'[u].admin = holder[c].admin /\ row'[u].active = holder[c].active
             /\ row'[u].login = row[u].login /\ row'[u].linked = row[u].linked
             /\ row'[u].version = row[u].version + 1
             /\ \/ row'[u].auth = row[u].auth /\ changes'[u] = changes[u]
                \/ row'[u].auth = row[u].auth + 1 /\ changes'[u] = changes[u] + 1
             /\ \A x \in Users : x # u => changes'[x] = changes[x]
             /\ changes' \in [Users -> Nat]
<1> DEFINE u == holder[c].user
           e == holder[c].email
           admin == holder[c].admin
           b == holder[c].active
           bump == IF row[u].admin = admin /\ row[u].active = b THEN 0 ELSE 1
<1>12. holder[c] \in UpdateRecords /\ CompanyOf[u] = c /\ Exists(u)
  BY RemovalTypes DEF WriteUpdate, RemovalInv
<1>13. u \in Users /\ e \in Emails /\ admin \in BOOLEAN /\ b \in BOOLEAN
  BY <1>12 DEF UpdateRecords
<1>1. row[u] \in UserRecords
  BY <1>12, <1>13, RowTypes
<1>2. PICK r : r = [row[u] EXCEPT !.email = e, !.admin = admin, !.active = b,
                                  !.version = row[u].version + 1, !.auth = row[u].auth + bump,
                                  !.sync = "pending"]
  OBVIOUS
<1>14. Raise(u, admin, b) = bump
  BY DEF Raise
<1>15. r = [row[u] EXCEPT !.email = e, !.admin = admin, !.active = b, !.version = @ + 1,
                          !.auth = @ + Raise(u, admin, b), !.sync = "pending"]
  <2> HIDE DEF bump
  <2>1. QED
    BY <1>2, <1>14
<1>16. row' = [row EXCEPT ![u] = r]
  BY <1>15 DEF WriteUpdate
<1>17. \A x \in Users : x # u => changes'[x] = changes[x]
  BY DEF WriteUpdate, TypeOK
<1>18. changes'[u] = changes[u] + bump /\ changes' = [changes EXCEPT ![u] = changes'[u]]
  <2>1. changes[u] \in Nat /\ changes \in [Users -> Nat]
    BY <1>13 DEF TypeOK
  <2>2. changes' = [changes EXCEPT ![u] = IF row[u].admin = admin /\ row[u].active = b
                                          THEN changes[u] ELSE changes[u] + 1]
    BY DEF WriteUpdate
  <2>3. changes'[u] = IF row[u].admin = admin /\ row[u].active = b
                      THEN changes[u] ELSE changes[u] + 1
    <3> HIDE DEF u, admin, b
    <3>1. QED
      BY <1>13, <2>1, <2>2
  <2>4. changes'[u] = changes[u] + bump
    <3> HIDE DEF u, admin, b
    <3>1. QED
      BY <2>1, <2>3
  <2>5. changes' = [changes EXCEPT ![u] = changes'[u]]
    <3> HIDE DEF u, admin, b
    <3>1. QED
      BY <2>2, <2>3
  <2>6. QED
    BY <2>4, <2>5
<1>4. bump = 0 \/ bump = 1
  OBVIOUS
<1> HIDE DEF bump, u, e, admin, b
<1>11. /\ row[u].version + 1 \in Nat /\ row[u].auth + bump \in Nat
       /\ "pending" \in {"pending", "ready", "failed"}
  BY <1>1, <1>4 DEF UserRecords
<1>5. r \in UserRecords
  BY <1>1, <1>2, <1>11, <1>13 DEF UserRecords
<1>6. row'[u] = r /\ Only(u) /\ row' \in [Users -> UserRecords \cup {None, Removed}]
  BY <1>5, <1>13, <1>16 DEF TypeOK, Only
<1>7. /\ r.email = e /\ r.admin = admin /\ r.active = b
      /\ r.login = row[u].login /\ r.linked = row[u].linked
      /\ r.version = row[u].version + 1 /\ r.auth = row[u].auth + bump
  BY <1>1, <1>2 DEF UserRecords
<1>9. row[u].auth \in Nat /\ changes[u] \in Nat
  BY <1>1, <1>13 DEF TypeOK, UserRecords
<1>8. changes' \in [Users -> Nat]
  BY <1>4, <1>9, <1>13, <1>18 DEF TypeOK
<1>10. QED
  <2>1. \/ row'[u].auth = row[u].auth /\ changes'[u] = changes[u]
        \/ row'[u].auth = row[u].auth + 1 /\ changes'[u] = changes[u] + 1
    BY <1>4, <1>6, <1>7, <1>9, <1>18
  <2>2. QED
    BY <1>1, <1>5, <1>6, <1>7, <1>8, <1>12, <1>13, <1>17, <2>1 DEF u, e, admin, b

\* The update gives back the lock.
LEMMA UpdateHolder ==
  ASSUME TypeOK, NEW c \in Companies, WriteUpdate(c)
  PROVE  /\ holder'[c] = Idle
         /\ \A d \in Companies : d # c => holder'[d] = holder[d]
         /\ holder' \in [Companies -> Holders]
<1>1. holder' = [holder EXCEPT ![c] = Idle]
  BY DEF WriteUpdate
<1>2. QED
  BY <1>1 DEF TypeOK, Holders

LEMMA CorrectRow ==
  ASSUME TypeOK, NEW u \in Users, NEW e \in Emails, CorrectAdminEmail(u, e)
  PROVE  /\ row' \in [Users -> UserRecords \cup {None, Removed}]
         /\ row[u] \in UserRecords /\ Only(u) /\ row'[u] \in UserRecords
         /\ row'[u].admin = row[u].admin /\ row'[u].active = row[u].active
         /\ row'[u].login = Pending
         /\ row'[u].version = row[u].version + 1
         /\ row'[u].auth = row[u].auth + 1 /\ changes'[u] = changes[u] + 1
         /\ \A x \in Users : x # u => changes'[x] = changes[x]
         /\ changes' \in [Users -> Nat]
<1>1. row[u] \in UserRecords
  BY RowTypes DEF CorrectAdminEmail
<1>2. PICK r : r = [row[u] EXCEPT !.email = e, !.login = Pending, !.linked = FALSE,
                                  !.sync = "pending", !.version = @ + 1, !.auth = @ + 1]
  OBVIOUS
<1>3. row' = [row EXCEPT ![u] = r] /\ changes' = [changes EXCEPT ![u] = @ + 1]
  BY <1>2 DEF CorrectAdminEmail
<1>4. /\ FALSE \in BOOLEAN /\ Pending \in Logins \cup {Pending}
      /\ row[u].version + 1 \in Nat /\ row[u].auth + 1 \in Nat
      /\ "pending" \in {"pending", "ready", "failed"}
  BY <1>1 DEF UserRecords
<1>5. r \in UserRecords
  BY <1>1, <1>2, <1>4 DEF UserRecords
<1>6. row'[u] = r /\ Only(u) /\ row' \in [Users -> UserRecords \cup {None, Removed}]
  BY <1>3, <1>5 DEF TypeOK, Only
<1>7. /\ r.admin = row[u].admin /\ r.active = row[u].active /\ r.login = Pending
      /\ r.version = row[u].version + 1 /\ r.auth = row[u].auth + 1
  BY <1>1, <1>2 DEF UserRecords
<1>8. /\ changes'[u] = changes[u] + 1 /\ changes' \in [Users -> Nat]
      /\ \A x \in Users : x # u => changes'[x] = changes[x]
  BY <1>3 DEF TypeOK
<1>9. QED
  BY <1>1, <1>5, <1>6, <1>7, <1>8

LEMMA SaveRow ==
  ASSUME TypeOK, SetupInv, NEW k \in Callers, SaveLogin(k), Unchanged(k)
  PROVE  LET u == setup[k].user
             l == setup[k].login
         IN  /\ row' \in [Users -> UserRecords \cup {None, Removed}]
             /\ u \in Users /\ l \in Logins
             /\ row[u] \in UserRecords /\ Only(u) /\ row'[u] \in UserRecords
             /\ row'[u].email = row[u].email /\ row'[u].linked = row[u].linked
             /\ row'[u].admin = row[u].admin /\ row'[u].active = row[u].active
             /\ row'[u].login = l
             /\ row'[u].version = row[u].version /\ row'[u].auth = row[u].auth
<1> DEFINE u == setup[k].user
           l == setup[k].login
<1>1. setup[k] \in SetupRecords /\ setup[k].pc = "save"
  BY SetupTypes DEF SaveLogin
<1>2. u \in Users /\ l \in Logins
  BY <1>1 DEF SetupInv, CallInv, SetupRecords
<1>3. row[u] \in UserRecords
  BY <1>2, RowTypes DEF Unchanged
<1>4. PICK r : r = [row[u] EXCEPT !.login = l, !.sync = "ready"]
  OBVIOUS
<1>5. row' = [row EXCEPT ![u] = r]
  BY <1>4 DEF SaveLogin
<1>6. r \in UserRecords
  BY <1>2, <1>3, <1>4 DEF UserRecords
<1>7. row'[u] = r /\ Only(u) /\ row' \in [Users -> UserRecords \cup {None, Removed}]
  BY <1>2, <1>5, <1>6 DEF TypeOK, Only
<1>8. /\ r.email = row[u].email /\ r.linked = row[u].linked
      /\ r.admin = row[u].admin /\ r.active = row[u].active /\ r.login = l
      /\ r.version = row[u].version /\ r.auth = row[u].auth
  BY <1>3, <1>4 DEF UserRecords
<1>9. QED
  BY <1>2, <1>3, <1>6, <1>7, <1>8

LEMMA RemoveRow ==
  ASSUME TypeOK, NEW c \in Companies, CommitRemoval(c)
  PROVE  LET u == holder[c].user
         IN  /\ row' \in [Users -> UserRecords \cup {None, Removed}]
             /\ u \in Users /\ Only(u) /\ row'[u] = Removed
             /\ holder'[c] = Idle
             /\ \A d \in Companies : d # c => holder'[d] = holder[d]
             /\ holder' \in [Companies -> Holders]
<1>1. holder[c] \in DecidedRecords
  BY RemovalTypes DEF CommitRemoval
<1>2. holder[c].user \in Users
  BY <1>1 DEF DecidedRecords
<1>3. /\ row' = [row EXCEPT ![holder[c].user] = Removed]
      /\ holder' = [holder EXCEPT ![c] = Idle]
  BY DEF CommitRemoval
<1>4. QED
  BY <1>2, <1>3 DEF TypeOK, Only, Holders

-----------------------------------------------------------------------------
(* Which steps change what.                                                *)

LEMMA Frames ==
  ASSUME [Next]_vars
  PROVE  /\ \/ UNCHANGED idp
            \/ \E k \in Callers : Post(k)
            \/ \E c \in Companies : DeleteLogin(c)
            \/ \E s \in Sessions, l \in Logins : SignIn(s, l)
         /\ \/ UNCHANGED setup
            \/ \E k \in Callers : \/ \E u \in Users : StartSetup(k, u)
                                  \/ Lookup(k) \/ Post(k) \/ Check(k)
                                  \/ SaveLogin(k) \/ Fails(k) \/ CrashSetup(k)
         /\ \/ UNCHANGED holder
            \/ \E u \in Users : CheckRemoval(u)
            \/ \E u \in Users, e \in Emails, admin, b \in BOOLEAN : CheckUpdate(u, e, admin, b)
            \/ \E c \in Companies : \/ WriteUpdate(c) \/ FindLogin(c) \/ DeleteLogin(c)
                                    \/ CommitRemoval(c) \/ Abort(c)
         /\ UNCHANGED session \/ \E s \in Sessions, l \in Logins : SignIn(s, l)
         /\ \/ UNCHANGED changes
            \/ \E c \in Companies : WriteUpdate(c)
            \/ \E u \in Users : ResetPassword(u)
            \/ \E c \in Companies : SwitchStatus(c)
            \/ \E u \in Users, e \in Emails : CorrectAdminEmail(u, e)
         /\ \/ UNCHANGED company
            \/ \E c \in Companies, e \in Emails : CreateCompany(c, e)
            \/ \E c \in Companies : SwitchStatus(c)
         /\ UNCHANGED requests \/ Request
         /\ UNCHANGED crossed \/ \E c \in Companies : WriteUpdate(c)
<1>1. ASSUME NEW u \in Users, NEW e \in Emails, NEW admin \in BOOLEAN, NEW b \in BOOLEAN,
             CreateUser(u, e, admin, b) \/ CheckUpdate(u, e, admin, b)
      PROVE  /\ UNCHANGED <<company, idp, setup, session, changes, crossed>> /\ Request
             /\ UNCHANGED holder \/ CheckUpdate(u, e, admin, b)
  BY <1>1 DEF CreateUser, CheckUpdate
<1>2. ASSUME NEW u \in Users, AssignPlants(u) \/ ResetPassword(u) \/ CheckRemoval(u)
      PROVE  /\ UNCHANGED <<company, idp, setup, session, crossed>> /\ Request
             /\ UNCHANGED holder \/ CheckRemoval(u)
             /\ UNCHANGED changes \/ ResetPassword(u)
  BY <1>2 DEF AssignPlants, ResetPassword, CheckRemoval
<1>3. ASSUME NEW c \in Companies, SwitchStatus(c) \/ \E e \in Emails : CreateCompany(c, e)
      PROVE  /\ UNCHANGED <<idp, setup, holder, session, crossed>> /\ Request
             /\ UNCHANGED changes \/ SwitchStatus(c)
  BY <1>3 DEF SwitchStatus, CreateCompany
<1>4. ASSUME NEW u \in Users, NEW e \in Emails, CorrectAdminEmail(u, e)
      PROVE  UNCHANGED <<company, idp, setup, holder, session, crossed>> /\ Request
  BY <1>4 DEF CorrectAdminEmail
<1>5. ASSUME NEW k \in Callers,
             \/ \E u \in Users : StartSetup(k, u)
             \/ Lookup(k) \/ Post(k) \/ Check(k) \/ SaveLogin(k) \/ Fails(k) \/ CrashSetup(k)
      PROVE  /\ UNCHANGED <<company, holder, session, changes, crossed, requests>>
             /\ UNCHANGED idp \/ Post(k)
  BY <1>5 DEF StartSetup, Lookup, Post, Check, SaveLogin, Fails, CrashSetup
<1>6. ASSUME NEW c \in Companies,
             FindLogin(c) \/ DeleteLogin(c) \/ CommitRemoval(c) \/ Abort(c)
      PROVE  /\ UNCHANGED <<company, setup, session, changes, crossed, requests>>
             /\ UNCHANGED idp \/ DeleteLogin(c)
  BY <1>6 DEF FindLogin, DeleteLogin, CommitRemoval, Abort
<1>7. ASSUME NEW s \in Sessions, NEW l \in Logins, SignIn(s, l)
      PROVE  UNCHANGED <<company, setup, holder, changes, crossed, requests>>
  BY <1>7 DEF SignIn
<1>12. ASSUME NEW c \in Companies, WriteUpdate(c)
       PROVE  UNCHANGED <<company, idp, setup, session, requests>>
  BY <1>12 DEF WriteUpdate
<1>8. CASE UNCHANGED vars
  BY <1>8 DEF vars
<1>9. CASE People
  BY <1>9, <1>1, <1>2, <1>3, <1>4 DEF People
<1>10. CASE Requests
  BY <1>10, <1>5, <1>6, <1>7, <1>12 DEF Requests
<1>11. QED
  BY <1>8, <1>9, <1>10 DEF Next

\* A login keeps its email and its owner, also when it is deleted.
IdpGrows ==
    \A l \in Logins : idp[l] # None =>
       /\ idp'[l] # None
       /\ idp'[l].email = idp[l].email /\ idp'[l].owner = idp[l].owner

LEMMA PostFacts ==
  ASSUME TypeOK, NEW k \in Callers, Post(k)
  PROVE  /\ setup[k] \in SetupRecords /\ setup[k].pc = "post"
         /\ \/ UNCHANGED idp /\ Fail(k)
            \/ \E l \in Logins :
                  /\ idp[l] = None /\ idp'[l] \in LoginRecords
                  /\ idp'[l].email = setup[k].email /\ idp'[l].owner = setup[k].user
                  /\ ~ idp'[l].gone
                  /\ \A x \in Logins : x # l => idp'[x] = idp[x]
                  /\ idp' \in [Logins -> LoginRecords \cup {None}]
                  /\ \/ Fail(k)
                     \/ /\ setup' = [setup EXCEPT ![k].pc = "check", ![k].login = l]
                        /\ UNCHANGED row
<1>1. setup[k] \in SetupRecords /\ setup[k].pc = "post"
  BY SetupTypes DEF Post
<1>2. CASE UNCHANGED idp /\ Fail(k)
  BY <1>1, <1>2
<1>3. CASE ~ (UNCHANGED idp /\ Fail(k))
  <2> DEFINE l == CHOOSE x \in Logins : idp[x] = None
  <2>1. l \in Logins /\ idp[l] = None
    BY <1>3 DEF Post
  <2>2. PICK r : r = [email |-> setup[k].email, owner |-> setup[k].user,
                      enabled |-> setup[k].active, used |-> FALSE, gone |-> FALSE]
    OBVIOUS
  <2>3. idp' = [idp EXCEPT ![l] = r]
    BY <1>3, <2>2 DEF Post
  <2>4. \/ setup' = [setup EXCEPT ![k].pc = "check", ![k].login = l] /\ UNCHANGED row
        \/ Fail(k)
    BY <1>3 DEF Post
  <2> HIDE DEF l
  <2>5. r \in LoginRecords
    BY <1>1, <2>2 DEF LoginRecords, SetupRecords
  <2>6. /\ idp'[l] = r /\ (\A x \in Logins : x # l => idp'[x] = idp[x])
        /\ idp' \in [Logins -> LoginRecords \cup {None}]
    BY <2>1, <2>3, <2>5 DEF TypeOK
  <2>7. r.email = setup[k].email /\ r.owner = setup[k].user /\ ~ r.gone
    BY <2>2
  <2>8. QED
    BY <1>1, <2>1, <2>4, <2>5, <2>6, <2>7
<1>4. QED
  BY <1>2, <1>3

LEMMA DeleteFacts ==
  ASSUME TypeOK, RemovalInv, NEW c \in Companies, DeleteLogin(c)
  PROVE  LET l == holder[c].login
         IN  /\ holder[c] \in DecidedRecords /\ holder[c].pc = "delete" /\ holder[c].delete
             /\ l \in Logins /\ idp[l] \in LoginRecords /\ holder[c].others = {}
             /\ idp'[l] \in LoginRecords
             /\ idp'[l].email = idp[l].email /\ idp'[l].owner = idp[l].owner
             /\ \A x \in Logins : x # l => idp'[x] = idp[x]
             /\ idp' \in [Logins -> LoginRecords \cup {None}]
             /\ holder'[c] \in DecidedRecords /\ holder'[c].pc = "commit"
             /\ holder'[c].user = holder[c].user /\ holder'[c].login = l
             /\ holder'[c].delete
             /\ \A d \in Companies : d # c => holder'[d] = holder[d]
             /\ holder' \in [Companies -> Holders]
<1> DEFINE l == holder[c].login
<1>1. holder[c] \in DecidedRecords /\ holder[c].pc = "delete"
  BY RemovalTypes DEF DeleteLogin
<1>2. l \in Logins /\ idp[l] # None /\ holder[c].delete /\ holder[c].others = {}
  BY <1>1 DEF RemovalInv
<1>3. idp[l] \in LoginRecords
  BY <1>2 DEF TypeOK
<1>4. PICK r : r = [idp[l] EXCEPT !.gone = TRUE]
  OBVIOUS
<1>5. TRUE \in BOOLEAN
  OBVIOUS
<1>6. r \in LoginRecords
  BY <1>3, <1>4, <1>5 DEF LoginRecords
<1>7. r.email = idp[l].email /\ r.owner = idp[l].owner
  BY <1>3, <1>4 DEF LoginRecords
<1>8. idp' = [idp EXCEPT ![l] = r]
  BY <1>4 DEF DeleteLogin
<1>9. PICK j : j = [holder[c] EXCEPT !.pc = "commit"]
  OBVIOUS
<1>10. j \in DecidedRecords
  BY <1>1, <1>9 DEF DecidedRecords
<1>11. j.pc = "commit" /\ j.user = holder[c].user /\ j.login = l /\ j.delete = holder[c].delete
  BY <1>1, <1>9 DEF DecidedRecords
<1>12. holder' = [holder EXCEPT ![c] = j]
  BY <1>9 DEF DeleteLogin
<1>13. /\ idp'[l] = r /\ (\A x \in Logins : x # l => idp'[x] = idp[x])
       /\ idp' \in [Logins -> LoginRecords \cup {None}]
  BY <1>2, <1>6, <1>8 DEF TypeOK
<1>14. /\ holder'[c] = j /\ (\A d \in Companies : d # c => holder'[d] = holder[d])
       /\ holder' \in [Companies -> Holders]
  BY <1>10, <1>12 DEF TypeOK, Holders
<1>15. QED
  BY <1>1, <1>2, <1>3, <1>6, <1>7, <1>10, <1>11, <1>13, <1>14

LEMMA SignInFacts ==
  ASSUME TypeOK, NEW s \in Sessions, NEW l \in Logins, SignIn(s, l)
  PROVE  /\ idp[l] \in LoginRecords /\ idp'[l] \in LoginRecords
         /\ idp'[l].email = idp[l].email /\ idp'[l].owner = idp[l].owner
         /\ ~ idp'[l].gone
         /\ \A x \in Logins : x # l => idp'[x] = idp[x]
         /\ idp' \in [Logins -> LoginRecords \cup {None}]
<1>1. idp[l] \in LoginRecords /\ ~ idp[l].gone
  BY DEF SignIn, Lives, TypeOK
<1>2. PICK r : r = [idp[l] EXCEPT !.used = TRUE]
  OBVIOUS
<1>3. TRUE \in BOOLEAN
  OBVIOUS
<1>4. r \in LoginRecords
  BY <1>1, <1>2, <1>3 DEF LoginRecords
<1>5. r.email = idp[l].email /\ r.owner = idp[l].owner /\ ~ r.gone
  BY <1>1, <1>2 DEF LoginRecords
<1>6. idp' = [idp EXCEPT ![l] = r]
  BY <1>2 DEF SignIn
<1>7. QED
  BY <1>1, <1>4, <1>5, <1>6 DEF TypeOK

LEMMA IdpStep ==
  ASSUME TypeOK, RemovalInv, [Next]_vars
  PROVE  IdpGrows /\ idp' \in [Logins -> LoginRecords \cup {None}]
<1> USE AccessAssumption
<1>1. CASE UNCHANGED idp
  BY <1>1 DEF IdpGrows, TypeOK
<1>2. ASSUME NEW k \in Callers, Post(k)
      PROVE  IdpGrows /\ idp' \in [Logins -> LoginRecords \cup {None}]
  BY <1>1, <1>2, PostFacts DEF IdpGrows
<1>3. ASSUME NEW c \in Companies, DeleteLogin(c)
      PROVE  IdpGrows /\ idp' \in [Logins -> LoginRecords \cup {None}]
  BY <1>3, DeleteFacts DEF IdpGrows
<1>4. ASSUME NEW s \in Sessions, NEW l \in Logins, SignIn(s, l)
      PROVE  IdpGrows /\ idp' \in [Logins -> LoginRecords \cup {None}]
  BY <1>4, SignInFacts DEF IdpGrows
<1>5. QED
  BY <1>1, <1>2, <1>3, <1>4, Frames

\* The version of a user tells of a change of the email.
RowGrows ==
    \A u \in Users : row[u] # None =>
       /\ row'[u] # None
       /\ row'[u] \in UserRecords =>
             /\ row[u] \in UserRecords
             /\ row[u].version <= row'[u].version
             /\ row'[u].version = row[u].version =>
                   row'[u].email = row[u].email /\ row'[u].linked = row[u].linked

LEMMA RowStep ==
  ASSUME TypeOK, CompanyInv, SetupInv, RemovalInv, [Next]_vars
  PROVE  RowGrows /\ row' \in [Users -> UserRecords \cup {None, Removed}]
<1> USE AccessAssumption
<1>1. \A u \in Users : row[u] \in UserRecords => row[u].version \in Nat
  BY DEF UserRecords
<1>2. CASE Calm
  BY <1>1, <1>2, CalmStep DEF CalmRows, Same, RowGrows
<1>3. ASSUME NEW u, NEW e, NEW admin, NEW l, Inserts(u, e, admin, l)
      PROVE  RowGrows /\ row' \in [Users -> UserRecords \cup {None, Removed}]
  <2>1. row[u] = None
    BY <1>3 DEF Inserts
  <2>2. QED
    BY <1>1, <1>3, <2>1, InsertRow DEF Only, RowGrows
<1>4. ASSUME NEW c \in Companies, WriteUpdate(c)
      PROVE  RowGrows /\ row' \in [Users -> UserRecords \cup {None, Removed}]
  BY <1>1, <1>4, UpdateRow DEF Only, RowGrows
<1>5. ASSUME NEW u \in Users, NEW e \in Emails, CorrectAdminEmail(u, e)
      PROVE  RowGrows /\ row' \in [Users -> UserRecords \cup {None, Removed}]
  BY <1>1, <1>5, CorrectRow DEF Only, RowGrows
<1>6. ASSUME NEW k \in Callers, SaveLogin(k)
      PROVE  RowGrows /\ row' \in [Users -> UserRecords \cup {None, Removed}]
  <2>1. CASE Unchanged(k)
    <3> DEFINE u == setup[k].user
    <3>1. /\ row' \in [Users -> UserRecords \cup {None, Removed}]
          /\ u \in Users /\ row[u] \in UserRecords /\ Only(u) /\ row'[u] \in UserRecords
          /\ row'[u].email = row[u].email /\ row'[u].linked = row[u].linked
          /\ row'[u].version = row[u].version
      BY <1>6, <2>1, SaveRow
    <3>2. QED
      BY <1>1, <3>1 DEF Only, RowGrows
  <2>2. CASE ~ Unchanged(k)
    BY <1>1, <1>6, <2>2 DEF SaveLogin, RowGrows, TypeOK
  <2>3. QED
    BY <2>1, <2>2
<1>7. ASSUME NEW c \in Companies, CommitRemoval(c)
      PROVE  RowGrows /\ row' \in [Users -> UserRecords \cup {None, Removed}]
  BY <1>1, <1>7, RemoveRow DEF Only, RowGrows
<1>8. QED
  BY <1>2, <1>3, <1>4, <1>5, <1>6, <1>7, StepCases

\* Only a removal deletes a login, and the races it loses are kept.
LEMMA LiveStep ==
  ASSUME TypeOK, RemovalInv, CompanyInv, [Next]_vars
  PROVE  /\ cut \subseteq cut' /\ cut' \subseteq Logins
         /\ \A l \in Logins : Lives(l) =>
               \/ idp'[l] # None /\ ~ idp'[l].gone
               \/ \E c \in Companies : DeleteLogin(c) /\ holder[c].login = l
<1>1. cut \subseteq cut' /\ cut' \subseteq Logins
  <2>1. CASE UNCHANGED cut
    BY <2>1 DEF TypeOK
  <2>2. ASSUME NEW u, NEW e, NEW admin, NEW l, Inserts(u, e, admin, l)
        PROVE  cut \subseteq cut' /\ cut' \subseteq Logins
    BY <2>2 DEF Inserts, Insert, TypeOK
  <2>3. ASSUME NEW k \in Callers, SaveLogin(k)
        PROVE  cut \subseteq cut' /\ cut' \subseteq Logins
    <3>1. setup[k] \in SetupRecords
      BY <2>3, SetupTypes DEF SaveLogin
    <3>2. cut' = cut \/ (cut' = cut \cup {setup[k].login} /\ Deciding(setup[k].login) # {})
      BY <2>3 DEF SaveLogin
    <3>3. ASSUME NEW c \in Companies, c \in Deciding(setup[k].login)
          PROVE  setup[k].login \in Logins
      BY <3>3, RemovalTypes DEF Deciding, RemovalInv
    <3>4. Deciding(setup[k].login) \subseteq Companies
      BY DEF Deciding
    <3>5. QED
      BY <3>2, <3>3, <3>4 DEF TypeOK
  <2>4. ASSUME NEW c \in Companies, DeleteLogin(c)
        PROVE  cut \subseteq cut' /\ cut' \subseteq Logins
    <3>1. holder[c].login \in Logins
      BY <2>4, DeleteFacts
    <3>2. cut' = cut \/ cut' = cut \cup {holder[c].login}
      BY <2>4 DEF DeleteLogin
    <3>3. QED
      BY <3>1, <3>2 DEF TypeOK
  <2>5. ASSUME NEW c \in Companies, Abort(c)
        PROVE  cut \subseteq cut' /\ cut' \subseteq Logins
    BY <2>5 DEF Abort, RemovalInv, TypeOK
  <2>6. CASE Calm
    <3>1. ASSUME NEW u \in Users,
                 \/ AssignPlants(u) \/ ResetPassword(u) \/ CheckRemoval(u)
                 \/ \E e \in Emails, admin, b \in BOOLEAN : CheckUpdate(u, e, admin, b)
          PROVE  UNCHANGED cut
      BY <3>1 DEF AssignPlants, ResetPassword, CheckRemoval, CheckUpdate
    <3>2. ASSUME NEW c \in Companies, SwitchStatus(c) \/ FindLogin(c)
          PROVE  UNCHANGED cut
      BY <3>2 DEF SwitchStatus, FindLogin
    <3>3. ASSUME NEW k \in Callers,
                 \/ \E u \in Users : StartSetup(k, u)
                 \/ Lookup(k) \/ Post(k) \/ Check(k) \/ Fails(k) \/ CrashSetup(k)
          PROVE  UNCHANGED cut
      BY <3>3 DEF StartSetup, Lookup, Post, Check, Fails, CrashSetup
    <3>4. ASSUME NEW s \in Sessions, NEW l \in Logins, SignIn(s, l)
          PROVE  UNCHANGED cut
      BY <3>4 DEF SignIn
    <3>5. CASE UNCHANGED vars
      BY <3>5, <2>1 DEF vars
    <3>6. QED
      BY <2>1, <2>4, <2>5, <2>6, <3>1, <3>2, <3>3, <3>4, <3>5 DEF Calm
  <2>7. ASSUME NEW c \in Companies, WriteUpdate(c)
        PROVE  UNCHANGED cut
    BY <2>7 DEF WriteUpdate
  <2>8. ASSUME NEW u \in Users, NEW e \in Emails, CorrectAdminEmail(u, e)
        PROVE  UNCHANGED cut
    BY <2>8 DEF CorrectAdminEmail
  <2>9. ASSUME NEW c \in Companies, CommitRemoval(c)
        PROVE  UNCHANGED cut
    BY <2>9 DEF CommitRemoval
  <2>10. QED
    BY <2>1, <2>2, <2>3, <2>6, <2>7, <2>8, <2>9, StepCases
<1>2. ASSUME NEW l \in Logins, Lives(l)
      PROVE  \/ idp'[l] # None /\ ~ idp'[l].gone
             \/ \E c \in Companies : DeleteLogin(c) /\ holder[c].login = l
  <2>1. idp[l] # None /\ ~ idp[l].gone
    BY <1>2 DEF Lives
  <2>2. CASE UNCHANGED idp
    BY <2>1, <2>2
  <2>3. ASSUME NEW k \in Callers, Post(k)
        PROVE  idp'[l] # None /\ ~ idp'[l].gone
    BY <2>1, <2>3, PostFacts
  <2>4. ASSUME NEW c \in Companies, DeleteLogin(c)
        PROVE  holder[c].login = l \/ (idp'[l] # None /\ ~ idp'[l].gone)
    BY <2>1, <2>4, DeleteFacts
  <2>5. ASSUME NEW s \in Sessions, NEW x \in Logins, SignIn(s, x)
        PROVE  idp'[l] # None /\ ~ idp'[l].gone
    BY <2>1, <2>5, SignInFacts, AccessAssumption
  <2>6. QED
    BY <2>2, <2>3, <2>4, <2>5, Frames
<1>3. QED
  BY <1>1, <1>2

\* An edit is the only step that crosses a login.
LEMMA CrossedStep ==
  ASSUME TypeOK, RemovalInv, [Next]_vars
  PROVE  crossed \subseteq crossed' /\ crossed' \subseteq Logins
<1>1. CASE UNCHANGED crossed
  BY <1>1 DEF TypeOK
<1>2. ASSUME NEW c \in Companies, WriteUpdate(c)
      PROVE  crossed \subseteq crossed' /\ crossed' \subseteq Logins
  <2> DEFINE l == row[holder[c].user].login
  <2>1. l \in Logins \cup {Pending}
    BY <1>2, UpdateRow DEF UserRecords
  <2>2. crossed' = crossed \/ (l # Pending /\ crossed' = crossed \cup {l})
    BY <1>2 DEF WriteUpdate
  <2>3. QED
    BY <2>1, <2>2 DEF TypeOK
<1>3. QED
  BY <1>1, <1>2, Frames

-----------------------------------------------------------------------------
(* Companies and their administrators.                                     *)

LEMMA CompanyStep ==
  ASSUME TypeOK, CompanyInv, [Next]_vars
  PROVE  /\ company' \in [Companies -> {"none", "active", "inactive"}]
         /\ \A c \in Companies : company[c] # "none" => company'[c] # "none"
         /\ \A c \in Companies : company[c] = "none" /\ company'[c] # "none" =>
               \E e \in Emails : CreateCompany(c, e)
<1>1. CASE UNCHANGED company
  BY <1>1 DEF TypeOK
<1>2. ASSUME NEW c \in Companies, NEW e \in Emails, CreateCompany(c, e)
      PROVE  company' = [company EXCEPT ![c] = "active"]
  BY <1>2 DEF CreateCompany
<1>3. ASSUME NEW c \in Companies, SwitchStatus(c)
      PROVE  /\ company[c] # "none"
             /\ company' = [company EXCEPT ![c] = IF @ = "active" THEN "inactive" ELSE "active"]
  BY <1>3 DEF SwitchStatus
<1>4. QED
  BY <1>1, <1>2, <1>3, Frames DEF TypeOK

\* A user stays, and stays a Main Admin, but for a change or a removal of the user.
LEMMA UserStays ==
  ASSUME TypeOK, CompanyInv, SetupInv, RemovalInv, [Next]_vars,
         NEW o \in Users, row[o] \in UserRecords
  PROVE  \/ /\ row'[o] \in UserRecords
            /\ \/ row'[o].admin = row[o].admin /\ row'[o].active = row[o].active
               \/ /\ WriteUpdate(CompanyOf[o]) /\ holder[CompanyOf[o]].user = o
                  /\ row'[o].admin = holder[CompanyOf[o]].admin
                  /\ row'[o].active = holder[CompanyOf[o]].active
         \/ /\ CommitRemoval(CompanyOf[o]) /\ holder[CompanyOf[o]].user = o
            /\ row'[o] = Removed
<1> USE AccessAssumption
<1>1. CASE Calm
  BY <1>1, CalmStep DEF CalmRows, Same
<1>2. ASSUME NEW u, NEW e, NEW admin, NEW l, Inserts(u, e, admin, l)
      PROVE  row'[o] = row[o]
  BY <1>2, InsertRow DEF Inserts, Only
<1>3. ASSUME NEW c \in Companies, WriteUpdate(c)
      PROVE  \/ row'[o] = row[o]
             \/ /\ c = CompanyOf[o] /\ holder[c].user = o /\ row'[o] \in UserRecords
                /\ row'[o].admin = holder[c].admin /\ row'[o].active = holder[c].active
  <2> DEFINE u == holder[c].user
  <2>1. /\ Only(u) /\ row'[u] \in UserRecords /\ CompanyOf[u] = c
        /\ row'[u].admin = holder[c].admin /\ row'[u].active = holder[c].active
    BY <1>3, UpdateRow
  <2>2. CASE o = u
    BY <1>3, <2>1, <2>2
  <2>3. CASE o # u
    BY <2>1, <2>3 DEF Only
  <2>4. QED
    BY <2>2, <2>3
<1>4. ASSUME NEW u \in Users, NEW e \in Emails, CorrectAdminEmail(u, e)
      PROVE  /\ row'[o] \in UserRecords
             /\ row'[o].admin = row[o].admin /\ row'[o].active = row[o].active
  BY <1>4, CorrectRow DEF Only
<1>5. ASSUME NEW k \in Callers, SaveLogin(k)
      PROVE  /\ row'[o] \in UserRecords
             /\ row'[o].admin = row[o].admin /\ row'[o].active = row[o].active
  <2>1. CASE Unchanged(k)
    <3> DEFINE u == setup[k].user
    <3>1. /\ Only(u) /\ row'[u] \in UserRecords
          /\ row'[u].admin = row[u].admin /\ row'[u].active = row[u].active
      BY <1>5, <2>1, SaveRow
    <3>2. QED
      BY <3>1 DEF Only
  <2>2. CASE ~ Unchanged(k)
    BY <1>5, <2>2 DEF SaveLogin
  <2>3. QED
    BY <2>1, <2>2
<1>6. ASSUME NEW c \in Companies, CommitRemoval(c)
      PROVE  \/ row'[o] = row[o]
             \/ c = CompanyOf[o] /\ holder[c].user = o /\ row'[o] = Removed
  <2>1. Only(holder[c].user) /\ row'[holder[c].user] = Removed
    BY <1>6, RemoveRow
  <2>2. CompanyOf[holder[c].user] = c
    BY <1>6 DEF RemovalInv, CommitRemoval
  <2>3. CASE o = holder[c].user
    BY <2>1, <2>2, <2>3
  <2>4. CASE o # holder[c].user
    BY <2>1, <2>4 DEF Only
  <2>5. QED
    BY <2>3, <2>4
<1>7. QED
  BY <1>1, <1>2, <1>3, <1>4, <1>5, <1>6, StepCases

LEMMA CompanyInvStep ==
  ASSUME TypeOK, CompanyInv, SetupInv, RemovalInv, [Next]_vars
  PROVE  CompanyInv'
<1>1. SUFFICES ASSUME NEW u \in Users, row'[u] # None
               PROVE  company'[CompanyOf[u]] # "none"
  BY DEF CompanyInv
<1>2. CompanyOf[u] \in Companies
  BY AccessAssumption
<1>3. CASE row[u] # None
  BY <1>2, <1>3, CompanyStep DEF CompanyInv
<1>4. CASE row[u] = None
  <2>1. ~ Calm
    BY <1>1, <1>4, CalmStep, AccessAssumption DEF CalmRows, Same
  <2>2. ASSUME NEW x, NEW e, NEW admin, NEW l, Inserts(x, e, admin, l)
        PROVE  company'[CompanyOf[u]] # "none"
    <3>1. Only(x)
      BY <2>2, InsertRow
    <3>2. x = u
      BY <1>1, <1>4, <3>1 DEF Only
    <3>3. QED
      BY <2>2, <3>2 DEF Inserts
  <2>3. ASSUME NEW c \in Companies, WriteUpdate(c)
        PROVE  FALSE
    BY <1>1, <1>4, <2>3, UpdateRow, AccessAssumption DEF Only
  <2>4. ASSUME NEW x \in Users, NEW e \in Emails, CorrectAdminEmail(x, e)
        PROVE  FALSE
    BY <1>1, <1>4, <2>4, CorrectRow, AccessAssumption DEF Only
  <2>5. ASSUME NEW k \in Callers, SaveLogin(k)
        PROVE  FALSE
    <3>1. Unchanged(k)
      BY <1>1, <1>4, <2>5 DEF SaveLogin
    <3>2. Only(setup[k].user) /\ row[setup[k].user] \in UserRecords
      BY <2>5, <3>1, SaveRow
    <3>3. QED
      BY <1>1, <1>4, <3>2, AccessAssumption DEF Only
  <2>6. ASSUME NEW c \in Companies, CommitRemoval(c)
        PROVE  company'[CompanyOf[u]] # "none"
    <3>1. Only(holder[c].user)
      BY <2>6, RemoveRow
    <3>2. u = holder[c].user
      BY <1>1, <1>4, <3>1 DEF Only
    <3>3. QED
      BY <1>4, <2>6, <3>2 DEF CommitRemoval, RemovalInv, Exists
  <2>7. QED
    BY <2>1, <2>2, <2>3, <2>4, <2>5, <2>6, StepCases
<1>5. QED
  BY <1>3, <1>4

LEMMA AdminStep ==
  ASSUME TypeOK, CompanyInv, SetupInv, RemovalInv, AlwaysAdmin, [Next]_vars
  PROVE  AlwaysAdmin'
<1> USE AccessAssumption
<1>1. SUFFICES ASSUME NEW c \in Companies, company'[c] # "none"
               PROVE  \E u \in Users : /\ CompanyOf[u] = c /\ row'[u] \in UserRecords
                                       /\ row'[u].admin /\ row'[u].active
  BY DEF AlwaysAdmin, Members, Present, Exists
<1>2. CASE company[c] = "none"
  <2>1. PICK e \in Emails : CreateCompany(c, e)
    BY <1>1, <1>2, CompanyStep
  <2>2. PICK a : a = TRUE
    OBVIOUS
  <2>3. PICK l : Inserts(FirstAdmin[c], e, a, l)
    BY <2>1, <2>2, CompanyCreated
  <2>4. FirstAdmin[c] \in Users /\ CompanyOf[FirstAdmin[c]] = c
    OBVIOUS
  <2>5. row'[FirstAdmin[c]] \in UserRecords /\ row'[FirstAdmin[c]].active
    BY <2>3, InsertRow
  <2>6. row'[FirstAdmin[c]].admin = a
    BY <2>3, InsertRow
  <2>7. QED
    BY <2>2, <2>4, <2>5, <2>6
<1>3. CASE company[c] # "none"
  <2>1. PICK o \in Users : /\ CompanyOf[o] = c /\ row[o] \in UserRecords
                           /\ row[o].admin /\ row[o].active
    BY <1>3, RowTypes, MemberFacts DEF AlwaysAdmin
  <2>2. CASE row'[o] \in UserRecords /\ row'[o].admin = row[o].admin
                /\ row'[o].active = row[o].active
    BY <2>1, <2>2
  <2>3. ASSUME WriteUpdate(c), holder[c].user = o, row'[o] \in UserRecords,
               row'[o].admin = holder[c].admin, row'[o].active = holder[c].active
        PROVE  \E u \in Users : /\ CompanyOf[u] = c /\ row'[u] \in UserRecords
                                /\ row'[u].admin /\ row'[u].active
    <3>1. CASE holder[c].admin /\ holder[c].active
      BY <2>1, <2>3, <3>1
    <3>2. CASE ~ (holder[c].admin /\ holder[c].active)
      <4>1. PICK p \in Members(c) \ {o} : row[p].admin /\ row[p].active
        BY <2>1, <2>3, <3>2 DEF WriteUpdate, RemovalInv
      <4>2. p \in Users /\ CompanyOf[p] = c /\ row[p] \in UserRecords
        BY <4>1, RowTypes, MemberFacts
      <4>3. row'[p] = row[p]
        BY <2>3, <4>1, <4>2, UpdateRow DEF Only
      <4>4. QED
        BY <4>1, <4>2, <4>3
    <3>3. QED
      BY <3>1, <3>2
  <2>4. CASE CommitRemoval(c) /\ holder[c].user = o
    <3>1. PICK p \in Members(c) : p # o /\ row[p].admin /\ row[p].active
      BY <2>4 DEF CommitRemoval, RemovalInv
    <3>2. p \in Users /\ CompanyOf[p] = c /\ row[p] \in UserRecords
      BY <3>1, RowTypes, MemberFacts
    <3>3. row'[p] = row[p]
      BY <2>4, <3>1, <3>2, RemoveRow DEF Only
    <3>4. QED
      BY <3>1, <3>2, <3>3
  <2>5. QED
    BY <2>1, <2>2, <2>3, <2>4, UserStays
<1>4. QED
  BY <1>2, <1>3

-----------------------------------------------------------------------------
(* The removal of a user.                                                  *)

LEMMA CheckFacts ==
  ASSUME TypeOK, AlwaysAdmin, CompanyInv, LoginMatches, NEW u \in Users, CheckRemoval(u)
  PROVE  LET c == CompanyOf[u]
         IN  /\ holder'[c] \in FindRecords /\ holder'[c].user = u
             /\ holder'[c].login \in Logins => idp[holder'[c].login] # None
             /\ row[u] \in UserRecords
             /\ \E o \in Members(c) : o # u /\ row[o].admin /\ row[o].active
             /\ \A d \in Companies : d # c => holder'[d] = holder[d]
             /\ holder' \in [Companies -> Holders]
<1> DEFINE c == CompanyOf[u]
<1>1. c \in Companies /\ row[u] \in UserRecords
  BY RowTypes, AccessAssumption DEF CheckRemoval
<1>2. PICK j : j = [pc |-> "find", user |-> u, login |-> row[u].login, email |-> row[u].email]
  OBVIOUS
<1>3. j \in FindRecords
  BY <1>1, <1>2 DEF FindRecords, UserRecords
<1>4. holder' = [holder EXCEPT ![c] = j]
  BY <1>2 DEF CheckRemoval
<1>5. /\ holder'[c] = j /\ (\A d \in Companies : d # c => holder'[d] = holder[d])
      /\ holder' \in [Companies -> Holders]
  BY <1>1, <1>3, <1>4 DEF TypeOK, Holders
<1>6. u \in Present
  BY <1>1, MemberFacts DEF CheckRemoval
<1>7. j.login \in Logins => idp[j.login] # None
  BY <1>2, <1>6, AccessAssumption DEF LoginMatches
<1>8. \E o \in Members(c) : o # u /\ row[o].admin /\ row[o].active
  <2>1. CASE row[u].admin /\ row[u].active
    BY <2>1 DEF CheckRemoval, ProtectAdmin
  <2>2. CASE ~ (row[u].admin /\ row[u].active)
    <3>1. company[c] # "none"
      BY <1>1, AccessAssumption DEF CompanyInv
    <3>2. PICK o \in Members(c) : row[o].admin /\ row[o].active
      BY <1>1, <3>1 DEF AlwaysAdmin
    <3>3. QED
      BY <2>2, <3>2
  <2>3. QED
    BY <2>1, <2>2
<1>9. QED
  BY <1>1, <1>2, <1>3, <1>5, <1>7, <1>8

LEMMA CheckUpdateFacts ==
  ASSUME TypeOK, AlwaysAdmin, CompanyInv, NEW u \in Users, NEW e \in Emails,
         NEW admin \in BOOLEAN, NEW b \in BOOLEAN, CheckUpdate(u, e, admin, b)
  PROVE  LET c == CompanyOf[u]
         IN  /\ holder[c] = Idle
             /\ holder'[c] \in UpdateRecords /\ holder'[c].user = u
             /\ row[u] \in UserRecords
             /\ \/ holder'[c].admin /\ holder'[c].active
                \/ \E o \in Members(c) : o # u /\ row[o].admin /\ row[o].active
             /\ \A d \in Companies : d # c => holder'[d] = holder[d]
             /\ holder' \in [Companies -> Holders]
<1> DEFINE c == CompanyOf[u]
<1>1. c \in Companies /\ row[u] \in UserRecords /\ holder[c] = Idle
  BY RowTypes, AccessAssumption DEF CheckUpdate, Open
<1>2. PICK j : j = [pc |-> "update", user |-> u, email |-> e, admin |-> admin, active |-> b]
  OBVIOUS
<1>3. j \in UpdateRecords /\ j.user = u /\ j.admin = admin /\ j.active = b
  BY <1>2 DEF UpdateRecords
<1>4. holder' = [holder EXCEPT ![c] = j]
  BY <1>2 DEF CheckUpdate
<1>5. /\ holder'[c] = j /\ (\A d \in Companies : d # c => holder'[d] = holder[d])
      /\ holder' \in [Companies -> Holders]
  BY <1>1, <1>3, <1>4 DEF TypeOK, Holders
<1>6. (admin /\ b) \/ \E o \in Members(c) : o # u /\ row[o].admin /\ row[o].active
  <2>1. CASE row[u].admin /\ row[u].active
    BY <2>1 DEF CheckUpdate, ProtectAdmin
  <2>2. CASE ~ (row[u].admin /\ row[u].active)
    <3>1. company[c] # "none"
      BY <1>1, AccessAssumption DEF CompanyInv
    <3>2. PICK o \in Members(c) : row[o].admin /\ row[o].active
      BY <1>1, <3>1 DEF AlwaysAdmin
    <3>3. QED
      BY <2>2, <3>2
  <2>3. QED
    BY <2>1, <2>2
<1>7. QED
  BY <1>1, <1>3, <1>5, <1>6

LEMMA CountOfOne ==
  ASSUME NEW l, NEW n \in {0, 1}, Cardinality(PointingAt(l)) <= n
  PROVE  /\ n = 0 => PointingAt(l) = {}
         /\ \A u \in PointingAt(l) : PointingAt(l) \ {u} = {}
<1>1. PointingAt(l) \subseteq Users
  BY DEF PointingAt, Present
<1>2. IsFiniteSet(PointingAt(l))
  BY <1>1, AccessAssumption, FS_Subset
<1>3. Cardinality(PointingAt(l)) \in Nat
  BY <1>2, FS_CardinalityType
<1>4. n = 0 => PointingAt(l) = {}
  BY <1>2, <1>3, FS_EmptySet
<1>5. ASSUME NEW u \in PointingAt(l)
      PROVE  PointingAt(l) \ {u} = {}
  <2>1. /\ IsFiniteSet(PointingAt(l) \ {u})
        /\ Cardinality(PointingAt(l) \ {u}) = Cardinality(PointingAt(l)) - 1
    BY <1>2, <1>5, FS_RemoveElement
  <2>2. Cardinality(PointingAt(l) \ {u}) \in Nat
    BY <2>1, FS_CardinalityType
  <2>3. Cardinality(PointingAt(l) \ {u}) = 0
    BY <1>3, <2>1, <2>2
  <2>4. QED
    BY <2>1, <2>3, FS_EmptySet
<1>6. QED
  BY <1>4, <1>5

LEMMA FindFacts ==
  ASSUME TypeOK, RemovalInv, NEW c \in Companies, FindLogin(c)
  PROVE  /\ holder[c] \in FindRecords
         /\ holder'[c] \in DecidedRecords /\ holder'[c].user = holder[c].user
         /\ holder'[c].login \in Logins => idp[holder'[c].login] # None
         /\ holder'[c].pc = "delete" =>
               holder'[c].login \in Logins /\ holder'[c].delete /\ holder'[c].others = {}
         /\ holder'[c].delete => holder'[c].pc = "delete"
         /\ \A d \in Companies : d # c => holder'[d] = holder[d]
         /\ holder' \in [Companies -> Holders]
<1> DEFINE job == holder[c]
           pending == job.login = Pending
           subjects == IF pending THEN Named(job.email) ELSE {job.login}
<1>1. job \in FindRecords /\ job.pc = "find"
  BY RemovalTypes DEF FindLogin
<1>2. job.login \in Logins => idp[job.login] # None
  BY <1>1 DEF RemovalInv
<1>3. ASSUME NEW j \in DecidedRecords, holder' = [holder EXCEPT ![c] = j]
      PROVE  /\ holder'[c] = j /\ (\A d \in Companies : d # c => holder'[d] = holder[d])
             /\ holder' \in [Companies -> Holders]
  BY <1>3 DEF TypeOK, Holders
<1>4. ASSUME NEW l \in subjects,
             holder' = [holder EXCEPT ![c] =
                           [pc |-> IF Elsewhere(l, pending) THEN "commit" ELSE "delete",
                            user |-> job.user, login |-> l,
                            delete |-> ~ Elsewhere(l, pending),
                            others |-> OthersSeen(job.user, l, pending)]]
      PROVE  /\ holder'[c] \in DecidedRecords /\ holder'[c].user = holder[c].user
             /\ holder'[c].login \in Logins /\ idp[holder'[c].login] # None
             /\ holder'[c].pc = "delete" => holder'[c].delete /\ holder'[c].others = {}
             /\ holder'[c].delete => holder'[c].pc = "delete"
             /\ \A d \in Companies : d # c => holder'[d] = holder[d]
             /\ holder' \in [Companies -> Holders]
  <2>1. l \in Logins /\ idp[l] # None
    BY <1>1, <1>2, <1>4 DEF FindRecords, Named, Lives
  <2>2. PICK pc : pc = IF Elsewhere(l, pending) THEN "commit" ELSE "delete"
    OBVIOUS
  <2>3. PICK del \in BOOLEAN : del = ~ Elsewhere(l, pending)
    OBVIOUS
  <2>4. PICK others : others = OthersSeen(job.user, l, pending)
    OBVIOUS
  <2>5. PICK j : j = [pc |-> pc, user |-> job.user, login |-> l, delete |-> del,
                      others |-> others]
    OBVIOUS
  <2>6. pc \in {"delete", "commit"} /\ others \in SUBSET Users /\ job.user \in Users
    BY <1>1, <2>2, <2>4 DEF OthersSeen, PointingAt, Present, FindRecords
  <2>7. j \in DecidedRecords
    BY <2>1, <2>3, <2>5, <2>6 DEF DecidedRecords
  <2>8. pc = "delete" => del /\ others = {}
    <3>1. SUFFICES ASSUME pc = "delete"
                   PROVE  others = {}
      BY <2>2, <2>3
    <3>2. ~ Elsewhere(l, pending)
      BY <2>2, <3>1
    <3>3. CASE pending
      <4>1. ~ (Cardinality(PointingAt(l)) > 0)
        BY <3>2, <3>3 DEF Elsewhere
      <4>2. Cardinality(PointingAt(l)) \in Nat
        BY FS_CardinalityType, FS_Subset, AccessAssumption DEF PointingAt, Present
      <4>3. PointingAt(l) = {}
        BY <4>1, <4>2, CountOfOne
      <4>4. QED
        BY <2>4, <4>3 DEF OthersSeen
    <3>4. CASE ~ pending
      <4>1. ~ (Cardinality(PointingAt(l)) > 1)
        BY <3>2, <3>4 DEF Elsewhere
      <4>2. Cardinality(PointingAt(l)) \in Nat
        BY FS_CardinalityType, FS_Subset, AccessAssumption DEF PointingAt, Present
      <4>3. \A u \in PointingAt(l) : PointingAt(l) \ {u} = {}
        BY <4>1, <4>2, CountOfOne
      <4>4. QED
        BY <2>4, <3>4, <4>3 DEF OthersSeen
    <3>5. QED
      BY <3>3, <3>4
  <2>9. del => pc = "delete"
    BY <2>2, <2>3
  <2>10. holder' = [holder EXCEPT ![c] = j]
    BY <1>4, <2>2, <2>3, <2>4, <2>5
  <2>11. /\ j.pc = pc /\ j.user = job.user /\ j.login = l /\ j.delete = del /\ j.others = others
    BY <2>5
  <2>12. /\ holder'[c] = j /\ (\A d \in Companies : d # c => holder'[d] = holder[d])
         /\ holder' \in [Companies -> Holders]
    BY <1>3, <2>7, <2>10
  <2>13. QED
    BY <2>1, <2>7, <2>8, <2>9, <2>11, <2>12
<1>5. CASE holder' = [holder EXCEPT ![c] = [pc |-> "commit", user |-> job.user,
                                              login |-> None, delete |-> FALSE, others |-> {}]]
  <2>1. PICK j : j = [pc |-> "commit", user |-> job.user, login |-> None, delete |-> FALSE,
                      others |-> {}]
    OBVIOUS
  <2>2. job.user \in Users /\ FALSE \in BOOLEAN /\ {} \in SUBSET Users
    BY <1>1 DEF FindRecords
  <2>3. j \in DecidedRecords
    BY <2>1, <2>2 DEF DecidedRecords
  <2>4. j.pc = "commit" /\ j.user = job.user /\ j.login = None /\ j.delete = FALSE
    BY <2>1
  <2>5. holder' = [holder EXCEPT ![c] = j]
    BY <1>5, <2>1
  <2>6. /\ holder'[c] = j /\ (\A d \in Companies : d # c => holder'[d] = holder[d])
        /\ holder' \in [Companies -> Holders]
    BY <1>3, <2>3, <2>5
  <2>7. QED
    BY <1>1, <2>3, <2>4, <2>6, AccessAssumption
<1>6. QED
  BY <1>1, <1>4, <1>5 DEF FindLogin

\* While an update or a removal holds the lock of the company its user and the
\* other administrator stay.
LEMMA JobStays ==
  ASSUME TypeOK, CompanyInv, SetupInv, RemovalInv, [Next]_vars,
         NEW c \in Companies, holder[c].pc # "idle", ~ CommitRemoval(c), ~ WriteUpdate(c)
  PROVE  LET user == holder[c].user
         IN  /\ user \in Users /\ row'[user] \in UserRecords /\ CompanyOf[user] = c
             /\ \/ holder[c].pc = "update" /\ holder[c].admin /\ holder[c].active
                \/ \E o \in Users : /\ CompanyOf[o] = c /\ row'[o] \in UserRecords
                                    /\ o # user /\ row'[o].admin /\ row'[o].active
<1> DEFINE user == holder[c].user
<1>1. user \in Users
  BY RemovalTypes DEF FindRecords, DecidedRecords, UpdateRecords
<1>2. CompanyOf[user] = c /\ row[user] \in UserRecords
  BY <1>1, RowTypes DEF RemovalInv
<1>3. row'[user] \in UserRecords
  BY <1>1, <1>2, UserStays
<1>4. CASE holder[c].pc = "update" /\ holder[c].admin /\ holder[c].active
  BY <1>1, <1>2, <1>3, <1>4
<1>5. ASSUME NEW o \in Members(c), o # user, row[o].admin, row[o].active
      PROVE  /\ o \in Users /\ CompanyOf[o] = c /\ row'[o] \in UserRecords
             /\ row'[o].admin /\ row'[o].active
  <2>1. o \in Users /\ CompanyOf[o] = c /\ row[o] \in UserRecords
    BY <1>5, RowTypes, MemberFacts
  <2>2. QED
    BY <1>5, <2>1, UserStays
<1>6. QED
  BY <1>1, <1>2, <1>3, <1>4, <1>5 DEF RemovalInv

LEMMA RemovalStep ==
  ASSUME TypeOK, CompanyInv, SetupInv, AlwaysAdmin, RemovalInv, LoginMatches, [Next]_vars
  PROVE  /\ holder' \in [Companies -> Holders]
         /\ RemovalInv'
<1> USE AccessAssumption
<1> DEFINE Removals == [Companies -> Holders]
           Good(c) ==
             holder'[c].pc # "idle" =>
               LET job == holder'[c]
               IN  /\ job.user \in Users /\ row'[job.user] \in UserRecords
                   /\ CompanyOf[job.user] = c
                   /\ \/ job.pc = "update" /\ job.admin /\ job.active
                      \/ \E o \in Users : /\ CompanyOf[o] = c /\ row'[o] \in UserRecords
                                          /\ o # job.user /\ row'[o].admin /\ row'[o].active
                   /\ job.pc # "update" /\ job.login \in Logins => idp'[job.login] # None
                   /\ job.pc = "delete" => job.login \in Logins /\ job.delete /\ job.others = {}
                   /\ job.pc = "commit" /\ job.delete => job.login \in Logins
<1>1. ASSUME NEW c \in Companies, holder'[c] = holder[c]
      PROVE  Good(c)
  <2>1. SUFFICES ASSUME holder[c].pc # "idle"
                 PROVE  Good(c)
    BY <1>1
  <2>2. ~ CommitRemoval(c) /\ ~ WriteUpdate(c)
    BY <1>1, <2>1, RemoveRow, UpdateHolder DEF Idle
  <2>3. /\ holder[c].pc # "update" /\ holder[c].login \in Logins => idp[holder[c].login] # None
        /\ holder[c].pc = "delete" =>
              holder[c].login \in Logins /\ holder[c].delete /\ holder[c].others = {}
        /\ holder[c].pc = "commit" /\ holder[c].delete => holder[c].login \in Logins
    BY <2>1 DEF RemovalInv
  <2>4. holder[c].pc # "update" /\ holder[c].login \in Logins => idp'[holder[c].login] # None
    BY <2>3, IdpStep DEF IdpGrows
  <2>5. QED
    BY <1>1, <2>1, <2>2, <2>3, <2>4, JobStays
<1>2. ASSUME NEW c \in Companies, holder'[c] = Idle
      PROVE  Good(c)
  BY <1>2 DEF Idle
<1>3. ASSUME UNCHANGED holder
      PROVE  holder' \in Removals /\ \A c \in Companies : Good(c)
  <2>1. holder' \in Removals
    BY <1>3 DEF TypeOK
  <2>2. \A c \in Companies : Good(c)
    BY <1>1, <1>3
  <2> HIDE DEF Good
  <2>3. QED
    BY <2>1, <2>2
<1>4. ASSUME NEW u \in Users, CheckRemoval(u)
      PROVE  holder' \in Removals /\ \A c \in Companies : Good(c)
  <2> DEFINE c == CompanyOf[u]
  <2>1. /\ holder'[c] \in FindRecords /\ holder'[c].user = u
        /\ holder'[c].login \in Logins => idp[holder'[c].login] # None
        /\ row[u] \in UserRecords
        /\ \E o \in Members(c) : o # u /\ row[o].admin /\ row[o].active
        /\ \A d \in Companies : d # c => holder'[d] = holder[d]
        /\ holder' \in Removals
    BY <1>4, CheckFacts
  <2>2. row' = row /\ idp' = idp
    BY <1>4 DEF CheckRemoval
  <2>3. PICK o \in Members(c) : o # u /\ row[o].admin /\ row[o].active
    BY <2>1
  <2>4. o \in Users /\ CompanyOf[o] = c /\ row[o] \in UserRecords
    BY <2>3, RowTypes, MemberFacts
  <2>5. holder'[c].pc = "find"
    BY <2>1 DEF FindRecords
  <2>6. Good(c)
    BY <2>1, <2>2, <2>3, <2>4, <2>5
  <2> HIDE DEF Good
  <2>7. QED
    BY <1>1, <2>1, <2>6
<1>5. ASSUME NEW c \in Companies, FindLogin(c)
      PROVE  holder' \in Removals /\ \A d \in Companies : Good(d)
  <2>1. /\ holder[c] \in FindRecords
        /\ holder'[c] \in DecidedRecords /\ holder'[c].user = holder[c].user
        /\ holder'[c].login \in Logins => idp[holder'[c].login] # None
        /\ holder'[c].pc = "delete" =>
              holder'[c].login \in Logins /\ holder'[c].delete /\ holder'[c].others = {}
        /\ holder'[c].delete => holder'[c].pc = "delete"
        /\ \A d \in Companies : d # c => holder'[d] = holder[d]
        /\ holder' \in Removals
    BY <1>5, FindFacts
  <2>2. idp' = idp /\ holder[c].pc = "find" /\ holder[c].pc # "idle"
    BY <1>5 DEF FindLogin
  <2>3. ~ CommitRemoval(c) /\ ~ WriteUpdate(c)
    BY <2>2 DEF CommitRemoval, WriteUpdate
  <2>4. Good(c)
    BY <2>1, <2>2, <2>3, JobStays
  <2> HIDE DEF Good
  <2>5. QED
    BY <1>1, <2>1, <2>4
<1>6. ASSUME NEW c \in Companies, DeleteLogin(c)
      PROVE  holder' \in Removals /\ \A d \in Companies : Good(d)
  <2>1. /\ holder[c].pc = "delete" /\ holder[c].login \in Logins
        /\ idp'[holder[c].login] \in LoginRecords
        /\ holder'[c] \in DecidedRecords /\ holder'[c].pc = "commit"
        /\ holder'[c].user = holder[c].user /\ holder'[c].login = holder[c].login
        /\ \A d \in Companies : d # c => holder'[d] = holder[d]
        /\ holder' \in Removals
    BY <1>6, DeleteFacts
  <2>2. ~ CommitRemoval(c) /\ ~ WriteUpdate(c) /\ holder[c].pc # "idle"
    BY <2>1 DEF CommitRemoval, WriteUpdate
  <2>3. Good(c)
    BY <2>1, <2>2, JobStays
  <2> HIDE DEF Good
  <2>4. QED
    BY <1>1, <2>1, <2>3
<1>11. ASSUME NEW u \in Users, NEW e \in Emails, NEW admin \in BOOLEAN, NEW b \in BOOLEAN,
              CheckUpdate(u, e, admin, b)
       PROVE  holder' \in Removals /\ \A c \in Companies : Good(c)
  <2> DEFINE c == CompanyOf[u]
  <2>1. /\ holder'[c] \in UpdateRecords /\ holder'[c].user = u
        /\ row[u] \in UserRecords
        /\ \/ holder'[c].admin /\ holder'[c].active
           \/ \E o \in Members(c) : o # u /\ row[o].admin /\ row[o].active
        /\ \A d \in Companies : d # c => holder'[d] = holder[d]
        /\ holder' \in Removals
    BY <1>11, CheckUpdateFacts
  <2>2. row' = row /\ idp' = idp
    BY <1>11 DEF CheckUpdate
  <2>3. \/ holder'[c].admin /\ holder'[c].active
        \/ \E o \in Users : /\ CompanyOf[o] = c /\ row'[o] \in UserRecords
                            /\ o # u /\ row'[o].admin /\ row'[o].active
    BY <2>1, <2>2, RowTypes, MemberFacts
  <2>4. holder'[c].pc = "update"
    BY <2>1 DEF UpdateRecords
  <2>5. Good(c)
    BY <2>1, <2>2, <2>3, <2>4
  <2> HIDE DEF Good
  <2>6. QED
    BY <1>1, <2>1, <2>5
<1>7. ASSUME NEW c \in Companies, CommitRemoval(c) \/ Abort(c) \/ WriteUpdate(c)
      PROVE  holder' \in Removals /\ \A d \in Companies : Good(d)
  <2>1. holder' = [holder EXCEPT ![c] = Idle]
    BY <1>7 DEF CommitRemoval, Abort, WriteUpdate
  <2>2. /\ holder'[c] = Idle /\ (\A d \in Companies : d # c => holder'[d] = holder[d])
        /\ holder' \in Removals
    BY <2>1 DEF TypeOK, Holders
  <2>3. Good(c)
    BY <1>2, <2>2
  <2> HIDE DEF Good
  <2>4. QED
    BY <1>1, <2>2, <2>3
<1>8. holder' \in Removals /\ \A c \in Companies : Good(c)
  <2> HIDE DEF Good, Removals
  <2>1. QED
    BY <1>3, <1>4, <1>5, <1>6, <1>7, <1>11, Frames
<1>9. RemovalInv'
  BY <1>8 DEF RemovalInv, Exists, Members, Present
<1>10. QED
  BY <1>8, <1>9

-----------------------------------------------------------------------------
(* The logins of users.                                                    *)

LEMMA MatchesStep ==
  ASSUME TypeOK, CompanyInv, SetupInv, RemovalInv, LoginMatches, [Next]_vars
  PROVE  LoginMatches'
<1> USE AccessAssumption
<1> DEFINE Fits(u) == row'[u] \in UserRecords /\ row'[u].login # Pending =>
             LET l == row'[u].login
             IN  /\ l \in Logins /\ idp'[l] # None
                 /\ idp'[l].email = row'[u].email \/ l \in crossed'
                 /\ idp'[l].owner = u \/ row'[u].linked
<1>1. ASSUME NEW u \in Users, row[u] \in UserRecords, row[u].login # Pending
      PROVE  LET l == row[u].login
             IN  /\ l \in Logins /\ idp'[l] # None
                 /\ idp'[l].email = row[u].email \/ l \in crossed'
                 /\ idp'[l].owner = u \/ row[u].linked
  <2>1. row[u].login \in Logins
    BY <1>1 DEF UserRecords
  <2>2. u \in Present
    BY <1>1, RowTypes, MemberFacts
  <2>3. /\ idp[row[u].login] # None
        /\ idp[row[u].login].email = row[u].email \/ row[u].login \in crossed
        /\ idp[row[u].login].owner = u \/ row[u].linked
    BY <1>1, <2>2 DEF LoginMatches
  <2>4. QED
    BY <2>1, <2>3, IdpStep, CrossedStep DEF IdpGrows
<1>2. ASSUME NEW u \in Users, row'[u] \in UserRecords => row[u] \in UserRecords,
             row'[u] \in UserRecords =>
                /\ row'[u].login = row[u].login /\ row'[u].linked = row[u].linked
                /\ row[u].login # Pending =>
                      row'[u].email = row[u].email \/ row[u].login \in crossed'
      PROVE  Fits(u)
  BY <1>1, <1>2
<1>3. ASSUME NEW x \in Users, Only(x), Fits(x)
      PROVE  \A u \in Users : Fits(u)
  <2>1. ASSUME NEW u \in Users, u # x
        PROVE  Fits(u)
    BY <1>1, <1>3, <2>1 DEF Only
  <2> HIDE DEF Fits
  <2>2. QED
    BY <1>3, <2>1
<1>4. ASSUME Calm
      PROVE  \A u \in Users : Fits(u)
  <2>1. ASSUME NEW u \in Users
        PROVE  Fits(u)
    BY <1>2, <1>4, CalmStep DEF CalmRows, Same
  <2>2. QED
    BY <2>1
<1>5. ASSUME NEW x, NEW e, NEW admin, NEW l, Inserts(x, e, admin, l)
      PROVE  \A u \in Users : Fits(u)
  <2>1. /\ Only(x) /\ row'[x].email = e /\ row'[x].login = l
        /\ l # Pending => row'[x].linked
    BY <1>5, InsertRow
  <2>2. x \in Users /\ idp' = idp
    BY <1>5 DEF Inserts
  <2>3. Fits(x)
    <3>1. SUFFICES ASSUME l # Pending
                   PROVE  /\ l \in Logins /\ idp'[l] # None
                          /\ idp'[l].email = e \/ l \in crossed'
      BY <2>1
    <3>2. PICK o \in Present : row[o].email = e /\ row[o].login = l
      BY <1>5, <3>1 DEF Inserts, Known
    <3>3. o \in Users /\ row[o] \in UserRecords
      BY RowTypes, MemberFacts
    <3>4. QED
      BY <1>1, <3>1, <3>2, <3>3
  <2> HIDE DEF Fits
  <2>4. QED
    BY <1>3, <2>1, <2>2, <2>3
<1>6. ASSUME NEW c \in Companies, WriteUpdate(c)
      PROVE  \A u \in Users : Fits(u)
  <2> DEFINE x == holder[c].user
  <2>1. /\ x \in Users /\ row[x] \in UserRecords /\ Only(x) /\ row'[x].email = holder[c].email
        /\ row'[x].login = row[x].login /\ row'[x].linked = row[x].linked
    BY <1>6, UpdateRow
  <2>2. row[x].login # Pending => row[x].email = holder[c].email \/ row[x].login \in crossed'
    BY <1>6 DEF WriteUpdate
  <2>3. Fits(x)
    BY <1>2, <2>1, <2>2
  <2> HIDE DEF Fits
  <2>4. QED
    BY <1>3, <2>1, <2>3
<1>7. ASSUME NEW x \in Users, NEW e \in Emails, CorrectAdminEmail(x, e)
      PROVE  \A u \in Users : Fits(u)
  <2>1. Only(x) /\ row'[x].login = Pending
    BY <1>7, CorrectRow
  <2>2. Fits(x)
    BY <2>1
  <2> HIDE DEF Fits
  <2>3. QED
    BY <1>3, <2>1, <2>2
<1>8. ASSUME NEW k \in Callers, SaveLogin(k)
      PROVE  \A u \in Users : Fits(u)
  <2>1. CASE ~ Unchanged(k)
    <3>1. row' = row
      BY <1>8, <2>1 DEF SaveLogin
    <3>2. ASSUME NEW u \in Users
          PROVE  Fits(u)
      BY <1>1, <3>1
    <3>3. QED
      BY <3>2
  <2>2. CASE Unchanged(k)
    <3> DEFINE x == setup[k].user
               l == setup[k].login
    <3>1. /\ x \in Users /\ l \in Logins /\ Only(x)
          /\ row'[x].email = row[x].email /\ row'[x].linked = row[x].linked
          /\ row'[x].login = l
      BY <1>8, <2>2, SaveRow
    <3>2. setup[k].pc = "save" /\ idp' = idp
      BY <1>8 DEF SaveLogin
    <3>3. /\ idp[l] # None
          /\ idp[l].email = row[x].email \/ l \in crossed
          /\ idp[l].owner = x \/ row[x].linked
      BY <2>2, <3>2 DEF SetupInv, CallInv
    <3>6. crossed \subseteq crossed'
      BY CrossedStep
    <3>4. Fits(x)
      BY <3>1, <3>2, <3>3, <3>6
    <3> HIDE DEF Fits
    <3>5. QED
      BY <1>3, <3>1, <3>4
  <2>3. QED
    BY <2>1, <2>2
<1>9. ASSUME NEW c \in Companies, CommitRemoval(c)
      PROVE  \A u \in Users : Fits(u)
  <2>1. /\ holder[c].user \in Users /\ Only(holder[c].user)
        /\ row'[holder[c].user] = Removed
    BY <1>9, RemoveRow
  <2>2. Fits(holder[c].user)
    BY <2>1
  <2> HIDE DEF Fits
  <2>3. QED
    BY <1>3, <2>1, <2>2
<1>10. \A u \in Users : Fits(u)
  <2> HIDE DEF Fits
  <2>1. QED
    BY <1>4, <1>5, <1>6, <1>7, <1>8, <1>9, StepCases
<1>11. row' \in [Users -> UserRecords \cup {None, Removed}]
  BY RowStep
<1>12. QED
  BY <1>10, <1>11 DEF LoginMatches, Present, Exists

\* A login that is deleted under a user other than the removed one is cut.
LEMMA KeptStep ==
  ASSUME TypeOK, CompanyInv, SetupInv, RemovalInv, LoginMatches, KeptInv, [Next]_vars
  PROVE  KeptInv'
<1> USE AccessAssumption
<1> DEFINE Dead(l) == ~ (idp'[l] # None /\ ~ idp'[l].gone)
           Kept(u) ==
             row'[u] \in UserRecords /\ row'[u].login # Pending /\ Dead(row'[u].login) =>
               \/ row'[u].login \in cut'
               \/ LET job == holder'[CompanyOf[u]]
                  IN  /\ job.pc = "commit" /\ job.user = u /\ job.delete
                      /\ job.login = row'[u].login
<1>1. cut \subseteq cut'
  BY LiveStep
\* Somebody who keeps the login.
<1>2. ASSUME NEW u \in Users, row[u] \in UserRecords,
             row'[u] \in UserRecords => row'[u].login = row[u].login
      PROVE  Kept(u)
  <2> DEFINE l == row[u].login
  <2>1. SUFFICES ASSUME row'[u] \in UserRecords, l # Pending, Dead(l)
                 PROVE  Kept(u)
    BY <1>2
  <2>2. l \in Logins /\ u \in Present /\ l = row'[u].login
    BY <1>2, <2>1, RowTypes, MemberFacts DEF UserRecords
  <2>3. CompanyOf[u] \in Companies
    OBVIOUS
  <2>4. CASE Lives(l)
    <3>1. PICK c \in Companies : DeleteLogin(c) /\ holder[c].login = l
      BY <2>1, <2>2, <2>4, LiveStep
    <3>2. /\ holder[c].others = {} /\ holder[c].pc = "delete"
          /\ holder'[c].pc = "commit" /\ holder'[c].user = holder[c].user
          /\ holder'[c].login = l /\ holder'[c].delete
      BY <3>1, DeleteFacts
    <3>3. CompanyOf[holder[c].user] = c
      BY <3>2 DEF RemovalInv
    <3>4. CASE u = holder[c].user
      BY <2>2, <3>2, <3>3, <3>4
    <3>5. CASE u # holder[c].user
      <4>1. u \in PointingAt(l)
        BY <2>2 DEF PointingAt
      <4>2. cut' = cut \cup {l}
        BY <3>1, <3>2, <3>5, <4>1 DEF DeleteLogin
      <4>3. QED
        BY <2>2, <4>2
    <3>6. QED
      BY <3>4, <3>5
  <2>5. CASE ~ Lives(l) /\ l \in cut
    BY <1>1, <2>2, <2>5
  <2>6. CASE ~ Lives(l) /\ l \notin cut
    <3> DEFINE c == CompanyOf[u]
    <3>1. /\ holder[c].pc = "commit" /\ holder[c].user = u /\ holder[c].delete
          /\ holder[c].login = l
      BY <2>1, <2>2, <2>6 DEF KeptInv
    <3>2. CASE holder'[c] = holder[c]
      BY <2>2, <3>1, <3>2
    <3>3. CASE holder'[c] # holder[c]
      <4>1. ASSUME NEW x \in Users, CheckRemoval(x)
            PROVE  FALSE
        <5>1. c = CompanyOf[x]
          BY <3>3, <4>1, CheckFacts, <2>3 DEF CheckRemoval, TypeOK
        <5>2. QED
          BY <3>1, <4>1, <5>1, <2>3, RemovalTypes DEF CheckRemoval, Open
      <4>8. ASSUME NEW x \in Users, NEW e \in Emails, NEW admin \in BOOLEAN, NEW b \in BOOLEAN,
                   CheckUpdate(x, e, admin, b)
            PROVE  FALSE
        <5>1. c = CompanyOf[x]
          BY <3>3, <4>8, <2>3 DEF CheckUpdate, TypeOK
        <5>2. QED
          BY <3>1, <4>8, <5>1, <2>3, RemovalTypes DEF CheckUpdate, Open
      <4>9. ASSUME NEW d \in Companies, WriteUpdate(d)
            PROVE  FALSE
        <5>1. c = d
          BY <3>3, <4>9, UpdateHolder, <2>3
        <5>2. QED
          BY <3>1, <4>9, <5>1 DEF WriteUpdate
      <4>2. ASSUME NEW d \in Companies, FindLogin(d)
            PROVE  FALSE
        <5>1. c = d
          BY <3>3, <4>2, FindFacts, <2>3
        <5>2. QED
          BY <3>1, <4>2, <5>1 DEF FindLogin
      <4>3. ASSUME NEW d \in Companies, DeleteLogin(d)
            PROVE  FALSE
        <5>1. c = d
          BY <3>3, <4>3, DeleteFacts, <2>3
        <5>2. QED
          BY <3>1, <4>3, <5>1 DEF DeleteLogin
      <4>4. ASSUME NEW d \in Companies, CommitRemoval(d)
            PROVE  FALSE
        <5>1. row'[holder[d].user] = Removed
              /\ (\A f \in Companies : f # d => holder'[f] = holder[f])
          BY <4>4, RemoveRow
        <5>2. d = c
          BY <3>3, <5>1, <2>3
        <5>3. QED
          BY <2>1, <3>1, <5>1, <5>2
      <4>5. ASSUME NEW d \in Companies, Abort(d)
            PROVE  l \in cut'
        <5>1. d = c
          BY <3>3, <4>5, <2>3 DEF Abort, TypeOK
        <5>2. QED
          BY <3>1, <4>5, <5>1 DEF Abort
      <4>6. CASE UNCHANGED holder
        BY <3>3, <4>6
      <4>7. QED
        BY <2>2, <4>1, <4>2, <4>3, <4>4, <4>5, <4>6, <4>8, <4>9, Frames
    <3>4. QED
      BY <3>2, <3>3
  <2>7. QED
    BY <2>4, <2>5, <2>6
<1>3. ASSUME NEW x \in Users, Only(x), Kept(x)
      PROVE  \A u \in Users : Kept(u)
  <2>1. ASSUME NEW u \in Users, u # x
        PROVE  Kept(u)
    <3>1. row'[u] = row[u]
      BY <1>3, <2>1 DEF Only
    <3>2. CASE row[u] \in UserRecords
      BY <1>2, <3>1, <3>2
    <3>3. CASE row[u] \notin UserRecords
      BY <3>1, <3>3
    <3>4. QED
      BY <3>2, <3>3
  <2> HIDE DEF Kept
  <2>2. QED
    BY <1>3, <2>1
<1>4. ASSUME Calm
      PROVE  \A u \in Users : Kept(u)
  <2>1. ASSUME NEW u \in Users
        PROVE  Kept(u)
    <3>1. CASE row[u] \in UserRecords
      <4>1. row'[u].login = row[u].login
        BY <1>4, CalmStep DEF CalmRows, Same
      <4> HIDE DEF Kept
      <4>2. QED
        BY <1>2, <3>1, <4>1
    <3>2. CASE row[u] \notin UserRecords
      BY <1>4, <3>2, CalmStep DEF CalmRows, Same
    <3>3. QED
      BY <3>1, <3>2
  <2>2. QED
    BY <2>1
<1>5. ASSUME NEW x, NEW e, NEW admin, NEW l, Inserts(x, e, admin, l)
      PROVE  \A u \in Users : Kept(u)
  <2>1. Only(x) /\ row'[x].login = l
    BY <1>5, InsertRow
  <2>2. x \in Users /\ idp' = idp /\ row[x] = None /\ holder' = holder
    BY <1>5 DEF Inserts
  <2>3. Kept(x)
    <3>1. SUFFICES ASSUME l # Pending, ~ Lives(l)
                   PROVE  l \in cut'
      BY <2>1, <2>2 DEF Lives
    <3>2. PICK o \in Present : row[o].login = l
      BY <1>5, <3>1 DEF Inserts, Known
    <3>3. CASE l \in cut
      BY <1>1, <3>3
    <3>4. CASE l \notin cut
      <4> DEFINE c == CompanyOf[o]
      <4>1. /\ holder[c].pc = "commit" /\ holder[c].delete /\ holder[c].login = l
        BY <3>1, <3>2, <3>4 DEF KeptInv
      <4>2. c \in Companies
        BY MemberFacts
      <4>3. c \in Deciding(l)
        BY <4>1, <4>2 DEF Deciding
      <4>4. QED
        BY <1>5, <3>1, <4>3 DEF Inserts, Insert
    <3>5. QED
      BY <3>3, <3>4
  <2> HIDE DEF Kept
  <2>4. QED
    BY <1>3, <2>1, <2>2, <2>3
<1>6. ASSUME NEW c \in Companies, WriteUpdate(c)
      PROVE  \A u \in Users : Kept(u)
  <2> DEFINE x == holder[c].user
  <2>1. /\ x \in Users /\ row[x] \in UserRecords /\ Only(x)
        /\ row'[x].login = row[x].login
    BY <1>6, UpdateRow
  <2> HIDE DEF Kept, x
  <2>2. QED
    BY <1>2, <1>3, <2>1
<1>7. ASSUME NEW x \in Users, NEW e \in Emails, CorrectAdminEmail(x, e)
      PROVE  \A u \in Users : Kept(u)
  <2>1. Only(x) /\ row'[x].login = Pending
    BY <1>7, CorrectRow
  <2>2. Kept(x)
    BY <2>1
  <2> HIDE DEF Kept
  <2>3. QED
    BY <1>3, <2>1, <2>2
<1>8. ASSUME NEW k \in Callers, SaveLogin(k)
      PROVE  \A u \in Users : Kept(u)
  <2>1. CASE ~ Unchanged(k)
    <3>1. row' = row
      BY <1>8, <2>1 DEF SaveLogin
    <3>2. ASSUME NEW u \in Users
          PROVE  Kept(u)
      <4>1. CASE row[u] \in UserRecords
        BY <1>2, <3>1, <4>1
      <4>2. CASE row[u] \notin UserRecords
        BY <3>1, <4>2
      <4>3. QED
        BY <4>1, <4>2
    <3>3. QED
      BY <3>2
  <2>2. CASE Unchanged(k)
    <3> DEFINE x == setup[k].user
               l == setup[k].login
    <3>1. x \in Users /\ l \in Logins /\ Only(x) /\ row'[x].login = l
      BY <1>8, <2>2, SaveRow
    <3>2. setup[k].pc = "save" /\ idp' = idp
      BY <1>8 DEF SaveLogin
    <3>3. Lives(l) \/ l \in cut
      BY <3>2 DEF SetupInv, CallInv
    <3>4. Kept(x)
      BY <1>1, <3>1, <3>2, <3>3 DEF Lives
    <3> HIDE DEF Kept
    <3>5. QED
      BY <1>3, <3>1, <3>4
  <2>3. QED
    BY <2>1, <2>2
<1>9. ASSUME NEW c \in Companies, CommitRemoval(c)
      PROVE  \A u \in Users : Kept(u)
  <2>1. /\ holder[c].user \in Users /\ Only(holder[c].user)
        /\ row'[holder[c].user] = Removed
    BY <1>9, RemoveRow
  <2>2. Kept(holder[c].user)
    BY <2>1
  <2> HIDE DEF Kept
  <2>3. QED
    BY <1>3, <2>1, <2>2
<1>10. \A u \in Users : Kept(u)
  <2> HIDE DEF Kept
  <2>1. QED
    BY <1>4, <1>5, <1>6, <1>7, <1>8, <1>9, StepCases
<1>11. row' \in [Users -> UserRecords \cup {None, Removed}]
  BY RowStep
<1>12. QED
  BY <1>10, <1>11 DEF KeptInv, Present, Exists, Lives

-----------------------------------------------------------------------------
(* The calls that set up logins.                                           *)

LEMMA SetupStep ==
  ASSUME TypeOK, CompanyInv, SetupInv, RemovalInv, LoginMatches, [Next]_vars
  PROVE  setup' \in [Callers -> SetupRecords \cup {Idle}] /\ SetupInv'
<1> USE AccessAssumption
<1> DEFINE Calls == [Callers -> SetupRecords \cup {Idle}]
           Kept(call) == /\ row'[call.user] \in UserRecords
                         /\ row'[call.user].version = call.version
           Bound(call) ==
             /\ row'[call.user] # None
             /\ row'[call.user] \in UserRecords => call.version <= row'[call.user].version
             /\ Kept(call) => call.email = row'[call.user].email
           Checked(call) ==
             /\ call.login \in Logins /\ idp'[call.login] # None
             /\ idp'[call.login].email = call.email \/ call.login \in crossed'
             /\ \/ idp'[call.login].owner = call.user
                \/ Kept(call) => row'[call.user].linked
           Alive(call) ==
             (idp'[call.login] # None /\ ~ idp'[call.login].gone) \/ call.login \in cut'
           Good(k) ==
             setup'[k].pc # "idle" =>
               /\ Bound(setup'[k])
               /\ setup'[k].pc \in {"check", "save"} => Checked(setup'[k])
               /\ setup'[k].pc = "save" => Alive(setup'[k])
\* What was known of a call still is.
<1>1. ASSUME NEW k \in Callers, setup[k] \in SetupRecords
      PROVE  /\ Bound(setup[k])
             /\ setup[k].pc \in {"check", "save"} => Checked(setup[k])
             /\ setup[k].pc = "save" => Alive(setup[k])
  <2> DEFINE call == setup[k]
             u == call.user
  <2>1. /\ u \in Users /\ call.version \in Nat /\ call.pc # "idle"
        /\ row[u] # None
        /\ Exists(u) => call.version <= row[u].version
        /\ Unchanged(k) => call.email = row[u].email
        /\ call.pc \in {"check", "save"} =>
              /\ call.login \in Logins /\ idp[call.login] # None
              /\ idp[call.login].email = call.email \/ call.login \in crossed
              /\ \/ idp[call.login].owner = u
                 \/ Unchanged(k) => row[u].linked
        /\ call.pc = "save" => Lives(call.login) \/ call.login \in cut
    BY <1>1, SetupTypes DEF SetupInv, CallInv, SetupRecords
  <2>2. row'[u] \in UserRecords =>
          /\ row[u] \in UserRecords /\ Exists(u)
          /\ row[u].version \in Nat /\ row'[u].version \in Nat
          /\ row[u].version <= row'[u].version
          /\ row'[u].version = row[u].version =>
                row'[u].email = row[u].email /\ row'[u].linked = row[u].linked
    BY <2>1, RowStep, RowTypes DEF RowGrows, UserRecords
  <2>3. row'[u] # None
    BY <2>1, RowStep DEF RowGrows
  <2>4. row'[u] \in UserRecords => call.version <= row'[u].version
    BY <2>1, <2>2
  <2>5. Kept(call) => /\ Unchanged(k)
                      /\ row'[u].email = row[u].email /\ row'[u].linked = row[u].linked
    BY <2>1, <2>2 DEF Unchanged
  <2>6. Bound(call)
    BY <2>1, <2>3, <2>4, <2>5
  <2>7. call.pc \in {"check", "save"} => Checked(call)
    BY <2>1, <2>5, IdpStep, CrossedStep DEF IdpGrows
  <2>8. call.pc = "save" => Alive(call)
    <3>1. SUFFICES ASSUME call.pc = "save"
                   PROVE  Alive(call)
      OBVIOUS
    <3>2. call.login \in Logins
      BY <2>1, <3>1
    <3>3. CASE call.login \in cut
      BY <3>3, LiveStep
    <3>4. CASE Lives(call.login)
      <4>1. ASSUME NEW c \in Companies, DeleteLogin(c), holder[c].login = call.login
            PROVE  call.login \in cut'
        BY <3>1, <4>1 DEF DeleteLogin
      <4>2. QED
        BY <3>2, <3>4, <4>1, LiveStep
    <3>5. QED
      BY <2>1, <3>1, <3>3, <3>4
  <2>9. QED
    BY <2>6, <2>7, <2>8
<1>2. ASSUME NEW k \in Callers, setup'[k] = setup[k]
      PROVE  Good(k)
  <2> HIDE DEF Bound, Checked, Alive
  <2>1. QED
    BY <1>1, <1>2, SetupTypes
<1>3. ASSUME NEW k \in Callers, Good(k), NEW j \in SetupRecords \cup {Idle},
             setup' = [setup EXCEPT ![k] = j]
      PROVE  setup' \in Calls /\ \A x \in Callers : Good(x)
  <2>1. setup' \in Calls /\ \A x \in Callers : x # k => setup'[x] = setup[x]
    BY <1>3 DEF TypeOK
  <2> HIDE DEF Good
  <2>2. QED
    BY <1>2, <1>3, <2>1
<1>4. ASSUME NEW k \in Callers, setup' = [setup EXCEPT ![k] = Idle]
      PROVE  setup' \in Calls /\ \A x \in Callers : Good(x)
  <2>1. setup'[k].pc = "idle"
    BY <1>4 DEF TypeOK, Idle
  <2>2. Good(k)
    BY <2>1
  <2> HIDE DEF Good
  <2>3. QED
    BY <1>3, <1>4, <2>2
<1>5. ASSUME UNCHANGED setup
      PROVE  setup' \in Calls /\ \A x \in Callers : Good(x)
  <2> HIDE DEF Good
  <2>1. QED
    BY <1>2, <1>5 DEF TypeOK
\* A call goes on.
<1>6. ASSUME NEW k \in Callers, setup[k] \in SetupRecords, NEW pc \in {"post", "check", "save"},
             NEW l \in Logins \cup {Pending},
             NEW j, j = [setup[k] EXCEPT !.pc = pc, !.login = l],
             setup' = [setup EXCEPT ![k] = j],
             pc \in {"check", "save"} => Checked(j),
             pc = "save" => Alive(j)
      PROVE  setup' \in Calls /\ \A x \in Callers : Good(x)
  <2>1. /\ j \in SetupRecords /\ j.pc = pc
        /\ j.user = setup[k].user /\ j.email = setup[k].email /\ j.version = setup[k].version
    BY <1>6 DEF SetupRecords
  <2>2. Bound(j)
    BY <1>1, <1>6, <2>1
  <2>3. setup'[k] = j
    BY <1>6 DEF TypeOK
  <2> HIDE DEF Bound, Checked, Alive
  <2>4. Good(k)
    BY <1>6, <2>1, <2>2, <2>3
  <2> HIDE DEF Good
  <2>5. QED
    BY <1>3, <1>6, <2>1, <2>4
<1>7. ASSUME NEW k \in Callers, NEW u \in Users, StartSetup(k, u)
      PROVE  setup' \in Calls /\ \A x \in Callers : Good(x)
  <2>1. row[u] \in UserRecords /\ u \in Present /\ row' = row /\ idp' = idp
    BY <1>7, RowTypes, MemberFacts DEF StartSetup
  <2>2. PICK pc : pc = IF row[u].login = Pending THEN "lookup" ELSE "check"
    OBVIOUS
  <2>3. PICK j : j = [pc |-> pc, user |-> u, login |-> row[u].login, email |-> row[u].email,
                      active |-> row[u].active, version |-> row[u].version]
    OBVIOUS
  <2>4. j \in SetupRecords
    BY <2>1, <2>2, <2>3 DEF SetupRecords, UserRecords
  <2>5. setup' = [setup EXCEPT ![k] = j]
    BY <1>7, <2>2, <2>3 DEF StartSetup
  <2>6. setup'[k] = j
    BY <2>5 DEF TypeOK
  <2>7. Bound(j)
    BY <2>1, <2>3 DEF UserRecords
  <2>8. j.pc = "check" => Checked(j)
    <3>1. SUFFICES ASSUME row[u].login # Pending
                   PROVE  Checked(j)
      BY <2>2, <2>3
    <3>2. row[u].login \in Logins
      BY <2>1, <3>1 DEF UserRecords
    <3>3. /\ idp[row[u].login] # None
          /\ idp[row[u].login].email = row[u].email \/ row[u].login \in crossed
          /\ idp[row[u].login].owner = u \/ row[u].linked
      BY <2>1, <3>1 DEF LoginMatches
    <3>4. QED
      BY <2>1, <2>3, <3>2, <3>3, CrossedStep
  <2>9. j.pc \in {"lookup", "check"}
    BY <2>2, <2>3
  <2> HIDE DEF Bound, Checked, Alive
  <2>10. Good(k)
    BY <2>6, <2>7, <2>8, <2>9
  <2> HIDE DEF Good
  <2>11. QED
    BY <1>3, <2>4, <2>5, <2>10
<1>8. ASSUME NEW k \in Callers, setup[k] \in SetupRecords, Fail(k)
      PROVE  setup' \in Calls /\ \A x \in Callers : Good(x)
  <2> HIDE DEF Good
  <2>1. QED
    BY <1>4, <1>8, FailRows
<1>9. ASSUME NEW k \in Callers, Lookup(k)
      PROVE  setup' \in Calls /\ \A x \in Callers : Good(x)
  <2>1. setup[k] \in SetupRecords
    BY <1>9, SetupTypes DEF Lookup
  <2>2. CASE Step(k, "post")
    <3>1. PICK j : j = [setup[k] EXCEPT !.pc = "post", !.login = setup[k].login]
      OBVIOUS
    <3>2. setup' = [setup EXCEPT ![k] = j]
      BY <2>1, <2>2, <3>1 DEF Step, TypeOK, SetupRecords
    <3>3. setup[k].login \in Logins \cup {Pending}
      BY <2>1 DEF SetupRecords
    <3>4. PICK pc : pc = "post"
      OBVIOUS
    <3> HIDE DEF Good, Checked, Alive
    <3>5. QED
      BY <1>6, <2>1, <3>1, <3>2, <3>3, <3>4
  <2>3. ASSUME NEW l \in Named(setup[k].email), idp[l].owner = setup[k].user,
               setup' = [setup EXCEPT ![k].pc = "check", ![k].login = l], row' = row
        PROVE  setup' \in Calls /\ \A x \in Callers : Good(x)
    <3>1. PICK pc : pc = "check"
      OBVIOUS
    <3>2. PICK j : j = [setup[k] EXCEPT !.pc = pc, !.login = l]
      OBVIOUS
    <3>3. setup' = [setup EXCEPT ![k] = j]
      BY <2>3, <3>1, <3>2
    <3>4. l \in Logins /\ idp[l] # None /\ idp[l].email = setup[k].email
      BY <2>3 DEF Named, Lives
    <3>5. j.login = l /\ j.email = setup[k].email /\ j.user = setup[k].user
      BY <2>1, <3>2 DEF SetupRecords
    <3>6. idp' = idp
      BY <1>9 DEF Lookup
    <3>7. Checked(j)
      BY <2>3, <3>4, <3>5, <3>6
    <3> HIDE DEF Good, Checked, Alive
    <3>8. QED
      BY <1>6, <2>1, <3>1, <3>2, <3>3, <3>4, <3>7
  <2> HIDE DEF Good, Checked, Alive
  <2>4. QED
    BY <1>8, <1>9, <2>1, <2>2, <2>3 DEF Lookup
<1>10. ASSUME NEW k \in Callers, Post(k)
       PROVE  setup' \in Calls /\ \A x \in Callers : Good(x)
  <2>1. setup[k] \in SetupRecords
    BY <1>10, PostFacts
  <2>2. ASSUME NEW l \in Logins, idp'[l] \in LoginRecords,
               idp'[l].email = setup[k].email, idp'[l].owner = setup[k].user,
               setup' = [setup EXCEPT ![k].pc = "check", ![k].login = l]
        PROVE  setup' \in Calls /\ \A x \in Callers : Good(x)
    <3>1. PICK pc : pc = "check"
      OBVIOUS
    <3>2. PICK j : j = [setup[k] EXCEPT !.pc = pc, !.login = l]
      OBVIOUS
    <3>3. setup' = [setup EXCEPT ![k] = j]
      BY <2>2, <3>1, <3>2
    <3>4. j.login = l /\ j.email = setup[k].email /\ j.user = setup[k].user
      BY <2>1, <3>2 DEF SetupRecords
    <3>5. Checked(j)
      BY <2>2, <3>4
    <3> HIDE DEF Good, Checked, Alive
    <3>6. QED
      BY <1>6, <2>1, <3>1, <3>2, <3>3, <3>5
  <2> HIDE DEF Good, Checked, Alive
  <2>3. QED
    BY <1>8, <1>10, <2>1, <2>2, PostFacts
<1>11. ASSUME NEW k \in Callers, Check(k)
       PROVE  setup' \in Calls /\ \A x \in Callers : Good(x)
  <2>1. setup[k] \in SetupRecords /\ setup[k].pc = "check"
    BY <1>11, SetupTypes DEF Check
  <2>2. CASE Lives(setup[k].login) /\ Step(k, "save")
    <3>1. PICK pc : pc = "save"
      OBVIOUS
    <3>2. PICK j : j = [setup[k] EXCEPT !.pc = pc, !.login = setup[k].login]
      OBVIOUS
    <3>3. setup' = [setup EXCEPT ![k] = j]
      BY <2>1, <2>2, <3>1, <3>2 DEF Step, TypeOK, SetupRecords
    <3>4. setup[k].login \in Logins \cup {Pending}
      BY <2>1 DEF SetupRecords
    <3>5. /\ j.login = setup[k].login /\ j.email = setup[k].email
          /\ j.user = setup[k].user /\ j.version = setup[k].version
      BY <2>1, <3>2 DEF SetupRecords
    <3>6. Checked(setup[k])
      BY <1>1, <2>1
    <3>7. Checked(j)
      BY <3>5, <3>6
    <3>8. idp' = idp
      BY <1>11 DEF Check
    <3>9. Alive(j)
      BY <2>2, <3>5, <3>8 DEF Lives
    <3> HIDE DEF Good, Checked, Alive
    <3>10. QED
      BY <1>6, <2>1, <3>1, <3>2, <3>3, <3>4, <3>7, <3>9
  <2> HIDE DEF Good, Checked, Alive
  <2>3. QED
    BY <1>8, <1>11, <2>1, <2>2 DEF Check
<1>12. ASSUME NEW k \in Callers, SaveLogin(k) \/ CrashSetup(k)
       PROVE  setup' \in Calls /\ \A x \in Callers : Good(x)
  <2>1. setup' = [setup EXCEPT ![k] = Idle]
    BY <1>12 DEF SaveLogin, CrashSetup, End
  <2> HIDE DEF Good
  <2>2. QED
    BY <1>4, <2>1
<1>13. ASSUME NEW k \in Callers, Fails(k)
       PROVE  setup' \in Calls /\ \A x \in Callers : Good(x)
  <2>1. setup[k] \in SetupRecords /\ Fail(k)
    BY <1>13, SetupTypes DEF Fails
  <2> HIDE DEF Good
  <2>2. QED
    BY <1>8, <2>1
<1>14. setup' \in Calls /\ \A k \in Callers : Good(k)
  <2> HIDE DEF Good, Calls
  <2>1. QED
    BY <1>5, <1>7, <1>9, <1>10, <1>11, <1>12, <1>13, Frames
<1>15. row' \in [Users -> UserRecords \cup {None, Removed}]
  BY RowStep
<1>16. ASSUME NEW k \in Callers
       PROVE  CallInv(k)'
  <2>1. Good(k)
    BY <1>14
  <2>2. setup'[k].pc # "idle" => setup'[k].user \in Users
    BY <1>14 DEF Idle, SetupRecords
  <2>3. \A u \in Users : row'[u] \in UserRecords <=> row'[u] \notin {None, Removed}
    BY <1>15
  <2>4. QED
    BY <2>1, <2>2, <2>3 DEF CallInv, Unchanged, Exists, Lives
<1>17. QED
  BY <1>14, <1>16 DEF SetupInv

-----------------------------------------------------------------------------
(* The version of the access of a user, and the sessions that remember it. *)

LEMMA AuthStep ==
  ASSUME TypeOK, CompanyInv, SetupInv, RemovalInv, AuthInv, [Next]_vars
  PROVE  changes' \in [Users -> Nat] /\ AuthInv'
<1> USE AccessAssumption
<1> DEFINE Counted(u) == /\ row'[u] = None => changes'[u] = 0
                         /\ row'[u] \in UserRecords => row'[u].auth = changes'[u] + 1
           Done == changes' \in [Users -> Nat] /\ \A u \in Users : Counted(u)
<1>1. ASSUME NEW u \in Users
      PROVE  /\ row[u] = None => changes[u] = 0
             /\ row[u] \in UserRecords => row[u].auth = changes[u] + 1
             /\ changes[u] \in Nat
  BY <1>1, RowTypes DEF AuthInv, TypeOK
<1>2. ASSUME NEW x \in Users, Only(x), Counted(x), changes' \in [Users -> Nat],
             \A u \in Users : u # x => changes'[u] = changes[u]
      PROVE  Done
  <2>1. ASSUME NEW u \in Users, u # x
        PROVE  Counted(u)
    BY <1>1, <1>2, <2>1 DEF Only
  <2> HIDE DEF Counted
  <2>2. QED
    BY <1>2, <2>1
<1>3. ASSUME changes' = changes, \A u \in Users :
               /\ row'[u] = None => row[u] = None
               /\ row'[u] \in UserRecords => /\ row[u] \in UserRecords
                                             /\ row'[u].auth = row[u].auth
      PROVE  Done
  <2>1. ASSUME NEW u \in Users
        PROVE  Counted(u)
    BY <1>1, <1>3
  <2> HIDE DEF Counted
  <2>2. QED
    BY <1>3, <2>1 DEF TypeOK
<1>4. ASSUME changes' = changes, row' = row
      PROVE  Done
  BY <1>3, <1>4
<1>5. ASSUME NEW x \in Users, row[x] \in UserRecords, NEW r \in UserRecords,
             r.auth = row[x].auth + 1, row' = [row EXCEPT ![x] = r],
             changes' = [changes EXCEPT ![x] = @ + 1]
      PROVE  Done
  <2>1. /\ row'[x] = r /\ Only(x) /\ changes'[x] = changes[x] + 1
        /\ changes' \in [Users -> Nat] /\ \A u \in Users : u # x => changes'[u] = changes[u]
    BY <1>5 DEF TypeOK, Only
  <2>2. Counted(x)
    BY <1>1, <1>5, <2>1
  <2> HIDE DEF Counted
  <2>3. QED
    BY <1>2, <2>1, <2>2
<1>6. ASSUME NEW u \in Users, AssignPlants(u)
      PROVE  Done
  <2>1. row[u] \in UserRecords /\ changes' = changes
    BY <1>6, RowTypes DEF AssignPlants
  <2>2. PICK r : r = [row[u] EXCEPT !.version = @ + 1]
    OBVIOUS
  <2>3. row' = [row EXCEPT ![u] = r] /\ r \in UserRecords /\ r.auth = row[u].auth
    BY <1>6, <2>1, <2>2 DEF AssignPlants, UserRecords
  <2>4. row'[u] = r /\ Only(u)
    BY <2>3 DEF TypeOK, Only
  <2>5. QED
    BY <1>3, <2>1, <2>3, <2>4 DEF Only
<1>7. ASSUME NEW u \in Users, ResetPassword(u)
      PROVE  Done
  <2>1. row[u] \in UserRecords
    BY <1>7, RowTypes DEF ResetPassword
  <2>2. PICK r : r = [row[u] EXCEPT !.auth = @ + 1]
    OBVIOUS
  <2>3. r \in UserRecords /\ r.auth = row[u].auth + 1
    BY <2>1, <2>2 DEF UserRecords
  <2>4. row' = [row EXCEPT ![u] = r] /\ changes' = [changes EXCEPT ![u] = @ + 1]
    BY <1>7, <2>2 DEF ResetPassword
  <2>5. QED
    BY <1>5, <2>1, <2>3, <2>4
<1>8. ASSUME NEW c \in Companies, WriteUpdate(c)
      PROVE  Done
  <2> DEFINE u == holder[c].user
  <2>1. /\ u \in Users /\ row[u] \in UserRecords /\ Only(u) /\ row'[u] \in UserRecords
        /\ \/ row'[u].auth = row[u].auth /\ changes'[u] = changes[u]
           \/ row'[u].auth = row[u].auth + 1 /\ changes'[u] = changes[u] + 1
        /\ \A x \in Users : x # u => changes'[x] = changes[x]
        /\ changes' \in [Users -> Nat]
    BY <1>8, UpdateRow
  <2>2. Counted(u)
    BY <1>1, <2>1
  <2> HIDE DEF Counted
  <2>3. QED
    BY <1>2, <2>1, <2>2
<1>9. ASSUME NEW u \in Users, NEW e \in Emails, CorrectAdminEmail(u, e)
      PROVE  Done
  <2>1. /\ row[u] \in UserRecords /\ Only(u) /\ row'[u] \in UserRecords
        /\ row'[u].auth = row[u].auth + 1 /\ changes'[u] = changes[u] + 1
        /\ \A x \in Users : x # u => changes'[x] = changes[x]
        /\ changes' \in [Users -> Nat]
    BY <1>9, CorrectRow
  <2>2. Counted(u)
    BY <1>1, <2>1
  <2> HIDE DEF Counted
  <2>3. QED
    BY <1>2, <2>1, <2>2
<1>10. ASSUME NEW c \in Companies, SwitchStatus(c)
       PROVE  Done
  <2>1. ASSUME NEW u \in Users
        PROVE  Counted(u) /\ changes'[u] \in Nat
    <3>1. CASE u \in Members(c)
      <4>1. row[u] \in UserRecords
        BY <3>1, RowTypes, MemberFacts
      <4>2. PICK r : r = [row[u] EXCEPT !.auth = @ + 1]
        OBVIOUS
      <4>3. row'[u] = r /\ changes'[u] = changes[u] + 1
        BY <1>10, <3>1, <4>2 DEF SwitchStatus
      <4>4. r \in UserRecords /\ r.auth = row[u].auth + 1
        BY <4>1, <4>2 DEF UserRecords
      <4>5. QED
        BY <1>1, <4>1, <4>3, <4>4
    <3>2. CASE u \notin Members(c)
      <4>1. row'[u] = row[u] /\ changes'[u] = changes[u]
        BY <1>10, <3>2 DEF SwitchStatus
      <4>2. QED
        BY <1>1, <4>1
    <3>3. QED
      BY <3>1, <3>2
  <2>2. changes' = [u \in Users |-> changes'[u]]
    BY <1>10 DEF SwitchStatus
  <2> HIDE DEF Counted
  <2>3. QED
    BY <2>1, <2>2
<1>11. ASSUME NEW s \in Sessions, NEW l \in Logins, SignIn(s, l)
       PROVE  Done
  <2>1. ASSUME NEW u \in Users
        PROVE  /\ row'[u] = None => row[u] = None
               /\ row'[u] \in UserRecords => row[u] \in UserRecords /\ row'[u].auth = row[u].auth
    <3>1. CASE u \in Memberships(l)
      <4>1. row[u] \in UserRecords
        BY <3>1, RowTypes, MemberFacts DEF Memberships, PointingAt
      <4>2. row'[u] = [row[u] EXCEPT !.seen = TRUE]
        BY <1>11, <3>1 DEF SignIn
      <4>3. row'[u].auth = row[u].auth
        BY <4>1, <4>2 DEF UserRecords
      <4>4. row'[u] # None
        BY <1>11, <4>1, CalmStep DEF Calm, CalmRows, Same
      <4>5. QED
        BY <4>1, <4>3, <4>4
    <3>2. CASE u \notin Memberships(l)
      BY <1>11, <3>2 DEF SignIn
    <3>3. QED
      BY <3>1, <3>2
  <2>2. changes' = changes
    BY <1>11 DEF SignIn
  <2>3. QED
    BY <1>3, <2>1, <2>2
<1>12. ASSUME NEW k \in Callers, Lookup(k) \/ Post(k) \/ Check(k) \/ Fails(k)
       PROVE  Done
  <2>1. setup[k] \in SetupRecords /\ changes' = changes
    BY <1>12, SetupTypes DEF Lookup, Post, Check, Fails
  <2>2. CASE row' = row
    BY <1>4, <2>1, <2>2
  <2>3. CASE Fail(k)
    <3>1. /\ CalmRows /\ \A u \in Users : Exists(u) => row'[u].auth = row[u].auth
          /\ \A u \in Users : row'[u] \in UserRecords <=> row[u] \in UserRecords
      BY <2>1, <2>3, FailRows
    <3>2. ASSUME NEW u \in Users
          PROVE  /\ row'[u] = None => row[u] = None
                 /\ row'[u] \in UserRecords => row[u] \in UserRecords /\ row'[u].auth = row[u].auth
      BY <3>1, RowTypes DEF CalmRows, Same
    <3>3. QED
      BY <1>3, <2>1, <3>2
  <2>4. QED
    BY <1>12, <2>2, <2>3 DEF Lookup, Post, Check, Fails
<1>13. ASSUME NEW k \in Callers, SaveLogin(k)
       PROVE  Done
  <2>1. changes' = changes
    BY <1>13 DEF SaveLogin
  <2>2. CASE ~ Unchanged(k)
    BY <1>4, <1>13, <2>1, <2>2 DEF SaveLogin
  <2>3. CASE Unchanged(k)
    <3> DEFINE u == setup[k].user
    <3>1. /\ u \in Users /\ row[u] \in UserRecords /\ Only(u) /\ row'[u] \in UserRecords
          /\ row'[u].auth = row[u].auth
      BY <1>13, <2>3, SaveRow
    <3>2. Counted(u)
      BY <1>1, <2>1, <3>1
    <3> HIDE DEF Counted
    <3>3. QED
      BY <1>2, <2>1, <3>1, <3>2 DEF TypeOK
  <2>4. QED
    BY <2>2, <2>3
<1>14. ASSUME NEW c \in Companies, CommitRemoval(c)
       PROVE  Done
  <2>1. /\ holder[c].user \in Users /\ Only(holder[c].user)
        /\ row'[holder[c].user] = Removed
    BY <1>14, RemoveRow
  <2>2. changes' = changes
    BY <1>14 DEF CommitRemoval
  <2>3. Counted(holder[c].user)
    BY <2>1
  <2> HIDE DEF Counted
  <2>4. QED
    BY <1>2, <2>1, <2>2, <2>3 DEF TypeOK
<1>15. ASSUME NEW x, NEW e, NEW admin, NEW l, Inserts(x, e, admin, l)
       PROVE  Done
  <2>1. x \in Users /\ Only(x) /\ row'[x] \in UserRecords /\ row'[x].auth = 1
    BY <1>15, InsertRow DEF Inserts
  <2>2. changes' = changes /\ row[x] = None
    BY <1>15 DEF Inserts
  <2>3. Counted(x)
    BY <1>1, <2>1, <2>2
  <2> HIDE DEF Counted
  <2>4. QED
    BY <1>2, <2>1, <2>2, <2>3 DEF TypeOK
<1>16. ASSUME NEW u \in Users,
              CheckRemoval(u) \/ \E e \in Emails, admin, b \in BOOLEAN : CheckUpdate(u, e, admin, b)
       PROVE  row' = row /\ changes' = changes
  BY <1>16 DEF CheckRemoval, CheckUpdate
<1>17. ASSUME NEW c \in Companies, FindLogin(c) \/ DeleteLogin(c) \/ Abort(c)
       PROVE  row' = row /\ changes' = changes
  BY <1>17 DEF FindLogin, DeleteLogin, Abort
<1>18. ASSUME NEW k \in Callers, CrashSetup(k) \/ \E u \in Users : StartSetup(k, u)
       PROVE  row' = row /\ changes' = changes
  BY <1>18 DEF CrashSetup, StartSetup
<1>19. ASSUME UNCHANGED vars
       PROVE  Done
  BY <1>4, <1>19 DEF vars
<1>20. Done
  <2> HIDE DEF Done
  <2>1. ASSUME Calm
        PROVE  Done
    BY <2>1, <1>4, <1>6, <1>7, <1>10, <1>11, <1>12, <1>16, <1>17, <1>18, <1>19 DEF Calm, vars
  <2>2. QED
    BY <2>1, <1>8, <1>9, <1>13, <1>14, <1>15, StepCases
<1>21. row' \in [Users -> UserRecords \cup {None, Removed}]
  BY RowStep
<1>22. QED
  BY <1>20, <1>21 DEF AuthInv, Exists

LEMMA SessionStep ==
  ASSUME TypeOK, AuthInv, SessionInv, [Next]_vars
  PROVE  session' \in [Sessions -> SessionRecords \cup {None}] /\ SessionInv'
<1>1. CASE UNCHANGED session
  BY <1>1 DEF TypeOK, SessionInv
<1>2. ASSUME NEW s \in Sessions, NEW l \in Logins, SignIn(s, l)
      PROVE  session' \in [Sessions -> SessionRecords \cup {None}] /\ SessionInv'
  <2>1. PICK auth : auth = [u \in Users |-> IF u \in Memberships(l) THEN row[u].auth ELSE 0]
    OBVIOUS
  <2>2. ASSUME NEW u \in Users
        PROVE  auth[u] \in Nat /\ (auth[u] # 0 => auth[u] = changes[u] + 1)
    <3>1. CASE u \in Memberships(l)
      <4>1. Exists(u) /\ row[u] \in UserRecords
        BY <3>1, RowTypes, MemberFacts DEF Memberships, PointingAt
      <4>2. QED
        BY <2>1, <3>1, <4>1 DEF AuthInv, UserRecords
    <3>2. CASE u \notin Memberships(l)
      BY <2>1, <3>2
    <3>3. QED
      BY <3>1, <3>2
  <2>3. auth \in [Users -> Nat]
    BY <2>1, <2>2
  <2>4. PICK r : r = [login |-> l, members |-> Memberships(l), auth |-> auth,
                      changes |-> changes]
    OBVIOUS
  <2>5. r \in SessionRecords
    BY <2>3, <2>4 DEF SessionRecords, Memberships, PointingAt, Present, TypeOK
  <2>6. session' = [session EXCEPT ![s] = r]
    BY <1>2, <2>1, <2>4 DEF SignIn
  <2>7. /\ session'[s] = r /\ (\A x \in Sessions : x # s => session'[x] = session[x])
        /\ session' \in [Sessions -> SessionRecords \cup {None}]
    BY <2>5, <2>6 DEF TypeOK
  <2>8. \A u \in Users : r.auth[u] # 0 => r.auth[u] = r.changes[u] + 1
    BY <2>2, <2>4
  <2>9. QED
    BY <2>7, <2>8 DEF SessionInv
<1>3. QED
  BY <1>1, <1>2, Frames

-----------------------------------------------------------------------------
(* The invariant.                                                          *)

LEMMA InitInv ==
  ASSUME Init
  PROVE  IInv
<1> USE AccessAssumption
<1> DEFINE u == FirstAdmin[Founder]
           l == CHOOSE x \in Logins : TRUE
<1>1. l \in Logins /\ u \in Users /\ CompanyOf[u] = Founder /\ Founder \in Companies
  OBVIOUS
<1>2. PICK r : r = [email |-> FirstEmail, login |-> l, linked |-> FALSE, admin |-> TRUE,
                    active |-> TRUE, seen |-> TRUE, sync |-> "ready", version |-> 1, auth |-> 1]
  OBVIOUS
<1>3. PICK p : p = [email |-> FirstEmail, owner |-> u, enabled |-> TRUE, used |-> TRUE,
                    gone |-> FALSE]
  OBVIOUS
<1>4. TRUE \in BOOLEAN /\ FALSE \in BOOLEAN /\ "ready" \in {"pending", "ready", "failed"}
  OBVIOUS
<1>5. r \in UserRecords /\ p \in LoginRecords
  BY <1>1, <1>2, <1>3, <1>4 DEF UserRecords, LoginRecords
<1>6. /\ row = [x \in Users |-> IF x = u THEN r ELSE None]
      /\ idp = [x \in Logins |-> IF x = l THEN p ELSE None]
  BY <1>2, <1>3 DEF Init
<1>7. /\ company = [c \in Companies |-> IF c = Founder THEN "active" ELSE "none"]
      /\ setup = [k \in Callers |-> Idle] /\ holder = [c \in Companies |-> Idle]
      /\ session = [s \in Sessions |-> None] /\ changes = [x \in Users |-> 0]
      /\ cut = {} /\ crossed = {} /\ requests = 0
  BY DEF Init
<1> HIDE DEF u, l
<1>8. /\ row[u] = r /\ \A x \in Users : x # u => row[x] = None
      /\ idp[l] = p /\ \A x \in Logins : x # l => idp[x] = None
  BY <1>1, <1>6
<1>9. TypeOK
  BY <1>1, <1>5, <1>6, <1>7 DEF TypeOK, Holders
<1>10. Present = {u}
  BY <1>1, <1>5, <1>8 DEF Present, Exists
<1>11. /\ r.login = l /\ r.email = FirstEmail /\ r.admin /\ r.active /\ r.auth = 1
       /\ p.email = FirstEmail /\ p.owner = u /\ ~ p.gone
  BY <1>2, <1>3
<1>12. CompanyInv
  BY <1>1, <1>7, <1>8 DEF CompanyInv
<1>13. AlwaysAdmin
  BY <1>1, <1>7, <1>8, <1>10, <1>11 DEF AlwaysAdmin, Members
<1>14. RemovalInv /\ SetupInv
  BY <1>7 DEF RemovalInv, SetupInv, CallInv, Idle
<1>15. AuthInv /\ SessionInv
  BY <1>1, <1>5, <1>7, <1>8, <1>11 DEF AuthInv, SessionInv, Exists
<1>16. LoginMatches
  BY <1>1, <1>5, <1>8, <1>10, <1>11 DEF LoginMatches
<1>17. KeptInv
  BY <1>1, <1>5, <1>8, <1>10, <1>11 DEF KeptInv, Lives
<1>18. QED
  BY <1>9, <1>12, <1>13, <1>14, <1>15, <1>16, <1>17 DEF IInv

LEMMA NextInv ==
  ASSUME IInv, [Next]_vars
  PROVE  IInv'
<1> USE DEF IInv
<1>1. row' \in [Users -> UserRecords \cup {None, Removed}]
  BY RowStep
<1>2. company' \in [Companies -> {"none", "active", "inactive"}]
  BY CompanyStep
<1>3. idp' \in [Logins -> LoginRecords \cup {None}]
  BY IdpStep
<1>4. setup' \in [Callers -> SetupRecords \cup {Idle}] /\ SetupInv'
  BY SetupStep
<1>5. /\ holder' \in [Companies -> Holders]
      /\ RemovalInv'
  BY RemovalStep
<1>6. session' \in [Sessions -> SessionRecords \cup {None}] /\ SessionInv'
  BY SessionStep
<1>7. changes' \in [Users -> Nat] /\ AuthInv'
  BY AuthStep
<1>8. cut' \subseteq Logins /\ crossed' \subseteq Logins
  BY LiveStep, CrossedStep
<1>9. requests' \in Nat
  BY Frames DEF Request, TypeOK
<1>10. TypeOK'
  BY <1>1, <1>2, <1>3, <1>4, <1>5, <1>6, <1>7, <1>8, <1>9 DEF TypeOK
<1>11. CompanyInv' /\ AlwaysAdmin'
  BY CompanyInvStep, AdminStep
<1>12. LoginMatches' /\ KeptInv'
  BY MatchesStep, KeptStep
<1>13. QED
  BY <1>4, <1>5, <1>6, <1>7, <1>10, <1>11, <1>12

\* The state of users, logins, setups, removals and sessions in every reachable
\* state, for any number of them.
THEOREM Invariance == Spec => []IInv
<1>1. Init => IInv
  BY InitInv
<1>2. IInv /\ [Next]_vars => IInv'
  BY NextInv
<1>3. QED
  BY <1>1, <1>2, PTL DEF Spec

\* A company never is without an active Main Admin, also while one of them is
\* being removed (protectAdmin under the lock of the company).
THEOREM CompanyHasAdmin == Spec => []AlwaysAdmin
<1>1. IInv => AlwaysAdmin
  BY DEF IInv
<1>2. QED
  BY <1>1, Invariance, PTL

\* A setup that raced with an edit does not attach the login of the old email:
\* every user's login was made for the user, or the platform attached the user
\* to it, and it has the user's email (provision saves under the version it
\* read), unless an edit that had read no login was written after it.
THEOREM LoginIsOfUser == Spec => []LoginMatches
<1>1. IInv => LoginMatches
  BY DEF IInv
<1>2. QED
  BY <1>1, Invariance, PTL

\* No login is deleted under a user who is not removed, but in the races the
\* model keeps in cut (removeUser counts the users of a login before deleting it).
THEOREM NoLoginLost == Spec => []LoginKept
<1>1. IInv => LoginKept
  <2>1. SUFFICES ASSUME IInv
                 PROVE  LoginKept
    OBVIOUS
  <2>2. KeptInv
    BY <2>1 DEF IInv
  <2>3. QED
    BY <2>2 DEF KeptInv, LoginKept
<1>2. QED
  BY <1>1, Invariance, PTL

\* A session is accepted only as long as the role, the status and the password
\* of its user and the status of the company are those of the sign-in.
THEOREM SessionIsCurrent == Spec => []SessionAsGranted
<1>1. IInv => SessionAsGranted
  <2>1. SUFFICES ASSUME IInv, NEW s \in Sessions, NEW u \in Users, Accepts(s, u)
                 PROVE  changes[u] = session[s].changes[u]
    BY DEF SessionAsGranted
  <2>2. Exists(u) /\ session[s] # None /\ session[s].auth[u] = row[u].auth
    BY <2>1, MemberFacts DEF Accepts, Memberships, PointingAt
  <2>3. row[u].auth = changes[u] + 1 /\ changes[u] \in Nat
    BY <2>1, <2>2 DEF IInv, AuthInv, TypeOK
  <2>4. session[s].auth[u] = session[s].changes[u] + 1
    BY <2>1, <2>2, <2>3 DEF IInv, SessionInv
  <2>5. session[s].changes[u] \in Nat
    BY <2>1, <2>2 DEF IInv, TypeOK, SessionRecords
  <2>6. QED
    BY <2>2, <2>3, <2>4, <2>5
<1>2. QED
  BY <1>1, Invariance, PTL

=============================================================================
