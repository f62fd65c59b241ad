--------------------------- MODULE AccountsProofs ---------------------------
(* Theorems about Accounts, for every value of its constants. *)
EXTENDS Accounts, TLAPS

\* The rows of the seven tables, of whatever type the requests in flight are.
TablesType ==
    /\ users \subseteq User
    /\ orgs \subseteq Org
    /\ members \in [User \X Org -> Role \cup {"none"}]
    /\ teams \subseteq orgs \X Team
    /\ teamMembers \subseteq users \X teams
    /\ projects \in [Project -> orgs \cup {None, Deleted}]
    /\ keys \subseteq orgs
    /\ tokens \subseteq Token
    /\ \A u \in User, o \in Org : members[<<u, o>>] # "none" => u \in users /\ o \in orgs

\* What a handler has found out before it goes on is still true of the tables U, O, T, M, P.
Fits(r, U, O, T, M, P) ==
    /\ r \in Request
    /\ r.token # None => M[<<r.token.user, r.token.org>>] = r.token.role
    /\ r.op = "register" => r.user \in User /\ r.org \in Org /\ r.role = "org_admin"
    /\ r.at = "insert_org" => r.user \in U /\ r.org \in Org
    /\ r.at = "insert_member" => r.user \in U /\ r.org \in O
    /\ r.op = "add_member" => r.token # None /\ r.org = r.token.org
    /\ r.at \in {"insert_key", "insert_team", "insert_project"} => r.org \in O
    /\ r.at = "insert_team" => r.team \in Team
    /\ r.at = "insert_team_member" => <<r.org, r.team>> \in T
    /\ r.at \in {"find_project", "serve", "delete_project"} =>
          /\ r.project \in Project /\ r.token # None /\ r.org \in Org
          /\ M[<<r.token.user, r.org>>] # "none"
    /\ r.at \in {"serve", "delete_project"} => P[r.project] \in {r.org, Deleted}

FitsNow(r) == Fits(r, users, orgs, teams, members, projects)
FitsNext(r) == Fits(r, users', orgs', teams', members', projects')

AccountsInv ==
    /\ TablesType
    /\ DOMAIN req = Client /\ req = [c \in Client |-> req[c]]
    /\ \A c \in Client : FitsNow(req[c])
    /\ \A t \in tokens : Backed(t)
    /\ OneFounder

\* No step removes a row of these tables or changes a role; a project is only deleted.
Grows ==
    /\ users \subseteq users' /\ orgs \subseteq orgs' /\ teams \subseteq teams'
    /\ \A m \in User \X Org : members[m] # "none" => members'[m] = members[m]
    /\ \A p \in Project : projects[p] # None => projects'[p] \in {projects[p], Deleted}

\* What fits goes on fitting.
LEMMA FitsGrows ==
    ASSUME NEW r, TablesType, Grows, FitsNow(r)
    PROVE  FitsNext(r)
  <1>1. r \in Request
    BY DEF FitsNow, Fits
  <1>2. r.token # None => r.token \in Token
    BY <1>1 DEF Request
  <1>3. r.token # None => members'[<<r.token.user, r.token.org>>] = r.token.role
    BY <1>2 DEF FitsNow, Fits, Grows, Token, Role
  <1>4. r.at \in {"find_project", "serve", "delete_project"} =>
           members'[<<r.token.user, r.org>>] # "none"
    BY <1>2 DEF FitsNow, Fits, Grows, Token
  <1>5. r.at \in {"serve", "delete_project"} => projects'[r.project] \in {r.org, Deleted}
    BY AccountsAssumption DEF FitsNow, Fits, Grows
  <1> QED
    BY <1>1, <1>3, <1>4, <1>5 DEF FitsNow, FitsNext, Fits, Grows

\* A step of one request that lets the tables grow, with what is new in it.
LEMMA StepKeeps ==
    ASSUME AccountsInv, NEW c \in Client, NEW r, req' = [req EXCEPT ![c] = r], FitsNext(r),
           TablesType', Grows, \A t \in tokens' : t \in tokens \/ Backed(t)', OneFounder'
    PROVE  AccountsInv'
  <1>1. DOMAIN req' = Client /\ req' = [d \in Client |-> req'[d]]
    BY DEF AccountsInv
  <1>2. ASSUME NEW d \in Client PROVE FitsNow(req[d])'
    <2>1. req'[d] = r \/ req'[d] = req[d]
      BY DEF AccountsInv
    <2>2. FitsNow(req[d])
      BY DEF AccountsInv
    <2>3. FitsNext(req[d])
      BY <2>2, FitsGrows DEF AccountsInv
    <2>4. FitsNext(req'[d])
      BY <2>1, <2>3
    <2> QED
      BY <2>4 DEF FitsNow, FitsNext
  <1>3. ASSUME NEW t \in tokens' PROVE Backed(t)'
    <2>1. CASE t \in tokens
      BY <2>1 DEF AccountsInv, TablesType, Backed, Grows, Token, Role
    <2> QED
      BY <2>1
  <1> QED
    BY <1>1, <1>2, <1>3 DEF AccountsInv

\* While no membership is inserted, founders stay alone if a request that comes to that point
\* is no founder of what others found or, as a founder, meets nobody.
LEMMA FoundersStep ==
    ASSUME AccountsInv, NEW c \in Client, NEW r, req' = [req EXCEPT ![c] = r],
           orgs \subseteq orgs', UNCHANGED members,
           r.at = "insert_member" =>
               /\ r.org \in orgs'
               /\ \A d \in Client : Founding(d) => req[d].org # r.org,
           r.at = "insert_member" /\ r.op # "add_member" =>
               /\ \A u \in User : members[<<u, r.org>>] = "none"
               /\ \A d \in Client : req[d].at = "insert_member" => req[d].org # r.org
    PROVE  OneFounder'
  <1>1. /\ \A d \in Client : d # c => req'[d] = req[d]
        /\ req'[c] = r
    BY DEF AccountsInv
  <1> SUFFICES ASSUME NEW d \in Client, Founding(d)'
               PROVE  /\ req'[d].org \in orgs'
                      /\ \A u \in User : members[<<u, req'[d].org>>] = "none"
                      /\ \A e \in Client \ {d} :
                            req'[e].at = "insert_member" => req'[e].org # req'[d].org
    BY DEF OneFounder
  <1>2. CASE d = c
    BY <1>1, <1>2 DEF Founding
  <1>3. CASE d # c
    <2>1. req'[d] = req[d] /\ Founding(d)
      BY <1>1, <1>3 DEF Founding
    <2>2. /\ req[d].org \in orgs
          /\ \A u \in User : members[<<u, req[d].org>>] = "none"
          /\ \A e \in Client \ {d} : req[e].at = "insert_member" => req[e].org # req[d].org
      BY <2>1 DEF AccountsInv, OneFounder
    <2>3. ASSUME NEW e \in Client \ {d}, req'[e].at = "insert_member"
          PROVE  req'[e].org # req'[d].org
      BY <1>1, <2>1, <2>2, <2>3
    <2> QED
      BY <2>1, <2>2, <2>3
  <1> QED
    BY <1>2, <1>3

\* A step that leaves the tables alone.
LEMMA QuietStep ==
    ASSUME AccountsInv, NEW c \in Client, NEW r, req' = [req EXCEPT ![c] = r], FitsNow(r),
           r.at # "insert_member", UNCHANGED tables, tokens' \subseteq tokens
    PROVE  AccountsInv'
  <1>1. TablesType' /\ Grows
    BY DEF AccountsInv, TablesType, Grows, tables
  <1>2. FitsNext(r)
    BY DEF FitsNow, FitsNext, tables
  <1>3. OneFounder'
    BY FoundersStep DEF tables
  <1> QED
    BY <1>1, <1>2, <1>3, StepKeeps

LEMMA BlankFits == ASSUME NEW U, NEW O, NEW T, NEW M, NEW P PROVE Fits(Blank, U, O, T, M, P)
  BY DEF Fits, Blank, Request, Step, Role

\* A request that is refused, or fails, or is answered without a row.
LEMMA AnswerKeeps ==
    ASSUME AccountsInv, NEW c \in Client, Answered(c), UNCHANGED tables, tokens' \subseteq tokens
    PROVE  AccountsInv'
  <1>1. FitsNow(Blank)
    BY BlankFits DEF FitsNow
  <1>2. Blank.at # "insert_member"
    BY DEF Blank
  <1> QED
    BY <1>1, <1>2, QuietStep DEF Answered

\* The bearer of a token is what the token says.
LEMMA BearerIsMember ==
    ASSUME AccountsInv, NEW t \in tokens
    PROVE  /\ t \in Token /\ t.user \in users /\ t.org \in orgs /\ t # None
           /\ members[<<t.user, t.org>>] = t.role /\ t.role # "none"
  <1>1. t \in Token
    BY DEF AccountsInv, TablesType
  <1>2. members[<<t.user, t.org>>] = t.role
    BY DEF AccountsInv, Backed
  <1>3. t.role # "none" /\ t.user \in User /\ t.org \in Org
    BY <1>1 DEF Token, Role
  <1>4. t.user \in users /\ t.org \in orgs
    BY <1>2, <1>3 DEF AccountsInv, TablesType
  <1> QED
    BY <1>1, <1>2, <1>3, <1>4, AccountsAssumption

\* Every request begins with what fits.
LEMMA AskKeeps ==
    ASSUME AccountsInv, NEW c \in Client, Ask(c)
    PROVE  AccountsInv'
  <1> USE DEF Begin, Bearer, IsMember
  <1>1. ASSUME NEW u \in User, NEW o \in Org, Register(c, u, o) PROVE AccountsInv'
    <2> DEFINE r == [Blank EXCEPT !.op = "register", !.at = "find_user", !.user = u, !.org = o,
                                  !.role = "org_admin"]
    <2>1. FitsNow(r) /\ r.at # "insert_member"
      BY DEF FitsNow, Fits, Blank, Request, Step, Role
    <2> QED
      BY <1>1, <2>1, QuietStep DEF Register
  <1>2. ASSUME NEW u \in User, Login(c, u) PROVE AccountsInv'
    <2> DEFINE r == [Blank EXCEPT !.op = "login", !.at = "find_user", !.user = u]
    <2>1. FitsNow(r) /\ r.at # "insert_member"
      BY DEF FitsNow, Fits, Blank, Request, Step, Role
    <2> QED
      BY <1>2, <2>1, QuietStep DEF Login
  <1>3. ASSUME NEW t \in tokens, NEW o \in Org, CreateOrg(c, t, o) PROVE AccountsInv'
    <2> DEFINE r == [Blank EXCEPT !.op = "create_org", !.at = "insert_org", !.token = t,
                                  !.user = t.user, !.org = o, !.role = "org_admin"]
    <2>1. FitsNow(r) /\ r.at # "insert_member"
      BY BearerIsMember DEF FitsNow, Fits, Blank, Request, Step, Role, Token
    <2> QED
      BY <1>3, <2>1, QuietStep DEF CreateOrg
  <1>4. ASSUME NEW t \in tokens, NEW u \in User, NEW role \in Role, AddMember(c, t, u, role)
        PROVE  AccountsInv'
    <2> DEFINE r == [Blank EXCEPT !.op = "add_member", !.at = "find_user", !.token = t,
                                  !.user = u, !.org = t.org, !.role = role]
    <2>1. FitsNow(r) /\ r.at # "insert_member"
      BY BearerIsMember DEF FitsNow, Fits, Blank, Request, Step, Role, Token
    <2> QED
      BY <1>4, <2>1, QuietStep DEF AddMember
  <1>5. ASSUME NEW t \in tokens, CreateApiKey(c, t) PROVE AccountsInv'
    <2> DEFINE r == [Blank EXCEPT !.op = "create_key", !.at = "insert_key", !.token = t,
                                  !.org = t.org]
    <2>1. FitsNow(r) /\ r.at # "insert_member"
      BY BearerIsMember DEF FitsNow, Fits, Blank, Request, Step, Role, Token
    <2> QED
      BY <1>5, <2>1, QuietStep DEF CreateApiKey
  <1>6. ASSUME NEW t \in tokens, NEW o \in Org, NEW team \in Team, CreateTeam(c, t, o, team)
        PROVE  AccountsInv'
    <2> DEFINE r == [Blank EXCEPT !.op = "create_team", !.at = "insert_team", !.token = t,
                                  !.org = o, !.team = team]
    <2>1. o \in orgs
      BY <1>6, BearerIsMember DEF CreateTeam, AccountsInv, TablesType, Token
    <2>2. FitsNow(r) /\ r.at # "insert_member"
      BY <2>1, BearerIsMember DEF FitsNow, Fits, Blank, Request, Step, Role, Token
    <2> QED
      BY <1>6, <2>2, QuietStep DEF CreateTeam
  <1>7. ASSUME NEW t \in tokens, NEW o \in Org, NEW team \in Team, NEW u \in User,
               AddTeamMember(c, t, o, team, u)
        PROVE  AccountsInv'
    <2> DEFINE r == [Blank EXCEPT !.op = "add_team_member", !.at = "find_team", !.token = t,
                                  !.user = u, !.org = o, !.team = team]
    <2>1. FitsNow(r) /\ r.at # "insert_member"
      BY BearerIsMember DEF FitsNow, Fits, Blank, Request, Step, Role, Token
    <2> QED
      BY <1>7, <2>1, QuietStep DEF AddTeamMember
  <1>8. ASSUME NEW t \in tokens, NEW o \in Org, CreateProject(c, t, o) PROVE AccountsInv'
    <2> DEFINE r == [Blank EXCEPT !.op = "create_project", !.at = "insert_project", !.token = t,
                                  !.org = o]
    <2>1. o \in orgs
      BY <1>8, BearerIsMember DEF CreateProject, AccountsInv, TablesType, Token
    <2>2. FitsNow(r) /\ r.at # "insert_member"
      BY <2>1, BearerIsMember DEF FitsNow, Fits, Blank, Request, Step, Role, Token
    <2> QED
      BY <1>8, <2>2, QuietStep DEF CreateProject
  <1>9. ASSUME NEW t \in tokens, NEW o \in Org, NEW p \in Project, DeleteProject(c, t, o, p)
        PROVE  AccountsInv'
    <2> DEFINE r == [Blank EXCEPT !.op = "delete_project", !.at = "find_project", !.token = t,
                                  !.org = o, !.project = p]
    <2>1. FitsNow(r) /\ r.at # "insert_member"
      BY <1>9, BearerIsMember DEF DeleteProject, FitsNow, Fits, Blank, Request, Step, Role, Token
    <2> QED
      BY <1>9, <2>1, QuietStep DEF DeleteProject
  <1>10. ASSUME NEW t \in tokens, NEW p \in Project, AccessProject(c, t, p) PROVE AccountsInv'
    <2> DEFINE r == [Blank EXCEPT !.op = "ticket", !.at = "serve", !.token = t,
                                  !.org = t.org, !.project = p]
    <2>1. FitsNow(r) /\ r.at # "insert_member"
      BY <1>10, BearerIsMember
      DEF AccessProject, MayAccess, FitsNow, Fits, Blank, Request, Step, Role, Token
    <2> QED
      BY <1>10, <2>1, QuietStep DEF AccessProject
  <1>11. CASE UseApiKey(c)
    BY <1>11, AnswerKeeps DEF UseApiKey, Raise
  <1> QED
    BY <1>1, <1>2, <1>3, <1>4, <1>5, <1>6, <1>7, <1>8, <1>9, <1>10, <1>11 DEF Ask

\* The steps that only read the tables.
LEMMA ReadKeeps ==
    ASSUME AccountsInv, NEW c \in Client,
           \/ FindRegistered(c) \/ VerifyPassword(c) \/ OrgsOfUser(c) \/ FindTeam(c)
           \/ FindProject(c) \/ Serve(c)
    PROVE  AccountsInv'
  <1> USE DEF Raise, Refuse, At
  <1> DEFINE moved(step) == [req[c] EXCEPT !.at = step]
  <1>1. FitsNow(req[c]) /\ req[c] \in Request
    BY DEF AccountsInv, FitsNow, Fits
  <1>2. CASE FindRegistered(c)
    <2>1. CASE Answered(c)
      BY <1>2, <2>1, AnswerKeeps DEF FindRegistered
    <2>2. CASE Go(c, "insert_user")
      <3>1. FitsNow(moved("insert_user")) /\ moved("insert_user").at # "insert_member"
        BY <1>1 DEF FitsNow, Fits, Request, Step
      <3> QED
        BY <1>2, <2>2, <3>1, QuietStep DEF FindRegistered, Go
    <2> QED
      BY <1>2, <2>1, <2>2 DEF FindRegistered
  <1>3. CASE VerifyPassword(c)
    <2>1. CASE Answered(c)
      BY <1>3, <2>1, AnswerKeeps DEF VerifyPassword
    <2>2. CASE Go(c, "orgs_of_user")
      <3>1. FitsNow(moved("orgs_of_user")) /\ moved("orgs_of_user").at # "insert_member"
        BY <1>1 DEF FitsNow, Fits, Request, Step
      <3> QED
        BY <1>3, <2>2, <3>1, QuietStep DEF VerifyPassword, Go
    <2> QED
      BY <1>3, <2>1, <2>2 DEF VerifyPassword
  <1>4. CASE OrgsOfUser(c)
    BY <1>4, AnswerKeeps DEF OrgsOfUser
  <1>5. CASE FindTeam(c)
    <2>1. CASE Answered(c)
      BY <1>5, <2>1, AnswerKeeps DEF FindTeam
    <2>2. CASE <<req[c].org, req[c].team>> \in teams /\ Go(c, "insert_team_member")
      <3>1. /\ FitsNow(moved("insert_team_member"))
            /\ moved("insert_team_member").at # "insert_member"
        BY <1>1, <2>2 DEF FitsNow, Fits, Request, Step
      <3> QED
        BY <1>5, <2>2, <3>1, QuietStep DEF FindTeam, Go
    <2> QED
      BY <1>5, <2>1, <2>2 DEF FindTeam
  <1>6. CASE FindProject(c)
    <2>1. CASE Answered(c)
      BY <1>6, <2>1, AnswerKeeps DEF FindProject
    <2>2. CASE projects[req[c].project] = req[c].org /\ Go(c, "delete_project")
      <3>1. FitsNow(moved("delete_project")) /\ moved("delete_project").at # "insert_member"
        BY <1>1, <1>6, <2>2 DEF FindProject, FitsNow, Fits, Request, Step
      <3> QED
        BY <1>6, <2>2, <3>1, QuietStep DEF FindProject, Go
    <2> QED
      BY <1>6, <2>1, <2>2 DEF FindProject
  <1>7. CASE Serve(c)
    BY <1>7, AnswerKeeps DEF Serve
  <1> QED
    BY <1>2, <1>3, <1>4, <1>5, <1>6, <1>7

\* The inserts after which the request is over, and no membership among them.
LEMMA LastInsertKeeps ==
    ASSUME AccountsInv, NEW c \in Client,
           \/ InsertApiKey(c) \/ InsertTeam(c) \/ InsertTeamMember(c) \/ InsertProject(c)
           \/ DeleteProjectRow(c)
    PROVE  AccountsInv'
  <1> USE DEF Raise, At
  <1>1. FitsNow(req[c]) /\ req[c] \in Request /\ TablesType
    BY DEF AccountsInv, FitsNow, Fits
  <1>2. req' = [req EXCEPT ![c] = Blank]
    BY DEF InsertApiKey, InsertTeam, InsertTeamMember, InsertProject, DeleteProjectRow, Answered
  <1>3. Blank.at # "insert_member" /\ FitsNext(Blank)
    BY BlankFits DEF Blank, FitsNext
  <1>4. TablesType' /\ Grows /\ UNCHANGED <<orgs, members, tokens>>
    <2>1. CASE InsertApiKey(c)
      BY <1>1, <2>1 DEF InsertApiKey, TablesType, Grows, FitsNow, Fits
    <2>2. CASE InsertTeam(c)
      BY <1>1, <2>2 DEF InsertTeam, TablesType, Grows, FitsNow, Fits
    <2>3. CASE InsertTeamMember(c)
      BY <1>1, <2>3 DEF InsertTeamMember, TablesType, Grows, FitsNow, Fits
    <2>4. CASE InsertProject(c)
      BY <1>1, <2>4 DEF InsertProject, TablesType, Grows, FitsNow, Fits
    <2>5. CASE DeleteProjectRow(c)
      BY <1>1, <2>5 DEF DeleteProjectRow, TablesType, Grows, FitsNow, Fits
    <2> QED
      BY <2>1, <2>2, <2>3, <2>4, <2>5
  <1>5. OneFounder'
    BY <1>2, <1>3, <1>4, FoundersStep
  <1> QED
    BY <1>2, <1>3, <1>4, <1>5, StepKeeps

LEMMA InsertUserKeeps ==
    ASSUME AccountsInv, NEW c \in Client, InsertUser(c)
    PROVE  AccountsInv'
  <1> USE DEF Raise, At
  <1>1. FitsNow(req[c]) /\ TablesType
    BY DEF AccountsInv
  <1>2. CASE Answered(c) /\ UNCHANGED users
    BY <1>2, AnswerKeeps DEF InsertUser, tables
  <1>3. CASE users' = users \cup {req[c].user} /\ Go(c, "insert_org")
    <2> DEFINE r == [req[c] EXCEPT !.at = "insert_org"]
    <2>1. TablesType' /\ Grows
      BY <1>1, <1>3 DEF InsertUser, TablesType, Grows, FitsNow, Fits
    <2>2. FitsNext(r) /\ r.at # "insert_member"
      BY <1>1, <1>3 DEF InsertUser, FitsNow, FitsNext, Fits, Request, Step
    <2>3. OneFounder'
      BY <1>3, <2>2, FoundersStep DEF InsertUser, Go
    <2> QED
      BY <1>3, <2>1, <2>2, <2>3, StepKeeps DEF InsertUser, Go
  <1> QED
    BY <1>2, <1>3 DEF InsertUser

\* A new organization has no member yet, and nobody else is about to become one.
LEMMA InsertOrgKeeps ==
    ASSUME AccountsInv, NEW c \in Client, InsertOrg(c)
    PROVE  AccountsInv'
  <1> USE DEF Raise, At
  <1>1. FitsNow(req[c]) /\ TablesType
    BY DEF AccountsInv
  <1>2. CASE Answered(c) /\ UNCHANGED orgs
    BY <1>2, AnswerKeeps DEF InsertOrg, tables
  <1>3. CASE /\ req[c].org \notin orgs
             /\ orgs' = orgs \cup {req[c].org} /\ Go(c, "insert_member")
    <2> DEFINE r == [req[c] EXCEPT !.at = "insert_member"]
    <2>1. req[c] \in Request /\ req[c].user \in users /\ req[c].org \in Org
      BY <1>1 DEF InsertOrg, FitsNow, Fits
    <2>2. TablesType' /\ Grows
      BY <1>1, <1>3, <2>1 DEF InsertOrg, TablesType, Grows
    <2>3. FitsNext(r)
      BY <1>1, <1>3, <2>1 DEF InsertOrg, FitsNow, FitsNext, Fits, Request, Step
    <2>4. \A u \in User : members[<<u, req[c].org>>] = "none"
      BY <1>1, <1>3, <2>1 DEF TablesType
    <2>5. \A d \in Client : req[d].at = "insert_member" => req[d].org # req[c].org
      BY <1>3 DEF AccountsInv, FitsNow, Fits
    <2>6. r.org = req[c].org
      BY <2>1 DEF Request
    <2>7. \A d \in Client : Founding(d) => req[d].org # r.org
      BY <2>5, <2>6 DEF Founding
    <2>8. OneFounder'
      BY <1>3, <2>4, <2>5, <2>6, <2>7, FoundersStep DEF InsertOrg, Go
    <2> QED
      BY <1>3, <2>2, <2>3, <2>8, StepKeeps DEF InsertOrg, Go
  <1> QED
    BY <1>2, <1>3 DEF InsertOrg

\* Whoever invites is a member: there is no founder left to wait for.
LEMMA FindInvitedKeeps ==
    ASSUME AccountsInv, NEW c \in Client, FindInvited(c)
    PROVE  AccountsInv'
  <1> USE DEF Refuse, At
  <1>1. FitsNow(req[c]) /\ TablesType
    BY DEF AccountsInv
  <1>2. CASE Answered(c)
    BY <1>2, AnswerKeeps DEF FindInvited
  <1>3. CASE KnownUser(req[c].user) /\ Go(c, "insert_member")
    <2> DEFINE r == [req[c] EXCEPT !.at = "insert_member"]
               t == req[c].token
    <2>1. /\ req[c] \in Request /\ req[c].user \in users /\ req[c].op = "add_member"
          /\ t # None /\ req[c].org = t.org /\ members[<<t.user, t.org>>] = t.role
      BY <1>1, <1>3 DEF FindInvited, FitsNow, Fits, KnownUser
    <2>2. t \in Token
      BY <2>1 DEF Request
    <2>3. t.user \in User /\ t.org \in Org /\ members[<<t.user, t.org>>] # "none"
      BY <2>1, <2>2 DEF Token, Role
    <2>4. TablesType' /\ Grows /\ UNCHANGED <<orgs, members, tokens>>
      BY <1>1 DEF FindInvited, TablesType, Grows, tables
    <2>5. req[c].org \in orgs
      BY <1>1, <2>1, <2>3 DEF TablesType
    <2>6. FitsNow(r)
      BY <1>1, <2>1, <2>5 DEF FindInvited, FitsNow, Fits, Request, Step
    <2>7. FitsNext(r)
      BY <2>6 DEF FindInvited, FitsNow, FitsNext, tables
    <2>8. r.org = t.org /\ r.op = "add_member"
      BY <2>1 DEF Request
    <2>9. ASSUME NEW d \in Client, Founding(d) PROVE req[d].org # r.org
      BY <2>3, <2>8, <2>9 DEF AccountsInv, OneFounder
    <2>10. req' = [req EXCEPT ![c] = r] /\ r.org \in orgs'
      BY <1>3, <2>1, <2>4, <2>5, <2>8 DEF Go
    <2>11. OneFounder'
      <3> HIDE DEF r, t
      <3> QED
        BY <2>4, <2>8, <2>9, <2>10, FoundersStep
    <2> QED
      BY <2>4, <2>7, <2>10, <2>11, StepKeeps
  <1> QED
    BY <1>2, <1>3 DEF FindInvited

\* A founder is the first, and a membership that is there keeps its role.
LEMMA InsertMemberKeeps ==
    ASSUME AccountsInv, NEW c \in Client, InsertMember(c)
    PROVE  AccountsInv'
  <1> USE DEF Raise, At
  <1> DEFINE m == <<req[c].user, req[c].org>>
  <1>1. FitsNow(req[c]) /\ TablesType
    BY DEF AccountsInv
  <1>2. /\ req[c] \in Request /\ req[c].user \in users /\ req[c].org \in orgs
        /\ req[c].role \in Role
    BY <1>1 DEF InsertMember, FitsNow, Fits, Request
  <1>3. CASE Answered(c) /\ UNCHANGED <<members, tokens>>
    BY <1>3, AnswerKeeps DEF InsertMember, tables
  <1>4. CASE /\ members[m] = "none" /\ members' = [members EXCEPT ![m] = req[c].role]
             /\ Registered(c) \/ CreatedOrg(c) \/ AddedMember(c)
    <2>1. req' = [req EXCEPT ![c] = Blank]
      BY <1>4 DEF Registered, CreatedOrg, AddedMember, Answered
    <2>2. m \in User \X Org
      BY <1>1, <1>2 DEF TablesType
    <2>3. /\ members'[m] = req[c].role
          /\ \A n \in User \X Org : n # m => members'[n] = members[n]
      BY <1>1, <1>4, <2>2 DEF TablesType
    <2>4. \A t \in tokens' : t \in tokens \/ Backed(t)'
      <3>1. CASE Registered(c)
        <4> DEFINE t == Session(req[c].user, req[c].org, "org_admin")
        <4>1. members'[<<t.user, t.org>>] = t.role
          BY <1>1, <2>3, <3>1 DEF Registered, Session, FitsNow, Fits
        <4> QED
          BY <3>1, <4>1 DEF Registered, Backed
      <3> QED
        BY <1>4, <3>1 DEF CreatedOrg, AddedMember
    <2>5. tokens' \subseteq Token
      BY <1>1, <1>2, <1>4
      DEF Registered, CreatedOrg, AddedMember, Session, Token, Role, TablesType
    <2>6. TablesType'
      <3>1. members' \in [User \X Org -> Role \cup {"none"}]
        BY <1>1, <1>2, <1>4 DEF TablesType
      <3>2. ASSUME NEW u \in User, NEW o \in Org, members'[<<u, o>>] # "none"
            PROVE  u \in users /\ o \in orgs
        BY <1>1, <1>2, <2>3, <3>2 DEF TablesType
      <3> QED
        BY <1>1, <2>5, <3>1, <3>2 DEF InsertMember, TablesType
    <2>7. Grows
      BY <1>4, <2>3 DEF InsertMember, Grows
    <2>8. Blank.at = "idle" /\ FitsNext(Blank)
      BY BlankFits DEF Blank, FitsNext
    <2>9. /\ \A d \in Client : d # c => req'[d] = req[d]
          /\ req'[c] = Blank
      BY <2>1 DEF AccountsInv
    <2>10. OneFounder'
      <3> SUFFICES ASSUME NEW d \in Client, Founding(d)'
                   PROVE  /\ req'[d].org \in orgs'
                          /\ \A u \in User : members'[<<u, req'[d].org>>] = "none"
                          /\ \A e \in Client \ {d} :
                                req'[e].at = "insert_member" => req'[e].org # req'[d].org
        BY DEF OneFounder
      <3>1. d # c /\ Founding(d) /\ req'[d] = req[d]
        BY <2>8, <2>9 DEF Founding
      <3>2. /\ req[d].org \in orgs /\ req[d].org # req[c].org
            /\ \A u \in User : members[<<u, req[d].org>>] = "none"
            /\ \A e \in Client \ {d} : req[e].at = "insert_member" => req[e].org # req[d].org
        BY <3>1 DEF AccountsInv, OneFounder, InsertMember
      <3>3. \A u \in User : members'[<<u, req[d].org>>] = "none"
        BY <1>1, <2>3, <3>2 DEF TablesType
      <3> QED
        BY <2>8, <2>9, <3>1, <3>2, <3>3 DEF InsertMember
    <2> QED
      BY <2>1, <2>4, <2>6, <2>7, <2>8, <2>10, StepKeeps
  <1> QED
    BY <1>3, <1>4 DEF InsertMember

LEMMA AccountsInvIsInductive == Spec => []AccountsInv
  <1>1. Init => AccountsInv
    BY BlankFits, AccountsAssumption
    DEF Init, AccountsInv, TablesType, FitsNow, OneFounder, Founding, Blank
  <1>2. AccountsInv /\ [Next]_vars => AccountsInv'
    <2> SUFFICES ASSUME AccountsInv, [Next]_vars PROVE AccountsInv'
      OBVIOUS
    <2>1. ASSUME NEW c \in Client, Ask(c) PROVE AccountsInv'
      BY <2>1, AskKeeps
    <2>2. ASSUME NEW c \in Client, Transaction(c) PROVE AccountsInv'
      BY <2>2, ReadKeeps, LastInsertKeeps, InsertUserKeeps, InsertOrgKeeps, FindInvitedKeeps,
         InsertMemberKeeps
      DEF Transaction
    <2>3. ASSUME NEW c \in Client, Fail(c) PROVE AccountsInv'
      BY <2>3, AnswerKeeps DEF Fail, Raise
    <2>4. ASSUME NEW t \in tokens, Expire(t) PROVE AccountsInv'
      BY <2>4
      DEF Expire, tables, AccountsInv, TablesType, FitsNow, Backed, OneFounder, Founding
    <2>5. CASE UNCHANGED vars
      BY <2>5
      DEF vars, tables, AccountsInv, TablesType, FitsNow, Backed, OneFounder, Founding
    <2> QED
      BY <2>1, <2>2, <2>3, <2>4, <2>5 DEF Next
  <1> QED
    BY <1>1, <1>2, PTL DEF Spec
-----------------------------------------------------------------------------
\* However requests interleave and wherever they die, the tables refer to rows that are
\* there and each request holds values of its type.
THEOREM AccountsTypeCorrect == Spec => []TypeOK
  <1>1. AccountsInv => TypeOK
    <2> SUFFICES ASSUME AccountsInv PROVE TypeOK
      OBVIOUS
    <2>1. \A c \in Client : req[c] \in Request
      BY DEF AccountsInv, FitsNow, Fits
    <2> QED
      BY <2>1 DEF AccountsInv, TablesType, TypeOK
  <1> QED
    BY <1>1, AccountsInvIsInductive, PTL

\* Tokens are believed without a look at the tables, and the tables agree with them.
THEOREM TokensAreTrue == Spec => []TokensBacked
  <1>1. AccountsInv => TokensBacked
    BY DEF AccountsInv, TokensBacked, FitsNow, Fits, Backed
  <1> QED
    BY <1>1, AccountsInvIsInductive, PTL

\* Registrations and organization requests that race never found one organization twice.
THEOREM FoundersAreAlone == Spec => []OneFounder
  <1>1. AccountsInv => OneFounder
    BY DEF AccountsInv
  <1> QED
    BY <1>1, AccountsInvIsInductive, PTL

\* A handler that goes on with a project's row works for a member of its organization.
THEOREM HandlersServeTheirOrg == Spec => []ServesOwnProject
  <1>1. AccountsInv => ServesOwnProject
    BY DEF AccountsInv, ServesOwnProject, FitsNow, Fits, IsMember
  <1> QED
    BY <1>1, AccountsInvIsInductive, PTL

\* Only three steps come to the insert of a membership or make it.
LEMMA NoMemberStep ==
    ASSUME AccountsInv, NEW c \in Client,
           \/ Ask(c) \/ Fail(c) \/ FindRegistered(c) \/ InsertUser(c) \/ VerifyPassword(c)
           \/ OrgsOfUser(c) \/ InsertApiKey(c) \/ InsertTeam(c) \/ FindTeam(c)
           \/ InsertTeamMember(c) \/ InsertProject(c) \/ FindProject(c) \/ DeleteProjectRow(c)
           \/ Serve(c)
    PROVE  /\ UNCHANGED members /\ orgs \subseteq orgs'
           /\ \A d \in Client : req'[d] = req[d] \/ req'[d].at # "insert_member"
  <1> USE DEF Answered, Raise, Refuse, Go, tables
  <1>1. DOMAIN req = Client /\ req[c] \in Request
    BY DEF AccountsInv, FitsNow, Fits
  <1>2. CASE Ask(c)
    <2> USE DEF Begin, Blank
    <2>1. CASE \/ \E u \in User, o \in Org : Register(c, u, o)
               \/ \E u \in User : Login(c, u)
      BY <1>1, <2>1 DEF Register, Login
    <2>2. CASE \/ \E t \in tokens, o \in Org : CreateOrg(c, t, o)
               \/ \E t \in tokens : CreateApiKey(c, t)
      BY <1>1, <2>2 DEF CreateOrg, CreateApiKey
    <2>3. CASE \E t \in tokens, u \in User, role \in Role : AddMember(c, t, u, role)
      BY <1>1, <2>3 DEF AddMember
    <2>4. CASE UseApiKey(c)
      BY <1>1, <2>4 DEF UseApiKey
    <2>5. CASE \/ \E t \in tokens, o \in Org, team \in Team : CreateTeam(c, t, o, team)
               \/ \E t \in tokens, o \in Org, team \in Team, u \in User :
                     AddTeamMember(c, t, o, team, u)
      BY <1>1, <2>5 DEF CreateTeam, AddTeamMember
    <2>6. CASE \/ \E t \in tokens, o \in Org : CreateProject(c, t, o)
               \/ \E t \in tokens, o \in Org, p \in Project : DeleteProject(c, t, o, p)
               \/ \E t \in tokens, p \in Project : AccessProject(c, t, p)
      BY <1>1, <2>6 DEF CreateProject, DeleteProject, AccessProject
    <2> QED
      BY <1>2, <2>1, <2>2, <2>3, <2>4, <2>5, <2>6 DEF Ask
  <1>3. CASE Fail(c) \/ OrgsOfUser(c) \/ Serve(c)
    BY <1>1, <1>3 DEF Fail, OrgsOfUser, Serve, Blank
  <1>4. CASE \/ FindRegistered(c) \/ InsertUser(c) \/ VerifyPassword(c) \/ FindTeam(c)
             \/ FindProject(c)
    BY <1>1, <1>4
    DEF FindRegistered, InsertUser, VerifyPassword, FindTeam, FindProject, Blank, Request
  <1>5. CASE \/ InsertApiKey(c) \/ InsertTeam(c) \/ InsertTeamMember(c) \/ InsertProject(c)
             \/ DeleteProjectRow(c)
    BY <1>1, <1>5
    DEF InsertApiKey, InsertTeam, InsertTeamMember, InsertProject, DeleteProjectRow, Blank
  <1> QED
    BY <1>2, <1>3, <1>4, <1>5

\* The three steps leave an ownerless organization alone.
LEMMA MemberStep ==
    ASSUME AccountsInv, NEW c \in Client, InsertMember(c) \/ InsertOrg(c) \/ FindInvited(c),
           NEW o \in Org, Ownerless(o)
    PROVE  /\ \A u \in User : members'[<<u, o>>] = "none"
           /\ orgs \subseteq orgs'
           /\ \A d \in Client : req'[d] = req[d] \/ req'[d].at # "insert_member" \/ req'[d].org # o
  <1> USE DEF Raise, Refuse, Go, Answered
  <1>1. DOMAIN req = Client /\ req[c] \in Request /\ FitsNow(req[c]) /\ TablesType
    BY DEF AccountsInv, FitsNow, Fits
  <1>2. CASE InsertMember(c)
    <2>1. req[c].org # o
      BY <1>2 DEF Ownerless, InsertMember
    <2>2. \A u \in User : members'[<<u, o>>] = "none"
      BY <1>1, <1>2, <2>1 DEF InsertMember, Ownerless, TablesType
    <2> QED
      BY <1>1, <1>2, <2>2 DEF InsertMember, Registered, CreatedOrg, AddedMember, Blank
  <1>3. CASE InsertOrg(c)
    <2>1. CASE req' = [req EXCEPT ![c] = Blank]
      BY <1>1, <1>3, <2>1 DEF InsertOrg, Ownerless, Blank
    <2>2. CASE req[c].org \notin orgs /\ Go(c, "insert_member")
      <3>1. req'[c].org # o
        BY <1>1, <2>2 DEF Ownerless, Request
      <3> QED
        BY <1>1, <1>3, <2>2, <3>1 DEF InsertOrg, Ownerless
    <2> QED
      BY <1>3, <2>1, <2>2 DEF InsertOrg
  <1>4. CASE FindInvited(c)
    <2> DEFINE t == req[c].token
    <2>1. t \in Token /\ req[c].org = t.org /\ members[<<t.user, t.org>>] = t.role
      BY <1>1, <1>4 DEF FindInvited, At, FitsNow, Fits, Request
    <2>2. req[c].org # o
      BY <2>1 DEF Ownerless, Token, Role
    <2> QED
      BY <1>1, <1>4, <2>2 DEF FindInvited, Ownerless, tables, Blank, Request
  <1> QED
    BY <1>2, <1>3, <1>4

\* Nobody becomes a member of an organization whose founder's request has died.
THEOREM OrphansRemain == Spec => OrphansStayOrphans
  <1>1. AccountsInv /\ [Next]_vars => [\A o \in Org : Ownerless(o) => Ownerless(o)']_vars
    <2> SUFFICES ASSUME AccountsInv, Next, NEW o \in Org, Ownerless(o) PROVE Ownerless(o)'
      BY DEF vars, tables
    <2>1. DOMAIN req = Client /\ \A c \in Client : ~ (req[c].at = "insert_member" /\ req[c].org = o)
      BY DEF Ownerless, AccountsInv
    <2>2. ASSUME NEW c \in Client, InsertMember(c) \/ InsertOrg(c) \/ FindInvited(c)
          PROVE  Ownerless(o)'
      BY <2>1, <2>2, MemberStep DEF Ownerless
    <2>3. ASSUME NEW c \in Client, Ask(c) \/ Transaction(c) \/ Fail(c),
                 ~ (InsertMember(c) \/ InsertOrg(c) \/ FindInvited(c))
          PROVE  Ownerless(o)'
      <3>1. /\ UNCHANGED members /\ orgs \subseteq orgs'
            /\ \A d \in Client : req'[d] = req[d] \/ req'[d].at # "insert_member"
        BY <2>3, NoMemberStep DEF Transaction
      <3> QED
        BY <2>1, <3>1 DEF Ownerless
    <2>4. ASSUME NEW t \in tokens, Expire(t) PROVE Ownerless(o)'
      BY <2>4 DEF Expire, tables, Ownerless
    <2> QED
      BY <2>2, <2>3, <2>4 DEF Next
  <1> QED
    BY <1>1, AccountsInvIsInductive, PTL DEF Spec, OrphansStayOrphans
=============================================================================
