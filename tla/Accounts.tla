------------------------------ MODULE Accounts ------------------------------
(***************************************************************************)
(* Users, organizations, memberships, teams and projects, and the handlers *)
(* that create them.  Every handler is a chain of transactions of its own: *)
(* it reads, decides, and then inserts, while other requests do the same.  *)
(* A request may die between two transactions (a connection that fails, an *)
(* exhausted pool, a killed server): what it committed stays.              *)
(*                                                                         *)
(* A session token carries the user, an organization and a role; it is     *)
(* checked by its signature alone and never read back from the database.   *)
(* Three more kinds of request end in an exception whatever they find: see *)
(* OrgsOfUser, CreatedOrg and UseApiKey.                                   *)
(***************************************************************************)
EXTENDS Naturals, FiniteSets

CONSTANTS
    Client,     \* requests the API serves at once
    User,       \* e-mail addresses; the users table is UNIQUE(email)
    Org,        \* organization slugs; name and slug are both UNIQUE
    None,       \* no user, organization, token...; the organization of an id not drawn yet
    Deleted,    \* the organization of a project that has been deleted
    Team,       \* team names; the teams table is UNIQUE(org_id, name)
    Project     \* project ids

Role == {"org_admin", "member"}
Token == [user : User, org : Org, role : Role]

ASSUME AccountsAssumption ==
    /\ None \notin User \cup Org \cup Team \cup Project \cup Token
    /\ Deleted \notin Org \cup {None}

VARIABLES
    users,        \* users table
    orgs,         \* organizations table
    members,      \* org_memberships: the role of a user in an organization
    teams,        \* teams table: pairs of an organization and a name
    teamMembers,  \* team_memberships: triples of a user, an organization and a name
    projects,     \* projects table: the organization of each project
    keys,         \* organizations that own a row of api_keys
    tokens,       \* session tokens that have been issued and are not expired
    req           \* the request each client has in flight

tables == <<users, orgs, members, teams, teamMembers, projects, keys>>
vars == <<tables, tokens, req>>

Step == {"idle", "find_user", "insert_user", "insert_org", "insert_member", "orgs_of_user",
         "insert_team", "find_team", "insert_team_member", "insert_project", "insert_key",
         "find_project", "serve", "delete_project"}
Request == [op : {"none", "register", "login", "create_org", "add_member", "create_team",
                  "add_team_member", "create_project", "delete_project", "ticket",
                  "create_key"},
            at : Step, token : Token \cup {None}, user : User \cup {None},
            org : Org \cup {None}, role : Role, team : Team \cup {None},
            project : Project \cup {None}]

TypeOK ==
    /\ users \subseteq User
    /\ orgs \subseteq Org
    /\ members \in [User \X Org -> Role \cup {"none"}]
    /\ teams \subseteq orgs \X Team
    /\ teamMembers \subseteq users \X teams
    /\ projects \in [Project -> orgs \cup {None, Deleted}]
    /\ keys \subseteq orgs
    /\ tokens \subseteq Token
    /\ req \in [Client -> Request]
    /\ \A u \in User, o \in Org : members[<<u, o>>] # "none" => u \in users /\ o \in orgs

Blank == [op |-> "none", at |-> "idle", token |-> None, user |-> None, org |-> None,
          role |-> "member", team |-> None, project |-> None]

Init ==
    /\ users = {} /\ orgs = {} /\ teams = {} /\ teamMembers = {} /\ keys = {} /\ tokens = {}
    /\ members = [m \in User \X Org |-> "none"]
    /\ projects = [p \in Project |-> None]
    /\ req = [c \in Client |-> Blank]

At(c, op, step) == req[c].op = op /\ req[c].at = step
Go(c, step) == req' = [req EXCEPT ![c].at = step]

\* The request is answered: a token or a row, a refusal (401, 403, 404, 409), or an
\* exception that reaches the client as an internal error.
Answered(c) == req' = [req EXCEPT ![c] = Blank]
Refuse(c) == Answered(c)
Raise(c) == Answered(c)
Begin(c, request) == req[c].at = "idle" /\ req' = [req EXCEPT ![c] = request]

\* create_access_token: a token is issued for what the handler says, nothing is stored.
Session(u, o, role) == [user |-> u, org |-> o, role |-> role]

\* Fault: The test asks only for an existing project.
MayAccessAny(t, p) == projects[p] \notin {None, Deleted}

\* A bearer is whoever shows a token that has not expired.
Bearer(t) == t \in tokens

\* get_user_by_email, list_orgs_for_user and get_org_membership read the tables...
KnownUser(u) == u \in users
OrgsOf(u) == {o \in Org : members[<<u, o>>] # "none"}
IsMember(t, o) == members[<<t.user, o>>] # "none"

\* ...require_org_admin and require_project_access trust the token.
IsOrgAdmin(t) == t.role = "org_admin"
MayAccess(t, p) == projects[p] = t.org
-----------------------------------------------------------------------------
(* What the database does for every handler: one transaction each. *)

\* Fault: The row is forgotten.
InsertNoUser(c) ==
    /\ At(c, "register", "insert_user")
    /\ Go(c, "insert_org")
    /\ UNCHANGED <<tables, tokens>>

\* create_user: the unique constraint answers a second insert with an error.
InsertUser(c) ==
    /\ At(c, "register", "insert_user")
    /\ IF req[c].user \in users
       THEN Raise(c) /\ UNCHANGED users
       ELSE users' = users \cup {req[c].user} /\ Go(c, "insert_org")
    /\ UNCHANGED <<orgs, members, teams, teamMembers, projects, keys, tokens>>

\* Fault: A taken slug is looked up instead of refused.
InsertOrFindOrg(c) ==
    /\ req[c].at = "insert_org"
    /\ orgs' = orgs \cup {req[c].org}
    /\ Go(c, "insert_member")
    /\ UNCHANGED <<users, members, teams, teamMembers, projects, keys, tokens>>

\* create_org: a taken name or slug raises.
InsertOrg(c) ==
    /\ req[c].at = "insert_org"
    /\ IF req[c].org \in orgs
       THEN Raise(c) /\ UNCHANGED orgs
       ELSE orgs' = orgs \cup {req[c].org} /\ Go(c, "insert_member")
    /\ UNCHANGED <<users, members, teams, teamMembers, projects, keys, tokens>>

\* register: the token follows the third commit.
Registered(c) ==
    /\ req[c].op = "register"
    /\ tokens' = tokens \cup {Session(req[c].user, req[c].org, "org_admin")}
    /\ Answered(c)

\* create_org: the row it was given has no created_at, so the answer cannot be built.
CreatedOrg(c) == req[c].op = "create_org" /\ Raise(c) /\ UNCHANGED tokens

AddedMember(c) == req[c].op = "add_member" /\ Answered(c) /\ UNCHANGED tokens

\* Fault: The membership is upserted: an invitation changes the role of a member.
UpsertMember(c) ==
    /\ req[c].at = "insert_member"
    /\ members' = [members EXCEPT ![<<req[c].user, req[c].org>>] = req[c].role]
    /\ Registered(c) \/ CreatedOrg(c) \/ AddedMember(c)
    /\ UNCHANGED <<users, orgs, teams, teamMembers, projects, keys>>

\* add_org_member, with what its three callers do with the row.
InsertMember(c) ==
    LET m == <<req[c].user, req[c].org>> IN
    /\ req[c].at = "insert_member"
    /\ \/ /\ members[m] # "none"
          /\ Raise(c)
          /\ UNCHANGED <<members, tokens>>
       \/ /\ members[m] = "none"
          /\ members' = [members EXCEPT ![m] = req[c].role]
          /\ Registered(c) \/ CreatedOrg(c) \/ AddedMember(c)
    /\ UNCHANGED <<users, orgs, teams, teamMembers, projects, keys>>
-----------------------------------------------------------------------------
(* Registration and login. *)

Register(c, u, o) ==
    /\ Begin(c, [Blank EXCEPT !.op = "register", !.at = "find_user", !.user = u, !.org = o,
                              !.role = "org_admin"])
    /\ UNCHANGED <<tables, tokens>>

FindRegistered(c) ==
    /\ At(c, "register", "find_user")
    /\ IF KnownUser(req[c].user) THEN Refuse(c) ELSE Go(c, "insert_user")
    /\ UNCHANGED <<tables, tokens>>

Login(c, u) ==
    /\ Begin(c, [Blank EXCEPT !.op = "login", !.at = "find_user", !.user = u])
    /\ UNCHANGED <<tables, tokens>>

\* With the right password; a wrong one is refused like an unknown address.
VerifyPassword(c) ==
    /\ At(c, "login", "find_user")
    /\ IF KnownUser(req[c].user) THEN Go(c, "orgs_of_user") ELSE Refuse(c)
    /\ UNCHANGED <<tables, tokens>>

\* The rows are those of organizations: they have no role, and the handler reads one.
OrgsOfUser(c) ==
    /\ At(c, "login", "orgs_of_user")
    /\ IF OrgsOf(req[c].user) = {} THEN Refuse(c) ELSE Raise(c)
    /\ UNCHANGED <<tables, tokens>>

\* exp is in the past: from now on the token is refused.
Expire(t) ==
    /\ t \in tokens
    /\ tokens' = tokens \ {t}
    /\ UNCHANGED <<tables, req>>

\* A request that carries an API key: PostgresClient has no get_api_key_by_hash.
UseApiKey(c) ==
    /\ keys # {}
    /\ req[c].at = "idle"
    /\ Raise(c)
    /\ UNCHANGED <<tables, tokens>>
-----------------------------------------------------------------------------
(* Organizations.  The bearer of a token begins; the identity outlives the token. *)

CreateOrg(c, t, o) ==
    /\ Bearer(t)
    /\ Begin(c, [Blank EXCEPT !.op = "create_org", !.at = "insert_org", !.token = t,
                              !.user = t.user, !.org = o, !.role = "org_admin"])
    /\ UNCHANGED <<tables, tokens>>

AddMember(c, t, u, role) ==
    /\ Bearer(t)
    /\ IsOrgAdmin(t)
    /\ Begin(c, [Blank EXCEPT !.op = "add_member", !.at = "find_user", !.token = t,
                              !.user = u, !.org = t.org, !.role = role])
    /\ UNCHANGED <<tables, tokens>>

FindInvited(c) ==
    /\ At(c, "add_member", "find_user")
    /\ IF KnownUser(req[c].user) THEN Go(c, "insert_member") ELSE Refuse(c)
    /\ UNCHANGED <<tables, tokens>>

CreateApiKey(c, t) ==
    /\ Bearer(t)
    /\ IsOrgAdmin(t)
    /\ Begin(c, [Blank EXCEPT !.op = "create_key", !.at = "insert_key", !.token = t,
                              !.org = t.org])
    /\ UNCHANGED <<tables, tokens>>

InsertApiKey(c) ==
    /\ At(c, "create_key", "insert_key")
    /\ keys' = keys \cup {req[c].org}
    /\ Answered(c)
    /\ UNCHANGED <<users, orgs, members, teams, teamMembers, projects, tokens>>
-----------------------------------------------------------------------------
(* Teams. *)

\* The membership is read before the insert.
CreateTeam(c, t, o, team) ==
    /\ Bearer(t)
    /\ IsMember(t, o)
    /\ Begin(c, [Blank EXCEPT !.op = "create_team", !.at = "insert_team", !.token = t,
                              !.org = o, !.team = team])
    /\ UNCHANGED <<tables, tokens>>

\* The row has no created_at: the team is committed, the answer raises.
InsertTeam(c) ==
    /\ At(c, "create_team", "insert_team")
    /\ teams' = teams \cup {<<req[c].org, req[c].team>>}
    /\ Raise(c)
    /\ UNCHANGED <<users, orgs, members, teamMembers, projects, keys, tokens>>

AddTeamMember(c, t, o, team, u) ==
    /\ Bearer(t)
    /\ IsMember(t, o)
    /\ Begin(c, [Blank EXCEPT !.op = "add_team_member", !.at = "find_team", !.token = t,
                              !.user = u, !.org = o, !.team = team])
    /\ UNCHANGED <<tables, tokens>>

FindTeam(c) ==
    /\ At(c, "add_team_member", "find_team")
    /\ IF <<req[c].org, req[c].team>> \in teams
       THEN Go(c, "insert_team_member")
       ELSE Refuse(c)
    /\ UNCHANGED <<tables, tokens>>

\* Any user will do, of whatever organization; an unknown one violates the foreign key.
InsertTeamMember(c) ==
    LET row == <<req[c].user, <<req[c].org, req[c].team>>>> IN
    /\ At(c, "add_team_member", "insert_team_member")
    /\ IF req[c].user \in users /\ row \notin teamMembers
       THEN teamMembers' = teamMembers \cup {row} /\ Answered(c)
       ELSE Raise(c) /\ UNCHANGED teamMembers
    /\ UNCHANGED <<users, orgs, members, teams, projects, keys, tokens>>
-----------------------------------------------------------------------------
(* Projects: created under the membership, used under the token. *)

CreateProject(c, t, o) ==
    /\ Bearer(t)
    /\ IsMember(t, o)
    /\ Begin(c, [Blank EXCEPT !.op = "create_project", !.at = "insert_project", !.token = t,
                              !.org = o])
    /\ UNCHANGED <<tables, tokens>>

\* The database draws a fresh id; a slug the organization already has raises.
InsertProject(c) ==
    /\ At(c, "create_project", "insert_project")
    /\ \/ \E p \in Project :
            /\ projects[p] = None
            /\ projects' = [projects EXCEPT ![p] = req[c].org]
            /\ Answered(c)
       \/ /\ \E p \in Project : projects[p] = req[c].org
          /\ Raise(c)
          /\ UNCHANGED projects
    /\ UNCHANGED <<users, orgs, members, teams, teamMembers, keys, tokens>>

\* The handlers of update, delete and get: membership first, then the project's row.
DeleteProject(c, t, o, p) ==
    /\ Bearer(t)
    /\ IsMember(t, o)
    /\ Begin(c, [Blank EXCEPT !.op = "delete_project", !.at = "find_project", !.token = t,
                              !.org = o, !.project = p])
    /\ UNCHANGED <<tables, tokens>>

FindProject(c) ==
    /\ At(c, "delete_project", "find_project")
    /\ IF projects[req[c].project] = req[c].org
       THEN Go(c, "delete_project")
       ELSE Refuse(c)
    /\ UNCHANGED <<tables, tokens>>

DeleteProjectRow(c) ==
    /\ At(c, "delete_project", "delete_project")
    /\ projects' = [projects EXCEPT ![req[c].project] =
                       IF projects[req[c].project] = req[c].org THEN Deleted ELSE @]
    /\ Answered(c)
    /\ UNCHANGED <<users, orgs, members, teams, teamMembers, keys, tokens>>

\* require_project_access: the handlers under /projects/{id} go on with the row it read.
AccessProject(c, t, p) ==
    /\ Bearer(t)
    /\ MayAccess(t, p)
    /\ Begin(c, [Blank EXCEPT !.op = "ticket", !.at = "serve", !.token = t,
                              !.org = t.org, !.project = p])
    /\ UNCHANGED <<tables, tokens>>

Serve(c) ==
    /\ At(c, "ticket", "serve")
    /\ Answered(c)
    /\ UNCHANGED <<tables, tokens>>

\* A transaction that fails is rolled back; so does the death of the server.
Fail(c) ==
    /\ req[c].at # "idle"
    /\ Raise(c)
    /\ UNCHANGED <<tables, tokens>>
-----------------------------------------------------------------------------
Ask(c) ==
    \/ \E u \in User, o \in Org : Register(c, u, o)
    \/ \E u \in User : Login(c, u)
    \/ \E t \in tokens, o \in Org : CreateOrg(c, t, o)
    \/ \E t \in tokens, u \in User, role \in Role : AddMember(c, t, u, role)
    \/ \E t \in tokens : CreateApiKey(c, t)
    \/ \E t \in tokens, o \in Org, team \in Team : CreateTeam(c, t, o, team)
    \/ \E t \in tokens, o \in Org, team \in Team, u \in User : AddTeamMember(c, t, o, team, u)
    \/ \E t \in tokens, o \in Org : CreateProject(c, t, o)
    \/ \E t \in tokens, o \in Org, p \in Project : DeleteProject(c, t, o, p)
    \/ \E t \in tokens, p \in Project : AccessProject(c, t, p)
    \/ UseApiKey(c)

Transaction(c) ==
    \/ FindRegistered(c) \/ InsertUser(c) \/ InsertOrg(c) \/ InsertMember(c)
    \/ VerifyPassword(c) \/ OrgsOfUser(c) \/ FindInvited(c) \/ InsertApiKey(c)
    \/ InsertTeam(c) \/ FindTeam(c) \/ InsertTeamMember(c)
    \/ InsertProject(c) \/ FindProject(c) \/ DeleteProjectRow(c) \/ Serve(c)

Next ==
    \/ \E c \in Client : Ask(c) \/ Transaction(c) \/ Fail(c)
    \/ \E t \in tokens : Expire(t)

Spec == Init /\ [][Next]_vars
-----------------------------------------------------------------------------
(* Properties. *)

\* What a token claims, and what a request was let in for, is what the membership
\* table says, although nobody looks it up: the claim is made after the row is
\* committed and no handler takes a membership away or changes its role.
Backed(t) == members[<<t.user, t.org>>] = t.role
TokensBacked ==
    /\ \A t \in tokens : Backed(t)
    /\ \A c \in Client : req[c].token # None => Backed(req[c].token)

\* Racing registrations and organization requests: while somebody is about to become
\* the first member of an organization, nobody else is and nobody is a member yet.
Founding(c) == req[c].at = "insert_member" /\ req[c].op # "add_member"
OneFounder ==
    \A c \in Client : Founding(c) =>
        /\ req[c].org \in orgs
        /\ \A u \in User : members[<<u, req[c].org>>] = "none"
        /\ \A d \in Client \ {c} :
              req[d].at = "insert_member" => req[d].org # req[c].org

\* An organization whose founder's request died before the membership has no owner, and
\* no later request, in particular no invitation, ever makes somebody its member.
Ownerless(o) ==
    /\ o \in orgs
    /\ \A u \in User : members[<<u, o>>] = "none"
    /\ \A c \in Client : ~ (req[c].at = "insert_member" /\ req[c].org = o)
OrphansStayOrphans == [][\A o \in Org : Ownerless(o) => Ownerless(o)']_vars

\* A handler that goes on with the row of a project it read before works for a member of
\* that project's organization, on a project that is still there or was deleted meanwhile,
\* never on one of another organization.
ServesOwnProject ==
    \A c \in Client : req[c].at \in {"serve", "delete_project"} =>
        /\ projects[req[c].project] \in {req[c].org, Deleted}
        /\ IsMember(req[c].token, req[c].org)

\* The docstring of login: "Authenticate and return a JWT token."  When a member gave the
\* right password and the memberships have been read, the answer is a token.
LoginAnswers ==
    [][\A c \in Client :
         OrgsOfUser(c) /\ OrgsOf(req[c].user) # {}
         => \E t \in tokens' : t.user = req[c].user]_vars
=============================================================================
