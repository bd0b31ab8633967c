------------------------------- MODULE Access -------------------------------
(***************************************************************************)
(* Who may do what: the identities of agents (clotho-agent-gateway) and of *)
(* humans (clotho-api-gateway), and what becomes of a call.                *)
(*                                                                         *)
(* A call is checked more than once and at different times. A tool call is *)
(* authenticated when its request arrives, and judged by the scopes read   *)
(* then; if the tool forwards it to the REST edge, the edge asks for the   *)
(* token's present scopes. A human call resolves its credential first and  *)
(* looks up permissions later. Tokens are revoked, scopes narrowed and     *)
(* roles changed in between. Every tool call is to leave an audit entry.   *)
(*                                                                         *)
(* A first sign-in through Clerk creates rows as it goes: two sign-ins of  *)
(* one person may do so at once. A scope is the set of what it admits, so  *)
(* "*" is the whole set. Authentication is required (CLOTHO_AUTH_REQUIRED).*)
(***************************************************************************)
EXTENDS Naturals, FiniteSets, ApiSurface

CONSTANTS Repos,         \* repositories, all of one organisation
          Public,        \* the public ones
          Agents,        \* agent names
          AgentTokens,   \* credentials of agents
          ApiTokens,     \* credentials of humans minted by Clotho
          BootToken,     \* CLOTHO_BOOTSTRAP_TOKEN
          Sessions,      \* Clerk sessions
          Claims,        \* what each session says: Clerk user, name, organisation, role
          Home,          \* the organisation of the repositories
          HomeName,      \* its name
          Operator,      \* the bootstrap user
          OldUsers,      \* users that exist from the start
          Calls,         \* calls of a behaviour
          Asks,          \* what callers ask for: [tool, route, repo, by], by: with which credentials
          Scopes,        \* scopes tokens are given: [repos, tools]
          None,          \* no value
          MaxFaults      \* bound on failed requests and crashes

ASSUME TablesAssumption ==
  /\ Public \subseteq Repos /\ BootToken \in ApiTokens /\ Operator \in OldUsers
  /\ None \notin Calls \cup OldUsers \cup AgentTokens \cup ApiTokens \cup Sessions \cup Repos \cup {Home}
  /\ OldUsers \cap Calls = {} /\ Home \notin Calls /\ MaxFaults \in Nat
\* Credentials are told apart by their form (TOKEN_PREFIX, a session's JWT).
ASSUME CredsAssumption ==
  /\ AgentTokens \cap ApiTokens = {} /\ AgentTokens \cap Sessions = {} /\ ApiTokens \cap Sessions = {}
ASSUME ClaimsAssumption == \A s \in Sessions : Claims[s].role \in {"admin", "member"}
ASSUME AsksAssumption ==
  \A a \in Asks : /\ a.tool = "none" => a.route # "none"
                  /\ a.by \subseteq AgentTokens \cup ApiTokens \cup Sessions \cup {None}
                  /\ a.route # "none" => \E r \in Routes : r.name = a.route
                  /\ a.tool # "none" => Tool(a.tool, a.route) \in Tools
                  /\ (a.repo = None) = (Platform(a.route) \/ a.route \notin
                       {r.name : r \in {s \in Routes : s.need \in {"read", "write", "admin"}}}
                       \cup {"none"})
VARIABLES agents,        \* table agents
          tokens,        \* table agent_tokens
          audit,         \* table agent_audit_log
          apiTokens,     \* table api_tokens
          users,         \* table users
          orgs,          \* table orgs
          members,       \* table org_memberships
          grants,        \* table repo_permissions
          links,         \* table clerk_user_links
          orgLinks,      \* table clerk_org_links
          calls,         \* the calls
          late,          \* calls past the check that a change would have failed
          touched,       \* calls whose token changed while they were under way
          faults         \* failed requests and crashes so far

identity == <<agents, tokens>>
people == <<apiTokens, users, orgs, members, grants, links, orgLinks>>
vars == <<agents, tokens, audit, apiTokens, users, orgs, members, grants, links, orgLinks,
          calls, late, touched, faults>>

-----------------------------------------------------------------------------
(* Types *)

UserId == OldUsers \cup Calls
OrgId == {Home} \cup Calls
ClerkUsers == {Claims[s].clerk : s \in Sessions}
ClerkOrgs == {Claims[s].org : s \in Sessions} \ {None}
Names == {Claims[s].name : s \in Sessions} \cup OldUsers
OrgNames == {Claims[s].slug : s \in Sessions} \cup {HomeName}
Creds == AgentTokens \cup ApiTokens \cup Sessions \cup {None}
Scope == [repos : SUBSET Repos, tools : SUBSET ToolNames]
NoScope == [repos |-> {}, tools |-> {}]
ASSUME ScopesAssumption == Scopes \subseteq Scope

Label == {"idle", "tool", "edge", "resolve", "new_user", "link", "org", "new_org", "link_org",
          "join", "permit", "work", "insert", "audit", "done"}
Status == {"none", "ok", "unauthorized", "denied", "error", "refused", "unaudited", "lost"}

\* via: the agent gateway, the REST edge, or the edge for a tool call whose
\* gateway has died.
Call == [pc : Label, via : {"mcp", "rest", "orphan"}, cred : Creds,
         ask : Asks \cup {None}, scope : Scope, user : UserId \cup {None},
         org : OrgId \cup {None}, status : Status, effect : BOOLEAN,
         agent : Agents \cup {None}]

TypeOK ==
  /\ agents \in [Agents -> {"absent", "enabled", "disabled"}]
  /\ tokens \in [AgentTokens -> [state : {"absent", "live", "revoked", "expired"},
                                 agent : Agents \cup {None}, scope : Scope]]
  /\ audit \subseteq Calls \X {"ok", "denied", "error"}
  /\ apiTokens \in [ApiTokens -> [state : {"absent", "live", "revoked"},
                                  user : UserId \cup {None}]]
  /\ users \subseteq [id : UserId, name : Names]
  /\ orgs \subseteq [id : OrgId, name : OrgNames]
  /\ members \subseteq [org : OrgId, user : UserId, role : {"admin", "member"}]
  /\ grants \subseteq [repo : Repos, user : UserId, permission : {"read", "write", "admin"}]
  /\ links \in [ClerkUsers -> UserId \cup {None}]
  /\ orgLinks \in [ClerkOrgs -> OrgId \cup {None}]
  /\ calls \in [Calls -> Call]
  /\ late \subseteq Calls /\ touched \subseteq Calls
  /\ faults \in 0 .. MaxFaults

-----------------------------------------------------------------------------
(* Helpers *)

NoCall == [pc |-> "idle", via |-> "rest", cred |-> None, ask |-> None, scope |-> NoScope,
           user |-> None, org |-> None, status |-> "none", effect |-> FALSE, agent |-> None]

NoTokens == [t \in AgentTokens |-> [state |-> "absent", agent |-> None, scope |-> NoScope]]

RouteOf(a) == CHOOSE r \in Routes : r.name = a.route

\* IdentityStore::authenticate
Active(t) == tokens[t].state = "live" /\ agents[tokens[t].agent] = "enabled"

\* may_use_tool and may_touch_repo
ScopeAllows(s, tool, repo) == tool \in s.tools /\ (repo = None \/ repo \in s.repos)

\* IdentityStore::authorize, as the REST edge asks it for a handler's tool. The
\* handler of an organisation's secrets refuses agents after that.
EdgeAllows(t, a) ==
  LET r == RouteOf(a) IN
  /\ r.tool # "none" /\ r.need # "org"
  /\ Active(t) /\ ScopeAllows(tokens[t].scope, r.tool, a.repo)

IsOrgAdmin(u, o) == [org |-> o, user |-> u, role |-> "admin"] \in members

Rank(permission) ==
  CASE permission = "admin" -> 3 [] permission = "write" -> 2 [] permission = "read" -> 1

\* has_repo_permission
HasRepoPermission(u, r, least) ==
  \/ IsOrgAdmin(u, Home)
  \/ \E g \in grants : g.repo = r /\ g.user = u /\ Rank(g.permission) >= Rank(least)

\* require_repo_read
CanRead(u, r) == r \in Public \/ (u # None /\ HasRepoPermission(u, r, "read"))

\* ACCESSIBLE_REPOS_SQL
AccessibleRepos(u) ==
  {r \in Repos : \/ r \in Public
                 \/ u # None /\ \/ \E m \in members : m.org = Home /\ m.user = u /\ m.role = "admin"
                                \/ \E g \in grants : g.repo = r /\ g.user = u
                                                     /\ g.permission \in {"read", "write", "admin"}}

\* list_repos for an agent: what its scope admits, public or not.
AgentRepos(s) == {r \in Repos : r \in s.repos}

\* require_agent_admin
IsAgentAdmin(u) == u = Operator \/ \E m \in members : m.user = u /\ m.role = "admin"

Permitted(u, a) ==
  LET need == RouteOf(a).need IN
  CASE need = "read" -> CanRead(u, a.repo)
    [] need \in {"write", "admin"} -> u # None /\ HasRepoPermission(u, a.repo, need)
    [] need = "any" -> TRUE
    [] need = "self" -> u # None
    [] need = "agents" -> u # None /\ IsAgentAdmin(u)
    [] need = "org" -> u # None /\ IsOrgAdmin(u, Home)

At(c, label) == calls[c].pc = label

\* A call but for the fields that f sets.
With(call, f) == [x \in DOMAIN call |-> IF x \in DOMAIN f THEN f[x] ELSE call[x]]
Set(c, f) == calls' = [calls EXCEPT ![c] = With(@, f)]

\* The answer of the work goes to run_tool, which audits it, or to the client.
Answer(c, status, effect) ==
  Set(c, [pc |-> IF calls[c].via = "mcp" THEN "audit" ELSE "done",
          status |-> status, effect |-> effect])

Refuse(c) == Answer(c, "refused", FALSE)

\* A change to credentials comes too late for calls past the check on it.
Overtake(creds) ==
  LET checked(d) ==
        CASE d.cred \in ApiTokens -> {"permit", "work", "insert", "done"}
          [] d.cred \in AgentTokens /\ d.ask.route = "none" -> {"tool", "work", "audit", "done"}
          [] OTHER -> {"work", "audit", "done"}
      own == {c \in Calls : calls[c].cred \in creds /\ calls[c].pc # "idle"}
  IN  /\ late' = late \cup {c \in own : calls[c].pc \in checked(calls[c])}
      /\ touched' = touched \cup {c \in own : calls[c].pc # "done"}

Fault == faults < MaxFaults /\ faults' = faults + 1

-----------------------------------------------------------------------------
(* One agent, perhaps with a token; the bootstrap user administers the     *)
(* organisation, and another may hold a permission and a token.            *)

Init ==
  /\ \/ /\ agents = [a \in Agents |-> "enabled"]
        /\ \E t \in AgentTokens, a \in Agents, s \in Scopes :
             tokens = [NoTokens EXCEPT ![t] = [state |-> "live", agent |-> a, scope |-> s]]
     \/ agents = [a \in Agents |-> "absent"] /\ tokens = NoTokens
  /\ audit = {}
  /\ users = {[id |-> u, name |-> u] : u \in OldUsers}
  /\ orgs = {[id |-> Home, name |-> HomeName]}
  /\ members = {[org |-> Home, user |-> Operator, role |-> "admin"]}
  /\ LET minted(u) == [k \in ApiTokens |-> IF k = BootToken THEN [state |-> "live", user |-> Operator]
                                           ELSE [state |-> IF u = None THEN "absent" ELSE "live",
                                                 user |-> u]]
     IN  \/ apiTokens = minted(None) /\ grants = {}
         \/ \E u \in OldUsers \ {Operator}, r \in Repos \ Public, p \in {"read", "write"} :
              apiTokens = minted(u) /\ grants = {[repo |-> r, user |-> u, permission |-> p]}
  /\ links = [k \in ClerkUsers |-> None]
  /\ orgLinks = [k \in ClerkOrgs |-> None]
  /\ calls = [c \in Calls |-> NoCall]
  /\ late = {} /\ touched = {} /\ faults = 0

-----------------------------------------------------------------------------
(* Calls of tools: the agent gateway *)

\* authenticate_agent: the agent and its scopes are read once, for the request.
ToolCall(c, a, t) ==
  /\ At(c, "idle") /\ a.tool # "none" /\ t \in a.by
  /\ IF Active(t)
     THEN Set(c, [pc |-> "tool", via |-> "mcp", cred |-> t, ask |-> a, scope |-> tokens[t].scope])
     ELSE Set(c, [pc |-> "done", via |-> "mcp", cred |-> t, ask |-> a, status |-> "unauthorized"])
  /\ UNCHANGED <<identity, people, audit, late, touched, faults>>

\* run_tool up to the work: judged by the scopes of the request.
RunTool(c) ==
  /\ At(c, "tool")
  /\ LET a == calls[c].ask IN
     IF ScopeAllows(calls[c].scope, a.tool, a.repo)
     THEN Set(c, [pc |-> IF a.route = "none" THEN "work" ELSE "edge"])
     ELSE Set(c, [pc |-> "audit", status |-> "denied"])
  /\ UNCHANGED <<identity, people, audit, late, touched, faults>>

\* Mutant: an error is taken for a denial.
AuditErrorAsDenied(c) ==
  /\ At(c, "audit")
  /\ audit' = audit \cup {<<c, IF calls[c].status = "ok" THEN "ok" ELSE "denied">>}
  /\ Set(c, [pc |-> "done"])
  /\ UNCHANGED <<identity, people, late, touched, faults>>

\* audit: whatever is neither ok nor denied is recorded as an error.
Audit(c) ==
  /\ At(c, "audit")
  /\ LET s == calls[c].status IN
     audit' = audit \cup {<<c, IF s \in {"ok", "denied"} THEN s ELSE "error">>}
  /\ Set(c, [pc |-> "done"])
  /\ UNCHANGED <<identity, people, late, touched, faults>>

\* The entry cannot be written: the caller gets an error, the work stays done.
AuditFails(c) ==
  /\ At(c, "audit") /\ Fault
  /\ Set(c, [pc |-> "done", status |-> "unaudited"])
  /\ UNCHANGED <<identity, people, audit, late, touched>>

\* The agent gateway dies. What it has sent on goes its way.
GatewayCrash ==
  /\ Fault
  /\ calls' = [c \in Calls |->
       IF calls[c].via # "mcp" \/ calls[c].pc = "done" THEN calls[c]
       ELSE IF calls[c].pc \in {"edge", "work"} THEN With(calls[c], [via |-> "orphan"])
       ELSE With(calls[c], [pc |-> "done", status |-> "lost"])]
  /\ UNCHANGED <<identity, people, audit, late, touched>>

-----------------------------------------------------------------------------
(* Calls of routes: the REST edge *)

RestCall(c, a, k) ==
  /\ At(c, "idle") /\ a.tool = "none" /\ k \in a.by
  /\ Set(c, [pc |-> IF k \in AgentTokens THEN "edge" ELSE "resolve", cred |-> k, ask |-> a])
  /\ UNCHANGED <<identity, people, audit, late, touched, faults>>

\* Mutant: the edge trusts the check of the agent gateway.
EdgeTrusting(c) ==
  /\ At(c, "edge")
  /\ IF calls[c].via # "rest" \/ EdgeAllows(calls[c].cred, calls[c].ask)
     THEN Set(c, [pc |-> "work"]) ELSE Refuse(c)
  /\ UNCHANGED <<identity, people, audit, late, touched, faults>>

\* authorize_if_agent: the edge asks the agent gateway for the present scopes.
\* A route without a tool knows human credentials only.
Edge(c) ==
  /\ At(c, "edge")
  /\ LET k == calls[c].cred IN
     IF EdgeAllows(k, calls[c].ask)
     THEN Set(c, [pc |-> "work", scope |-> tokens[k].scope])
     ELSE Refuse(c)
  /\ UNCHANGED <<identity, people, audit, late, touched, faults>>

\* The agent gateway cannot be asked, or its answer cannot be read.
EdgeFails(c) ==
  /\ At(c, "edge") /\ Fault
  /\ Answer(c, "error", FALSE)
  /\ UNCHANGED <<identity, people, audit, late, touched>>

\* resolve_optional_human_auth, validate_clotho_token, and the lookup with which
\* link_clerk_principal starts.
Resolve(c) ==
  /\ At(c, "resolve")
  /\ LET k == calls[c].cred IN
     CASE k = None ->
            IF RouteOf(calls[c].ask).need \in {"read", "any"}
            THEN Set(c, [pc |-> "permit"]) ELSE Refuse(c)
       [] k \in ApiTokens ->
            IF apiTokens[k].state = "live"
            THEN Set(c, [pc |-> "permit", user |-> apiTokens[k].user]) ELSE Refuse(c)
       [] k \in Sessions ->
            IF links[Claims[k].clerk] # None
            THEN Set(c, [pc |-> IF Claims[k].org = None THEN "permit" ELSE "org",
                         user |-> links[Claims[k].clerk]])
            ELSE Set(c, [pc |-> "new_user"])
  /\ UNCHANGED <<identity, people, audit, late, touched, faults>>

\* Mutant: the sign-in keeps the id it meant to insert.
NewUserOwnId(c) ==
  /\ At(c, "new_user")
  /\ LET name == Claims[calls[c].cred].name IN
     users' = IF \E u \in users : u.name = name THEN users
              ELSE users \cup {[id |-> c, name |-> name]}
  /\ Set(c, [pc |-> "link", user |-> c])
  /\ UNCHANGED <<identity, apiTokens, orgs, members, grants, links, orgLinks, audit, late,
                 touched, faults>>

\* insert into users ... on conflict (name), and the id that name has now. No
\* statement deletes or renames a user.
NewUser(c) ==
  /\ At(c, "new_user")
  /\ LET name == Claims[calls[c].cred].name IN
     /\ users' = IF \E u \in users : u.name = name THEN users
                 ELSE users \cup {[id |-> c, name |-> name]}
     /\ Set(c, [pc |-> "link", user |-> (CHOOSE u \in users' : u.name = name).id])
  /\ UNCHANGED <<identity, apiTokens, orgs, members, grants, links, orgLinks, audit, late,
                 touched, faults>>

LinkUser(c) ==
  /\ At(c, "link")
  /\ links' = [links EXCEPT ![Claims[calls[c].cred].clerk] = calls[c].user]
  /\ Set(c, [pc |-> IF Claims[calls[c].cred].org = None THEN "permit" ELSE "org"])
  /\ UNCHANGED <<identity, apiTokens, users, orgs, members, grants, orgLinks, audit, late,
                 touched, faults>>

\* ensure_clerk_org: the link, or a new organisation.
FindOrg(c) ==
  /\ At(c, "org")
  /\ LET org == orgLinks[Claims[calls[c].cred].org] IN
     IF org # None THEN Set(c, [pc |-> "join", org |-> org]) ELSE Set(c, [pc |-> "new_org"])
  /\ UNCHANGED <<identity, people, audit, late, touched, faults>>

NewOrg(c) ==
  /\ At(c, "new_org")
  /\ LET name == Claims[calls[c].cred].slug IN
     /\ orgs' = IF \E o \in orgs : o.name = name THEN orgs
                ELSE orgs \cup {[id |-> c, name |-> name]}
     /\ Set(c, [pc |-> "link_org", org |-> (CHOOSE o \in orgs' : o.name = name).id])
  /\ UNCHANGED <<identity, apiTokens, users, members, grants, links, orgLinks, audit, late,
                 touched, faults>>

LinkOrg(c) ==
  /\ At(c, "link_org")
  /\ orgLinks' = [orgLinks EXCEPT ![Claims[calls[c].cred].org] = calls[c].org]
  /\ Set(c, [pc |-> "join"])
  /\ UNCHANGED <<identity, apiTokens, users, orgs, members, grants, links, audit, late,
                 touched, faults>>

\* The membership takes the role the session claims, up or down (map_org_role).
Join(c) ==
  /\ At(c, "join")
  /\ LET u == calls[c].user  o == calls[c].org IN
     /\ members' = {m \in members : ~(m.org = o /\ m.user = u)}
                   \cup {[org |-> o, user |-> u, role |-> Claims[calls[c].cred].role]}
     /\ late' = late \cup {d \in Calls : calls[d].user = u /\ calls[d].pc \in {"work", "insert", "done"}}
  /\ Set(c, [pc |-> "permit"])
  /\ UNCHANGED <<identity, apiTokens, users, orgs, grants, links, orgLinks, audit, touched, faults>>

\* A statement of the sign-in fails: what it has written stays.
SignInFails(c) ==
  /\ calls[c].pc \in {"new_user", "link", "org", "new_org", "link_org", "join"} /\ Fault
  /\ Set(c, [pc |-> "done", status |-> "error"])
  /\ UNCHANGED <<identity, people, audit, late, touched>>

Permit(c) ==
  /\ At(c, "permit")
  /\ IF Permitted(calls[c].user, calls[c].ask) THEN Set(c, [pc |-> "work"]) ELSE Refuse(c)
  /\ UNCHANGED <<identity, people, audit, late, touched, faults>>

-----------------------------------------------------------------------------
(* The work *)

Managing == {r.name : r \in AgentRoutes \cup TokenRoutes}

\* A read is answered, or a write is made by Forgejo, clotho-vcs or the queue.
Serve(c) ==
  /\ At(c, "work") /\ calls[c].ask.route \notin Managing
  /\ Answer(c, "ok", TRUE)
  /\ UNCHANGED <<identity, people, audit, late, touched, faults>>

\* The request or its answer is lost: the caller cannot tell which.
ServeFails(c) ==
  /\ At(c, "work") /\ calls[c].ask.route \notin Managing /\ Fault
  /\ \E effect \in BOOLEAN : Answer(c, "error", effect)
  /\ UNCHANGED <<identity, people, audit, late, touched>>

\* A name or id that is not there: no row is changed.
Miss(c) ==
  /\ At(c, "work") /\ calls[c].ask.route \in Managing \ {"create_token"}
  /\ Answer(c, "error", FALSE)
  /\ UNCHANGED <<identity, people, audit, late, touched, faults>>

CreateAgent(c, a) ==
  /\ At(c, "work") /\ calls[c].ask.route = "create_agent" /\ agents[a] = "absent"
  /\ agents' = [agents EXCEPT ![a] = "enabled"]
  /\ Answer(c, "ok", TRUE)
  /\ UNCHANGED <<tokens, people, audit, late, touched, faults>>

\* mint_token looks for an enabled agent, and then inserts.
FindAgent(c, a) ==
  /\ At(c, "work") /\ calls[c].ask.route = "mint_token" /\ agents[a] = "enabled"
  /\ Set(c, [pc |-> "insert", agent |-> a])
  /\ UNCHANGED <<identity, people, audit, late, touched, faults>>

InsertToken(c, t, s) ==
  /\ At(c, "insert") /\ tokens[t].state = "absent"
  /\ tokens' = [tokens EXCEPT ![t] = [state |-> "live", agent |-> calls[c].agent, scope |-> s]]
  /\ Answer(c, "ok", TRUE)
  /\ UNCHANGED <<agents, people, audit, late, touched, faults>>

RevokeAgentToken(c, t) ==
  /\ At(c, "work") /\ calls[c].ask.route = "revoke_agent_token"
  /\ tokens[t].state \in {"live", "expired"}
  /\ tokens' = [tokens EXCEPT ![t].state = "revoked"]
  /\ Answer(c, "ok", TRUE) /\ Overtake({t})
  /\ UNCHANGED <<agents, people, audit, faults>>

\* coalesce: a list that is not given stays.
UpdateTokenScopes(c, t, s) ==
  /\ At(c, "work") /\ calls[c].ask.route = "update_token_scopes"
  /\ tokens[t].state \in {"live", "expired"}
  /\ \E scope \in {s, [tokens[t].scope EXCEPT !.repos = s.repos],
                   [tokens[t].scope EXCEPT !.tools = s.tools]} :
       tokens' = [tokens EXCEPT ![t].scope = scope]
  /\ Answer(c, "ok", TRUE) /\ Overtake({t})
  /\ UNCHANGED <<agents, people, audit, faults>>

CreateToken(c, k) ==
  /\ At(c, "work") /\ calls[c].ask.route = "create_token" /\ apiTokens[k].state = "absent"
  /\ apiTokens' = [apiTokens EXCEPT ![k] = [state |-> "live", user |-> calls[c].user]]
  /\ Answer(c, "ok", TRUE)
  /\ UNCHANGED <<identity, users, orgs, members, grants, links, orgLinks, audit, late,
                 touched, faults>>

RevokeToken(c, k) ==
  /\ At(c, "work") /\ calls[c].ask.route = "revoke_token"
  /\ apiTokens[k].state = "live" /\ apiTokens[k].user = calls[c].user
  /\ apiTokens' = [apiTokens EXCEPT ![k].state = "revoked"]
  /\ Answer(c, "ok", TRUE) /\ Overtake({k})
  /\ UNCHANGED <<identity, users, orgs, members, grants, links, orgLinks, audit, faults>>

-----------------------------------------------------------------------------
(* What happens by itself *)

\* disable_agent: a statement of the identity store that no route offers yet.
DisableAgent(a) ==
  /\ agents[a] = "enabled"
  /\ agents' = [agents EXCEPT ![a] = "disabled"]
  /\ Overtake({t \in AgentTokens : tokens[t].agent = a})
  /\ UNCHANGED <<tokens, people, audit, calls, faults>>

\* expires_at passes.
Expire(t) ==
  /\ tokens[t].state = "live"
  /\ tokens' = [tokens EXCEPT ![t].state = "expired"]
  /\ Overtake({t})
  /\ UNCHANGED <<agents, people, audit, calls, faults>>

\* ensure_bootstrap_token: a restart of the API gateway provides the configured
\* token, also if it had been revoked.
Restart ==
  /\ Fault
  /\ apiTokens' = [apiTokens EXCEPT ![BootToken] = [state |-> "live", user |-> Operator]]
  /\ UNCHANGED <<identity, users, orgs, members, grants, links, orgLinks, audit, calls, late,
                 touched>>

Next ==
  \/ \E c \in Calls :
       \/ \E a \in Asks : (\E t \in AgentTokens : ToolCall(c, a, t)) \/ \E k \in Creds : RestCall(c, a, k)
       \/ RunTool(c) \/ Audit(c) \/ AuditFails(c) \/ Edge(c) \/ EdgeFails(c)
       \/ Resolve(c)
       \/ NewUser(c) \/ LinkUser(c) \/ FindOrg(c) \/ NewOrg(c) \/ LinkOrg(c) \/ Join(c)
       \/ SignInFails(c) \/ Permit(c) \/ Serve(c) \/ ServeFails(c) \/ Miss(c)
       \/ \E a \in Agents : CreateAgent(c, a) \/ FindAgent(c, a)
       \/ \E t \in AgentTokens : RevokeAgentToken(c, t)
       \/ \E t \in AgentTokens, s \in Scopes : InsertToken(c, t, s) \/ UpdateTokenScopes(c, t, s)
       \/ \E k \in ApiTokens : CreateToken(c, k) \/ RevokeToken(c, k)
  \/ GatewayCrash \/ Restart
  \/ \E a \in Agents : DisableAgent(a)
  \/ \E t \in AgentTokens : Expire(t)

Spec == Init /\ [][Next]_vars

-----------------------------------------------------------------------------
(* Properties *)

\* What the call's credential permits at this moment.
AllowedNow(c) ==
  LET k == calls[c].cred  a == calls[c].ask IN
  CASE k \in AgentTokens -> IF a.route = "none" THEN Active(k) /\ ScopeAllows(tokens[k].scope, a.tool, a.repo)
                            ELSE EdgeAllows(k, a)
    [] k \in ApiTokens -> apiTokens[k].state = "live" /\ Permitted(calls[c].user, a)
    [] OTHER -> Permitted(calls[c].user, a)

(* Revoking, expiring or narrowing a token, disabling an agent, demoting a  *)
(* member: none of it undoes what was done, and it comes too late for a     *)
(* call past its last check. Every other call it stops: an effect that is   *)
(* not allowed at this moment is of a call that had passed when the change  *)
(* was made. For a tool that forwards to the REST edge the last check is    *)
(* the edge's, however long ago run_tool made its own (authenticate,        *)
(* authorize, has_repo_permission).                                         *)
EffectsWereAllowed ==
  \A c \in Calls : calls[c].effect /\ ~AllowedNow(c) => c \in late

(* The tool a handler names at the edge is the tool the agent gateway       *)
(* judged: a tool call that passed run_tool is refused at the edge only if  *)
(* its token was changed on the way, or asks for an organisation's secrets, *)
(* which no token covers (authorize_if_agent, list_org_secrets).            *)
RefusalsHaveACause ==
  \A c \in Calls : calls[c].via # "rest" /\ calls[c].status = "refused"
    => c \in touched \/ calls[c].ask.route = "list_org_secrets"

(* run_tool's promise: a tool call leaves one audit entry before it is      *)
(* answered, which is "denied" only if nothing was done and "ok" only if    *)
(* the work was. The exceptions need a fault: an entry that cannot be       *)
(* written (then the caller gets an error) or a gateway that died.          *)
AuditIsTrue ==
  \A c \in Calls :
    LET entries == {e \in audit : e[1] = c} IN
    /\ Cardinality(entries) <= 1
    /\ <<c, "denied">> \in entries => ~calls[c].effect
    /\ <<c, "ok">> \in entries => calls[c].effect
    /\ calls[c].via = "mcp" /\ calls[c].pc = "done" /\ entries = {}
         => calls[c].status \in {"unauthorized", "unaudited", "lost"}
    /\ calls[c].effect /\ calls[c].via # "rest" /\ calls[c].pc = "done" /\ entries = {} => faults > 0

(* link_clerk_principal and ensure_clerk_org insert, look again and link    *)
(* without a transaction. However sign-ins overlap or fail midway, sessions *)
(* of one Clerk user become one user, sessions of one Clerk organisation    *)
(* one organisation, and who is past the sign-in is a member. A Clerk user  *)
(* whose sessions name them differently may become two: each first sign-in  *)
(* inserts the name it was given, and the last to link decides.             *)
OneName(k) ==
  \A s, t \in Sessions : Claims[s].clerk = k /\ Claims[t].clerk = k => Claims[s].name = Claims[t].name
OneSlug(o) ==
  \A s, t \in Sessions : Claims[s].org = o /\ Claims[t].org = o => Claims[s].slug = Claims[t].slug
SignedIn(c) == calls[c].cred \in Sessions /\ calls[c].pc \in {"permit", "work", "insert", "done"}
               /\ calls[c].status # "error" /\ calls[c].user # None
SignInsAgree ==
  \A c, d \in Calls : SignedIn(c) /\ SignedIn(d) =>
    LET p == Claims[calls[c].cred]  q == Claims[calls[d].cred] IN
    /\ p.clerk = q.clerk /\ OneName(p.clerk) => calls[c].user = calls[d].user
    /\ p.org = q.org /\ (p.org # None => OneSlug(p.org)) => calls[c].org = calls[d].org
    /\ p.org # None => \E m \in members : m.org = calls[c].org /\ m.user = calls[c].user

(* Listing and reading are decided by different code (one SQL statement,    *)
(* two lookups and a rank): everyone lists exactly what they can read.      *)
ListingAgreesWithReading ==
  /\ \A u \in {x.id : x \in users} \cup {None} : AccessibleRepos(u) = {r \in Repos : CanRead(u, r)}
  /\ \A t \in AgentTokens : Active(t) /\ {"list_repos", "get_tree"} \subseteq tokens[t].scope.tools
       => AgentRepos(tokens[t].scope)
            = {r \in Repos : EdgeAllows(t, [tool |-> "none", route |-> "get_tree", repo |-> r])}

(* Where two pieces of code decide the same thing they agree, in a typed    *)
(* state: the gateway and the edge on a tool call, listing and reading on a *)
(* repository (authorize_if_agent, list_accessible_repos_with_orgs).        *)
DecisionsAgree == TypeOK /\ RefusalsHaveACause /\ ListingAgreesWithReading

=============================================================================
