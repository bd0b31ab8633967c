---------------------------- MODULE AccessProofs ----------------------------
(***************************************************************************)
(* Theorems about Access, for all repositories, credentials, sessions,     *)
(* calls, asks and scopes, and any number of faults.                       *)
(*                                                                         *)
(* The argument is one inductive invariant, IInv. Its heart is Good, which *)
(* speaks of one call: where it can be, what its last check has found and  *)
(* whether that is still so, what its audit entry says, and which rows its *)
(* sign-in has made. A step moves one call or changes one table, so most   *)
(* of the proof is in three lemmas: OtherKept, on what a change of a table *)
(* leaves a call that does not move; Answered, on a call that is answered; *)
(* and Changed, which puts the invariant together after a step.            *)
(***************************************************************************)
EXTENDS Access, FiniteSetTheorems, TLAPS

SigningIn == {"new_user", "link", "org", "new_org", "link_org", "join"}

\* Where a call can be, by the way it came and what it came with.
Shape(c) ==
  LET d == calls[c] IN
  /\ d.pc = "idle" => d = NoCall
  /\ d.pc # "idle" => d.ask \in Asks /\ d.cred \in Creds
  /\ d.via # "rest" => d.cred \in AgentTokens /\ d.ask.tool # "none"
  /\ d.pc # "idle" /\ d.via = "rest" => d.ask.tool = "none"
  /\ d.via = "orphan" => d.pc \in {"edge", "work", "done"} /\ faults > 0
  /\ d.pc \in {"tool", "audit"} => d.via = "mcp"
  /\ d.pc = "edge" => d.cred \in AgentTokens /\ d.ask.route # "none"
  /\ d.pc \in {"resolve", "permit", "insert"} \cup SigningIn => d.via = "rest" /\ d.cred \notin AgentTokens
  /\ d.pc \in SigningIn => d.cred \in Sessions
  /\ d.cred \in AgentTokens /\ d.pc = "work" => d.ask.route \notin Managing
  /\ d.effect => d.pc \in {"audit", "done"}
  /\ d.pc = "insert" => d.agent \in Agents

\* The scope the call was authenticated with is still its token's.
Current(c) == Active(calls[c].cred) /\ tokens[calls[c].cred].scope = calls[c].scope

\* What a check has found is still so, or a change came too late for the call.
Checked(c) ==
  LET d == calls[c] IN
  /\ d.pc = "tool" /\ d.ask.route = "none" => Current(c) \/ c \in late
  /\ d.pc = "permit" /\ d.cred \in ApiTokens => apiTokens[d.cred].state = "live" \/ c \in late
  /\ d.pc \in {"work", "insert"} \/ d.effect => AllowedNow(c) \/ c \in late

\* A tool call on its way to the edge passes there, unless its token was changed.
Refusable(c) ==
  LET d == calls[c] IN
  /\ d.via # "rest" /\ d.pc \in {"tool", "edge"} => Current(c) \/ c \in touched
  /\ d.via # "rest" /\ d.pc = "edge" => ScopeAllows(d.scope, d.ask.tool, d.ask.repo)
  /\ d.via # "rest" /\ d.status = "refused" => c \in touched \/ d.ask.route = "list_org_secrets"

\* The entry of a call says what came of it, and it is the only one.
Audited(c) ==
  LET d == calls[c]
      entries == {r \in {"ok", "denied", "error"} : <<c, r>> \in audit}
  IN  /\ \A r \in entries : /\ d.pc = "done" /\ d.via = "mcp"
                            /\ r = "denied" => ~d.effect
                            /\ r = "ok" => d.effect
      /\ \A r, s \in entries : r = s
      /\ d.pc = "audit" => (d.status = "ok" => d.effect) /\ (d.status = "denied" => ~d.effect)
      /\ d.via = "mcp" /\ d.pc = "done" /\ entries = {} =>
           d.status \in {"unauthorized", "unaudited", "lost"} /\ (d.effect => faults > 0)

\* A signed-in user has a row under the session's name, an organisation one under
\* its slug; past the sign-in the one is a member of the other.
Joined(c) ==
  LET d == calls[c]  p == Claims[d.cred] IN
  d.cred \in Sessions =>
    /\ d.user # None /\ OneName(p.clerk) => [id |-> d.user, name |-> p.name] \in users
    /\ d.org # None => p.org # None /\ (OneSlug(p.org) => [id |-> d.org, name |-> p.slug] \in orgs)
    /\ d.pc \in SigningIn \ {"new_user"} => d.user # None
    /\ d.pc \in {"org", "new_org", "link_org", "join"} => p.org # None
    /\ d.pc \in {"link_org", "join"} => d.org # None
    /\ d.user # None /\ p.org # None
       /\ (d.pc \in {"permit", "work", "insert"} \/ (d.pc = "done" /\ d.status # "error")) =>
         d.org # None /\ \E m \in members : m.org = d.org /\ m.user = d.user

\* Names are unique, and a link leads to the row of the name it was made for.
Rows ==
  /\ \A u, v \in users : u.name = v.name => u = v
  /\ \A o, p \in orgs : o.name = p.name => o = p
  /\ \A s \in Sessions : links[Claims[s].clerk] # None /\ OneName(Claims[s].clerk) =>
       [id |-> links[Claims[s].clerk], name |-> Claims[s].name] \in users
  /\ \A s \in Sessions :
       Claims[s].org # None /\ orgLinks[Claims[s].org] # None /\ OneSlug(Claims[s].org) =>
         [id |-> orgLinks[Claims[s].org], name |-> Claims[s].slug] \in orgs

\* A token is an agent's.
Bound == \A t \in AgentTokens : tokens[t].state # "absent" => tokens[t].agent \in Agents

Good(c) == Shape(c) /\ Checked(c) /\ Refusable(c) /\ Audited(c) /\ Joined(c)

IInv == TypeOK /\ Rows /\ Bound /\ \A c \in Calls : Good(c)

-----------------------------------------------------------------------------
(* The table of routes *)

\* An ask that names a route names one of the edge's. (router_with_pool)
LEMMA RouteOfAsk ==
  ASSUME NEW a \in Asks, a.route # "none"
  PROVE  RouteOf(a) \in Routes /\ RouteOf(a).name = a.route
  <1>1. \E r \in Routes : r.name = a.route
    BY AsksAssumption
  <1>2. QED
    BY <1>1, Zenon DEF RouteOf

\* The edge asks for the tool that the agent gateway judged, except for an
\* organisation's secrets. (authorize_if_agent)
LEMMA ToolOfRoute ==
  ASSUME NEW r \in Routes, NEW t \in Tools, t.route = r.name, r.name # "list_org_secrets"
  PROVE  r.tool = t.name /\ r.need # "org"
  BY DEF Routes, IssueRoutes, LabelRoutes, MilestoneRoutes, StatusRoutes, PullRoutes, RunRoutes,
         WriteRoutes, ReadRoutes, ListRoutes, SecretRoutes, TokenRoutes, AgentRoutes, Route,
         Tools, CommitTools, CheckpointTools, OrientTools, IssueTools, PullTools, ActionTools,
         PlatformTools, SecretTools, ReadTools, Tool

\* No route that manages agents or tokens admits an agent. (authorize_if_agent)
LEMMA ManagingRoutes ==
  ASSUME NEW r \in Routes, r.name \in Managing
  PROVE  r.tool = "none"
  BY DEF Routes, IssueRoutes, LabelRoutes, MilestoneRoutes, StatusRoutes, PullRoutes, RunRoutes,
         WriteRoutes, ReadRoutes, ListRoutes, SecretRoutes, TokenRoutes, AgentRoutes, Route, Managing

\* Their names.
LEMMA ManagingNames ==
  Managing = {"create_agent", "mint_token", "revoke_agent_token", "update_token_scopes",
              "create_token", "revoke_token"}
  BY DEF Managing, AgentRoutes, TokenRoutes, Route

\* What a route may need of a human. (require_repo_permission)
LEMMA NeedOfRoute ==
  ASSUME NEW r \in Routes
  PROVE  r.need \in {"read", "write", "admin", "any", "self", "agents", "org"}
  BY DEF Routes, IssueRoutes, LabelRoutes, MilestoneRoutes, StatusRoutes, PullRoutes, RunRoutes,
         WriteRoutes, ReadRoutes, ListRoutes, SecretRoutes, TokenRoutes, AgentRoutes, Route

\* The route that reads a tree. (get_tree)
LEMMA TreeRoute ==
  ASSUME NEW a, a.route = "get_tree"
  PROVE  RouteOf(a).need = "read" /\ RouteOf(a).tool = "get_tree"
  <1>1. /\ \E r \in Routes : r.name = "get_tree"
        /\ \A r \in Routes : r.name = "get_tree" => r.need = "read" /\ r.tool = "get_tree"
    BY DEF Routes, IssueRoutes, LabelRoutes, MilestoneRoutes, StatusRoutes, PullRoutes, RunRoutes,
           WriteRoutes, ReadRoutes, ListRoutes, SecretRoutes, TokenRoutes, AgentRoutes, Route
  <1>2. QED
    BY <1>1, Zenon DEF RouteOf

\* A call for nothing is no tool's. (run_tool)
LEMMA ToolAsks ==
  ASSUME NEW a \in Asks, a.tool # "none"
  PROVE  /\ a.route \notin Managing
         /\ a.route \notin {"none", "list_org_secrets"} =>
              RouteOf(a).tool = a.tool /\ RouteOf(a).need # "org"
  <1>1. Tool(a.tool, a.route) \in Tools
    BY AsksAssumption
  <1>2. Tool(a.tool, a.route).name = a.tool /\ Tool(a.tool, a.route).route = a.route
    BY DEF Tool
  <1>3. \A t \in Tools : t.route \notin Managing
    BY ManagingNames DEF Tools, CommitTools, CheckpointTools, OrientTools, IssueTools, PullTools, ActionTools,
                          PlatformTools, SecretTools, ReadTools, Tool
  <1>4. QED
    BY <1>1, <1>2, <1>3, RouteOfAsk, ToolOfRoute

-----------------------------------------------------------------------------
(* What a step leaves a call *)

\* A permission is looked up in the memberships of the user and in the grants: where
\* neither is changed the answer stays. (require_repo_permission)
LEMMA PermittedKept ==
  ASSUME NEW c \in Calls, calls'[c].user = calls[c].user, calls'[c].ask = calls[c].ask,
         grants' = grants, calls[c].ask \in Asks, calls[c].ask.route # "none",
         \A m \in members \cup members' : m.user = calls[c].user => (m \in members <=> m \in members'),
         Permitted(calls[c].user, calls[c].ask)
  PROVE  Permitted(calls[c].user, calls[c].ask)'
  <1> DEFINE u == calls[c].user
             a == calls[c].ask
  <1>1. \A o, role : [org |-> o, user |-> u, role |-> role] \in members
                       <=> [org |-> o, user |-> u, role |-> role] \in members'
    BY SMT
  <1>2. \A o : IsOrgAdmin(u, o) <=> IsOrgAdmin(u, o)'
    BY <1>1 DEF IsOrgAdmin
  <1>3. IsAgentAdmin(u) <=> IsAgentAdmin(u)'
    BY DEF IsAgentAdmin
  <1>4. \A r, least : HasRepoPermission(u, r, least) <=> HasRepoPermission(u, r, least)'
    BY <1>2 DEF HasRepoPermission
  <1>5. \A r : CanRead(u, r) <=> CanRead(u, r)'
    BY <1>4 DEF CanRead
  <1>6. RouteOf(a)' = RouteOf(a)
    BY DEF RouteOf
  <1>7. RouteOf(a).need \in {"read", "write", "admin", "any", "self", "agents", "org"}
    BY RouteOfAsk, NeedOfRoute
  <1>8. QED
    BY <1>2, <1>3, <1>4, <1>5, <1>6, <1>7 DEF Permitted

\* What a credential permits stays permitted while its token, agent and user keep
\* what they have. (authenticate, authorize, has_repo_permission)
LEMMA AllowedKept ==
  ASSUME NEW c \in Calls, calls'[c].cred = calls[c].cred, calls'[c].user = calls[c].user,
         calls'[c].ask = calls[c].ask, grants' = grants, calls[c].ask \in Asks,
         \A t \in AgentTokens : t = calls[c].cred /\ Active(t) =>
           Active(t)' /\ tokens'[t].scope = tokens[t].scope,
         \A k \in ApiTokens : k = calls[c].cred /\ apiTokens[k].state = "live" =>
           apiTokens'[k].state = "live",
         calls[c].cred \notin AgentTokens => calls[c].ask.tool = "none",
         calls[c].cred \notin AgentTokens =>
           \A m \in members \cup members' :
             m.user = calls[c].user => (m \in members <=> m \in members'),
         AllowedNow(c)
  PROVE  AllowedNow(c)'
  <1>1. calls[c].cred \notin AgentTokens /\ Permitted(calls[c].user, calls[c].ask) =>
          Permitted(calls[c].user, calls[c].ask)'
    BY PermittedKept, AsksAssumption
  <1>2. CASE calls[c].cred \in AgentTokens
    <2> DEFINE t == calls[c].cred
               a == calls[c].ask
    <2>1. calls[c].cred \notin ApiTokens
      BY <1>2, CredsAssumption
    <2>2. RouteOf(a)' = RouteOf(a)
      BY DEF RouteOf
    <2>3. CASE a.route = "none"
      BY <1>2, <2>1, <2>3 DEF AllowedNow, ScopeAllows
    <2>4. CASE a.route # "none"
      BY <1>2, <2>1, <2>2, <2>4 DEF AllowedNow, EdgeAllows, ScopeAllows
    <2>5. QED
      BY <2>3, <2>4
  <1>3. CASE calls[c].cred \in ApiTokens \ AgentTokens
    BY <1>1, <1>3 DEF AllowedNow
  <1>4. CASE calls[c].cred \notin ApiTokens \cup AgentTokens
    BY <1>1, <1>4 DEF AllowedNow
  <1>5. QED
    BY <1>2, <1>3, <1>4

\* A change of the call's credential is entered for it: as too late, if the call is
\* past the check on the credential, and as made on the way. (authenticate)
PastCheck(c) ==
  LET d == calls[c] IN
  \/ d.cred \in ApiTokens /\ d.pc \in {"permit", "work", "insert", "done"}
  \/ d.cred \in AgentTokens /\ d.ask.route = "none" /\ d.pc \in {"tool", "work", "audit", "done"}
  \/ /\ d.cred \notin ApiTokens /\ ~(d.cred \in AgentTokens /\ d.ask.route = "none")
     /\ d.pc \in {"work", "audit", "done"}
Entered(c) ==
  /\ PastCheck(c) => c \in late'
  /\ calls[c].pc # "done" => c \in touched'

\* What the checks on the credential of c have found stays so, or is entered.
TokensKept(c) ==
  /\ \A t \in AgentTokens : t = calls[c].cred /\ Active(t) =>
       \/ Active(t)' /\ tokens'[t].scope = tokens[t].scope
       \/ Entered(c)
  /\ \A k \in ApiTokens : k = calls[c].cred /\ apiTokens[k].state = "live" =>
       apiTokens'[k].state = "live" \/ Entered(c)

\* So with the memberships of its user.
MembersKept(c) ==
  calls[c].cred \notin AgentTokens =>
    \/ \A m \in members \cup members' :
         m.user = calls[c].user => (m \in members <=> m \in members')
    \/ calls[c].pc \in {"work", "insert", "done"} => c \in late'

\* Rows of users and organisations stay, and so do memberships but for their role.
RowsKept ==
  /\ users \subseteq users' /\ orgs \subseteq orgs'
  /\ \A m \in members : \E n \in members' : n.org = m.org /\ n.user = m.user

\* What the last check has found is still so, or the change is entered. (EdgeAllows,
\* HasRepoPermission)
LEMMA PassedKept ==
  ASSUME NEW c \in Calls, Shape(c), calls'[c].cred = calls[c].cred, calls'[c].user = calls[c].user,
         calls'[c].ask = calls[c].ask, grants' = grants, late \subseteq late',
         TokensKept(c), MembersKept(c), calls[c].pc # "idle",
         calls[c].pc \in {"work", "insert"} \/ calls[c].effect,
         AllowedNow(c) \/ c \in late
  PROVE  AllowedNow(c)' \/ c \in late'
  <1>1. CASE c \in late
    BY <1>1
  <1>2. CASE c \in late'
    BY <1>2
  <1>3. CASE AllowedNow(c) /\ c \notin late'
    <2>1. calls[c].ask \in Asks /\ (calls[c].cred \notin AgentTokens => calls[c].ask.tool = "none")
      BY DEF Shape
    <2>2. calls[c].pc \in {"work", "insert", "audit", "done"}
      BY DEF Shape
    <2>3. calls[c].cred \in AgentTokens => calls[c].pc \in {"work", "audit", "done"}
      BY <2>2 DEF Shape
    <2>4. calls[c].cred \notin AgentTokens => calls[c].pc \in {"work", "insert", "done"}
      BY <2>2 DEF Shape
    <2>5. calls[c].cred \in AgentTokens \cup ApiTokens => PastCheck(c)
      BY <2>3, <2>4, CredsAssumption DEF PastCheck
    <2>6. calls[c].cred \in AgentTokens \cup ApiTokens => ~Entered(c)
      BY <1>3, <2>5 DEF Entered
    <2>7. calls[c].cred \notin AgentTokens =>
            \A m \in members \cup members' :
              m.user = calls[c].user => (m \in members <=> m \in members')
      BY <1>3, <2>4 DEF MembersKept
    <2>8. /\ \A t \in AgentTokens : t = calls[c].cred /\ Active(t) =>
               Active(t)' /\ tokens'[t].scope = tokens[t].scope
          /\ \A k \in ApiTokens : k = calls[c].cred /\ apiTokens[k].state = "live" =>
               apiTokens'[k].state = "live"
      BY <2>6 DEF TokensKept
    <2>9. QED
      BY <1>3, <2>1, <2>7, <2>8, AllowedKept
  <1>4. QED
    BY <1>1, <1>2, <1>3

\* A call that a step does not move stays good, whatever tables the step changes.
LEMMA OtherKept ==
  ASSUME NEW c \in Calls, Good(c), calls'[c] = calls[c], grants' = grants,
         late \subseteq late', touched \subseteq touched', faults > 0 => faults' > 0,
         \A r \in {"ok", "denied", "error"} : <<c, r>> \in audit' <=> <<c, r>> \in audit,
         RowsKept, calls[c].pc # "idle" => TokensKept(c) /\ MembersKept(c)
  PROVE  Good(c)'
  <1>1. Shape(c)'
    BY DEF Good, Shape
  <1>2. Audited(c)'
    BY DEF Good, Audited
  <1>3. Joined(c)'
    BY DEF Good, Joined, RowsKept
  <1>4. CASE calls[c].pc = "idle"
    <2>1. Checked(c)'
      BY <1>4 DEF Good, Shape, Checked, NoCall
    <2>2. Refusable(c)'
      BY <1>4 DEF Good, Shape, Refusable, NoCall
    <2>3. QED
      BY <1>1, <1>2, <1>3, <2>1, <2>2 DEF Good
  <1>5. CASE calls[c].pc # "idle"
    <2>1. calls[c].cred \in AgentTokens /\ Current(c) => Current(c)' \/ Entered(c)
      BY <1>5 DEF Current, TokensKept
    <2>2. calls[c].pc \in {"tool", "edge"} => calls[c].cred \in AgentTokens
      BY DEF Good, Shape
    <2>3. Checked(c)'
      <3>1. calls[c].pc = "tool" /\ calls[c].ask.route = "none" => Current(c)' \/ c \in late'
        BY <2>1, <2>2 DEF Good, Checked, Entered, PastCheck
      <3>2. calls[c].pc = "permit" /\ calls[c].cred \in ApiTokens =>
              apiTokens'[calls[c].cred].state = "live" \/ c \in late'
        BY <1>5 DEF Good, Checked, TokensKept, Entered, PastCheck
      <3>3. calls[c].pc \in {"work", "insert"} \/ calls[c].effect => AllowedNow(c)' \/ c \in late'
        BY <1>5, PassedKept DEF Good, Checked
      <3>4. QED
        BY <3>1, <3>2, <3>3 DEF Checked
    <2>4. Refusable(c)'
      BY <2>1, <2>2 DEF Good, Refusable, Entered, ScopeAllows
    <2>5. QED
      BY <1>1, <1>2, <1>3, <2>3, <2>4 DEF Good
  <1>6. QED
    BY <1>4, <1>5

-----------------------------------------------------------------------------
(* The initial states *)

\* No call is made yet, and nobody has signed in. (ensure_bootstrap)
LEMMA InitIInv == Init => IInv
  <1> SUFFICES ASSUME Init PROVE IInv
    OBVIOUS
  <1> USE TablesAssumption
  <1>1. TypeOK
    <2>1. NoScope \in Scope
      BY DEF NoScope, Scope
    <2>2. NoTokens \in [AgentTokens -> [state : {"absent", "live", "revoked", "expired"},
                                        agent : Agents \cup {None}, scope : Scope]]
      BY <2>1 DEF NoTokens
    <2>3. /\ agents \in [Agents -> {"absent", "enabled", "disabled"}]
          /\ tokens \in [AgentTokens -> [state : {"absent", "live", "revoked", "expired"},
                                         agent : Agents \cup {None}, scope : Scope]]
      <3>1. CASE agents = [a \in Agents |-> "absent"] /\ tokens = NoTokens
        BY <2>2, <3>1
      <3>2. ASSUME NEW t \in AgentTokens, NEW a \in Agents, NEW s \in Scopes,
                   tokens = [NoTokens EXCEPT ![t] = [state |-> "live", agent |-> a, scope |-> s]]
            PROVE  tokens \in [AgentTokens -> [state : {"absent", "live", "revoked", "expired"},
                                               agent : Agents \cup {None}, scope : Scope]]
        <4>1. s \in Scope
          BY ScopesAssumption
        <4>2. QED
          BY <2>2, <3>2, <4>1
      <3>3. QED
        BY <3>1, <3>2 DEF Init
    <2>4. NoCall \in Call
      BY <2>1 DEF NoCall, Call, Label, Creds, Status
    <2>5. calls \in [Calls -> Call]
      BY <2>4 DEF Init
    <2>6. /\ apiTokens \in [ApiTokens -> [state : {"absent", "live", "revoked"},
                                          user : UserId \cup {None}]]
          /\ grants \subseteq [repo : Repos, user : UserId, permission : {"read", "write", "admin"}]
      BY DEF Init, UserId
    <2>7. /\ users \subseteq [id : UserId, name : Names]
          /\ orgs \subseteq [id : OrgId, name : OrgNames]
          /\ members \subseteq [org : OrgId, user : UserId, role : {"admin", "member"}]
      BY DEF Init, UserId, Names, OrgId, OrgNames
    <2>8. /\ links \in [ClerkUsers -> UserId \cup {None}]
          /\ orgLinks \in [ClerkOrgs -> OrgId \cup {None}]
          /\ audit \subseteq Calls \X {"ok", "denied", "error"}
          /\ late \subseteq Calls /\ touched \subseteq Calls /\ faults \in 0 .. MaxFaults
      BY DEF Init
    <2>9. QED
      BY <2>3, <2>5, <2>6, <2>7, <2>8 DEF TypeOK
  <1>2. Rows
    <2>1. \A s \in Sessions : links[Claims[s].clerk] = None
      BY DEF Init, ClerkUsers
    <2>2. \A s \in Sessions : Claims[s].org # None => orgLinks[Claims[s].org] = None
      BY DEF Init, ClerkOrgs
    <2>3. /\ \A u, v \in users : u.name = v.name => u = v
          /\ \A o, p \in orgs : o.name = p.name => o = p
      BY DEF Init
    <2>4. QED
      BY <2>1, <2>2, <2>3 DEF Rows
  <1>3. ASSUME NEW c \in Calls PROVE Good(c)
    <2>1. calls[c] = NoCall /\ audit = {}
      BY DEF Init
    <2>2. calls[c].cred \notin Sessions
      BY <2>1 DEF NoCall
    <2>3. Shape(c) /\ Checked(c) /\ Refusable(c) /\ Audited(c)
      BY <2>1 DEF Shape, Checked, Refusable, Audited, NoCall, SigningIn
    <2>4. Joined(c)
      BY <2>2 DEF Joined
    <2>5. QED
      BY <2>3, <2>4 DEF Good
  <1>4. Bound
    <2>1. CASE tokens = NoTokens
      BY <2>1 DEF NoTokens, Bound
    <2>2. ASSUME NEW t \in AgentTokens, NEW a \in Agents, NEW s \in Scopes,
                 tokens = [NoTokens EXCEPT ![t] = [state |-> "live", agent |-> a, scope |-> s]]
          PROVE  Bound
      BY <2>2 DEF NoTokens, Bound
    <2>3. QED
      BY <2>1, <2>2 DEF Init
  <1>5. QED
    BY <1>1, <1>2, <1>3, <1>4 DEF IInv

-----------------------------------------------------------------------------
(* Steps that move one call and change no table *)

\* A fault is counted, within the bound.
LEMMA FaultType ==
  ASSUME TypeOK, Fault
  PROVE  faults' \in 0 .. MaxFaults /\ faults' > 0
  BY TablesAssumption DEF TypeOK, Fault

\* A step keeps the invariant if the rows it leaves are sound, the calls it moves are
\* good, and what the checks of the others have found stays or is entered.
LEMMA Changed ==
  ASSUME IInv, TypeOK', Rows', Bound', NEW C,
         \A d \in Calls \cap C : Good(d)',
         \A d \in Calls \ C :
           /\ calls'[d] = calls[d]
           /\ calls[d].pc # "idle" => TokensKept(d) /\ MembersKept(d)
           /\ \A r \in {"ok", "denied", "error"} : <<d, r>> \in audit' <=> <<d, r>> \in audit,
         RowsKept, grants' = grants, late \subseteq late', touched \subseteq touched',
         faults > 0 => faults' > 0
  PROVE  IInv'
  <1>1. ASSUME NEW d \in Calls \ C PROVE Good(d)'
    BY <1>1, OtherKept DEF IInv
  <1>2. QED
    BY <1>1 DEF IInv

\* The same where at most one call moves and none is audited.
LEMMA ChangedOne ==
  ASSUME IInv, TypeOK', Rows', Bound', NEW c,
         c \in Calls => Good(c)', \A d \in Calls \ {c} : calls'[d] = calls[d],
         \A d \in Calls : calls[d].pc # "idle" => TokensKept(d) /\ MembersKept(d),
         RowsKept, grants' = grants, audit' = audit, late \subseteq late',
         touched \subseteq touched', faults > 0 => faults' > 0
  PROVE  IInv'
  <1>1. \A d \in Calls \cap {c} : Good(d)'
    OBVIOUS
  <1>2. \A d \in Calls \ {c} :
          /\ calls'[d] = calls[d]
          /\ calls[d].pc # "idle" => TokensKept(d) /\ MembersKept(d)
          /\ \A r \in {"ok", "denied", "error"} : <<d, r>> \in audit' <=> <<d, r>> \in audit
    OBVIOUS
  <1>3. QED
    BY <1>1, <1>2, Changed

\* A step that moves one call and changes no table keeps it if that call is good.
LEMMA Moved ==
  ASSUME IInv, NEW c \in Calls, calls' \in [Calls -> Call],
         \A d \in Calls \ {c} : calls'[d] = calls[d],
         UNCHANGED <<identity, people, audit, late, touched>>,
         UNCHANGED faults \/ Fault, Good(c)'
  PROVE  IInv'
  <1>1. faults' \in 0 .. MaxFaults /\ (faults > 0 => faults' > 0)
    BY FaultType DEF IInv, TypeOK
  <1>2. TypeOK'
    BY <1>1 DEF IInv, TypeOK, identity, people
  <1>3. Rows' /\ Bound'
    BY DEF IInv, Rows, Bound, identity, people
  <1>4. RowsKept /\ \A d \in Calls : TokensKept(d) /\ MembersKept(d)
    BY DEF RowsKept, TokensKept, MembersKept, Active, identity, people
  <1>5. late \subseteq late' /\ touched \subseteq touched' /\ audit' = audit /\ grants' = grants
    BY DEF people
  <1>6. QED
    BY <1>1, <1>2, <1>3, <1>4, <1>5, ChangedOne

\* The calls have their type.
LEMMA CallsTyped == IInv => calls \in [Calls -> Call]
  BY DEF IInv, TypeOK

\* What With returns is a call if its fields have their types.
LEMMA WithType ==
  ASSUME NEW r \in Call, NEW f, NEW v, v = With(r, f),
         v.pc \in Label, v.via \in {"mcp", "rest", "orphan"}, v.cred \in Creds,
         v.ask \in Asks \cup {None}, v.scope \in Scope, v.user \in UserId \cup {None},
         v.org \in OrgId \cup {None}, v.status \in Status, v.effect \in BOOLEAN,
         v.agent \in Agents \cup {None}
  PROVE  v \in Call
  <1>1. DOMAIN r = {"pc", "via", "cred", "ask", "scope", "user", "org", "status", "effect", "agent"}
    BY DEF Call
  <1>2. v = [pc |-> v.pc, via |-> v.via, cred |-> v.cred, ask |-> v.ask, scope |-> v.scope,
             user |-> v.user, org |-> v.org, status |-> v.status, effect |-> v.effect,
             agent |-> v.agent]
    BY <1>1 DEF With
  <1>3. QED
    BY <1>2 DEF Call

\* Set leaves a call a call if the fields it sets have their types.
LEMMA SetType ==
  ASSUME TypeOK, NEW c \in Calls, NEW f, Set(c, f),
         calls'[c].pc \in Label, calls'[c].via \in {"mcp", "rest", "orphan"},
         calls'[c].cred \in Creds, calls'[c].ask \in Asks \cup {None},
         calls'[c].scope \in Scope, calls'[c].user \in UserId \cup {None},
         calls'[c].org \in OrgId \cup {None}, calls'[c].status \in Status,
         calls'[c].effect \in BOOLEAN, calls'[c].agent \in Agents \cup {None}
  PROVE  calls' \in [Calls -> Call] /\ \A d \in Calls \ {c} : calls'[d] = calls[d]
  <1> DEFINE v == With(calls[c], f)
  <1>1. calls \in [Calls -> Call] /\ calls' = [calls EXCEPT ![c] = v]
    BY DEF TypeOK, Set
  <1>2. calls[c] \in Call /\ calls'[c] = v
    BY <1>1
  <1> HIDE DEF v
  <1>3. v \in Call
    <2>1. v = With(calls[c], f)
      BY DEF v
    <2>2. QED
      BY <1>2, <2>1, WithType
  <1>4. QED
    BY <1>1, <1>3


\* An answered call is good if its work was permitted when it was done, and if a
\* tool call is refused for a reason. (run_tool, require_repo_permission)
LEMMA Answered ==
  ASSUME IInv, NEW c \in Calls, NEW s \in {"ok", "error", "refused"}, NEW e \in BOOLEAN,
         Answer(c, s, e), s = "ok" => e,
         calls[c].pc \in {"edge", "resolve", "permit", "work", "insert"},
         calls[c].pc = "resolve" => calls[c].cred \notin Sessions,
         e => calls[c].pc \in {"work", "insert"} /\ TokensKept(c) /\ MembersKept(c),
         s = "refused" /\ calls[c].via # "rest" =>
           c \in touched \/ calls[c].ask.route = "list_org_secrets",
         grants' = grants, late \subseteq late', touched \subseteq touched',
         faults > 0 => faults' > 0, audit' = audit, RowsKept
  PROVE  calls' \in [Calls -> Call] /\ (\A d \in Calls \ {c} : calls'[d] = calls[d]) /\ Good(c)'
  <1> USE TablesAssumption, CredsAssumption
  <1> DEFINE next == IF calls[c].via = "mcp" THEN "audit" ELSE "done"
  <1>1. Good(c)
    BY DEF IInv
  <1>2. Set(c, [pc |-> next, status |-> s, effect |-> e])
    BY DEF Answer
  <1>3. /\ calls'[c].pc = next /\ calls'[c].status = s /\ calls'[c].effect = e
        /\ calls'[c].via = calls[c].via /\ calls'[c].cred = calls[c].cred
        /\ calls'[c].ask = calls[c].ask /\ calls'[c].scope = calls[c].scope
        /\ calls'[c].user = calls[c].user /\ calls'[c].org = calls[c].org
        /\ calls'[c].agent = calls[c].agent
    BY <1>2, CallsTyped DEF Call, Set, With
  <1>4. calls[c] \in Call /\ calls'[c].pc \in Label /\ calls'[c].status \in Status
    BY <1>3, CallsTyped DEF Label, Status, Call
  <1>5. calls' \in [Calls -> Call] /\ \A d \in Calls \ {c} : calls'[d] = calls[d]
    BY <1>2, <1>3, <1>4, SetType DEF IInv, Call
  <1>6. Shape(c)'
    BY <1>1, <1>3 DEF Good, Shape, SigningIn
  <1>7. Checked(c)'
    <2>1. e => AllowedNow(c) \/ c \in late
      BY <1>1 DEF Good, Checked
    <2>2. e => AllowedNow(c)' \/ c \in late'
      BY <1>1, <1>3, <2>1, PassedKept DEF Good
    <2>3. QED
      BY <1>3, <2>2 DEF Checked
  <1>8. Refusable(c)'
    BY <1>1, <1>3 DEF Good, Refusable
  <1>9. Audited(c)'
    BY <1>1, <1>3 DEF Good, Audited
  <1>10. Joined(c)'
    <2>1. calls[c].cred \in Sessions => calls[c].pc \in {"permit", "work", "insert"}
      BY <1>1 DEF Good, Shape
    <2>2. Joined(c)
      BY <1>1 DEF Good
    <2>3. QED
      BY <1>3, <2>1, <2>2 DEF Joined, RowsKept, SigningIn
  <1>11. QED
    BY <1>5, <1>6, <1>7, <1>8, <1>9, <1>10 DEF Good

\* The same for a step that changes no table.
LEMMA MovedAnswer ==
  ASSUME IInv, NEW c \in Calls, NEW s \in {"ok", "error", "refused"}, NEW e \in BOOLEAN,
         Answer(c, s, e), s = "ok" => e,
         calls[c].pc \in {"edge", "resolve", "permit", "work", "insert"},
         calls[c].pc = "resolve" => calls[c].cred \notin Sessions,
         e => calls[c].pc \in {"work", "insert"},
         s = "refused" /\ calls[c].via # "rest" =>
           c \in touched \/ calls[c].ask.route = "list_org_secrets",
         UNCHANGED <<identity, people, audit, late, touched>>,
         UNCHANGED faults \/ Fault
  PROVE  IInv'
  <1>1. RowsKept /\ TokensKept(c) /\ MembersKept(c) /\ grants' = grants
    BY DEF RowsKept, TokensKept, MembersKept, Active, identity, people
  <1>2. faults > 0 => faults' > 0
    BY FaultType DEF IInv
  <1>3. calls' \in [Calls -> Call] /\ (\A d \in Calls \ {c} : calls'[d] = calls[d]) /\ Good(c)'
    BY <1>1, <1>2, Answered
  <1>4. QED
    BY <1>3, Moved

\* What the last check has found stays where no table changes.
LEMMA PassedStill ==
  ASSUME IInv, NEW c \in Calls, calls[c].pc # "idle",
         calls'[c].cred = calls[c].cred, calls'[c].user = calls[c].user,
         calls'[c].ask = calls[c].ask, UNCHANGED <<identity, people, late>>,
         calls[c].pc \in {"work", "insert"} \/ calls[c].effect
  PROVE  AllowedNow(c)' \/ c \in late'
  <1>1. TokensKept(c) /\ MembersKept(c) /\ grants' = grants
    BY DEF TokensKept, MembersKept, Active, identity, people
  <1>2. QED
    BY <1>1, PassedKept DEF IInv, Good, Checked

\* The edge's answer is a matter of agents, tokens and routes.
LEMMA EdgeSame ==
  ASSUME UNCHANGED identity, NEW c \in Calls, calls'[c].cred = calls[c].cred,
         calls'[c].ask = calls[c].ask
  PROVE  EdgeAllows(calls[c].cred, calls[c].ask)' <=> EdgeAllows(calls[c].cred, calls[c].ask)
  <1>1. RouteOf(calls[c].ask)' = RouteOf(calls[c].ask)
    BY DEF RouteOf
  <1>2. QED
    BY <1>1 DEF EdgeAllows, Active, ScopeAllows, identity

\* A tool that forwards names at the edge the tool its call was judged by: if the edge
\* refuses, the token was changed on the way, or no token would do. (authorize_if_agent)
LEMMA RefusedForCause ==
  ASSUME NEW c \in Calls, Good(c), calls[c].pc = "edge", calls[c].via # "rest",
         ~EdgeAllows(calls[c].cred, calls[c].ask)
  PROVE  c \in touched \/ calls[c].ask.route = "list_org_secrets"
  <1> DEFINE a == calls[c].ask
  <1>1. a \in Asks /\ a.tool # "none" /\ a.route # "none" /\ (Current(c) \/ c \in touched)
        /\ ScopeAllows(calls[c].scope, a.tool, a.repo)
    BY DEF Good, Shape, Refusable
  <1>2. a.route = "list_org_secrets" \/ (RouteOf(a).tool = a.tool /\ RouteOf(a).need # "org")
    BY <1>1, ToolAsks
  <1>3. QED
    BY <1>1, <1>2 DEF EdgeAllows, Current, ScopeAllows

\* What a sign-in has at each step. (link_clerk_principal)
LEMMA SigningInHas ==
  ASSUME IInv, NEW c \in Calls, calls[c].pc \in SigningIn
  PROVE  /\ calls[c].via = "rest" /\ calls[c].cred \in Sessions /\ calls[c].cred \notin AgentTokens
         /\ ~calls[c].effect /\ Good(c) /\ calls[c] \in Call
         /\ Claims[calls[c].cred].clerk \in ClerkUsers /\ Claims[calls[c].cred].name \in Names
         /\ Claims[calls[c].cred].slug \in OrgNames
         /\ Claims[calls[c].cred].org # None => Claims[calls[c].cred].org \in ClerkOrgs
         /\ calls[c].pc # "new_user" => calls[c].user \in UserId
         /\ calls[c].pc \in {"org", "new_org", "link_org", "join"} => Claims[calls[c].cred].org # None
         /\ calls[c].pc \in {"link_org", "join"} => calls[c].org \in OrgId
  <1>1. Good(c) /\ calls[c] \in Call
    BY DEF IInv, TypeOK
  <1>2. calls[c].via = "rest" /\ calls[c].cred \in Sessions /\ calls[c].cred \notin AgentTokens
        /\ ~calls[c].effect
    BY <1>1 DEF Good, Shape, SigningIn
  <1>3. calls[c].user \in UserId \cup {None} /\ calls[c].org \in OrgId \cup {None}
    BY <1>1 DEF Call
  <1>4. /\ calls[c].pc # "new_user" => calls[c].user \in UserId
        /\ calls[c].pc \in {"org", "new_org", "link_org", "join"} => Claims[calls[c].cred].org # None
        /\ calls[c].pc \in {"link_org", "join"} => calls[c].org \in OrgId
    BY <1>1, <1>2, <1>3 DEF Good, Joined, SigningIn
  <1>5. QED
    BY <1>1, <1>2, <1>4 DEF ClerkUsers, ClerkOrgs, Names, OrgNames

\* A tool's call arrives and is authenticated. (authenticate_agent)
LEMMA StepToolCall ==
  ASSUME IInv, NEW c \in Calls, NEW a \in Asks, NEW t \in AgentTokens, ToolCall(c, a, t)
  PROVE  IInv'
  <1> USE TablesAssumption, CredsAssumption
  <1>1. /\ a.tool # "none" /\ t \in Creds /\ Good(c) /\ calls[c] = NoCall
        /\ tokens[t].scope \in Scope
    BY DEF ToolCall, At, Creds, IInv, Good, Shape, TypeOK
  <1>2. CASE Active(t)
    <2>1. Set(c, [pc |-> "tool", via |-> "mcp", cred |-> t, ask |-> a, scope |-> tokens[t].scope])
      BY <1>1, <1>2 DEF ToolCall
    <2>2. /\ calls'[c].pc = "tool" /\ calls'[c].via = "mcp" /\ calls'[c].cred = t
          /\ calls'[c].ask = a /\ calls'[c].scope = tokens[t].scope
          /\ calls'[c].user = calls[c].user /\ calls'[c].org = calls[c].org
          /\ calls'[c].status = calls[c].status /\ calls'[c].effect = calls[c].effect
          /\ calls'[c].agent = calls[c].agent
      BY <2>1, CallsTyped DEF Call, Set, With
    <2>3. /\ calls[c] \in Call /\ calls'[c].via \in {"mcp", "rest", "orphan"}
          /\ calls'[c].pc \in Label /\ calls'[c].status \in Status
      BY <2>2, CallsTyped DEF Call, Label, Status
    <2>4. calls' \in [Calls -> Call] /\ \A d \in Calls \ {c} : calls'[d] = calls[d]
      BY <1>1, <1>2, <2>1, <2>2, <2>3, SetType DEF IInv, Call
    <2>5. /\ UNCHANGED <<identity, people, audit, late, touched>>
          /\ UNCHANGED faults \/ Fault
      BY DEF ToolCall
    <2>6. UNCHANGED <<agents, tokens, apiTokens, users, orgs, members, grants>>
      BY <2>5 DEF identity, people
    <2>7. Shape(c)'
      BY <1>1, <1>2, <2>2, <2>5, <2>6 DEF Shape, SigningIn, NoCall
    <2>8. Checked(c)'
      BY <1>1, <1>2, <2>2, <2>5, <2>6 DEF Checked, Current, Active, NoCall
    <2>9. Refusable(c)'
      BY <1>1, <1>2, <2>2, <2>5, <2>6 DEF Refusable, Current, Active, NoCall
    <2>10. Audited(c)'
      BY <1>1, <1>2, <2>2, <2>5, <2>6 DEF Good, Audited, NoCall
    <2>11. Joined(c)'
      BY <1>1, <1>2, <2>2, <2>5, <2>6 DEF Joined
    <2>12. QED
      BY <2>4, <2>5, <2>7, <2>8, <2>9, <2>10, <2>11, Moved DEF Good
  <1>3. CASE ~Active(t)
    <2>1. Set(c, [pc |-> "done", via |-> "mcp", cred |-> t, ask |-> a, status |-> "unauthorized"])
      BY <1>1, <1>3 DEF ToolCall
    <2>2. /\ calls'[c].pc = "done" /\ calls'[c].via = "mcp" /\ calls'[c].cred = t
          /\ calls'[c].ask = a /\ calls'[c].status = "unauthorized"
          /\ calls'[c].scope = calls[c].scope /\ calls'[c].user = calls[c].user
          /\ calls'[c].org = calls[c].org /\ calls'[c].effect = calls[c].effect
          /\ calls'[c].agent = calls[c].agent
      BY <2>1, CallsTyped DEF Call, Set, With
    <2>3. /\ calls[c] \in Call /\ calls'[c].via \in {"mcp", "rest", "orphan"}
          /\ calls'[c].pc \in Label /\ calls'[c].status \in Status
      BY <2>2, CallsTyped DEF Call, Label, Status
    <2>4. calls' \in [Calls -> Call] /\ \A d \in Calls \ {c} : calls'[d] = calls[d]
      BY <1>1, <1>3, <2>1, <2>2, <2>3, SetType DEF IInv, Call
    <2>5. /\ UNCHANGED <<identity, people, audit, late, touched>>
          /\ UNCHANGED faults \/ Fault
      BY DEF ToolCall
    <2>6. UNCHANGED <<agents, tokens, apiTokens, users, orgs, members, grants>>
      BY <2>5 DEF identity, people
    <2>7. Shape(c)'
      BY <1>1, <1>3, <2>2, <2>5, <2>6 DEF Shape, SigningIn, NoCall
    <2>8. Checked(c)'
      BY <1>1, <1>3, <2>2, <2>5, <2>6 DEF Checked, NoCall
    <2>9. Refusable(c)'
      BY <1>1, <1>3, <2>2, <2>5, <2>6 DEF Refusable, NoCall
    <2>10. Audited(c)'
      BY <1>1, <1>3, <2>2, <2>5, <2>6 DEF Good, Audited, NoCall
    <2>11. Joined(c)'
      BY <1>1, <1>3, <2>2, <2>5, <2>6 DEF Joined
    <2>12. QED
      BY <2>4, <2>5, <2>7, <2>8, <2>9, <2>10, <2>11, Moved DEF Good
  <1>4. QED
    BY <1>2, <1>3

\* A tool's call is judged by the scopes of its request. (run_tool)
LEMMA StepRunTool ==
  ASSUME IInv, NEW c \in Calls, RunTool(c)
  PROVE  IInv'
  <1> USE TablesAssumption, CredsAssumption
  <1>1. /\ calls[c].pc = "tool" /\ calls[c].via = "mcp" /\ calls[c].cred \in AgentTokens /\ ~calls[c].effect
        /\ calls[c].ask.tool # "none" /\ calls[c].ask \in Asks /\ Good(c)
    BY DEF RunTool, At, IInv, Good, Shape
  <1>2. CASE ScopeAllows(calls[c].scope, calls[c].ask.tool, calls[c].ask.repo) /\ calls[c].ask.route = "none"
    <2>1. Set(c, [pc |-> "work"])
      BY <1>1, <1>2 DEF RunTool
    <2>2. /\ calls'[c].pc = "work" /\ calls'[c].via = calls[c].via
          /\ calls'[c].cred = calls[c].cred /\ calls'[c].ask = calls[c].ask
          /\ calls'[c].scope = calls[c].scope /\ calls'[c].user = calls[c].user
          /\ calls'[c].org = calls[c].org /\ calls'[c].status = calls[c].status
          /\ calls'[c].effect = calls[c].effect /\ calls'[c].agent = calls[c].agent
      BY <2>1, CallsTyped DEF Call, Set, With
    <2>3. /\ calls[c] \in Call /\ calls'[c].via \in {"mcp", "rest", "orphan"}
          /\ calls'[c].pc \in Label /\ calls'[c].status \in Status
      BY <2>2, CallsTyped DEF Call, Label, Status
    <2>4. calls' \in [Calls -> Call] /\ \A d \in Calls \ {c} : calls'[d] = calls[d]
      BY <1>1, <1>2, <2>1, <2>2, <2>3, SetType DEF IInv, Call
    <2>5. /\ UNCHANGED <<identity, people, audit, late, touched>>
          /\ UNCHANGED faults \/ Fault
      BY DEF RunTool
    <2>6. UNCHANGED <<agents, tokens, apiTokens, users, orgs, members, grants>>
      BY <2>5 DEF identity, people
    <2>7. Shape(c)'
      BY <1>1, <1>2, <2>2, <2>5, <2>6, ToolAsks DEF Good, Shape, SigningIn
    <2>8. Checked(c)'
      BY <1>1, <1>2, <2>2, <2>5, <2>6 DEF Good, Checked, Current, AllowedNow, Active
    <2>9. Refusable(c)'
      BY <1>1, <1>2, <2>2, <2>5, <2>6 DEF Good, Refusable
    <2>10. Audited(c)'
      BY <1>1, <1>2, <2>2, <2>5, <2>6 DEF Good, Audited
    <2>11. Joined(c)'
      BY <1>1, <1>2, <2>2, <2>5, <2>6 DEF Good, Joined, SigningIn
    <2>12. QED
      BY <2>4, <2>5, <2>7, <2>8, <2>9, <2>10, <2>11, Moved DEF Good
  <1>3. CASE ScopeAllows(calls[c].scope, calls[c].ask.tool, calls[c].ask.repo) /\ calls[c].ask.route # "none"
    <2>1. Set(c, [pc |-> "edge"])
      BY <1>1, <1>3 DEF RunTool
    <2>2. /\ calls'[c].pc = "edge" /\ calls'[c].via = calls[c].via
          /\ calls'[c].cred = calls[c].cred /\ calls'[c].ask = calls[c].ask
          /\ calls'[c].scope = calls[c].scope /\ calls'[c].user = calls[c].user
          /\ calls'[c].org = calls[c].org /\ calls'[c].status = calls[c].status
          /\ calls'[c].effect = calls[c].effect /\ calls'[c].agent = calls[c].agent
      BY <2>1, CallsTyped DEF Call, Set, With
    <2>3. /\ calls[c] \in Call /\ calls'[c].via \in {"mcp", "rest", "orphan"}
          /\ calls'[c].pc \in Label /\ calls'[c].status \in Status
      BY <2>2, CallsTyped DEF Call, Label, Status
    <2>4. calls' \in [Calls -> Call] /\ \A d \in Calls \ {c} : calls'[d] = calls[d]
      BY <1>1, <1>3, <2>1, <2>2, <2>3, SetType DEF IInv, Call
    <2>5. /\ UNCHANGED <<identity, people, audit, late, touched>>
          /\ UNCHANGED faults \/ Fault
      BY DEF RunTool
    <2>6. UNCHANGED <<agents, tokens, apiTokens, users, orgs, members, grants>>
      BY <2>5 DEF identity, people
    <2>7. Shape(c)'
      BY <1>1, <1>3, <2>2, <2>5, <2>6 DEF Good, Shape, SigningIn
    <2>8. Checked(c)'
      BY <1>1, <1>3, <2>2, <2>5, <2>6 DEF Checked
    <2>9. Refusable(c)'
      BY <1>1, <1>3, <2>2, <2>5, <2>6 DEF Good, Refusable, Current, Active, ScopeAllows
    <2>10. Audited(c)'
      BY <1>1, <1>3, <2>2, <2>5, <2>6 DEF Good, Audited
    <2>11. Joined(c)'
      BY <1>1, <1>3, <2>2, <2>5, <2>6 DEF Good, Joined, SigningIn
    <2>12. QED
      BY <2>4, <2>5, <2>7, <2>8, <2>9, <2>10, <2>11, Moved DEF Good
  <1>4. CASE ~ScopeAllows(calls[c].scope, calls[c].ask.tool, calls[c].ask.repo)
    <2>1. Set(c, [pc |-> "audit", status |-> "denied"])
      BY <1>1, <1>4 DEF RunTool
    <2>2. /\ calls'[c].pc = "audit" /\ calls'[c].status = "denied"
          /\ calls'[c].via = calls[c].via /\ calls'[c].cred = calls[c].cred
          /\ calls'[c].ask = calls[c].ask /\ calls'[c].scope = calls[c].scope
          /\ calls'[c].user = calls[c].user /\ calls'[c].org = calls[c].org
          /\ calls'[c].effect = calls[c].effect /\ calls'[c].agent = calls[c].agent
      BY <2>1, CallsTyped DEF Call, Set, With
    <2>3. /\ calls[c] \in Call /\ calls'[c].via \in {"mcp", "rest", "orphan"}
          /\ calls'[c].pc \in Label /\ calls'[c].status \in Status
      BY <2>2, CallsTyped DEF Call, Label, Status
    <2>4. calls' \in [Calls -> Call] /\ \A d \in Calls \ {c} : calls'[d] = calls[d]
      BY <1>1, <1>4, <2>1, <2>2, <2>3, SetType DEF IInv, Call
    <2>5. /\ UNCHANGED <<identity, people, audit, late, touched>>
          /\ UNCHANGED faults \/ Fault
      BY DEF RunTool
    <2>6. UNCHANGED <<agents, tokens, apiTokens, users, orgs, members, grants>>
      BY <2>5 DEF identity, people
    <2>7. Shape(c)'
      BY <1>1, <1>4, <2>2, <2>5, <2>6 DEF Good, Shape, SigningIn
    <2>8. Checked(c)'
      BY <1>1, <1>4, <2>2, <2>5, <2>6 DEF Checked
    <2>9. Refusable(c)'
      BY <1>1, <1>4, <2>2, <2>5, <2>6 DEF Good, Refusable
    <2>10. Audited(c)'
      BY <1>1, <1>4, <2>2, <2>5, <2>6 DEF Good, Audited
    <2>11. Joined(c)'
      BY <1>1, <1>4, <2>2, <2>5, <2>6 DEF Good, Joined, SigningIn
    <2>12. QED
      BY <2>4, <2>5, <2>7, <2>8, <2>9, <2>10, <2>11, Moved DEF Good
  <1>5. QED
    BY <1>2, <1>3, <1>4

\* An entry cannot be written: the gateway answers with an error. (audit)
LEMMA StepAuditFails ==
  ASSUME IInv, NEW c \in Calls, AuditFails(c)
  PROVE  IInv'
  <1> USE TablesAssumption, CredsAssumption
  <1>1. /\ calls[c].pc = "audit" /\ calls[c].via = "mcp" /\ calls[c].cred \in AgentTokens
        /\ Good(c) /\ Fault /\ faults' > 0
    BY DEF AuditFails, At, IInv, Good, Shape, TypeOK, Fault
  <1>2. CASE TRUE
    <2>1. Set(c, [pc |-> "done", status |-> "unaudited"])
      BY <1>1, <1>2 DEF AuditFails
    <2>2. /\ calls'[c].pc = "done" /\ calls'[c].status = "unaudited"
          /\ calls'[c].via = calls[c].via /\ calls'[c].cred = calls[c].cred
          /\ calls'[c].ask = calls[c].ask /\ calls'[c].scope = calls[c].scope
          /\ calls'[c].user = calls[c].user /\ calls'[c].org = calls[c].org
          /\ calls'[c].effect = calls[c].effect /\ calls'[c].agent = calls[c].agent
      BY <2>1, CallsTyped DEF Call, Set, With
    <2>3. /\ calls[c] \in Call /\ calls'[c].via \in {"mcp", "rest", "orphan"}
          /\ calls'[c].pc \in Label /\ calls'[c].status \in Status
      BY <2>2, CallsTyped DEF Call, Label, Status
    <2>4. calls' \in [Calls -> Call] /\ \A d \in Calls \ {c} : calls'[d] = calls[d]
      BY <1>1, <1>2, <2>1, <2>2, <2>3, SetType DEF IInv, Call
    <2>5. /\ UNCHANGED <<identity, people, audit, late, touched>>
          /\ UNCHANGED faults \/ Fault
      BY DEF AuditFails
    <2>6. UNCHANGED <<agents, tokens, apiTokens, users, orgs, members, grants>>
      BY <2>5 DEF identity, people
    <2>7. Shape(c)'
      BY <1>1, <1>2, <2>2, <2>5, <2>6 DEF Good, Shape, SigningIn
    <2>8. Checked(c)'
      BY <1>1, <1>2, <2>2, <2>5, <2>6, PassedStill DEF Good, Checked
    <2>9. Refusable(c)'
      BY <1>1, <1>2, <2>2, <2>5, <2>6 DEF Good, Refusable
    <2>10. Audited(c)'
      BY <1>1, <1>2, <2>2, <2>5, <2>6 DEF Good, Audited
    <2>11. Joined(c)'
      BY <1>1, <1>2, <2>2, <2>5, <2>6 DEF Joined
    <2>12. QED
      BY <2>4, <2>5, <2>7, <2>8, <2>9, <2>10, <2>11, Moved DEF Good
  <1>3. QED
    BY <1>2

\* A call of a route arrives. (authorize_if_agent, resolve_optional_human_auth)
LEMMA StepRestCall ==
  ASSUME IInv, NEW c \in Calls, NEW a \in Asks, NEW k \in Creds, RestCall(c, a, k)
  PROVE  IInv'
  <1> USE TablesAssumption, CredsAssumption
  <1>1. /\ a.tool = "none" /\ a.route # "none" /\ Good(c) /\ calls[c] = NoCall
    BY AsksAssumption DEF RestCall, At, IInv, Good, Shape
  <1>2. CASE k \in AgentTokens
    <2>1. Set(c, [pc |-> "edge", cred |-> k, ask |-> a])
      BY <1>1, <1>2 DEF RestCall
    <2>2. /\ calls'[c].pc = "edge" /\ calls'[c].cred = k /\ calls'[c].ask = a
          /\ calls'[c].via = calls[c].via /\ calls'[c].scope = calls[c].scope
          /\ calls'[c].user = calls[c].user /\ calls'[c].org = calls[c].org
          /\ calls'[c].status = calls[c].status /\ calls'[c].effect = calls[c].effect
          /\ calls'[c].agent = calls[c].agent
      BY <2>1, CallsTyped DEF Call, Set, With
    <2>3. /\ calls[c] \in Call /\ calls'[c].via \in {"mcp", "rest", "orphan"}
          /\ calls'[c].pc \in Label /\ calls'[c].status \in Status
      BY <2>2, CallsTyped DEF Call, Label, Status
    <2>4. calls' \in [Calls -> Call] /\ \A d \in Calls \ {c} : calls'[d] = calls[d]
      BY <1>1, <1>2, <2>1, <2>2, <2>3, SetType DEF IInv, Call
    <2>5. /\ UNCHANGED <<identity, people, audit, late, touched>>
          /\ UNCHANGED faults \/ Fault
      BY DEF RestCall
    <2>6. UNCHANGED <<agents, tokens, apiTokens, users, orgs, members, grants>>
      BY <2>5 DEF identity, people
    <2>7. Shape(c)'
      BY <1>1, <1>2, <2>2, <2>5, <2>6 DEF Shape, SigningIn, NoCall
    <2>8. Checked(c)'
      BY <1>1, <1>2, <2>2, <2>5, <2>6 DEF Checked, NoCall
    <2>9. Refusable(c)'
      BY <1>1, <1>2, <2>2, <2>5, <2>6 DEF Refusable, NoCall
    <2>10. Audited(c)'
      BY <1>1, <1>2, <2>2, <2>5, <2>6 DEF Good, Audited, NoCall
    <2>11. Joined(c)'
      BY <1>1, <1>2, <2>2, <2>5, <2>6 DEF Joined
    <2>12. QED
      BY <2>4, <2>5, <2>7, <2>8, <2>9, <2>10, <2>11, Moved DEF Good
  <1>3. CASE k \notin AgentTokens
    <2>1. Set(c, [pc |-> "resolve", cred |-> k, ask |-> a])
      BY <1>1, <1>3 DEF RestCall
    <2>2. /\ calls'[c].pc = "resolve" /\ calls'[c].cred = k /\ calls'[c].ask = a
          /\ calls'[c].via = calls[c].via /\ calls'[c].scope = calls[c].scope
          /\ calls'[c].user = calls[c].user /\ calls'[c].org = calls[c].org
          /\ calls'[c].status = calls[c].status /\ calls'[c].effect = calls[c].effect
          /\ calls'[c].agent = calls[c].agent
      BY <2>1, CallsTyped DEF Call, Set, With
    <2>3. /\ calls[c] \in Call /\ calls'[c].via \in {"mcp", "rest", "orphan"}
          /\ calls'[c].pc \in Label /\ calls'[c].status \in Status
      BY <2>2, CallsTyped DEF Call, Label, Status
    <2>4. calls' \in [Calls -> Call] /\ \A d \in Calls \ {c} : calls'[d] = calls[d]
      BY <1>1, <1>3, <2>1, <2>2, <2>3, SetType DEF IInv, Call
    <2>5. /\ UNCHANGED <<identity, people, audit, late, touched>>
          /\ UNCHANGED faults \/ Fault
      BY DEF RestCall
    <2>6. UNCHANGED <<agents, tokens, apiTokens, users, orgs, members, grants>>
      BY <2>5 DEF identity, people
    <2>7. Shape(c)'
      BY <1>1, <1>3, <2>2, <2>5, <2>6 DEF Shape, SigningIn, NoCall
    <2>8. Checked(c)'
      BY <1>1, <1>3, <2>2, <2>5, <2>6 DEF Checked, NoCall
    <2>9. Refusable(c)'
      BY <1>1, <1>3, <2>2, <2>5, <2>6 DEF Refusable, NoCall
    <2>10. Audited(c)'
      BY <1>1, <1>3, <2>2, <2>5, <2>6 DEF Good, Audited, NoCall
    <2>11. Joined(c)'
      BY <1>1, <1>3, <2>2, <2>5, <2>6 DEF Joined, NoCall, SigningIn
    <2>12. QED
      BY <2>4, <2>5, <2>7, <2>8, <2>9, <2>10, <2>11, Moved DEF Good
  <1>4. QED
    BY <1>2, <1>3, <1>1, AsksAssumption

\* A session's organisation is looked up. (ensure_clerk_org)
LEMMA StepFindOrg ==
  ASSUME IInv, NEW c \in Calls, FindOrg(c)
  PROVE  IInv'
  <1> USE TablesAssumption, CredsAssumption
  <1>1. /\ calls[c].pc = "org" /\ calls[c].via = "rest" /\ calls[c].cred \in Sessions /\ Good(c)
        /\ calls[c].cred \notin AgentTokens /\ ~calls[c].effect /\ Claims[calls[c].cred].org # None
        /\ orgLinks[Claims[calls[c].cred].org] \in OrgId \cup {None}
    BY SigningInHas DEF FindOrg, At, SigningIn, IInv, TypeOK
  <1>2. CASE orgLinks[Claims[calls[c].cred].org] # None
    <2> DEFINE v == orgLinks[Claims[calls[c].cred].org]
    <2>1. Set(c, [pc |-> "join", org |-> v])
      BY <1>1, <1>2 DEF FindOrg
    <2>0. /\ v \in OrgId \cup {None} /\ v # None
          /\ OneSlug(Claims[calls[c].cred].org) => [id |-> v, name |-> Claims[calls[c].cred].slug] \in orgs
      BY <1>1, <1>2 DEF IInv, Rows
    <2> HIDE DEF v
    <2>2. /\ calls'[c].pc = "join" /\ calls'[c].org = v /\ calls'[c].via = calls[c].via
          /\ calls'[c].cred = calls[c].cred /\ calls'[c].ask = calls[c].ask
          /\ calls'[c].scope = calls[c].scope /\ calls'[c].user = calls[c].user
          /\ calls'[c].status = calls[c].status /\ calls'[c].effect = calls[c].effect
          /\ calls'[c].agent = calls[c].agent
      BY <2>1, CallsTyped DEF Call, Set, With
    <2>3. /\ calls[c] \in Call /\ calls'[c].via \in {"mcp", "rest", "orphan"}
          /\ calls'[c].pc \in Label /\ calls'[c].status \in Status
      BY <2>2, CallsTyped DEF Call, Label, Status
    <2>4. calls' \in [Calls -> Call] /\ \A d \in Calls \ {c} : calls'[d] = calls[d]
      BY <1>1, <1>2, <2>0, <2>1, <2>2, <2>3, SetType DEF IInv, Call
    <2>5. /\ UNCHANGED <<identity, people, audit, late, touched>>
          /\ UNCHANGED faults \/ Fault
      BY DEF FindOrg
    <2>6. UNCHANGED <<agents, tokens, apiTokens, users, orgs, members, grants>>
      BY <2>5 DEF identity, people
    <2>7. Shape(c)'
      BY <1>1, <1>2, <2>2, <2>5, <2>6 DEF Good, Shape, SigningIn
    <2>8. Checked(c)'
      BY <1>1, <1>2, <2>2, <2>5, <2>6 DEF Good, Shape, Checked, SigningIn
    <2>9. Refusable(c)'
      BY <1>1, <1>2, <2>2, <2>5, <2>6 DEF Good, Refusable
    <2>10. Audited(c)'
      BY <1>1, <1>2, <2>2, <2>5, <2>6 DEF Good, Audited
    <2>11. Joined(c)'
      BY <1>1, <2>0, <2>2, <2>6 DEF Good, Joined, SigningIn
    <2>12. QED
      BY <2>4, <2>5, <2>7, <2>8, <2>9, <2>10, <2>11, Moved DEF Good
  <1>3. CASE orgLinks[Claims[calls[c].cred].org] = None
    <2>1. Set(c, [pc |-> "new_org"])
      BY <1>1, <1>3 DEF FindOrg
    <2>2. /\ calls'[c].pc = "new_org" /\ calls'[c].via = calls[c].via
          /\ calls'[c].cred = calls[c].cred /\ calls'[c].ask = calls[c].ask
          /\ calls'[c].scope = calls[c].scope /\ calls'[c].user = calls[c].user
          /\ calls'[c].org = calls[c].org /\ calls'[c].status = calls[c].status
          /\ calls'[c].effect = calls[c].effect /\ calls'[c].agent = calls[c].agent
      BY <2>1, CallsTyped DEF Call, Set, With
    <2>3. /\ calls[c] \in Call /\ calls'[c].via \in {"mcp", "rest", "orphan"}
          /\ calls'[c].pc \in Label /\ calls'[c].status \in Status
      BY <2>2, CallsTyped DEF Call, Label, Status
    <2>4. calls' \in [Calls -> Call] /\ \A d \in Calls \ {c} : calls'[d] = calls[d]
      BY <1>1, <1>3, <2>1, <2>2, <2>3, SetType DEF IInv, Call
    <2>5. /\ UNCHANGED <<identity, people, audit, late, touched>>
          /\ UNCHANGED faults \/ Fault
      BY DEF FindOrg
    <2>6. UNCHANGED <<agents, tokens, apiTokens, users, orgs, members, grants>>
      BY <2>5 DEF identity, people
    <2>7. Shape(c)'
      BY <1>1, <1>3, <2>2, <2>5, <2>6 DEF Good, Shape, SigningIn
    <2>8. Checked(c)'
      BY <1>1, <1>3, <2>2, <2>5, <2>6 DEF Good, Shape, Checked, SigningIn
    <2>9. Refusable(c)'
      BY <1>1, <1>3, <2>2, <2>5, <2>6 DEF Good, Refusable
    <2>10. Audited(c)'
      BY <1>1, <1>3, <2>2, <2>5, <2>6 DEF Good, Audited
    <2>11. Joined(c)'
      BY <1>1, <1>3, <2>2, <2>5, <2>6 DEF Good, Joined, SigningIn
    <2>12. QED
      BY <2>4, <2>5, <2>7, <2>8, <2>9, <2>10, <2>11, Moved DEF Good
  <1>4. QED
    BY <1>2, <1>3, <1>1, SigningInHas

\* A statement of a sign-in fails. (link_clerk_principal)
LEMMA StepSignInFails ==
  ASSUME IInv, NEW c \in Calls, SignInFails(c)
  PROVE  IInv'
  <1> USE TablesAssumption, CredsAssumption
  <1>1. /\ calls[c].pc \in SigningIn /\ calls[c].via = "rest" /\ calls[c].cred \in Sessions /\ Good(c)
        /\ ~calls[c].effect
    BY DEF SignInFails, At, IInv, Good, Shape, SigningIn
  <1>2. CASE TRUE
    <2>1. Set(c, [pc |-> "done", status |-> "error"])
      BY <1>1, <1>2 DEF SignInFails
    <2>2. /\ calls'[c].pc = "done" /\ calls'[c].status = "error" /\ calls'[c].via = calls[c].via
          /\ calls'[c].cred = calls[c].cred /\ calls'[c].ask = calls[c].ask
          /\ calls'[c].scope = calls[c].scope /\ calls'[c].user = calls[c].user
          /\ calls'[c].org = calls[c].org /\ calls'[c].effect = calls[c].effect
          /\ calls'[c].agent = calls[c].agent
      BY <2>1, CallsTyped DEF Call, Set, With
    <2>3. /\ calls[c] \in Call /\ calls'[c].via \in {"mcp", "rest", "orphan"}
          /\ calls'[c].pc \in Label /\ calls'[c].status \in Status
      BY <2>2, CallsTyped DEF Call, Label, Status
    <2>4. calls' \in [Calls -> Call] /\ \A d \in Calls \ {c} : calls'[d] = calls[d]
      BY <1>1, <1>2, <2>1, <2>2, <2>3, SetType DEF IInv, Call
    <2>5. /\ UNCHANGED <<identity, people, audit, late, touched>>
          /\ UNCHANGED faults \/ Fault
      BY DEF SignInFails
    <2>6. UNCHANGED <<agents, tokens, apiTokens, users, orgs, members, grants>>
      BY <2>5 DEF identity, people
    <2>7. Shape(c)'
      BY <1>1, <1>2, <2>2, <2>5, <2>6 DEF Good, Shape, SigningIn
    <2>8. Checked(c)'
      BY <1>1, <1>2, <2>2, <2>5, <2>6 DEF Checked
    <2>9. Refusable(c)'
      BY <1>1, <1>2, <2>2, <2>5, <2>6 DEF Good, Refusable
    <2>10. Audited(c)'
      BY <1>1, <1>2, <2>2, <2>5, <2>6 DEF Good, Audited
    <2>11. Joined(c)'
      BY <1>1, <1>2, <2>2, <2>5, <2>6 DEF Good, Joined, SigningIn
    <2>12. QED
      BY <2>4, <2>5, <2>7, <2>8, <2>9, <2>10, <2>11, Moved DEF Good
  <1>3. QED
    BY <1>2

\* An agent to mint a token for is found. (mint_token)
LEMMA StepFindAgent ==
  ASSUME IInv, NEW c \in Calls, NEW a \in Agents, FindAgent(c, a)
  PROVE  IInv'
  <1> USE TablesAssumption, CredsAssumption
  <1>1. /\ calls[c].pc = "work" /\ calls[c].ask.route \in Managing /\ Good(c)
        /\ calls[c].via = "rest" /\ calls[c].cred \notin AgentTokens
    BY ManagingNames DEF FindAgent, At, IInv, Good, Shape
  <1>2. CASE TRUE
    <2>1. Set(c, [pc |-> "insert", agent |-> a])
      BY <1>1, <1>2 DEF FindAgent
    <2>2. /\ calls'[c].pc = "insert" /\ calls'[c].agent = a /\ calls'[c].via = calls[c].via
          /\ calls'[c].cred = calls[c].cred /\ calls'[c].ask = calls[c].ask
          /\ calls'[c].scope = calls[c].scope /\ calls'[c].user = calls[c].user
          /\ calls'[c].org = calls[c].org /\ calls'[c].status = calls[c].status
          /\ calls'[c].effect = calls[c].effect
      BY <2>1, CallsTyped DEF Call, Set, With
    <2>3. /\ calls[c] \in Call /\ calls'[c].via \in {"mcp", "rest", "orphan"}
          /\ calls'[c].pc \in Label /\ calls'[c].status \in Status
      BY <2>2, CallsTyped DEF Call, Label, Status
    <2>4. calls' \in [Calls -> Call] /\ \A d \in Calls \ {c} : calls'[d] = calls[d]
      BY <1>1, <1>2, <2>1, <2>2, <2>3, SetType DEF IInv, Call
    <2>5. /\ UNCHANGED <<identity, people, audit, late, touched>>
          /\ UNCHANGED faults \/ Fault
      BY DEF FindAgent
    <2>6. UNCHANGED <<agents, tokens, apiTokens, users, orgs, members, grants>>
      BY <2>5 DEF identity, people
    <2>7. Shape(c)'
      BY <1>1, <1>2, <2>2, <2>5, <2>6 DEF Good, Shape, SigningIn
    <2>8. Checked(c)'
      BY <1>1, <1>2, <2>2, <2>5, <2>6, PassedStill DEF Good, Checked
    <2>9. Refusable(c)'
      BY <1>1, <1>2, <2>2, <2>5, <2>6 DEF Good, Refusable
    <2>10. Audited(c)'
      BY <1>1, <1>2, <2>2, <2>5, <2>6 DEF Good, Audited
    <2>11. Joined(c)'
      BY <1>1, <1>2, <2>2, <2>5, <2>6 DEF Good, Joined, SigningIn
    <2>12. QED
      BY <2>4, <2>5, <2>7, <2>8, <2>9, <2>10, <2>11, Moved DEF Good
  <1>3. QED
    BY <1>2, <1>1, ManagingNames

\* The edge judges a tool call, or a call with an agent's token, by the present
\* scopes. (authorize_if_agent)
LEMMA StepEdge ==
  ASSUME IInv, NEW c \in Calls, Edge(c)
  PROVE  IInv'
  <1> USE TablesAssumption, CredsAssumption
  <1>1. /\ calls[c].pc = "edge" /\ calls[c].cred \in AgentTokens /\ Good(c) /\ calls[c].ask \in Asks
        /\ calls[c].ask.route # "none" /\ tokens[calls[c].cred].scope \in Scope /\ ~calls[c].effect
    BY DEF Edge, At, IInv, Good, Shape, TypeOK
  <1>2. CASE EdgeAllows(calls[c].cred, calls[c].ask)
    <2>1. Set(c, [pc |-> "work", scope |-> tokens[calls[c].cred].scope])
      BY <1>1, <1>2 DEF Edge
    <2>2. /\ calls'[c].pc = "work" /\ calls'[c].scope = tokens[calls[c].cred].scope
          /\ calls'[c].via = calls[c].via /\ calls'[c].cred = calls[c].cred
          /\ calls'[c].ask = calls[c].ask /\ calls'[c].user = calls[c].user
          /\ calls'[c].org = calls[c].org /\ calls'[c].status = calls[c].status
          /\ calls'[c].effect = calls[c].effect /\ calls'[c].agent = calls[c].agent
      BY <2>1, CallsTyped DEF Call, Set, With
    <2>3. /\ calls[c] \in Call /\ calls'[c].via \in {"mcp", "rest", "orphan"}
          /\ calls'[c].pc \in Label /\ calls'[c].status \in Status
      BY <2>2, CallsTyped DEF Call, Label, Status
    <2>4. calls' \in [Calls -> Call] /\ \A d \in Calls \ {c} : calls'[d] = calls[d]
      BY <1>1, <1>2, <2>1, <2>2, <2>3, SetType DEF IInv, Call
    <2>5. /\ UNCHANGED <<identity, people, audit, late, touched>>
          /\ UNCHANGED faults \/ Fault
      BY DEF Edge
    <2>6. UNCHANGED <<agents, tokens, apiTokens, users, orgs, members, grants>>
      BY <2>5 DEF identity, people
    <2>7. calls[c].ask.route \notin Managing
      BY <1>1, <1>2, <2>2, <2>5, <2>6, ManagingRoutes, RouteOfAsk DEF EdgeAllows
    <2>8. AllowedNow(c)'
      BY <1>1, <1>2, <2>2, <2>5, <2>6, EdgeSame DEF AllowedNow
    <2>9. faults' = faults
      BY DEF Edge
    <2>10. Shape(c)'
      BY <1>1, <2>2, <2>5, <2>7, <2>9 DEF Good, Shape, SigningIn
    <2>11. Checked(c)'
      BY <1>1, <1>2, <2>2, <2>5, <2>6, <2>8 DEF Checked
    <2>12. Refusable(c)'
      BY <1>1, <1>2, <2>2, <2>5, <2>6 DEF Good, Refusable
    <2>13. Audited(c)'
      BY <1>1, <1>2, <2>2, <2>5, <2>6 DEF Good, Audited
    <2>14. Joined(c)'
      BY <1>1, <1>2, <2>2, <2>5, <2>6 DEF Good, Joined, SigningIn
    <2>15. QED
      BY <2>4, <2>5, <2>10, <2>11, <2>12, <2>13, <2>14, Moved DEF Good
  <1>3. CASE ~EdgeAllows(calls[c].cred, calls[c].ask)
    <2>1. Answer(c, "refused", FALSE) /\ UNCHANGED <<identity, people, audit, late, touched, faults>>
      BY <1>1, <1>3 DEF Edge, Refuse
    <2>2. QED
      BY <1>1, <1>3, <2>1, MovedAnswer, RefusedForCause DEF Good
  <1>4. QED
    BY <1>2, <1>3, <1>1

\* The edge learns nothing of the present scopes and lets nothing through.
LEMMA StepEdgeFails ==
  ASSUME IInv, NEW c \in Calls, EdgeFails(c)
  PROVE  IInv'
  <1>1. /\ calls[c].pc = "edge" /\ Answer(c, "error", FALSE) /\ Fault
        /\ UNCHANGED <<identity, people, audit, late, touched>>
    BY DEF EdgeFails, At
  <1>2. QED
    BY <1>1, MovedAnswer

\* A human call's credential is resolved. (validate_clotho_token, link_clerk_principal)
LEMMA StepResolve ==
  ASSUME IInv, NEW c \in Calls, Resolve(c)
  PROVE  IInv'
  <1> USE TablesAssumption, CredsAssumption
  <1>1. /\ calls[c].pc = "resolve" /\ calls[c].via = "rest" /\ calls[c].cred \notin AgentTokens /\ Good(c)
        /\ calls[c].ask \in Asks /\ ~calls[c].effect /\ calls[c].cred \in Creds
        /\ \A k \in ApiTokens : apiTokens[k].user \in UserId \cup {None}
        /\ \A s \in Sessions : links[Claims[s].clerk] \in UserId \cup {None}
    BY DEF Resolve, At, IInv, Good, Shape, TypeOK, ClerkUsers
  <1>2. CASE calls[c].cred = None /\ RouteOf(calls[c].ask).need \in {"read", "any"}
    <2>1. Set(c, [pc |-> "permit"])
      BY <1>1, <1>2 DEF Resolve
    <2>2. /\ calls'[c].pc = "permit" /\ calls'[c].via = calls[c].via
          /\ calls'[c].cred = calls[c].cred /\ calls'[c].ask = calls[c].ask
          /\ calls'[c].scope = calls[c].scope /\ calls'[c].user = calls[c].user
          /\ calls'[c].org = calls[c].org /\ calls'[c].status = calls[c].status
          /\ calls'[c].effect = calls[c].effect /\ calls'[c].agent = calls[c].agent
      BY <2>1, CallsTyped DEF Call, Set, With
    <2>3. /\ calls[c] \in Call /\ calls'[c].via \in {"mcp", "rest", "orphan"}
          /\ calls'[c].pc \in Label /\ calls'[c].status \in Status
      BY <2>2, CallsTyped DEF Call, Label, Status
    <2>4. calls' \in [Calls -> Call] /\ \A d \in Calls \ {c} : calls'[d] = calls[d]
      BY <1>1, <1>2, <2>1, <2>2, <2>3, SetType DEF IInv, Call
    <2>5. /\ UNCHANGED <<identity, people, audit, late, touched>>
          /\ UNCHANGED faults \/ Fault
      BY DEF Resolve
    <2>6. UNCHANGED <<agents, tokens, apiTokens, users, orgs, members, grants>>
      BY <2>5 DEF identity, people
    <2>7. Shape(c)'
      BY <1>1, <1>2, <2>2, <2>5, <2>6 DEF Good, Shape, SigningIn
    <2>8. Checked(c)'
      BY <1>1, <1>2, <2>2, <2>5, <2>6 DEF Checked
    <2>9. Refusable(c)'
      BY <1>1, <1>2, <2>2, <2>5, <2>6 DEF Good, Refusable
    <2>10. Audited(c)'
      BY <1>1, <1>2, <2>2, <2>5, <2>6 DEF Good, Audited
    <2>11. Joined(c)'
      BY <1>1, <1>2, <2>2, <2>5, <2>6 DEF Good, Joined, SigningIn
    <2>12. QED
      BY <2>4, <2>5, <2>7, <2>8, <2>9, <2>10, <2>11, Moved DEF Good
  <1>3. CASE calls[c].cred \in ApiTokens /\ apiTokens[calls[c].cred].state = "live"
    <2>1. Set(c, [pc |-> "permit", user |-> apiTokens[calls[c].cred].user])
      BY <1>1, <1>3 DEF Resolve
    <2>2. /\ calls'[c].pc = "permit" /\ calls'[c].user = apiTokens[calls[c].cred].user
          /\ calls'[c].via = calls[c].via /\ calls'[c].cred = calls[c].cred
          /\ calls'[c].ask = calls[c].ask /\ calls'[c].scope = calls[c].scope
          /\ calls'[c].org = calls[c].org /\ calls'[c].status = calls[c].status
          /\ calls'[c].effect = calls[c].effect /\ calls'[c].agent = calls[c].agent
      BY <2>1, CallsTyped DEF Call, Set, With
    <2>3. /\ calls[c] \in Call /\ calls'[c].via \in {"mcp", "rest", "orphan"}
          /\ calls'[c].pc \in Label /\ calls'[c].status \in Status
      BY <2>2, CallsTyped DEF Call, Label, Status
    <2>4. calls' \in [Calls -> Call] /\ \A d \in Calls \ {c} : calls'[d] = calls[d]
      BY <1>1, <1>3, <2>1, <2>2, <2>3, SetType DEF IInv, Call
    <2>5. /\ UNCHANGED <<identity, people, audit, late, touched>>
          /\ UNCHANGED faults \/ Fault
      BY DEF Resolve
    <2>6. UNCHANGED <<agents, tokens, apiTokens, users, orgs, members, grants>>
      BY <2>5 DEF identity, people
    <2>7. Shape(c)'
      BY <1>1, <1>3, <2>2, <2>5, <2>6 DEF Good, Shape, SigningIn
    <2>8. Checked(c)'
      BY <1>1, <1>3, <2>2, <2>5, <2>6 DEF Checked
    <2>9. Refusable(c)'
      BY <1>1, <1>3, <2>2, <2>5, <2>6 DEF Good, Refusable
    <2>10. Audited(c)'
      BY <1>1, <1>3, <2>2, <2>5, <2>6 DEF Good, Audited
    <2>11. Joined(c)'
      BY <1>1, <1>3, <2>2, <2>5, <2>6 DEF Good, Joined, SigningIn
    <2>12. QED
      BY <2>4, <2>5, <2>7, <2>8, <2>9, <2>10, <2>11, Moved DEF Good
  <1>4. CASE calls[c].cred \in Sessions /\ links[Claims[calls[c].cred].clerk] # None /\ Claims[calls[c].cred].org = None
    <2> DEFINE v == links[Claims[calls[c].cred].clerk]
    <2>1. Set(c, [pc |-> "permit", user |-> v])
      BY <1>1, <1>4 DEF Resolve
    <2>0. /\ v \in UserId \cup {None} /\ v # None
          /\ OneName(Claims[calls[c].cred].clerk) => [id |-> v, name |-> Claims[calls[c].cred].name] \in users
      BY <1>1, <1>4 DEF IInv, Rows
    <2> HIDE DEF v
    <2>2. /\ calls'[c].pc = "permit" /\ calls'[c].user = v /\ calls'[c].via = calls[c].via
          /\ calls'[c].cred = calls[c].cred /\ calls'[c].ask = calls[c].ask
          /\ calls'[c].scope = calls[c].scope /\ calls'[c].org = calls[c].org
          /\ calls'[c].status = calls[c].status /\ calls'[c].effect = calls[c].effect
          /\ calls'[c].agent = calls[c].agent
      BY <2>1, CallsTyped DEF Call, Set, With
    <2>3. /\ calls[c] \in Call /\ calls'[c].via \in {"mcp", "rest", "orphan"}
          /\ calls'[c].pc \in Label /\ calls'[c].status \in Status
      BY <2>2, CallsTyped DEF Call, Label, Status
    <2>4. calls' \in [Calls -> Call] /\ \A d \in Calls \ {c} : calls'[d] = calls[d]
      BY <1>1, <1>4, <2>0, <2>1, <2>2, <2>3, SetType DEF IInv, Call
    <2>5. /\ UNCHANGED <<identity, people, audit, late, touched>>
          /\ UNCHANGED faults \/ Fault
      BY DEF Resolve
    <2>6. UNCHANGED <<agents, tokens, apiTokens, users, orgs, members, grants>>
      BY <2>5 DEF identity, people
    <2>7. Shape(c)'
      BY <1>1, <1>4, <2>2, <2>5, <2>6 DEF Good, Shape, SigningIn
    <2>8. Checked(c)'
      BY <1>1, <1>4, <2>2, <2>5, <2>6 DEF Checked
    <2>9. Refusable(c)'
      BY <1>1, <1>4, <2>2, <2>5, <2>6 DEF Good, Refusable
    <2>10. Audited(c)'
      BY <1>1, <1>4, <2>2, <2>5, <2>6 DEF Good, Audited
    <2>11. Joined(c)'
      BY <1>1, <1>4, <2>0, <2>2, <2>6 DEF Good, Joined, SigningIn
    <2>12. QED
      BY <2>4, <2>5, <2>7, <2>8, <2>9, <2>10, <2>11, Moved DEF Good
  <1>5. CASE calls[c].cred \in Sessions /\ links[Claims[calls[c].cred].clerk] # None /\ Claims[calls[c].cred].org # None
    <2> DEFINE v == links[Claims[calls[c].cred].clerk]
    <2>1. Set(c, [pc |-> "org", user |-> v])
      BY <1>1, <1>5 DEF Resolve
    <2>0. /\ v \in UserId \cup {None} /\ v # None
          /\ OneName(Claims[calls[c].cred].clerk) => [id |-> v, name |-> Claims[calls[c].cred].name] \in users
      BY <1>1, <1>5 DEF IInv, Rows
    <2> HIDE DEF v
    <2>2. /\ calls'[c].pc = "org" /\ calls'[c].user = v /\ calls'[c].via = calls[c].via
          /\ calls'[c].cred = calls[c].cred /\ calls'[c].ask = calls[c].ask
          /\ calls'[c].scope = calls[c].scope /\ calls'[c].org = calls[c].org
          /\ calls'[c].status = calls[c].status /\ calls'[c].effect = calls[c].effect
          /\ calls'[c].agent = calls[c].agent
      BY <2>1, CallsTyped DEF Call, Set, With
    <2>3. /\ calls[c] \in Call /\ calls'[c].via \in {"mcp", "rest", "orphan"}
          /\ calls'[c].pc \in Label /\ calls'[c].status \in Status
      BY <2>2, CallsTyped DEF Call, Label, Status
    <2>4. calls' \in [Calls -> Call] /\ \A d \in Calls \ {c} : calls'[d] = calls[d]
      BY <1>1, <1>5, <2>0, <2>1, <2>2, <2>3, SetType DEF IInv, Call
    <2>5. /\ UNCHANGED <<identity, people, audit, late, touched>>
          /\ UNCHANGED faults \/ Fault
      BY DEF Resolve
    <2>6. UNCHANGED <<agents, tokens, apiTokens, users, orgs, members, grants>>
      BY <2>5 DEF identity, people
    <2>7. Shape(c)'
      BY <1>1, <1>5, <2>2, <2>5, <2>6 DEF Good, Shape, SigningIn
    <2>8. Checked(c)'
      BY <1>1, <1>5, <2>2, <2>5, <2>6 DEF Checked
    <2>9. Refusable(c)'
      BY <1>1, <1>5, <2>2, <2>5, <2>6 DEF Good, Refusable
    <2>10. Audited(c)'
      BY <1>1, <1>5, <2>2, <2>5, <2>6 DEF Good, Audited
    <2>11. Joined(c)'
      BY <1>1, <1>5, <2>0, <2>2, <2>6 DEF Good, Joined, SigningIn
    <2>12. QED
      BY <2>4, <2>5, <2>7, <2>8, <2>9, <2>10, <2>11, Moved DEF Good
  <1>6. CASE calls[c].cred \in Sessions /\ links[Claims[calls[c].cred].clerk] = None
    <2>1. Set(c, [pc |-> "new_user"])
      BY <1>1, <1>6 DEF Resolve
    <2>2. /\ calls'[c].pc = "new_user" /\ calls'[c].via = calls[c].via
          /\ calls'[c].cred = calls[c].cred /\ calls'[c].ask = calls[c].ask
          /\ calls'[c].scope = calls[c].scope /\ calls'[c].user = calls[c].user
          /\ calls'[c].org = calls[c].org /\ calls'[c].status = calls[c].status
          /\ calls'[c].effect = calls[c].effect /\ calls'[c].agent = calls[c].agent
      BY <2>1, CallsTyped DEF Call, Set, With
    <2>3. /\ calls[c] \in Call /\ calls'[c].via \in {"mcp", "rest", "orphan"}
          /\ calls'[c].pc \in Label /\ calls'[c].status \in Status
      BY <2>2, CallsTyped DEF Call, Label, Status
    <2>4. calls' \in [Calls -> Call] /\ \A d \in Calls \ {c} : calls'[d] = calls[d]
      BY <1>1, <1>6, <2>1, <2>2, <2>3, SetType DEF IInv, Call
    <2>5. /\ UNCHANGED <<identity, people, audit, late, touched>>
          /\ UNCHANGED faults \/ Fault
      BY DEF Resolve
    <2>6. UNCHANGED <<agents, tokens, apiTokens, users, orgs, members, grants>>
      BY <2>5 DEF identity, people
    <2>7. Shape(c)'
      BY <1>1, <1>6, <2>2, <2>5, <2>6 DEF Good, Shape, SigningIn
    <2>8. Checked(c)'
      BY <1>1, <1>6, <2>2, <2>5, <2>6 DEF Checked
    <2>9. Refusable(c)'
      BY <1>1, <1>6, <2>2, <2>5, <2>6 DEF Good, Refusable
    <2>10. Audited(c)'
      BY <1>1, <1>6, <2>2, <2>5, <2>6 DEF Good, Audited
    <2>11. Joined(c)'
      BY <1>1, <1>6, <2>2, <2>5, <2>6 DEF Good, Joined, SigningIn
    <2>12. QED
      BY <2>4, <2>5, <2>7, <2>8, <2>9, <2>10, <2>11, Moved DEF Good
  <1>7. CASE calls[c].cred = None /\ RouteOf(calls[c].ask).need \notin {"read", "any"}
    <2>1. Answer(c, "refused", FALSE) /\ UNCHANGED <<identity, people, audit, late, touched, faults>>
      BY <1>1, <1>7 DEF Resolve, Refuse
    <2>2. QED
      BY <1>1, <1>7, <2>1, MovedAnswer DEF Good
  <1>8. CASE calls[c].cred \in ApiTokens /\ apiTokens[calls[c].cred].state # "live"
    <2>1. Answer(c, "refused", FALSE) /\ UNCHANGED <<identity, people, audit, late, touched, faults>>
      BY <1>1, <1>8 DEF Resolve, Refuse
    <2>2. QED
      BY <1>1, <1>8, <2>1, MovedAnswer DEF Good
  <1>9. QED
    BY <1>2, <1>3, <1>4, <1>5, <1>6, <1>7, <1>8, <1>1 DEF Creds

\* The permission of a human call is looked up. (require_repo_permission)
LEMMA StepPermit ==
  ASSUME IInv, NEW c \in Calls, Permit(c)
  PROVE  IInv'
  <1> USE TablesAssumption, CredsAssumption
  <1>1. /\ calls[c].pc = "permit" /\ calls[c].via = "rest" /\ calls[c].cred \notin AgentTokens /\ Good(c)
        /\ calls[c].ask \in Asks /\ calls[c].ask.tool = "none" /\ calls[c].ask.route # "none" /\ ~calls[c].effect
    BY AsksAssumption DEF Permit, At, IInv, Good, Shape
  <1>2. CASE Permitted(calls[c].user, calls[c].ask)
    <2>1. Set(c, [pc |-> "work"])
      BY <1>1, <1>2 DEF Permit
    <2>2. /\ calls'[c].pc = "work" /\ calls'[c].via = calls[c].via
          /\ calls'[c].cred = calls[c].cred /\ calls'[c].ask = calls[c].ask
          /\ calls'[c].scope = calls[c].scope /\ calls'[c].user = calls[c].user
          /\ calls'[c].org = calls[c].org /\ calls'[c].status = calls[c].status
          /\ calls'[c].effect = calls[c].effect /\ calls'[c].agent = calls[c].agent
      BY <2>1, CallsTyped DEF Call, Set, With
    <2>3. /\ calls[c] \in Call /\ calls'[c].via \in {"mcp", "rest", "orphan"}
          /\ calls'[c].pc \in Label /\ calls'[c].status \in Status
      BY <2>2, CallsTyped DEF Call, Label, Status
    <2>4. calls' \in [Calls -> Call] /\ \A d \in Calls \ {c} : calls'[d] = calls[d]
      BY <1>1, <1>2, <2>1, <2>2, <2>3, SetType DEF IInv, Call
    <2>5. /\ UNCHANGED <<identity, people, audit, late, touched>>
          /\ UNCHANGED faults \/ Fault
      BY DEF Permit
    <2>6. UNCHANGED <<agents, tokens, apiTokens, users, orgs, members, grants>>
      BY <2>5 DEF identity, people
    <2>7. Permitted(calls[c].user, calls[c].ask)'
      BY <1>1, <1>2, <2>2, <2>5, <2>6, PermittedKept
    <2>8. AllowedNow(c)' \/ c \in late'
      BY <1>1, <1>2, <2>2, <2>5, <2>6, <2>7 DEF Good, Checked, AllowedNow
    <2>9. Shape(c)'
      BY <1>1, <1>2, <2>2, <2>5, <2>6 DEF Good, Shape, SigningIn
    <2>10. Checked(c)'
      BY <1>1, <1>2, <2>2, <2>5, <2>6, <2>8 DEF Good, Checked
    <2>11. Refusable(c)'
      BY <1>1, <1>2, <2>2, <2>5, <2>6 DEF Good, Refusable
    <2>12. Audited(c)'
      BY <1>1, <1>2, <2>2, <2>5, <2>6 DEF Good, Audited
    <2>13. Joined(c)'
      BY <1>1, <1>2, <2>2, <2>5, <2>6 DEF Good, Joined, SigningIn
    <2>14. QED
      BY <2>4, <2>5, <2>9, <2>10, <2>11, <2>12, <2>13, Moved DEF Good
  <1>3. CASE ~Permitted(calls[c].user, calls[c].ask)
    <2>1. Answer(c, "refused", FALSE) /\ UNCHANGED <<identity, people, audit, late, touched, faults>>
      BY <1>1, <1>3 DEF Permit, Refuse
    <2>2. QED
      BY <1>1, <1>3, <2>1, MovedAnswer DEF Good
  <1>4. QED
    BY <1>2, <1>3, <1>1

\* A read is answered, or a write made. (proxies of forgejo.rs, vcs.rs)
LEMMA StepServe ==
  ASSUME IInv, NEW c \in Calls, Serve(c)
  PROVE  IInv'
  BY MovedAnswer DEF Serve, At

\* A name that is not there: no row is changed. (require_agent_admin, revoke_token)
LEMMA StepMiss ==
  ASSUME IInv, NEW c \in Calls, Miss(c)
  PROVE  IInv'
  BY MovedAnswer DEF Miss, At

\* The request or its answer is lost. (proxies of forgejo.rs, vcs.rs)
LEMMA StepServeFails ==
  ASSUME IInv, NEW c \in Calls, ServeFails(c)
  PROVE  IInv'
  <1>1. PICK e \in BOOLEAN : Answer(c, "error", e)
    BY DEF ServeFails
  <1>2. QED
    BY <1>1, MovedAnswer DEF ServeFails, At

-----------------------------------------------------------------------------
(* Steps that change credentials *)

\* A change is entered for every call that is under way with the credential.
LEMMA OvertakeEnters ==
  ASSUME TypeOK, NEW creds, Overtake(creds)
  PROVE  /\ late \subseteq late' /\ touched \subseteq touched'
         /\ late' \subseteq Calls /\ touched' \subseteq Calls
         /\ \A d \in Calls : calls[d].cred \in creds /\ calls[d].pc # "idle" => Entered(d)
  <1> USE CredsAssumption
  <1> DEFINE checked(d) ==
        CASE d.cred \in ApiTokens -> {"permit", "work", "insert", "done"}
          [] d.cred \in AgentTokens /\ d.ask.route = "none" -> {"tool", "work", "audit", "done"}
          [] OTHER -> {"work", "audit", "done"}
      own == {c \in Calls : calls[c].cred \in creds /\ calls[c].pc # "idle"}
  <1>1. /\ late' = late \cup {c \in own : calls[c].pc \in checked(calls[c])}
        /\ touched' = touched \cup {c \in own : calls[c].pc # "done"}
    BY DEF Overtake
  <1>2. \A d \in Calls : PastCheck(d) => calls[d].pc \in checked(calls[d])
    BY DEF PastCheck
  <1> HIDE DEF checked
  <1>3. QED
    BY <1>1, <1>2 DEF TypeOK, Entered

\* A call on an agent or a token is a human's, and is answered at once. (require_agent_admin)
LEMMA Manages ==
  ASSUME IInv, NEW c \in Calls, calls[c].pc = "insert" \/ (calls[c].pc = "work" /\ calls[c].ask.route \in Managing)
  PROVE  calls[c].via = "rest" /\ calls[c].cred \notin AgentTokens
  BY DEF IInv, Good, Shape


\* What a call has found has its type.
LEMMA Inserted ==
  ASSUME IInv, NEW c \in Calls
  PROVE  /\ calls[c].user \in UserId \cup {None}
         /\ calls[c].pc = "insert" => calls[c].agent \in Agents
  BY DEF IInv, TypeOK, Call, Good, Shape

\* An agent is created. (create_agent)
LEMMA StepCreateAgent ==
  ASSUME IInv, NEW c \in Calls, NEW a \in Agents, CreateAgent(c, a)
  PROVE  IInv'
  <1> USE TablesAssumption, CredsAssumption, ScopesAssumption
  <1>1. /\ late \subseteq late' /\ touched \subseteq touched'
        /\ late' \subseteq Calls /\ touched' \subseteq Calls
    BY DEF IInv, TypeOK, CreateAgent
  <1>2. RowsKept /\ grants' = grants /\ audit' = audit /\ (faults > 0 => faults' > 0)
    BY DEF RowsKept, CreateAgent, people, IInv
  <1>3. \A d \in Calls : calls[d].pc # "idle" => TokensKept(d) /\ MembersKept(d)
    BY <1>1 DEF TokensKept, MembersKept, Active, CreateAgent, identity, people, IInv, TypeOK, Bound
  <1>4. /\ calls[c].pc \in {"work", "insert"} /\ Answer(c, "ok", TRUE)
        /\ calls[c].via = "rest" /\ calls[c].cred \notin AgentTokens
    BY Manages, ManagingNames DEF CreateAgent, At
  <1>5. calls' \in [Calls -> Call] /\ (\A d \in Calls \ {c} : calls'[d] = calls[d]) /\ Good(c)'
    BY <1>1, <1>2, <1>3, <1>4, Answered
  <1>6. agents' \in [Agents -> {"absent", "enabled", "disabled"}]
    BY DEF CreateAgent, IInv, TypeOK
  <1>7. TypeOK'
    BY <1>1, <1>5, <1>6 DEF CreateAgent, identity, people, IInv, TypeOK
  <1>8. Rows' /\ Bound'
    BY DEF CreateAgent, identity, people, IInv, Rows, Bound, TypeOK
  <1>9. QED
    BY <1>1, <1>2, <1>3, <1>5, <1>7, <1>8, ChangedOne

\* A minted token is inserted. (mint_token)
LEMMA StepInsertToken ==
  ASSUME IInv, NEW c \in Calls, NEW t \in AgentTokens, NEW s \in Scopes, InsertToken(c, t, s)
  PROVE  IInv'
  <1> USE TablesAssumption, CredsAssumption, ScopesAssumption
  <1>1. /\ late \subseteq late' /\ touched \subseteq touched'
        /\ late' \subseteq Calls /\ touched' \subseteq Calls
    BY DEF IInv, TypeOK, InsertToken
  <1>2. RowsKept /\ grants' = grants /\ audit' = audit /\ (faults > 0 => faults' > 0)
    BY DEF RowsKept, InsertToken, people, IInv
  <1>3. \A d \in Calls : calls[d].pc # "idle" => TokensKept(d) /\ MembersKept(d)
    BY <1>1 DEF TokensKept, MembersKept, Active, InsertToken, identity, people, IInv, TypeOK
  <1>4. /\ calls[c].pc \in {"work", "insert"} /\ Answer(c, "ok", TRUE)
        /\ calls[c].via = "rest" /\ calls[c].cred \notin AgentTokens
    BY Manages, ManagingNames DEF InsertToken, At
  <1>5. calls' \in [Calls -> Call] /\ (\A d \in Calls \ {c} : calls'[d] = calls[d]) /\ Good(c)'
    BY <1>1, <1>2, <1>3, <1>4, Answered
  <1>6. tokens' \in [AgentTokens -> [state : {"absent", "live", "revoked", "expired"},
                                     agent : Agents \cup {None}, scope : Scope]]
    BY <1>4, Inserted DEF At, InsertToken, IInv, TypeOK
  <1>7. TypeOK'
    BY <1>1, <1>5, <1>6 DEF InsertToken, identity, people, IInv, TypeOK
  <1>8. Rows' /\ Bound'
    BY Inserted DEF At, InsertToken, identity, people, IInv, Rows, Bound, TypeOK
  <1>9. QED
    BY <1>1, <1>2, <1>3, <1>5, <1>7, <1>8, ChangedOne

\* An agent's token is revoked. (revoke_token of identity.rs)
LEMMA StepRevokeAgentToken ==
  ASSUME IInv, NEW c \in Calls, NEW t \in AgentTokens, RevokeAgentToken(c, t)
  PROVE  IInv'
  <1> USE TablesAssumption, CredsAssumption, ScopesAssumption
  <1>1. /\ late \subseteq late' /\ touched \subseteq touched'
        /\ late' \subseteq Calls /\ touched' \subseteq Calls
        /\ \A d \in Calls : calls[d].cred \in {t} /\ calls[d].pc # "idle" => Entered(d)
    BY OvertakeEnters DEF IInv, RevokeAgentToken
  <1>2. RowsKept /\ grants' = grants /\ audit' = audit /\ (faults > 0 => faults' > 0)
    BY DEF RowsKept, RevokeAgentToken, people, IInv
  <1>3. \A d \in Calls : calls[d].pc # "idle" => TokensKept(d) /\ MembersKept(d)
    BY <1>1 DEF TokensKept, MembersKept, Active, RevokeAgentToken, identity, people, IInv, TypeOK
  <1>4. /\ calls[c].pc \in {"work", "insert"} /\ Answer(c, "ok", TRUE)
        /\ calls[c].via = "rest" /\ calls[c].cred \notin AgentTokens
    BY Manages, ManagingNames DEF RevokeAgentToken, At
  <1>5. calls' \in [Calls -> Call] /\ (\A d \in Calls \ {c} : calls'[d] = calls[d]) /\ Good(c)'
    BY <1>1, <1>2, <1>3, <1>4, Answered
  <1>6. tokens' \in [AgentTokens -> [state : {"absent", "live", "revoked", "expired"},
                                     agent : Agents \cup {None}, scope : Scope]]
    BY DEF RevokeAgentToken, IInv, TypeOK
  <1>7. TypeOK'
    BY <1>1, <1>5, <1>6 DEF RevokeAgentToken, identity, people, IInv, TypeOK
  <1>8. Rows' /\ Bound'
    BY DEF RevokeAgentToken, identity, people, IInv, Rows, Bound, TypeOK
  <1>9. QED
    BY <1>1, <1>2, <1>3, <1>5, <1>7, <1>8, ChangedOne

\* The scopes of a token are changed. (update_token_scopes)
LEMMA StepUpdateTokenScopes ==
  ASSUME IInv, NEW c \in Calls, NEW t \in AgentTokens, NEW s \in Scopes, UpdateTokenScopes(c, t, s)
  PROVE  IInv'
  <1> USE TablesAssumption, CredsAssumption, ScopesAssumption
  <1>1. /\ late \subseteq late' /\ touched \subseteq touched'
        /\ late' \subseteq Calls /\ touched' \subseteq Calls
        /\ \A d \in Calls : calls[d].cred \in {t} /\ calls[d].pc # "idle" => Entered(d)
    BY OvertakeEnters DEF IInv, UpdateTokenScopes
  <1>2. RowsKept /\ grants' = grants /\ audit' = audit /\ (faults > 0 => faults' > 0)
    BY DEF RowsKept, UpdateTokenScopes, people, IInv
  <1>3. \A d \in Calls : calls[d].pc # "idle" => TokensKept(d) /\ MembersKept(d)
    BY <1>1 DEF TokensKept, MembersKept, Active, UpdateTokenScopes, identity, people, IInv, TypeOK
  <1>4. /\ calls[c].pc \in {"work", "insert"} /\ Answer(c, "ok", TRUE)
        /\ calls[c].via = "rest" /\ calls[c].cred \notin AgentTokens
    BY Manages, ManagingNames DEF UpdateTokenScopes, At
  <1>5. calls' \in [Calls -> Call] /\ (\A d \in Calls \ {c} : calls'[d] = calls[d]) /\ Good(c)'
    BY <1>1, <1>2, <1>3, <1>4, Answered
  <1>6. tokens' \in [AgentTokens -> [state : {"absent", "live", "revoked", "expired"},
                                     agent : Agents \cup {None}, scope : Scope]]
    <2>1. PICK scope \in {s, [tokens[t].scope EXCEPT !.repos = s.repos],
                        [tokens[t].scope EXCEPT !.tools = s.tools]} :
            tokens' = [tokens EXCEPT ![t].scope = scope]
      BY DEF UpdateTokenScopes
    <2>2. s \in Scope /\ tokens[t].scope \in Scope
      BY DEF IInv, TypeOK
    <2>3. scope \in Scope
      BY <2>1, <2>2 DEF Scope
    <2>4. QED
      BY <2>1, <2>3 DEF IInv, TypeOK
  <1>7. TypeOK'
    BY <1>1, <1>5, <1>6 DEF UpdateTokenScopes, identity, people, IInv, TypeOK
  <1>8. Rows' /\ Bound'
    BY DEF UpdateTokenScopes, identity, people, IInv, Rows, Bound, TypeOK
  <1>9. QED
    BY <1>1, <1>2, <1>3, <1>5, <1>7, <1>8, ChangedOne

\* A human mints a token. (create_token)
LEMMA StepCreateToken ==
  ASSUME IInv, NEW c \in Calls, NEW k \in ApiTokens, CreateToken(c, k)
  PROVE  IInv'
  <1> USE TablesAssumption, CredsAssumption, ScopesAssumption
  <1>1. /\ late \subseteq late' /\ touched \subseteq touched'
        /\ late' \subseteq Calls /\ touched' \subseteq Calls
    BY DEF IInv, TypeOK, CreateToken
  <1>2. RowsKept /\ grants' = grants /\ audit' = audit /\ (faults > 0 => faults' > 0)
    BY DEF RowsKept, CreateToken, people, IInv
  <1>3. \A d \in Calls : calls[d].pc # "idle" => TokensKept(d) /\ MembersKept(d)
    BY <1>1 DEF TokensKept, MembersKept, Active, CreateToken, identity, people, IInv, TypeOK
  <1>4. /\ calls[c].pc \in {"work", "insert"} /\ Answer(c, "ok", TRUE)
        /\ calls[c].via = "rest" /\ calls[c].cred \notin AgentTokens
    BY Manages, ManagingNames DEF CreateToken, At
  <1>5. calls' \in [Calls -> Call] /\ (\A d \in Calls \ {c} : calls'[d] = calls[d]) /\ Good(c)'
    BY <1>1, <1>2, <1>3, <1>4, Answered
  <1>6. apiTokens' \in [ApiTokens -> [state : {"absent", "live", "revoked"}, user : UserId \cup {None}]]
    BY Inserted DEF CreateToken, IInv, TypeOK
  <1>7. TypeOK'
    BY <1>1, <1>5, <1>6 DEF CreateToken, identity, people, IInv, TypeOK
  <1>8. Rows' /\ Bound'
    BY DEF CreateToken, identity, people, IInv, Rows, Bound, TypeOK
  <1>9. QED
    BY <1>1, <1>2, <1>3, <1>5, <1>7, <1>8, ChangedOne

\* A human revokes a token. (revoke_token)
LEMMA StepRevokeToken ==
  ASSUME IInv, NEW c \in Calls, NEW k \in ApiTokens, RevokeToken(c, k)
  PROVE  IInv'
  <1> USE TablesAssumption, CredsAssumption, ScopesAssumption
  <1>1. /\ late \subseteq late' /\ touched \subseteq touched'
        /\ late' \subseteq Calls /\ touched' \subseteq Calls
        /\ \A d \in Calls : calls[d].cred \in {k} /\ calls[d].pc # "idle" => Entered(d)
    BY OvertakeEnters DEF IInv, RevokeToken
  <1>2. RowsKept /\ grants' = grants /\ audit' = audit /\ (faults > 0 => faults' > 0)
    BY DEF RowsKept, RevokeToken, people, IInv
  <1>3. \A d \in Calls : calls[d].pc # "idle" => TokensKept(d) /\ MembersKept(d)
    BY <1>1 DEF TokensKept, MembersKept, Active, RevokeToken, identity, people, IInv, TypeOK
  <1>4. /\ calls[c].pc \in {"work", "insert"} /\ Answer(c, "ok", TRUE)
        /\ calls[c].via = "rest" /\ calls[c].cred \notin AgentTokens
    BY Manages, ManagingNames DEF RevokeToken, At
  <1>5. calls' \in [Calls -> Call] /\ (\A d \in Calls \ {c} : calls'[d] = calls[d]) /\ Good(c)'
    BY <1>1, <1>2, <1>3, <1>4, Answered
  <1>6. apiTokens' \in [ApiTokens -> [state : {"absent", "live", "revoked"}, user : UserId \cup {None}]]
    BY DEF RevokeToken, IInv, TypeOK
  <1>7. TypeOK'
    BY <1>1, <1>5, <1>6 DEF RevokeToken, identity, people, IInv, TypeOK
  <1>8. Rows' /\ Bound'
    BY DEF RevokeToken, identity, people, IInv, Rows, Bound, TypeOK
  <1>9. QED
    BY <1>1, <1>2, <1>3, <1>5, <1>7, <1>8, ChangedOne

\* An agent is disabled. (disable_agent)
LEMMA StepDisableAgent ==
  ASSUME IInv, NEW a \in Agents, DisableAgent(a)
  PROVE  IInv'
  <1> USE TablesAssumption, CredsAssumption, ScopesAssumption
  <1>1. /\ late \subseteq late' /\ touched \subseteq touched'
        /\ late' \subseteq Calls /\ touched' \subseteq Calls
        /\ \A d \in Calls : calls[d].cred \in {t \in AgentTokens : tokens[t].agent = a} /\ calls[d].pc # "idle" => Entered(d)
    BY OvertakeEnters DEF IInv, DisableAgent
  <1>2. RowsKept /\ grants' = grants /\ audit' = audit /\ (faults > 0 => faults' > 0)
    BY DEF RowsKept, DisableAgent, people, IInv
  <1>3. \A d \in Calls : calls[d].pc # "idle" => TokensKept(d) /\ MembersKept(d)
    BY <1>1 DEF TokensKept, MembersKept, Active, DisableAgent, identity, people, IInv, TypeOK, Bound
  <1>4. calls' \in [Calls -> Call] /\ (\A d \in Calls \ {None} : calls'[d] = calls[d]) /\ None \notin Calls
    BY DEF DisableAgent, IInv, TypeOK
  <1>5. agents' \in [Agents -> {"absent", "enabled", "disabled"}]
    BY DEF DisableAgent, IInv, TypeOK
  <1>6. TypeOK'
    BY <1>1, <1>4, <1>5 DEF DisableAgent, identity, people, IInv, TypeOK
  <1>7. Rows' /\ Bound'
    BY DEF DisableAgent, identity, people, IInv, Rows, Bound, TypeOK
  <1>8. QED
    BY <1>1, <1>2, <1>3, <1>4, <1>6, <1>7, ChangedOne

\* A token expires. (authenticate)
LEMMA StepExpire ==
  ASSUME IInv, NEW t \in AgentTokens, Expire(t)
  PROVE  IInv'
  <1> USE TablesAssumption, CredsAssumption, ScopesAssumption
  <1>1. /\ late \subseteq late' /\ touched \subseteq touched'
        /\ late' \subseteq Calls /\ touched' \subseteq Calls
        /\ \A d \in Calls : calls[d].cred \in {t} /\ calls[d].pc # "idle" => Entered(d)
    BY OvertakeEnters DEF IInv, Expire
  <1>2. RowsKept /\ grants' = grants /\ audit' = audit /\ (faults > 0 => faults' > 0)
    BY DEF RowsKept, Expire, people, IInv
  <1>3. \A d \in Calls : calls[d].pc # "idle" => TokensKept(d) /\ MembersKept(d)
    BY <1>1 DEF TokensKept, MembersKept, Active, Expire, identity, people, IInv, TypeOK
  <1>4. calls' \in [Calls -> Call] /\ (\A d \in Calls \ {None} : calls'[d] = calls[d]) /\ None \notin Calls
    BY DEF Expire, IInv, TypeOK
  <1>5. tokens' \in [AgentTokens -> [state : {"absent", "live", "revoked", "expired"},
                                     agent : Agents \cup {None}, scope : Scope]]
    BY DEF Expire, IInv, TypeOK
  <1>6. TypeOK'
    BY <1>1, <1>4, <1>5 DEF Expire, identity, people, IInv, TypeOK
  <1>7. Rows' /\ Bound'
    BY DEF Expire, identity, people, IInv, Rows, Bound, TypeOK
  <1>8. QED
    BY <1>1, <1>2, <1>3, <1>4, <1>6, <1>7, ChangedOne

\* A restart provides the configured token. (ensure_bootstrap_token)
LEMMA StepRestart ==
  ASSUME IInv, Restart
  PROVE  IInv'
  <1> USE TablesAssumption, CredsAssumption, ScopesAssumption
  <1>1. /\ late \subseteq late' /\ touched \subseteq touched'
        /\ late' \subseteq Calls /\ touched' \subseteq Calls
    BY DEF IInv, TypeOK, Restart
  <1>2. RowsKept /\ grants' = grants /\ audit' = audit /\ (faults > 0 => faults' > 0)
    BY FaultType DEF RowsKept, Restart, people, IInv
  <1>3. \A d \in Calls : calls[d].pc # "idle" => TokensKept(d) /\ MembersKept(d)
    BY <1>1 DEF TokensKept, MembersKept, Active, Restart, identity, people, IInv, TypeOK
  <1>4. calls' \in [Calls -> Call] /\ (\A d \in Calls \ {None} : calls'[d] = calls[d]) /\ None \notin Calls
    BY DEF Restart, IInv, TypeOK
  <1>5. apiTokens' \in [ApiTokens -> [state : {"absent", "live", "revoked"}, user : UserId \cup {None}]]
    BY DEF Restart, IInv, TypeOK, UserId
  <1>6. TypeOK'
    BY <1>1, <1>4, <1>5, FaultType DEF Restart, identity, people, IInv, TypeOK
  <1>7. Rows' /\ Bound'
    BY DEF Restart, identity, people, IInv, Rows, Bound, TypeOK
  <1>8. QED
    BY <1>1, <1>2, <1>3, <1>4, <1>6, <1>7, ChangedOne

-----------------------------------------------------------------------------
(* Steps that change the rows of users and organisations *)

\* A sign-in touches no credential and, but for the last step, no membership.
LEMMA SignInKeeps ==
  ASSUME UNCHANGED <<identity, apiTokens, members, late>>
  PROVE  \A d \in Calls : TokensKept(d) /\ MembersKept(d)
  BY DEF TokensKept, MembersKept, Active, identity

\* A row for the name of a session is inserted or found. (link_clerk_principal)
LEMMA StepNewUser ==
  ASSUME IInv, NEW c \in Calls, NewUser(c)
  PROVE  IInv'
  <1> USE TablesAssumption, CredsAssumption
  <1> DEFINE name == Claims[calls[c].cred].name
             row == CHOOSE x \in users' : x.name = name
  <1>1. calls[c].pc = "new_user"
    BY DEF NewUser, At
  <1>2. /\ calls[c].via = "rest" /\ calls[c].cred \in Sessions /\ calls[c].cred \notin AgentTokens
        /\ ~calls[c].effect /\ Good(c) /\ Joined(c) /\ name \in Names
    BY <1>1, SigningInHas DEF SigningIn, Good
  <1>3. users' = IF \E x \in users : x.name = name THEN users
                 ELSE users \cup {[id |-> c, name |-> name]}
    BY DEF NewUser
  <1>4. /\ users' \subseteq [id : UserId, name : Names] /\ users \subseteq users'
        /\ \A x, y \in users' : x.name = y.name => x = y
        /\ row.id \in UserId /\ [id |-> row.id, name |-> name] \in users'
    <2>1. c \in UserId /\ users \subseteq [id : UserId, name : Names]
      BY DEF UserId, IInv, TypeOK
    <2>2. \A x, y \in users : x.name = y.name => x = y
      BY DEF IInv, Rows
    <2>3. users' \subseteq [id : UserId, name : Names] /\ users \subseteq users'
      BY <1>2, <1>3, <2>1
    <2>4. \A x, y \in users' : x.name = y.name => x = y
      BY <1>3, <2>2
    <2>5. \E x \in users' : x.name = name
      <3>1. CASE \E x \in users : x.name = name
        BY <1>3, <3>1
      <3>2. CASE ~\E x \in users : x.name = name
        <4>1. [id |-> c, name |-> name] \in users' /\ [id |-> c, name |-> name].name = name
          BY <1>3, <3>2
        <4>2. QED
          BY <4>1
      <3>3. QED
        BY <3>1, <3>2
    <2>6. row \in users' /\ row.name = name
      BY <2>5, Zenon
    <2> HIDE DEF row
    <2>7. row.id \in UserId /\ row = [id |-> row.id, name |-> name]
      BY <2>3, <2>6
    <2>8. QED
      BY <2>3, <2>4, <2>6, <2>7
  <1> HIDE DEF row
  <1>5. row.id # None
    BY <1>4 DEF UserId
  <1>6. UNCHANGED <<agents, tokens, apiTokens, orgs, members, grants, links, orgLinks, audit, late, touched, faults>>
    BY DEF NewUser, identity
  <1>7. Set(c, [pc |-> "link", user |-> row.id])
    BY DEF NewUser, row
  <1>8. /\ calls'[c].pc = "link" /\ calls'[c].user = row.id /\ calls'[c].via = calls[c].via
        /\ calls'[c].cred = calls[c].cred /\ calls'[c].ask = calls[c].ask
        /\ calls'[c].scope = calls[c].scope /\ calls'[c].org = calls[c].org
        /\ calls'[c].status = calls[c].status /\ calls'[c].effect = calls[c].effect
        /\ calls'[c].agent = calls[c].agent
    BY <1>7, CallsTyped DEF Call, Set, With
  <1>9. calls[c] \in Call /\ calls'[c].pc \in Label /\ calls'[c].status \in Status
    BY <1>8, CallsTyped DEF Call, Label, Status
  <1>10. calls' \in [Calls -> Call] /\ \A d \in Calls \ {c} : calls'[d] = calls[d]
    BY <1>1, <1>2, <1>4, <1>5, <1>6, <1>7, <1>8, <1>9, SetType DEF IInv, Call
  <1>11. Shape(c)'
    BY <1>1, <1>2, <1>4, <1>5, <1>6, <1>8 DEF Good, Shape, SigningIn
  <1>12. Checked(c)'
    BY <1>1, <1>2, <1>4, <1>5, <1>6, <1>8 DEF Good, Checked, Shape, SigningIn
  <1>13. Refusable(c)'
    BY <1>1, <1>2, <1>4, <1>5, <1>6, <1>8 DEF Good, Refusable
  <1>14. Audited(c)'
    BY <1>1, <1>2, <1>4, <1>5, <1>6, <1>8 DEF Good, Audited
  <1>15. Joined(c)'
    BY <1>1, <1>2, <1>4, <1>5, <1>6, <1>8 DEF Joined, SigningIn
  <1>16. Good(c)'
    BY <1>11, <1>12, <1>13, <1>14, <1>15 DEF Good
  <1>17. TypeOK'
    BY <1>4, <1>6, <1>10 DEF IInv, TypeOK
  <1>18. Rows' /\ Bound'
    BY <1>4, <1>6 DEF IInv, Rows, Bound
  <1>19. RowsKept /\ \A d \in Calls : TokensKept(d) /\ MembersKept(d)
    BY <1>4, <1>6, SignInKeeps DEF RowsKept, identity
  <1>20. QED
    BY <1>6, <1>10, <1>16, <1>17, <1>18, <1>19, ChangedOne

\* A row for an organisation is inserted or found. (ensure_clerk_org)
LEMMA StepNewOrg ==
  ASSUME IInv, NEW c \in Calls, NewOrg(c)
  PROVE  IInv'
  <1> USE TablesAssumption, CredsAssumption
  <1> DEFINE name == Claims[calls[c].cred].slug
             row == CHOOSE x \in orgs' : x.name = name
  <1>1. calls[c].pc = "new_org"
    BY DEF NewOrg, At
  <1>2. /\ calls[c].via = "rest" /\ calls[c].cred \in Sessions /\ calls[c].cred \notin AgentTokens
        /\ ~calls[c].effect /\ Good(c) /\ Joined(c) /\ name \in OrgNames
    BY <1>1, SigningInHas DEF SigningIn, Good
  <1>3. orgs' = IF \E x \in orgs : x.name = name THEN orgs
                ELSE orgs \cup {[id |-> c, name |-> name]}
    BY DEF NewOrg
  <1>4. /\ orgs' \subseteq [id : OrgId, name : OrgNames] /\ orgs \subseteq orgs'
        /\ \A x, y \in orgs' : x.name = y.name => x = y
        /\ row.id \in OrgId /\ [id |-> row.id, name |-> name] \in orgs'
    <2>1. c \in OrgId /\ orgs \subseteq [id : OrgId, name : OrgNames]
      BY DEF OrgId, IInv, TypeOK
    <2>2. \A x, y \in orgs : x.name = y.name => x = y
      BY DEF IInv, Rows
    <2>3. orgs' \subseteq [id : OrgId, name : OrgNames] /\ orgs \subseteq orgs'
      BY <1>2, <1>3, <2>1
    <2>4. \A x, y \in orgs' : x.name = y.name => x = y
      BY <1>3, <2>2
    <2>5. \E x \in orgs' : x.name = name
      <3>1. CASE \E x \in orgs : x.name = name
        BY <1>3, <3>1
      <3>2. CASE ~\E x \in orgs : x.name = name
        <4>1. [id |-> c, name |-> name] \in orgs' /\ [id |-> c, name |-> name].name = name
          BY <1>3, <3>2
        <4>2. QED
          BY <4>1
      <3>3. QED
        BY <3>1, <3>2
    <2>6. row \in orgs' /\ row.name = name
      BY <2>5, Zenon
    <2> HIDE DEF row
    <2>7. row.id \in OrgId /\ row = [id |-> row.id, name |-> name]
      BY <2>3, <2>6
    <2>8. QED
      BY <2>3, <2>4, <2>6, <2>7
  <1> HIDE DEF row
  <1>5. row.id # None
    BY <1>4 DEF OrgId
  <1>6. UNCHANGED <<agents, tokens, apiTokens, users, members, grants, links, orgLinks, audit, late, touched, faults>>
    BY DEF NewOrg, identity
  <1>7. Set(c, [pc |-> "link_org", org |-> row.id])
    BY DEF NewOrg, row
  <1>8. /\ calls'[c].pc = "link_org" /\ calls'[c].org = row.id /\ calls'[c].via = calls[c].via
        /\ calls'[c].cred = calls[c].cred /\ calls'[c].ask = calls[c].ask
        /\ calls'[c].scope = calls[c].scope /\ calls'[c].user = calls[c].user
        /\ calls'[c].status = calls[c].status /\ calls'[c].effect = calls[c].effect
        /\ calls'[c].agent = calls[c].agent
    BY <1>7, CallsTyped DEF Call, Set, With
  <1>9. calls[c] \in Call /\ calls'[c].pc \in Label /\ calls'[c].status \in Status
    BY <1>8, CallsTyped DEF Call, Label, Status
  <1>10. calls' \in [Calls -> Call] /\ \A d \in Calls \ {c} : calls'[d] = calls[d]
    BY <1>1, <1>2, <1>4, <1>5, <1>6, <1>7, <1>8, <1>9, SetType DEF IInv, Call
  <1>11. Shape(c)'
    BY <1>1, <1>2, <1>4, <1>5, <1>6, <1>8 DEF Good, Shape, SigningIn
  <1>12. Checked(c)'
    BY <1>1, <1>2, <1>4, <1>5, <1>6, <1>8 DEF Good, Checked, Shape, SigningIn
  <1>13. Refusable(c)'
    BY <1>1, <1>2, <1>4, <1>5, <1>6, <1>8 DEF Good, Refusable
  <1>14. Audited(c)'
    BY <1>1, <1>2, <1>4, <1>5, <1>6, <1>8 DEF Good, Audited
  <1>15. Joined(c)'
    BY <1>1, <1>2, <1>4, <1>5, <1>6, <1>8 DEF Joined, SigningIn
  <1>16. Good(c)'
    BY <1>11, <1>12, <1>13, <1>14, <1>15 DEF Good
  <1>17. TypeOK'
    BY <1>4, <1>6, <1>10 DEF IInv, TypeOK
  <1>18. Rows' /\ Bound'
    BY <1>4, <1>6 DEF IInv, Rows, Bound
  <1>19. RowsKept /\ \A d \in Calls : TokensKept(d) /\ MembersKept(d)
    BY <1>4, <1>6, SignInKeeps DEF RowsKept, identity
  <1>20. QED
    BY <1>6, <1>10, <1>16, <1>17, <1>18, <1>19, ChangedOne

\* The Clerk user is linked to the row. (link_clerk_principal)
LEMMA StepLinkUser ==
  ASSUME IInv, NEW c \in Calls, LinkUser(c)
  PROVE  IInv'
  <1> USE TablesAssumption, CredsAssumption
  <1> DEFINE p == Claims[calls[c].cred]
  <1>1. calls[c].pc = "link"
    BY DEF LinkUser, At
  <1>2. /\ calls[c].via = "rest" /\ calls[c].cred \in Sessions /\ calls[c].cred \notin AgentTokens
        /\ ~calls[c].effect /\ Good(c) /\ Joined(c) /\ p.clerk \in ClerkUsers /\ calls[c].user \in UserId /\ calls[c].user # None
    BY <1>1, SigningInHas DEF SigningIn, Good, UserId
  <1>3. links' = [links EXCEPT ![p.clerk] = calls[c].user]
    BY DEF LinkUser
  <1>4. UNCHANGED <<agents, tokens, apiTokens, users, orgs, members, grants, orgLinks, audit, late, touched, faults>>
    BY DEF LinkUser, identity
  <1>5. Set(c, [pc |-> IF p.org = None THEN "permit" ELSE "org"])
    BY DEF LinkUser
  <1>6. /\ calls'[c].pc = IF p.org = None THEN "permit" ELSE "org"
        /\ calls'[c].via = calls[c].via /\ calls'[c].cred = calls[c].cred
        /\ calls'[c].ask = calls[c].ask /\ calls'[c].scope = calls[c].scope
        /\ calls'[c].user = calls[c].user /\ calls'[c].org = calls[c].org
        /\ calls'[c].status = calls[c].status /\ calls'[c].effect = calls[c].effect
        /\ calls'[c].agent = calls[c].agent
    BY <1>5, CallsTyped DEF Call, Set, With
  <1>7. calls[c] \in Call /\ calls'[c].pc \in Label /\ calls'[c].status \in Status
    BY <1>6, CallsTyped DEF Call, Label, Status
  <1>8. calls' \in [Calls -> Call] /\ \A d \in Calls \ {c} : calls'[d] = calls[d]
    BY <1>1, <1>2, <1>4, <1>5, <1>6, <1>7, SetType DEF IInv, Call
  <1>9. Shape(c)'
    BY <1>1, <1>2, <1>4, <1>6 DEF Good, Shape, SigningIn
  <1>10. Checked(c)'
    BY <1>1, <1>2, <1>4, <1>6 DEF Good, Checked, Shape, SigningIn
  <1>11. Refusable(c)'
    BY <1>1, <1>2, <1>4, <1>6 DEF Good, Refusable
  <1>12. Audited(c)'
    BY <1>1, <1>2, <1>4, <1>6 DEF Good, Audited
  <1>13. Joined(c)'
    BY <1>1, <1>2, <1>4, <1>6 DEF Joined, SigningIn
  <1>14. Good(c)'
    BY <1>9, <1>10, <1>11, <1>12, <1>13 DEF Good
  <1>15. TypeOK'
    BY <1>2, <1>3, <1>4, <1>8 DEF IInv, TypeOK
  <1>16. Rows' /\ Bound'
    <2>1. OneName(p.clerk) => [id |-> calls[c].user, name |-> p.name] \in users
      BY <1>2 DEF Good, Joined
    <2>2. \A s \in Sessions : Claims[s].clerk = p.clerk /\ OneName(p.clerk) => Claims[s].name = p.name
      BY <1>2 DEF OneName
    <2>3. \A s \in Sessions : links'[Claims[s].clerk] = IF Claims[s].clerk = p.clerk THEN calls[c].user ELSE links[Claims[s].clerk]
      BY <1>2, <1>3 DEF IInv, TypeOK, ClerkUsers
    <2>4. QED
      BY <1>4, <2>1, <2>2, <2>3 DEF IInv, Rows, Bound
  <1>17. RowsKept /\ \A d \in Calls : TokensKept(d) /\ MembersKept(d)
    BY <1>4, SignInKeeps DEF RowsKept, identity
  <1>18. QED
    BY <1>4, <1>8, <1>14, <1>15, <1>16, <1>17, ChangedOne

\* The Clerk organisation is linked to the row. (ensure_clerk_org)
LEMMA StepLinkOrg ==
  ASSUME IInv, NEW c \in Calls, LinkOrg(c)
  PROVE  IInv'
  <1> USE TablesAssumption, CredsAssumption
  <1> DEFINE p == Claims[calls[c].cred]
  <1>1. calls[c].pc = "link_org"
    BY DEF LinkOrg, At
  <1>2. /\ calls[c].via = "rest" /\ calls[c].cred \in Sessions /\ calls[c].cred \notin AgentTokens
        /\ ~calls[c].effect /\ Good(c) /\ Joined(c) /\ p.org \in ClerkOrgs /\ calls[c].org \in OrgId /\ calls[c].org # None
    BY <1>1, SigningInHas DEF SigningIn, Good, OrgId
  <1>3. orgLinks' = [orgLinks EXCEPT ![p.org] = calls[c].org]
    BY DEF LinkOrg
  <1>4. UNCHANGED <<agents, tokens, apiTokens, users, orgs, members, grants, links, audit, late, touched, faults>>
    BY DEF LinkOrg, identity
  <1>5. Set(c, [pc |-> "join"])
    BY DEF LinkOrg
  <1>6. /\ calls'[c].pc = "join" /\ calls'[c].via = calls[c].via
        /\ calls'[c].cred = calls[c].cred /\ calls'[c].ask = calls[c].ask
        /\ calls'[c].scope = calls[c].scope /\ calls'[c].user = calls[c].user
        /\ calls'[c].org = calls[c].org /\ calls'[c].status = calls[c].status
        /\ calls'[c].effect = calls[c].effect /\ calls'[c].agent = calls[c].agent
    BY <1>5, CallsTyped DEF Call, Set, With
  <1>7. calls[c] \in Call /\ calls'[c].pc \in Label /\ calls'[c].status \in Status
    BY <1>6, CallsTyped DEF Call, Label, Status
  <1>8. calls' \in [Calls -> Call] /\ \A d \in Calls \ {c} : calls'[d] = calls[d]
    BY <1>1, <1>2, <1>4, <1>5, <1>6, <1>7, SetType DEF IInv, Call
  <1>9. Shape(c)'
    BY <1>1, <1>2, <1>4, <1>6 DEF Good, Shape, SigningIn
  <1>10. Checked(c)'
    BY <1>1, <1>2, <1>4, <1>6 DEF Good, Checked, Shape, SigningIn
  <1>11. Refusable(c)'
    BY <1>1, <1>2, <1>4, <1>6 DEF Good, Refusable
  <1>12. Audited(c)'
    BY <1>1, <1>2, <1>4, <1>6 DEF Good, Audited
  <1>13. Joined(c)'
    BY <1>1, <1>2, <1>4, <1>6 DEF Joined, SigningIn
  <1>14. Good(c)'
    BY <1>9, <1>10, <1>11, <1>12, <1>13 DEF Good
  <1>15. TypeOK'
    BY <1>2, <1>3, <1>4, <1>8 DEF IInv, TypeOK
  <1>16. Rows' /\ Bound'
    <2>1. OneSlug(p.org) => [id |-> calls[c].org, name |-> p.slug] \in orgs
      BY <1>2 DEF Good, Joined
    <2>2. \A s \in Sessions : Claims[s].org = p.org /\ OneSlug(p.org) => Claims[s].slug = p.slug
      BY <1>2 DEF OneSlug
    <2>3. \A s \in Sessions : Claims[s].org # None => orgLinks'[Claims[s].org] = IF Claims[s].org = p.org THEN calls[c].org ELSE orgLinks[Claims[s].org]
      BY <1>2, <1>3 DEF IInv, TypeOK, ClerkOrgs
    <2>4. QED
      BY <1>4, <2>1, <2>2, <2>3 DEF IInv, Rows, Bound
  <1>17. RowsKept /\ \A d \in Calls : TokensKept(d) /\ MembersKept(d)
    BY <1>4, SignInKeeps DEF RowsKept, identity
  <1>18. QED
    BY <1>4, <1>8, <1>14, <1>15, <1>16, <1>17, ChangedOne

\* The membership takes the role of the session. (ensure_clerk_org, map_org_role)
LEMMA StepJoin ==
  ASSUME IInv, NEW c \in Calls, Join(c)
  PROVE  IInv'
  <1> USE TablesAssumption, CredsAssumption
  <1> DEFINE u == calls[c].user
             g == calls[c].org
             role == Claims[calls[c].cred].role
  <1>1. calls[c].pc = "join"
    BY DEF Join, At
  <1>2. /\ calls[c].via = "rest" /\ calls[c].cred \in Sessions /\ calls[c].cred \notin AgentTokens
        /\ ~calls[c].effect /\ Good(c) /\ u \in UserId /\ g \in OrgId /\ u # None /\ g # None
        /\ role \in {"admin", "member"}
    BY <1>1, SigningInHas, ClaimsAssumption DEF SigningIn, UserId, OrgId
  <1>3. /\ members' = {m \in members : ~(m.org = g /\ m.user = u)}
                      \cup {[org |-> g, user |-> u, role |-> role]}
        /\ late' = late \cup {d \in Calls : calls[d].user = u /\ calls[d].pc \in {"work", "insert", "done"}}
    BY DEF Join
  <1>4. UNCHANGED <<agents, tokens, apiTokens, users, orgs, grants, links, orgLinks, audit, touched, faults>>
    BY DEF Join, identity
  <1>5. \E m \in members' : m.org = g /\ m.user = u
    <2>1. [org |-> g, user |-> u, role |-> role] \in members'
      BY <1>3
    <2>2. QED
      BY <2>1
  <1>6. RowsKept
    <2>1. ASSUME NEW m \in members PROVE \E n \in members' : n.org = m.org /\ n.user = m.user
      <3>1. CASE m.org = g /\ m.user = u
        BY <1>5, <3>1
      <3>2. CASE ~(m.org = g /\ m.user = u)
        BY <1>3, <3>2
      <3>3. QED
        BY <3>1, <3>2
    <2>2. QED
      BY <1>4, <2>1 DEF RowsKept
  <1>7. \A d \in Calls : TokensKept(d) /\ MembersKept(d)
    <2>1. \A d \in Calls : TokensKept(d)
      BY <1>4 DEF TokensKept, Active
    <2>2. \A d \in Calls : calls[d].user # u =>
            \A m \in members \cup members' : m.user = calls[d].user => (m \in members <=> m \in members')
      BY <1>3
    <2>3. \A d \in Calls : calls[d].user = u /\ calls[d].pc \in {"work", "insert", "done"} => d \in late'
      BY <1>3
    <2>4. QED
      BY <2>1, <2>2, <2>3 DEF MembersKept
  <1>8. late \subseteq late' /\ late' \subseteq Calls
    BY <1>3 DEF IInv, TypeOK
  <1>9. Set(c, [pc |-> "permit"])
    BY DEF Join
  <1>10. /\ calls'[c].pc = "permit" /\ calls'[c].via = calls[c].via
         /\ calls'[c].cred = calls[c].cred /\ calls'[c].ask = calls[c].ask
         /\ calls'[c].scope = calls[c].scope /\ calls'[c].user = calls[c].user
         /\ calls'[c].org = calls[c].org /\ calls'[c].status = calls[c].status
         /\ calls'[c].effect = calls[c].effect /\ calls'[c].agent = calls[c].agent
    BY <1>9, CallsTyped DEF Call, Set, With
  <1>11. calls[c] \in Call /\ calls'[c].pc \in Label /\ calls'[c].status \in Status
    BY <1>10, CallsTyped DEF Call, Label, Status
  <1>12. calls' \in [Calls -> Call] /\ \A d \in Calls \ {c} : calls'[d] = calls[d]
    BY <1>1, <1>2, <1>4, <1>5, <1>8, <1>9, <1>10, <1>11, SetType DEF IInv, Call
  <1>13. Shape(c)'
    BY <1>1, <1>2, <1>4, <1>5, <1>8, <1>10 DEF Good, Shape, SigningIn
  <1>14. Checked(c)'
    BY <1>1, <1>2, <1>4, <1>5, <1>8, <1>10 DEF Good, Checked, Shape, SigningIn
  <1>15. Refusable(c)'
    BY <1>1, <1>2, <1>4, <1>5, <1>8, <1>10 DEF Good, Refusable
  <1>16. Audited(c)'
    BY <1>1, <1>2, <1>4, <1>5, <1>8, <1>10 DEF Good, Audited
  <1>17. Joined(c)'
    BY <1>1, <1>2, <1>4, <1>5, <1>8, <1>10 DEF Good, Joined, SigningIn
  <1>18. Good(c)'
    BY <1>13, <1>14, <1>15, <1>16, <1>17 DEF Good
  <1>19. TypeOK'
    <2>1. members' \subseteq [org : OrgId, user : UserId, role : {"admin", "member"}]
      BY <1>2, <1>3 DEF IInv, TypeOK
    <2>2. QED
      BY <1>4, <1>8, <1>12, <2>1 DEF IInv, TypeOK
  <1>20. Rows' /\ Bound'
    BY <1>4 DEF IInv, Rows, Bound
  <1>21. QED
    BY <1>4, <1>6, <1>7, <1>8, <1>12, <1>18, <1>19, <1>20, ChangedOne

-----------------------------------------------------------------------------
(* The audit, and the end of a gateway *)

\* The entry is written before the answer. (audit)
LEMMA StepAudit ==
  ASSUME IInv, NEW c \in Calls, Audit(c)
  PROVE  IInv'
  <1> USE TablesAssumption, CredsAssumption
  <1> DEFINE s == calls[c].status
             entry == IF s \in {"ok", "denied"} THEN s ELSE "error"
  <1>1. calls[c].pc = "audit" /\ calls[c].via = "mcp" /\ Good(c) /\ calls[c].cred \in AgentTokens
    BY DEF Audit, At, IInv, Good, Shape
  <1>2. audit' = audit \cup {<<c, entry>>}
    BY DEF Audit
  <1>3. UNCHANGED <<agents, tokens, apiTokens, users, orgs, members, grants, links, orgLinks, late, touched, faults>>
    BY DEF Audit, identity, people
  <1>4. RowsKept /\ \A d \in Calls : TokensKept(d) /\ MembersKept(d)
    BY <1>3 DEF RowsKept, TokensKept, MembersKept, Active
  <1>5. \A r \in {"ok", "denied", "error"} : <<c, r>> \in audit' <=> r = entry
    BY <1>1, <1>2 DEF Good, Audited
  <1>6. Set(c, [pc |-> "done"])
    BY DEF Audit
  <1>7. /\ calls'[c].pc = "done" /\ calls'[c].via = calls[c].via
        /\ calls'[c].cred = calls[c].cred /\ calls'[c].ask = calls[c].ask
        /\ calls'[c].scope = calls[c].scope /\ calls'[c].user = calls[c].user
        /\ calls'[c].org = calls[c].org /\ calls'[c].status = calls[c].status
        /\ calls'[c].effect = calls[c].effect /\ calls'[c].agent = calls[c].agent
    BY <1>6, CallsTyped DEF Call, Set, With
  <1>8. calls[c] \in Call /\ calls'[c].pc \in Label /\ calls'[c].status \in Status
    BY <1>7, CallsTyped DEF Call, Label, Status
  <1>9. calls' \in [Calls -> Call] /\ \A d \in Calls \ {c} : calls'[d] = calls[d]
    BY <1>1, <1>3, <1>5, <1>6, <1>7, <1>8, SetType DEF IInv, Call
  <1>10. Shape(c)'
    BY <1>1, <1>3, <1>5, <1>7 DEF Good, Shape, SigningIn
  <1>11. Checked(c)'
    BY <1>1, <1>3, <1>5, <1>7 , <1>4, PassedKept DEF Good, Checked
  <1>12. Refusable(c)'
    BY <1>1, <1>3, <1>5, <1>7 DEF Good, Refusable
  <1>13. Audited(c)'
    BY <1>1, <1>3, <1>5, <1>7 DEF Good, Audited
  <1>14. Joined(c)'
    BY <1>1, <1>3, <1>5, <1>7 DEF Joined
  <1>15. Good(c)'
    BY <1>10, <1>11, <1>12, <1>13, <1>14 DEF Good
  <1>16. TypeOK' /\ Rows' /\ Bound'
    BY <1>2, <1>3, <1>9 DEF IInv, TypeOK, Rows, Bound
  <1>17. \A d \in Calls \ {c}, r \in {"ok", "denied", "error"} : <<d, r>> \in audit' <=> <<d, r>> \in audit
    BY <1>2
  <1>18. QED
    BY <1>3, <1>4, <1>9, <1>15, <1>16, <1>17, Changed

\* A gateway dies: its calls are lost but for those it has sent on. (main of
\* clotho-agent-gateway)
LEMMA StepGatewayCrash ==
  ASSUME IInv, GatewayCrash
  PROVE  IInv'
  <1> USE TablesAssumption, CredsAssumption
  <1>1. UNCHANGED <<agents, tokens, apiTokens, users, orgs, members, grants, links, orgLinks, audit, late, touched>>
    BY DEF GatewayCrash, identity, people
  <1>2. faults' \in 0 .. MaxFaults /\ faults' > 0
    BY FaultType DEF IInv, GatewayCrash
  <1>3. RowsKept /\ \A d \in Calls : TokensKept(d) /\ MembersKept(d)
    BY <1>1 DEF RowsKept, TokensKept, MembersKept, Active
  <1>4. calls \in [Calls -> Call]
    BY DEF IInv, TypeOK
  <1>5. ASSUME NEW c \in Calls, calls[c].via # "mcp" \/ calls[c].pc = "done"
        PROVE  calls'[c] = calls[c]
    BY <1>5 DEF GatewayCrash
  <1>6. ASSUME NEW c \in Calls, calls[c].via = "mcp", calls[c].pc \in {"edge", "work"}
        PROVE  calls'[c] = With(calls[c], [via |-> "orphan"])
    BY <1>6 DEF GatewayCrash
  <1>7. ASSUME NEW c \in Calls, calls[c].via = "mcp", calls[c].pc \notin {"edge", "work", "done"}
        PROVE  calls'[c] = With(calls[c], [pc |-> "done", status |-> "lost"])
    BY <1>7 DEF GatewayCrash
  <1> DEFINE Spared == {c \in Calls : calls[c].via # "mcp" \/ calls[c].pc = "done"}
             SentOn == {c \in Calls : calls[c].via = "mcp" /\ calls[c].pc \in {"edge", "work"}}
             Lost == {c \in Calls : calls[c].via = "mcp" /\ calls[c].pc \notin {"edge", "work", "done"}}
  <1>8. \A c \in Calls : c \in Spared \/ c \in SentOn \/ c \in Lost
    OBVIOUS
  <1>9. ASSUME NEW c \in SentOn PROVE calls'[c] \in Call /\ Good(c)'
    <2>1. /\ calls'[c].via = "orphan" /\ calls'[c].pc = calls[c].pc /\ calls'[c].cred = calls[c].cred
          /\ calls'[c].ask = calls[c].ask /\ calls'[c].scope = calls[c].scope
          /\ calls'[c].user = calls[c].user /\ calls'[c].org = calls[c].org
          /\ calls'[c].status = calls[c].status /\ calls'[c].effect = calls[c].effect
      <3>1. calls[c] \in Call /\ calls'[c] = With(calls[c], [via |-> "orphan"])
        BY <1>4, <1>6
      <3>2. QED
        BY <3>1 DEF Call, With
    <2>2. calls'[c] \in Call
      <3>1. calls[c] \in Call /\ calls'[c] = With(calls[c], [via |-> "orphan"])
        BY <1>4, <1>6
      <3>2. calls'[c].agent = calls[c].agent
        BY <3>1 DEF Call, With
      <3>3. QED
        BY <2>1, <3>1, <3>2, <3>1, WithType DEF Call
    <2>3. Good(c) /\ calls[c].pc \in {"edge", "work"} /\ calls[c].via = "mcp" /\ calls[c].pc # "idle"
      BY DEF IInv
    <2>4. Shape(c)'
      BY <1>1, <1>2, <2>1, <2>3 DEF Good, Shape, SigningIn
    <2>5. Checked(c)'
      BY <1>1, <1>3, <2>1, <2>3, PassedKept DEF Good, Checked
    <2>6. Refusable(c)'
      BY <1>1, <2>1, <2>3 DEF Good, Refusable, Current, Active, ScopeAllows
    <2>7. Audited(c)'
      BY <1>1, <2>1, <2>3 DEF Good, Audited
    <2>8. Joined(c)'
      BY <1>1, <2>1, <2>3 DEF Good, Joined, Shape
    <2>9. QED
      BY <2>2, <2>4, <2>5, <2>6, <2>7, <2>8 DEF Good
  <1>10. ASSUME NEW c \in Lost PROVE calls'[c] \in Call /\ Good(c)'
    <2>1. /\ calls'[c].via = calls[c].via /\ calls'[c].pc = "done" /\ calls'[c].cred = calls[c].cred
          /\ calls'[c].ask = calls[c].ask /\ calls'[c].scope = calls[c].scope
          /\ calls'[c].user = calls[c].user /\ calls'[c].org = calls[c].org
          /\ calls'[c].status = "lost" /\ calls'[c].effect = calls[c].effect
      <3>1. calls[c] \in Call /\ calls'[c] = With(calls[c], [pc |-> "done", status |-> "lost"])
        BY <1>4, <1>7
      <3>2. QED
        BY <3>1 DEF Call, With
    <2>2. calls'[c] \in Call
      <3>1. calls[c] \in Call /\ calls'[c] = With(calls[c], [pc |-> "done", status |-> "lost"])
        BY <1>4, <1>7
      <3>2. calls'[c].agent = calls[c].agent
        BY <3>1 DEF Call, With
      <3>3. QED
        BY <2>1, <3>1, <3>2, <3>1, WithType DEF Call, Label, Status
    <2>3. Good(c) /\ calls[c].pc \notin {"edge", "work", "done"} /\ calls[c].via = "mcp"
      BY DEF IInv
    <2>4. calls[c].pc # "idle" /\ calls[c].cred \in AgentTokens
      BY <2>3 DEF Good, Shape, NoCall
    <2>5. Shape(c)'
      BY <1>1, <1>2, <2>1, <2>3, <2>4 DEF Good, Shape, SigningIn
    <2>6. Checked(c)'
      BY <1>1, <1>3, <2>1, <2>3, <2>4, PassedKept DEF Good, Checked
    <2>7. Refusable(c)'
      BY <1>1, <2>1, <2>3 DEF Good, Refusable
    <2>8. Audited(c)'
      BY <1>1, <1>2, <2>1, <2>3 DEF Good, Audited
    <2>9. Joined(c)'
      BY <2>1, <2>4 DEF Joined
    <2>10. QED
      BY <2>2, <2>5, <2>6, <2>7, <2>8, <2>9 DEF Good
  <1>11. calls' \in [Calls -> Call]
    <2>1. calls' = [c \in Calls |-> calls'[c]]
      BY DEF GatewayCrash
    <2>2. \A c \in Calls : calls'[c] \in Call
      BY <1>4, <1>5, <1>8, <1>9, <1>10
    <2>3. QED
      BY <2>1, <2>2
  <1>12. TypeOK' /\ Rows' /\ Bound'
    BY <1>1, <1>2, <1>11 DEF IInv, TypeOK, Rows, Bound
  <1>13. \A c \in Calls \cap (SentOn \cup Lost) : Good(c)'
    BY <1>9, <1>10
  <1>14. \A c \in Calls \ (SentOn \cup Lost) : calls'[c] = calls[c]
    BY <1>5, <1>8
  <1> HIDE DEF Spared, SentOn, Lost
  <1>15. QED
    BY <1>1, <1>2, <1>3, <1>12, <1>13, <1>14, Changed

-----------------------------------------------------------------------------
(* The invariant and the theorems *)

LEMMA StepIInv == IInv /\ [Next]_vars => IInv'
  <1> SUFFICES ASSUME IInv, [Next]_vars PROVE IInv'
    OBVIOUS
  <1>1. ASSUME NEW c \in Calls, NEW a \in Asks, NEW t \in AgentTokens, ToolCall(c, a, t) PROVE IInv'
    BY <1>1, StepToolCall
  <1>2. ASSUME NEW c \in Calls, NEW a \in Asks, NEW k \in Creds, RestCall(c, a, k) PROVE IInv'
    BY <1>2, StepRestCall
  <1>3. ASSUME NEW c \in Calls,
               RunTool(c) \/ Audit(c) \/ AuditFails(c) \/ Edge(c) \/ EdgeFails(c) \/ Resolve(c)
               \/ NewUser(c) \/ LinkUser(c) \/ FindOrg(c) \/ NewOrg(c) \/ LinkOrg(c) \/ Join(c)
               \/ SignInFails(c) \/ Permit(c) \/ Serve(c) \/ ServeFails(c) \/ Miss(c)
        PROVE  IInv'
    <2>1. CASE RunTool(c) \/ Audit(c) \/ AuditFails(c) \/ Edge(c) \/ EdgeFails(c) \/ Resolve(c)
      BY <2>1, StepRunTool, StepAudit, StepAuditFails, StepEdge, StepEdgeFails, StepResolve
    <2>2. CASE NewUser(c) \/ LinkUser(c) \/ FindOrg(c) \/ NewOrg(c) \/ LinkOrg(c) \/ Join(c) \/ SignInFails(c)
      BY <2>2, StepNewUser, StepLinkUser, StepFindOrg, StepNewOrg, StepLinkOrg, StepJoin, StepSignInFails
    <2>3. CASE Permit(c) \/ Serve(c) \/ ServeFails(c) \/ Miss(c)
      BY <2>3, StepPermit, StepServe, StepServeFails, StepMiss
    <2>4. QED
      BY <1>3, <2>1, <2>2, <2>3
  <1>4. ASSUME NEW c \in Calls, NEW a \in Agents, CreateAgent(c, a) \/ FindAgent(c, a) PROVE IInv'
    BY <1>4, StepCreateAgent, StepFindAgent
  <1>5. ASSUME NEW c \in Calls, NEW t \in AgentTokens, RevokeAgentToken(c, t) PROVE IInv'
    BY <1>5, StepRevokeAgentToken
  <1>6. ASSUME NEW c \in Calls, NEW t \in AgentTokens, NEW s \in Scopes,
               InsertToken(c, t, s) \/ UpdateTokenScopes(c, t, s)
        PROVE  IInv'
    BY <1>6, StepInsertToken, StepUpdateTokenScopes
  <1>7. ASSUME NEW c \in Calls, NEW k \in ApiTokens, CreateToken(c, k) \/ RevokeToken(c, k) PROVE IInv'
    BY <1>7, StepCreateToken, StepRevokeToken
  <1>8. CASE GatewayCrash \/ Restart
    BY <1>8, StepGatewayCrash, StepRestart
  <1>9. ASSUME NEW a \in Agents, DisableAgent(a) PROVE IInv'
    BY <1>9, StepDisableAgent
  <1>10. ASSUME NEW t \in AgentTokens, Expire(t) PROVE IInv'
    BY <1>10, StepExpire
  <1>11. CASE UNCHANGED vars
    <2>1. UNCHANGED <<calls, faults, identity, people, audit, late, touched>>
      BY <1>11 DEF vars, identity, people
    <2>2. TypeOK' /\ Rows' /\ Bound'
      BY <2>1 DEF IInv, TypeOK, Rows, Bound, identity, people
    <2>3. RowsKept /\ \A d \in Calls : TokensKept(d) /\ MembersKept(d)
      BY <2>1 DEF RowsKept, TokensKept, MembersKept, Active, identity, people
    <2>4. /\ \A d \in Calls \ {None} : calls'[d] = calls[d]
          /\ grants' = grants /\ audit' = audit /\ late' = late /\ touched' = touched /\ faults' = faults
      BY <2>1 DEF people
    <2>5. QED
      BY <2>2, <2>3, <2>4, ChangedOne, TablesAssumption
  <1>12. CASE Next
    <2>1. CASE \E c \in Calls : \E a \in Asks :
                 (\E t \in AgentTokens : ToolCall(c, a, t)) \/ \E k \in Creds : RestCall(c, a, k)
      BY <1>1, <1>2, <2>1
    <2>2. CASE \E c \in Calls :
                 \/ \E a \in Agents : CreateAgent(c, a) \/ FindAgent(c, a)
                 \/ \E t \in AgentTokens : RevokeAgentToken(c, t)
                 \/ \E t \in AgentTokens, s \in Scopes : InsertToken(c, t, s) \/ UpdateTokenScopes(c, t, s)
                 \/ \E k \in ApiTokens : CreateToken(c, k) \/ RevokeToken(c, k)
      BY <1>4, <1>5, <1>6, <1>7, <2>2
    <2>3. QED
      BY <1>3, <1>8, <1>9, <1>10, <1>12, <2>1, <2>2 DEF Next
  <1>13. QED
    BY <1>11, <1>12

\* In every reachable state a call past a check is still permitted or was overtaken,
\* and the rows of a sign-in are those of its names.
THEOREM InvariantHolds == Spec => []IInv
  <1>1. Init => IInv
    BY InitIInv
  <1>2. IInv /\ [Next]_vars => IInv'
    BY StepIInv
  <1>3. QED
    BY <1>1, <1>2, PTL DEF Spec

\* A change to a token, an agent or a membership stops every call but those that had
\* passed their last check. (authenticate, authorize, has_repo_permission)
THEOREM EffectsTheorem == Spec => []EffectsWereAllowed
  <1>1. IInv => EffectsWereAllowed
    BY DEF IInv, Good, Checked, EffectsWereAllowed
  <1>2. QED
    BY <1>1, InvariantHolds, PTL

\* Whoever lists repositories sees the ones they can read, one by one. An agent's
\* token lists what its scope admits. (list_accessible_repos_with_orgs, get_tree)
LEMMA ListedIsRead == TypeOK => ListingAgreesWithReading
  <1> SUFFICES ASSUME TypeOK PROVE ListingAgreesWithReading
    OBVIOUS
  <1> USE TablesAssumption
  <1>1. ASSUME NEW u PROVE AccessibleRepos(u) = {r \in Repos : CanRead(u, r)}
    <2>1. IsOrgAdmin(u, Home) <=> \E m \in members : m.org = Home /\ m.user = u /\ m.role = "admin"
      <3>1. ASSUME NEW m \in members, m.org = Home, m.user = u, m.role = "admin"
            PROVE  [org |-> Home, user |-> u, role |-> "admin"] \in members
        <4>1. m \in [org : OrgId, user : UserId, role : {"admin", "member"}]
          BY DEF TypeOK
        <4>2. m = [org |-> Home, user |-> u, role |-> "admin"]
          BY <3>1, <4>1
        <4>3. QED
          BY <4>2
      <3>2. ASSUME [org |-> Home, user |-> u, role |-> "admin"] \in members
            PROVE  \E m \in members : m.org = Home /\ m.user = u /\ m.role = "admin"
        BY <3>2
      <3>3. QED
        BY <3>1, <3>2 DEF IsOrgAdmin
    <2>2. ASSUME NEW g \in grants PROVE Rank(g.permission) >= Rank("read") <=> g.permission \in {"read", "write", "admin"}
      <3>1. g.permission \in {"read", "write", "admin"}
        BY DEF TypeOK
      <3>2. QED
        BY <3>1 DEF Rank
    <2>3. ASSUME NEW r \in Repos
          PROVE  HasRepoPermission(u, r, "read") <=>
                   \/ \E m \in members : m.org = Home /\ m.user = u /\ m.role = "admin"
                   \/ \E g \in grants : g.repo = r /\ g.user = u /\ g.permission \in {"read", "write", "admin"}
      BY <2>1, <2>2 DEF HasRepoPermission
    <2>4. QED
      BY <2>3 DEF AccessibleRepos, CanRead
  <1>2. ASSUME NEW t \in AgentTokens, Active(t), {"list_repos", "get_tree"} \subseteq tokens[t].scope.tools
        PROVE  AgentRepos(tokens[t].scope)
                 = {r \in Repos : EdgeAllows(t, [tool |-> "none", route |-> "get_tree", repo |-> r])}
    <2>1. ASSUME NEW r \in Repos
          PROVE  EdgeAllows(t, [tool |-> "none", route |-> "get_tree", repo |-> r]) <=> r \in tokens[t].scope.repos
      <3> DEFINE a == [tool |-> "none", route |-> "get_tree", repo |-> r]
      <3>1. a.route = "get_tree" /\ a.repo = r /\ r # None
        OBVIOUS
      <3> HIDE DEF a
      <3>2. RouteOf(a).need = "read" /\ RouteOf(a).tool = "get_tree"
        BY <3>1, TreeRoute
      <3>3. EdgeAllows(t, a) <=> r \in tokens[t].scope.repos
        BY <1>2, <3>1, <3>2 DEF EdgeAllows, ScopeAllows
      <3>4. QED
        BY <3>3 DEF a
    <2>2. QED
      BY <2>1 DEF AgentRepos
  <1>3. QED
    BY <1>1, <1>2 DEF ListingAgreesWithReading

\* What the gateway admits the edge admits, and what is listed can be read.
\* (authorize_if_agent, list_accessible_repos_with_orgs)
THEOREM DecisionsTheorem == Spec => []DecisionsAgree
  <1>1. IInv => DecisionsAgree
    BY ListedIsRead DEF IInv, Good, Refusable, RefusalsHaveACause, DecisionsAgree
  <1>2. QED
    BY <1>1, InvariantHolds, PTL

\* A tool call leaves one entry, which says what came of it. (run_tool, audit)
THEOREM AuditTheorem == Spec => []AuditIsTrue
  <1>1. ASSUME IInv, NEW c \in Calls
        PROVE  LET entries == {e \in audit : e[1] = c} IN
               /\ Cardinality(entries) <= 1
               /\ <<c, "denied">> \in entries => ~calls[c].effect
               /\ <<c, "ok">> \in entries => calls[c].effect
               /\ calls[c].via = "mcp" /\ calls[c].pc = "done" /\ entries = {}
                    => calls[c].status \in {"unauthorized", "unaudited", "lost"}
               /\ calls[c].effect /\ calls[c].via # "rest" /\ calls[c].pc = "done" /\ entries = {} => faults > 0
    <2> DEFINE entries == {e \in audit : e[1] = c}
               results == {r \in {"ok", "denied", "error"} : <<c, r>> \in audit}
    <2>1. Audited(c) /\ Shape(c) /\ audit \subseteq Calls \X {"ok", "denied", "error"}
      BY <1>1 DEF IInv, Good, TypeOK
    <2>2. \A e \in entries : e = <<c, e[2]>> /\ e[2] \in results
      BY <2>1
    <2>3. \A r \in results : <<c, r>> \in entries
      OBVIOUS
    <2>4. /\ \A r \in results : /\ r = "denied" => ~calls[c].effect
                                /\ r = "ok" => calls[c].effect
          /\ \A r, s \in results : r = s
      BY <2>1 DEF Audited
    <2>5. calls[c].via = "mcp" /\ calls[c].pc = "done" /\ results = {} =>
            calls[c].status \in {"unauthorized", "unaudited", "lost"} /\ (calls[c].effect => faults > 0)
      BY <2>1 DEF Audited
    <2>6. calls[c].via = "orphan" => faults > 0
      BY <2>1 DEF Shape
    <2>7. calls[c].via \in {"mcp", "rest", "orphan"}
      BY <1>1 DEF IInv, TypeOK, Call
    <2>8. Cardinality(entries) <= 1
      <3>1. CASE entries = {}
        BY <3>1, FS_EmptySet
      <3>2. CASE entries # {}
        <4>1. PICK e \in entries : TRUE
          BY <3>2
        <4>2. ASSUME NEW d \in entries PROVE d = e
          <5>1. d = <<c, d[2]>> /\ d[2] \in results /\ e = <<c, e[2]>> /\ e[2] \in results
            BY <2>2
          <5>2. d[2] = e[2]
            BY <2>4, <5>1
          <5>3. QED
            BY <5>1, <5>2
        <4>3. entries = {e}
          BY <4>2
        <4>4. Cardinality({e}) = 1
          BY FS_Singleton
        <4>5. QED
          BY <4>3, <4>4
      <3>3. QED
        BY <3>1, <3>2
    <2>9. (entries = {}) <=> (results = {})
      BY <2>2, <2>3
    <2>10. (<<c, "denied">> \in entries => "denied" \in results) /\ (<<c, "ok">> \in entries => "ok" \in results)
      OBVIOUS
    <2> HIDE DEF entries, results
    <2>11. QED
      BY <2>4, <2>5, <2>6, <2>7, <2>8, <2>9, <2>10 DEF entries
  <1>2. IInv => AuditIsTrue
    BY <1>1 DEF AuditIsTrue
  <1>3. QED
    BY <1>2, InvariantHolds, PTL

\* However sign-ins overlap or fail midway, sessions of one Clerk user and name are of
\* one user, and their user is a member of their organisation. (link_clerk_principal)
THEOREM SignInsTheorem == Spec => []SignInsAgree
  <1>1. ASSUME IInv, NEW c \in Calls, NEW d \in Calls, SignedIn(c), SignedIn(d)
        PROVE  LET p == Claims[calls[c].cred]  q == Claims[calls[d].cred] IN
               /\ p.clerk = q.clerk /\ OneName(p.clerk) => calls[c].user = calls[d].user
               /\ p.org = q.org /\ (p.org # None => OneSlug(p.org)) => calls[c].org = calls[d].org
               /\ p.org # None => \E m \in members : m.org = calls[c].org /\ m.user = calls[c].user
    <2> DEFINE p == Claims[calls[c].cred]
               q == Claims[calls[d].cred]
    <2>1. ASSUME NEW e \in {c, d}
          PROVE  LET r == Claims[calls[e].cred] IN
                 /\ calls[e].cred \in Sessions
                 /\ OneName(r.clerk) => [id |-> calls[e].user, name |-> r.name] \in users
                 /\ r.org = None => calls[e].org = None
                 /\ r.org # None => /\ calls[e].org # None
                                    /\ OneSlug(r.org) => [id |-> calls[e].org, name |-> r.slug] \in orgs
                                    /\ \E m \in members : m.org = calls[e].org /\ m.user = calls[e].user
      BY <1>1, <2>1 DEF IInv, Good, Joined, SignedIn
    <2>2. p.clerk = q.clerk /\ OneName(p.clerk) => p.name = q.name
      BY <2>1 DEF OneName
    <2>3. p.org = q.org /\ OneSlug(p.org) => p.slug = q.slug
      BY <2>1 DEF OneSlug
    <2>4. /\ \A u, v \in users : u.name = v.name => u = v
          /\ \A u, v \in orgs : u.name = v.name => u = v
      BY <1>1 DEF IInv, Rows
    <2>5. \A i, j, n : /\ [id |-> i, name |-> n] \in users /\ [id |-> j, name |-> n] \in users => i = j
                       /\ [id |-> i, name |-> n] \in orgs /\ [id |-> j, name |-> n] \in orgs => i = j
      BY <2>4
    <2>6. p.clerk = q.clerk /\ OneName(p.clerk) => calls[c].user = calls[d].user
      BY <2>1, <2>2, <2>5
    <2>7. p.org = q.org /\ (p.org # None => OneSlug(p.org)) => calls[c].org = calls[d].org
      BY <2>1, <2>3, <2>5
    <2>8. p.org # None => \E m \in members : m.org = calls[c].org /\ m.user = calls[c].user
      BY <2>1
    <2>9. QED
      BY <2>6, <2>7, <2>8
  <1>2. IInv => SignInsAgree
    BY <1>1 DEF SignInsAgree
  <1>3. QED
    BY <1>2, InvariantHolds, PTL

=============================================================================
