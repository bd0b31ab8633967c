----------------------------- MODULE ApiSurface -----------------------------
(***************************************************************************)
(* What the two gateways offer, and what each offer asks of its caller.    *)
(*                                                                         *)
(* A route of the REST edge (clotho-api-gateway) names the permission its  *)
(* handler requires of a human and, when the handler admits agents, the    *)
(* tool an agent's token must be scoped for: the handler chooses it, never *)
(* the request. A tool of the agent gateway (MCP) either calls a service   *)
(* itself or forwards the call to one route.                               *)
(***************************************************************************)

Route(name, need, tool) == [name |-> name, need |-> need, tool |-> tool]

\* Mutant: the comment handler asks for another tool than the agent gateway.
IssueRoutesMisnamed ==
  {Route("list_issues", "read", "list_issues"), Route("create_issue", "write", "create_issue"),
   Route("update_issue", "write", "none"), Route("get_issue", "read", "none"),
   Route("create_issue_comment", "write", "create_comment")}

\* need: read, write, admin (of the repository); any (whoever resolves, the
\* answer is filtered); self (one's own tokens); agents (require_agent_admin);
\* org (an administrator of the organisation). tool "none": no agent is admitted.
IssueRoutes ==
  {Route("list_issues", "read", "list_issues"), Route("create_issue", "write", "create_issue"),
   Route("update_issue", "write", "none"), Route("get_issue", "read", "none"),
   Route("create_issue_comment", "write", "comment_issue")}

LabelRoutes == {Route("list_labels", "read", "none"), Route("create_label", "write", "none")}

MilestoneRoutes == {Route("list_milestones", "read", "none"), Route("create_milestone", "write", "none")}

StatusRoutes == {Route("branches", "read", "none"), Route("commit_statuses", "read", "none")}

PullRoutes ==
  {Route("list_pulls", "read", "list_pulls"), Route("create_pull", "write", "create_pull"),
   Route("get_pull", "read", "none"), Route("comment_on_pull", "write", "comment_pull"),
   Route("review_pull", "write", "review_pull"), Route("merge_pull", "write", "merge_pull")}

RunRoutes ==
  {Route("list_runs", "read", "list_action_runs"), Route("get_run", "read", "none"),
   Route("get_run_logs", "read", "get_action_logs"), Route("start_run", "write", "start_action_run")}

WriteRoutes == {Route("commit_repo", "write", "none"), Route("submit_change", "write", "none")}

ReadRoutes == {Route("get_tree", "read", "get_tree"), Route("get_file", "read", "get_file")}

ListRoutes ==
  {Route("list_repos", "any", "list_repos"), Route("list_activity", "any", "get_activity"),
   Route("list_fabric_providers", "any", "list_providers")}

SecretRoutes ==
  {Route("list_repo_secrets", "admin", "list_secrets"),
   Route("list_org_secrets", "org", "list_secrets")}

TokenRoutes == {Route("create_token", "self", "none"), Route("revoke_token", "self", "none")}

AgentRoutes ==
  {Route("create_agent", "agents", "none"), Route("mint_token", "agents", "none"),
   Route("revoke_agent_token", "agents", "none"), Route("update_token_scopes", "agents", "none")}

Routes ==
  IssueRoutes \cup LabelRoutes \cup MilestoneRoutes \cup StatusRoutes \cup PullRoutes
  \cup RunRoutes \cup WriteRoutes \cup ReadRoutes \cup ListRoutes \cup SecretRoutes
  \cup TokenRoutes \cup AgentRoutes

-----------------------------------------------------------------------------
(* The tools. route "none": the tool calls clotho-vcs, the merge queue or      *)
(* clotho-diff over gRPC, and no second check follows.                     *)

Tool(name, route) == [name |-> name, route |-> route]

CommitTools == {Tool("commit", "none"), Tool("submit_change", "none")}

CheckpointTools == {Tool("checkpoint", "none"), Tool("restore_to", "none")}

OrientTools == {Tool("orient_repo", "none"), Tool("diff_symbol", "none")}

IssueTools ==
  {Tool("list_issues", "list_issues"), Tool("create_issue", "create_issue"),
   Tool("comment_issue", "create_issue_comment")}

PullTools ==
  {Tool("list_pulls", "list_pulls"), Tool("create_pull", "create_pull"),
   Tool("comment_pull", "comment_on_pull"), Tool("review_pull", "review_pull"),
   Tool("merge_pull", "merge_pull")}

ActionTools ==
  {Tool("list_action_runs", "list_runs"), Tool("start_action_run", "start_run"),
   Tool("get_action_logs", "get_run_logs")}

PlatformTools ==
  {Tool("list_providers", "list_fabric_providers"), Tool("list_repos", "list_repos"),
   Tool("get_activity", "list_activity")}

\* list_secrets picks its route by the scope it is given.
SecretTools == {Tool("list_secrets", "list_repo_secrets"), Tool("list_secrets", "list_org_secrets")}

ReadTools == {Tool("get_tree", "get_tree"), Tool("get_file", "get_file")}

Tools ==
  CommitTools \cup CheckpointTools \cup OrientTools \cup IssueTools \cup PullTools
  \cup ActionTools \cup PlatformTools \cup SecretTools \cup ReadTools

ToolNames == {t.name : t \in Tools}

\* Tools that run_tool calls with an empty repository: only the tool's scope counts.
Platform(route) == route \in {"list_fabric_providers", "list_repos", "list_activity",
                              "list_org_secrets"}

=============================================================================
