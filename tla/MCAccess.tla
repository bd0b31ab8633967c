------------------------------ MODULE MCAccess ------------------------------
(* One agent with two tokens, two humans and two Clerk sessions of one person. *)
EXTENDS Access, TLC

CONSTANTS r1, r2, s1, s2, b1, b2, k1, g1

Ask(tool, route, repo, by) == [tool |-> tool, route |-> route, repo |-> repo, by |-> by]

\* A tool that commits directly, one that comments through the edge, and the
\* routes by which people read, write, manage tokens and manage agents.
MCAsks ==
  {Ask("commit", "none", r2, AgentTokens),
   Ask("comment_issue", "create_issue_comment", r2, AgentTokens),
   Ask("list_secrets", "list_org_secrets", None, AgentTokens),
   Ask("none", "get_tree", r2, {None, b2} \cup AgentTokens),
   Ask("none", "create_label", r2, {b2} \cup AgentTokens),
   Ask("none", "create_token", None, {b1, s1}),
   Ask("none", "revoke_token", None, {b1, b2}),
   Ask("none", "create_agent", None, {b1}),
   Ask("none", "mint_token", None, {b1, s1}),
   Ask("none", "revoke_agent_token", None, {b1, s1}),
   Ask("none", "update_token_scopes", None, {s2, b1})}

MCScopes == {[repos |-> Repos, tools |-> ToolNames],
             [repos |-> {r1}, tools |-> {"comment_issue", "list_repos", "get_tree"}]}

\* One person, twice: an administrator of the organisation, then a member.
MCClaims ==
  [s \in Sessions |->
     [clerk |-> k1, name |-> "kim", org |-> g1, slug |-> "kims",
      role |-> IF s = s1 THEN "admin" ELSE "member"]]

MCSymmetry == Permutations(Calls) \cup Permutations(AgentTokens)

=============================================================================
