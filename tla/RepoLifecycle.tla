--------------------------- MODULE RepoLifecycle ---------------------------
(***************************************************************************)
(* The control plane's organisations and repositories: lib.rs (create),    *)
(* repos.rs (list, update, delete) and control.rs (the statements they     *)
(* make).                                                                  *)
(*                                                                         *)
(* A repository lives in three systems: clotho-vcs has its objects,        *)
(* Forgejo a project that adopts them, Postgres the row the gateway routes *)
(* by. No transaction spans them: every handler is a sequence of calls,    *)
(* each of which may fail and leave what came before. Names are global,    *)
(* but the check for a free name and the insertion are far apart, and the  *)
(* table only forbids two rows of one name in one organisation.            *)
(*                                                                         *)
(* A repository's id is the request that created it (a fresh uuid).        *)
(***************************************************************************)
EXTENDS Naturals, FiniteSets, Functions

CONSTANTS Names,       \* repository names (numbers, to order them)
          Orgs,        \* organisations
          Bootstrap,   \* the organisation ensure_bootstrap provides
          Users,       \* users
          Operator,    \* the bootstrap user, admin of Bootstrap
          Requests,    \* the requests of a behaviour
          Existing,    \* ids of repositories that are there from the start
          Updates,     \* bodies of update requests
          None,        \* no value
          PageSize,    \* repositories on a page
          MaxTime,     \* bound on the clock
          MaxFaults    \* bound on failed calls

ASSUME BootstrapAssumption ==
  /\ Bootstrap \in Orgs /\ Operator \in Users
  /\ None \notin Orgs \cup Users \cup Names \cup Requests \cup Existing
ASSUME ExistingAssumption ==
  Requests \cap Existing = {} /\ IsFiniteSet(Existing)
ASSUME BoundsAssumption ==
  Names \subseteq Nat /\ PageSize \in Nat \ {0} /\ MaxTime \in Nat /\ MaxFaults \in Nat

VARIABLES orgs,        \* table orgs
          admins,      \* table org_memberships: who administers what
          repos,       \* table repos
          grants,      \* table repo_permissions: who administers what
          activity,    \* table activity_events
          vcs,         \* repositories of clotho-vcs: name to how far it is
          projects,    \* Forgejo projects: name to what they show
          hooks,       \* names whose push webhook is registered
          requests,    \* the requests under way
          walk,        \* one client that lists repositories page by page
          now,         \* the database's clock
          faults       \* failed calls so far

vars == <<orgs, admins, repos, grants, activity, vcs, projects, hooks, requests, walk,
          now, faults>>

database == <<orgs, admins, repos, grants, activity>>
provider == <<vcs, projects, hooks>>

-----------------------------------------------------------------------------
(* Types *)

Id == Requests \cup Existing

Visibility == {"public", "private"}
Mode == {"public", "tailscale"}
Tags == {"some", "none"}

Repo == [id : Id, org : Orgs, name : Names, visibility : Visibility,
         mode : Mode, tags : Tags, updated : 0 .. MaxTime]

Event == [type : {"org.created", "repo.created", "repo.updated", "repo.deleted"},
          org : Orgs, repo : Id \cup {None}, by : Requests]

\* What an update request sets; "keep" is a missing field.
Update == [visibility : Visibility \cup {"keep"}, mode : Mode \cup {"keep"},
           tags : Tags \cup {"keep"}]

ASSUME UpdatesAssumption == Updates \subseteq Update /\ None \notin Update

Label == {"idle", "join", "log_org", "init", "seed", "adopt", "insert", "grant",
          "log_create", "hook", "change", "patch", "log_update", "erase_activity",
          "erase", "unadopt", "log_delete", "done", "failed"}

Request == [pc : Label, user : Users \cup {None}, org : Orgs \cup {None},
            name : Names \cup {None}, id : Id \cup {None},
            mode : Mode, tags : Tags, visibility : Visibility,
            body : Update \cup {None}]

\* seen: what the client was shown, twice: what it was shown again. start: what
\* it could see when it began. touched: what has been inserted, changed or
\* deleted since.
Walk == [pc : {"idle", "walking", "ended"}, cursor : (0 .. MaxTime) \X Names \cup {None},
         seen : SUBSET Id, twice : SUBSET Id, start : SUBSET Id, touched : SUBSET Id]

ASSUME CursorAssumption == None \notin (0 .. MaxTime) \X Names

TypeOK ==
  /\ orgs \subseteq Orgs /\ admins \subseteq Orgs \X Users
  /\ repos \subseteq Repo /\ grants \subseteq Id \X Users
  /\ activity \subseteq Event
  /\ vcs \in [Names -> {"absent", "empty", "seeded"}]
  /\ projects \in [Names -> {"absent"} \cup Visibility]
  /\ hooks \subseteq Names
  /\ requests \in [Requests -> Request]
  /\ walk \in Walk
  /\ now \in 0 .. MaxTime /\ faults \in 0 .. MaxFaults

-----------------------------------------------------------------------------
(* Helpers *)

NoRequest == [pc |-> "idle", user |-> None, org |-> None, name |-> None, id |-> None,
              mode |-> "public", tags |-> "none", visibility |-> "public", body |-> None]

NoWalk == [pc |-> "idle", cursor |-> None, seen |-> {}, twice |-> {}, start |-> {},
           touched |-> {}]

\* get_repo_with_org: a name with two rows is hidden.
Lookup(n) ==
  LET rows == {r \in repos : r.name = n} IN IF Cardinality(rows) = 1 THEN rows ELSE {}

\* require_repo_admin
IsAdmin(u, r) == <<r.org, u>> \in admins \/ <<r.id, u>> \in grants

\* validate_network_policy
PolicyValid(mode, tags) == mode = "tailscale" => tags = "some"

\* The repositories an anonymous client may list (ACCESSIBLE_REPOS_SQL).
Listed == {r \in repos : r.visibility = "public" /\ Lookup(r.name) = {r}}

Goto(q, label) == requests' = [requests EXCEPT ![q].pc = label]

Fault == faults < MaxFaults /\ faults' = faults + 1

Touch(id) == walk' = [walk EXCEPT !.touched = @ \cup {id}]

Log(q, type, org, repo) ==
  activity' = activity \cup {[type |-> type, org |-> org, repo |-> repo, by |-> q]}

-----------------------------------------------------------------------------
(* ensure_bootstrap has run; what was made in earlier days is complete. *)

Init ==
  /\ \/ orgs = {Bootstrap} /\ admins = {<<Bootstrap, Operator>>}
     \/ /\ orgs = Orgs
        /\ \E f \in [Orgs -> Users] :
             f[Bootstrap] = Operator /\ admins = {<<o, f[o]>> : o \in Orgs}
  /\ \E old \in SUBSET Existing : \E name \in Injection(old, Names) :
       LET used == {name[i] : i \in old} IN
       /\ repos = {[id |-> i, org |-> Bootstrap, name |-> name[i], visibility |-> "public",
                    mode |-> "public", tags |-> "none", updated |-> 0] : i \in old}
       /\ grants = {<<i, Operator>> : i \in old}
       /\ vcs = [n \in Names |-> IF n \in used THEN "seeded" ELSE "absent"]
       /\ projects = [n \in Names |-> IF n \in used THEN "public" ELSE "absent"]
       /\ hooks = used
  /\ activity = {}
  /\ requests = [q \in Requests |-> NoRequest]
  /\ walk = NoWalk /\ now = 0 /\ faults = 0

-----------------------------------------------------------------------------
(* create_org: the organisation, its first admin, the event *)

CreateOrg(q, u, o) ==
  /\ requests[q] = NoRequest
  /\ o \notin orgs
  /\ orgs' = orgs \cup {o}
  /\ requests' = [requests EXCEPT ![q] = [@ EXCEPT !.pc = "join", !.user = u, !.org = o]]
  /\ UNCHANGED <<admins, repos, grants, activity, provider, walk, now, faults>>

JoinOrg(q) ==
  /\ requests[q].pc = "join"
  /\ admins' = admins \cup {<<requests[q].org, requests[q].user>>}
  /\ Goto(q, "log_org")
  /\ UNCHANGED <<orgs, repos, grants, activity, provider, walk, now, faults>>

LogOrg(q) ==
  /\ requests[q].pc = "log_org"
  /\ Log(q, "org.created", requests[q].org, None)
  /\ Goto(q, "done")
  /\ UNCHANGED <<orgs, admins, repos, grants, provider, walk, now, faults>>

-----------------------------------------------------------------------------
(* create_repo *)

\* The checks: the caller administers the organisation and the name is free.
CreateRepo(q, u, o, n, visibility, mode, tags) ==
  /\ requests[q] = NoRequest
  /\ <<o, u>> \in admins
  /\ ~\E r \in repos : r.name = n
  /\ requests' = [requests EXCEPT ![q] =
       [@ EXCEPT !.pc = "init", !.user = u, !.org = o, !.name = n, !.id = q,
                 !.visibility = visibility, !.mode = mode, !.tags = tags]]
  /\ UNCHANGED <<database, provider, walk, now, faults>>

\* Mutant: a repository that exists is taken as it is.
InitRepoAnyway(q) ==
  /\ requests[q].pc = "init"
  /\ vcs' = [vcs EXCEPT ![requests[q].name] = IF @ = "absent" THEN "empty" ELSE @]
  /\ Goto(q, "seed")
  /\ UNCHANGED <<database, projects, hooks, walk, now, faults>>

\* vcs.init_repo refuses a name it has ever seen.
InitRepo(q) ==
  /\ requests[q].pc = "init"
  /\ IF vcs[requests[q].name] = "absent"
     THEN vcs' = [vcs EXCEPT ![requests[q].name] = "empty"] /\ Goto(q, "seed")
     ELSE Goto(q, "failed") /\ UNCHANGED vcs
  /\ UNCHANGED <<database, projects, hooks, walk, now, faults>>

\* The empty initial commit.
SeedRepo(q) ==
  /\ requests[q].pc = "seed"
  /\ vcs' = [vcs EXCEPT ![requests[q].name] = "seeded"]
  /\ Goto(q, "adopt")
  /\ UNCHANGED <<database, projects, hooks, walk, now, faults>>

\* forgejo.adopt_repo says nothing of visibility.
AdoptRepo(q) ==
  /\ requests[q].pc = "adopt"
  /\ projects' = [projects EXCEPT ![requests[q].name] = "public"]
  /\ Goto(q, "insert")
  /\ UNCHANGED <<database, vcs, hooks, walk, now, faults>>

\* Mutant: a row that cannot be inserted is passed over.
InsertRowIfPossible(q) ==
  /\ requests[q].pc = "insert"
  /\ Goto(q, IF PolicyValid(requests[q].mode, requests[q].tags) THEN "failed" ELSE "hook")
  /\ UNCHANGED <<database, provider, walk, now, faults>>

\* insert_repo: only now is the network policy looked at; the table refuses a
\* second row of the name in the organisation.
InsertRow(q) ==
  LET r == requests[q]
      taken == \E row \in repos : row.name = r.name /\ row.org = r.org
  IN
  /\ r.pc = "insert"
  /\ IF PolicyValid(r.mode, r.tags) /\ ~taken
     THEN /\ repos' = repos \cup {[id |-> q, org |-> r.org, name |-> r.name,
                                   visibility |-> r.visibility, mode |-> r.mode,
                                   tags |-> r.tags, updated |-> now]}
          /\ Touch(q)
          /\ Goto(q, "grant")
     ELSE Goto(q, "failed") /\ UNCHANGED <<repos, walk>>
  /\ UNCHANGED <<orgs, admins, grants, activity, provider, now, faults>>

Present(q) == \E r \in repos : r.id = requests[q].id

GrantCreator(q) ==
  /\ requests[q].pc = "grant" /\ Present(q)
  /\ grants' = grants \cup {<<q, requests[q].user>>}
  /\ Goto(q, "log_create")
  /\ UNCHANGED <<orgs, admins, repos, activity, provider, walk, now, faults>>

LogCreate(q) ==
  /\ requests[q].pc = "log_create" /\ Present(q)
  /\ Log(q, "repo.created", requests[q].org, q)
  /\ Goto(q, "hook")
  /\ UNCHANGED <<orgs, admins, repos, grants, provider, walk, now, faults>>

\* create_push_webhook, best effort: it fails as a fault, or without a project.
RegisterHook(q) ==
  /\ requests[q].pc = "hook"
  /\ \/ hooks' = (IF projects[requests[q].name] = "absent" THEN hooks
                  ELSE hooks \cup {requests[q].name}) /\ UNCHANGED faults
     \/ Fault /\ UNCHANGED hooks
  /\ Goto(q, "done")
  /\ UNCHANGED <<database, vcs, projects, walk, now>>

-----------------------------------------------------------------------------
(* update_repo *)

UpdateRepo(q, u, n, body) ==
  /\ requests[q] = NoRequest
  /\ \E r \in Lookup(n) :
       /\ IsAdmin(u, r)
       /\ requests' = [requests EXCEPT ![q] =
            [@ EXCEPT !.pc = "change", !.user = u, !.org = r.org, !.name = n,
                      !.id = r.id, !.body = body]]
  /\ UNCHANGED <<database, provider, walk, now, faults>>

Or(new, old) == IF new = "keep" THEN old ELSE new

\* What update_repo_row demands of the body alone: an omitted mode counts as
\* public, omitted tags as none.
BodyValid(b) ==
  /\ b # [visibility |-> "keep", mode |-> "keep", tags |-> "keep"]
  /\ b.mode # "keep" \/ b.tags # "keep" => PolicyValid(Or(b.mode, "public"), Or(b.tags, "none"))

\* update_repo_row: one coalescing update by id.
ChangeRow(q) ==
  LET b == requests[q].body IN
  /\ requests[q].pc = "change" /\ Present(q) /\ BodyValid(b)
  /\ repos' = {IF r.id # requests[q].id THEN r
               ELSE [r EXCEPT !.visibility = Or(b.visibility, @), !.mode = Or(b.mode, @),
                              !.tags = Or(b.tags, @), !.updated = now] : r \in repos}
  /\ Touch(requests[q].id)
  /\ Goto(q, "patch")
  /\ UNCHANGED <<orgs, admins, grants, activity, provider, now, faults>>

RefuseBody(q) ==
  /\ requests[q].pc = "change" /\ ~BodyValid(requests[q].body)
  /\ Goto(q, "failed")
  /\ UNCHANGED <<database, provider, walk, now, faults>>

\* patch_repo, best effort.
PatchProject(q) ==
  LET b == requests[q].body IN
  /\ requests[q].pc = "patch"
  /\ \/ /\ projects' = [projects EXCEPT ![requests[q].name] =
                          IF @ = "absent" THEN @ ELSE Or(b.visibility, @)]
        /\ UNCHANGED faults
     \/ Fault /\ UNCHANGED projects
  /\ Goto(q, "log_update")
  /\ UNCHANGED <<database, vcs, hooks, walk, now>>

LogUpdate(q) ==
  /\ requests[q].pc = "log_update" /\ Present(q)
  /\ Log(q, "repo.updated", requests[q].org, requests[q].id)
  /\ Goto(q, "done")
  /\ UNCHANGED <<orgs, admins, repos, grants, provider, walk, now, faults>>

-----------------------------------------------------------------------------
(* delete_repo *)

DeleteRepo(q, u, n) ==
  /\ requests[q] = NoRequest
  /\ \E r \in Lookup(n) :
       /\ IsAdmin(u, r)
       /\ requests' = [requests EXCEPT ![q] =
            [@ EXCEPT !.pc = "erase_activity", !.user = u, !.org = r.org, !.name = n,
                      !.id = r.id]]
  /\ UNCHANGED <<database, provider, walk, now, faults>>

EraseActivity(q) ==
  /\ requests[q].pc = "erase_activity"
  /\ activity' = {e \in activity : e.repo # requests[q].id}
  /\ Goto(q, "erase")
  /\ UNCHANGED <<orgs, admins, repos, grants, provider, walk, now, faults>>

\* Mutant: what refers to the row is left behind.
EraseRowOnly(q) ==
  /\ requests[q].pc = "erase" /\ Present(q)
  /\ repos' = {r \in repos : r.id # requests[q].id}
  /\ Touch(requests[q].id)
  /\ Goto(q, "unadopt")
  /\ UNCHANGED <<orgs, admins, grants, activity, provider, now, faults>>

\* delete_repo_row; everything that refers to the row goes with it.
EraseRow(q) ==
  /\ requests[q].pc = "erase" /\ Present(q)
  /\ repos' = {r \in repos : r.id # requests[q].id}
  /\ grants' = {g \in grants : g[1] # requests[q].id}
  /\ activity' = {e \in activity : e.repo # requests[q].id}
  /\ Touch(requests[q].id)
  /\ Goto(q, "unadopt")
  /\ UNCHANGED <<orgs, admins, provider, now, faults>>

\* forgejo.delete_repo by name, best effort: the project goes with its hooks.
Unadopt(q) ==
  /\ requests[q].pc = "unadopt"
  /\ \/ /\ projects' = [projects EXCEPT ![requests[q].name] = "absent"]
        /\ hooks' = hooks \ {requests[q].name}
        /\ UNCHANGED faults
     \/ Fault /\ UNCHANGED <<projects, hooks>>
  /\ Goto(q, "log_delete")
  /\ UNCHANGED <<database, vcs, walk, now>>

LogDelete(q) ==
  /\ requests[q].pc = "log_delete"
  /\ Log(q, "repo.deleted", requests[q].org, None)
  /\ Goto(q, "done")
  /\ UNCHANGED <<orgs, admins, repos, grants, provider, walk, now, faults>>

\* A statement about a repository that was deleted meanwhile: a broken foreign
\* key, or a row that is not found.
RepoGone(q) ==
  /\ \/ requests[q].pc \in {"grant", "log_create", "log_update", "erase"}
     \/ requests[q].pc = "change" /\ BodyValid(requests[q].body)
  /\ ~Present(q)
  /\ Goto(q, "failed")
  /\ UNCHANGED <<database, provider, walk, now, faults>>

\* A call fails and the handler returns its error: nothing is undone.
CallFails(q) ==
  /\ requests[q].pc \notin {"idle", "hook", "patch", "unadopt", "done", "failed"}
  /\ Fault
  /\ Goto(q, "failed")
  /\ UNCHANGED <<database, provider, walk, now>>

-----------------------------------------------------------------------------
(* list_repos: sorted by time, newest first, then by name, page by page *)

Sooner(r, s) ==
  r.updated > s.updated \/ (r.updated = s.updated /\ r.name < s.name)

\* Mutant: the cursor is the time alone.
AfterCursorTime(r, cursor) == cursor = None \/ r.updated < cursor[1]

AfterCursor(r, cursor) ==
  \/ cursor = None
  \/ r.updated < cursor[1]
  \/ r.updated = cursor[1] /\ r.name > cursor[2]

StartWalk ==
  /\ walk.pc = "idle"
  /\ walk' = [NoWalk EXCEPT !.pc = "walking", !.start = {r.id : r \in Listed}]
  /\ UNCHANGED <<database, provider, requests, now, faults>>

\* What follows the cursor, and as much of it as fits on a page.
Rest == {r \in Listed : AfterCursor(r, walk.cursor)}

Page(rest) == {r \in rest : Cardinality({s \in rest : Sooner(s, r)}) < PageSize}

\* paginate_repos: when the page leaves something out the cursor moves to its
\* last row.
ListPage ==
  LET page == Page(Rest)
      ids == {r.id : r \in page}
      shown == [walk EXCEPT !.seen = @ \cup ids, !.twice = @ \cup (ids \cap walk.seen)]
  IN
  /\ walk.pc = "walking"
  /\ \/ page = Rest /\ walk' = [shown EXCEPT !.pc = "ended"]
     \/ \E last \in page :
          /\ page # Rest /\ \A r \in page \ {last} : Sooner(r, last)
          /\ walk' = [shown EXCEPT !.cursor = <<last.updated, last.name>>]
  /\ UNCHANGED <<database, provider, requests, now, faults>>

Tick ==
  /\ now < MaxTime
  /\ now' = now + 1
  /\ UNCHANGED <<database, provider, requests, walk, faults>>

-----------------------------------------------------------------------------

CreateStep(q) ==
  \/ InitRepo(q) \/ SeedRepo(q) \/ AdoptRepo(q) \/ InsertRow(q) \/ GrantCreator(q)
  \/ LogCreate(q) \/ RegisterHook(q)

UpdateStep(q) == ChangeRow(q) \/ RefuseBody(q) \/ PatchProject(q) \/ LogUpdate(q)

DeleteStep(q) == EraseActivity(q) \/ EraseRow(q) \/ Unadopt(q) \/ LogDelete(q)

Arrive(q, u) ==
  \/ \E o \in Orgs : CreateOrg(q, u, o)
  \/ \E o \in Orgs, n \in Names, v \in Visibility, mode \in Mode :
       CreateRepo(q, u, o, n, v, mode, "none")
  \/ \E n \in Names, body \in Updates : UpdateRepo(q, u, n, body)
  \/ \E n \in Names : DeleteRepo(q, u, n)

Next ==
  \/ \E q \in Requests, u \in Users : Arrive(q, u)
  \/ \E q \in Requests :
       \/ JoinOrg(q) \/ LogOrg(q) \/ CreateStep(q) \/ UpdateStep(q) \/ DeleteStep(q)
       \/ RepoGone(q) \/ CallFails(q)
  \/ StartWalk \/ ListPage \/ Tick

Spec == Init /\ [][Next]_vars

-----------------------------------------------------------------------------
(* Properties *)

\* A row the gateway routes by is backed: the repository is there and seeded,
\* and so is its project, whatever creations and deletions of the name overlap.
\* (create_repo inserts the row last, delete_repo removes it first)
RowsAreBacked ==
  \A r \in repos : vcs[r.name] = "seeded" /\ projects[r.name] # "absent"

\* Names stay globally unambiguous, though neither the check for a free name nor
\* the table guarantees it: "name-routed repositories must be globally
\* unambiguous". (require_global_repo_name_available, init_repo)
NamesAreUnambiguous ==
  \A r, s \in repos : r.name = s.name => r = s

\* An orphan, a repository without a row, has a cause: a creation that is under
\* way or was answered with an error, or a deletion; never a creation that was
\* answered as done. (create_repo, delete_repo: nothing is undone)
OrphansHaveACause ==
  \A n \in Names :
    vcs[n] # "absent" =>
      \/ \E r \in repos : r.name = n
      \/ \E q \in Requests :
           /\ requests[q].name = n
           /\ IF requests[q].id = q THEN requests[q].pc \notin {"init", "done"}
              ELSE requests[q].body = None /\ requests[q].pc \in {"unadopt", "log_delete",
                                                                  "done", "failed"}

\* A creation that was answered holds until the repository is deleted: its row
\* is there, its creator administers it and the event is logged; and nothing
\* outlives the row. (insert_repo, delete_repo_row)
AnsweredCreations ==
  /\ \A q \in Requests :
       requests[q].pc = "done" /\ requests[q].id = q =>
         \/ \E r \in repos : r.id = q /\ <<q, requests[q].user>> \in grants
         \/ \E d \in Requests \ {q} :
              /\ requests[d].id = q /\ requests[d].body = None
              /\ requests[d].pc \in {"unadopt", "log_delete", "done", "failed"}
  /\ \A g \in grants : \E r \in repos : r.id = g[1]
  /\ \A e \in activity : e.repo # None => \E r \in repos : r.id = e.repo

\* Listing page by page shows no repository twice, and at the end every one that
\* could be listed at the start and was not touched meanwhile, though others
\* come, go and move to the front. (paginate_repos)
WalksAreComplete ==
  /\ walk.twice = {}
  /\ walk.pc = "ended" => walk.start \ walk.touched \subseteq walk.seen

\* "tailscale network mode requires at least one tag": a repository on the
\* tailscale network without tags lost them to an update that named tags and no
\* mode, which is validated as if the mode were public. (validate_network_policy,
\* update_repo_row)
UntaggedHasACause ==
  \A r \in repos :
    PolicyValid(r.mode, r.tags) \/
      \E q \in Requests : /\ requests[q].id = r.id /\ requests[q].body # None
                         /\ requests[q].body.mode = "keep" /\ requests[q].body.tags = "none"

\* The rows the gateway routes by are sound: typed, unambiguous, backed by a
\* repository and a project, and with a network policy it would accept unless
\* an update emptied it. (create_repo, update_repo, delete_repo)
RowsAreSound ==
  TypeOK /\ NamesAreUnambiguous /\ RowsAreBacked /\ UntaggedHasACause

=============================================================================
