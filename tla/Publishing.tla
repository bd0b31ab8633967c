----------------------------- MODULE Publishing -----------------------------
(***************************************************************************)
(* How a change becomes public: pulls.rs merges a pull request under the   *)
(* repository's merge policy (merge_policy.rs), the merge moves main, and  *)
(* releases.rs freezes a commit of main as an immutable release that the   *)
(* release routes and the Hugging Face compatible routes (hf_compat.rs)    *)
(* serve from.                                                             *)
(*                                                                         *)
(* Each request is a handler of the gateway with an await point between    *)
(* any two of its calls to Forgejo, the VCS service, the storage service   *)
(* and the database.  Forgejo's pull request, its head, statuses and       *)
(* reviews change under the requests.  Permissions are the subject of      *)
(* Access, deleting the repository that of RepoLifecycle.                  *)
(***************************************************************************)
EXTENDS Integers, Sequences, FiniteSets, FiniteSetsExt

CONSTANTS Requests,    \* the requests the gateway serves
          Kinds,       \* the handlers they may be for
          Versions,    \* version labels a release may ask for
          Base,        \* the commit main points to at first
          Heads,       \* commits the pull request's branch may point to
          Users,       \* Forgejo logins that review
          Tree,        \* the files of each commit: [commit -> [path -> File]]
          None,        \* an omitted field, an absent row
          MaxMoves,    \* bound on what Forgejo's users and the store do meanwhile
          MaxFaults,   \* bound on failing calls
          MaxOffset    \* bound on the offsets a Range header names

Commits == DOMAIN Tree

\* A file of a commit: where its bytes are, how many, whether it carries the
\* structured metadata of a card, and whether it is an unresolved conflict.
File == [id : Nat, storage : {"git", "arachne"}, size : Nat, metadata : BOOLEAN,
         conflicted : BOOLEAN]

Policy == [passing : BOOLEAN, conflicted : BOOLEAN, approvals : Nat]

ASSUME TreeAssumption ==
  /\ Base \in Commits /\ Heads \subseteq Commits /\ Heads # {} /\ Versions # {}
  /\ \A c \in Commits : Tree[c] \in [DOMAIN Tree[c] -> File]
  /\ "main" \notin Commits
ASSUME NoneAssumption ==
  /\ None \notin Requests \cup Commits \cup Policy \cup Int \cup (Int \X Int)
  /\ \A v \in Versions, c \in Commits :
       None # [version |-> v, commit |-> c, manifest |-> Tree[c]]
ASSUME BoundsAssumption == MaxMoves \in Nat /\ MaxFaults \in Nat /\ MaxOffset \in Nat

VARIABLES pull,      \* Forgejo's pull request
          statuses,  \* the statuses Forgejo keeps of each head
          reviews,   \* the reviews of the pull request, as Forgejo lists them
          policy,    \* the row of repo_merge_policies, or None
          main,      \* the commit main points to
          releases,  \* the rows of repo_releases by created_at
          payload,   \* what the store answers for the Arachne payloads
          reqs,      \* the requests
          merged,    \* what was true when the pull request was merged, or None
          moves,     \* moves of others so far
          faults     \* failing calls so far

vars == <<pull, statuses, reviews, policy, main, releases, payload, reqs,
          merged, moves, faults>>

\* What applies to a repository that has no row of its own.
DefaultPolicy == [passing |-> FALSE, conflicted |-> TRUE, approvals |-> 0]

\* What Forgejo reports of a head.
StatusState == {"success", "failure", "error", "pending", "warning"}
Review == [user : Users, state : {"APPROVED", "REQUEST_CHANGES"}]

\* A Range header: absent, unreadable, "bytes=a-b", "bytes=a-" (b is None) or
\* "bytes=-n" (a is None).
Offset == 0 .. MaxOffset
Ranges ==
  {[form |-> "absent"], [form |-> "unreadable"]}
    \cup {[form |-> "bytes", a |-> a, b |-> b] : a \in Offset \cup {None}, b \in Offset}
    \cup {[form |-> "bytes", a |-> a, b |-> None] : a \in Offset}

\* asks: what the request asks for.  seen: what it read so far.  calm: nobody
\* changed what a merge works on since its first read.
Steps == {"idle", "pull", "policy", "statuses", "reviews", "merge", "write", "list", "read",
          "insert", "log", "info", "resolve", "load", "stream", "done"}

Rest == [pc |-> "idle", kind |-> "none", asks |-> None, seen |-> None, calm |-> TRUE,
         answer |-> None]

---------------------------------------------------------------------------
(* Pure parts of the handlers. *)

PolicyInForce == IF policy = None THEN DefaultPolicy ELSE policy

\* Distinct reviewers whose first listed review approves.
CountApprovingReviews(list) ==
  Cardinality({i \in DOMAIN list :
                 /\ list[i].state = "APPROVED"
                 /\ \A j \in 1 .. (i - 1) : list[j].user # list[i].user})

\* Mutant: a head nobody has reported on counts as passing.
EvaluateMergePolicyLaxly(p, mergeable, states, approvals) ==
  /\ p.conflicted => mergeable
  /\ p.passing => states \cap {"failure", "error", "pending"} = {}
  /\ approvals >= p.approvals

EvaluateMergePolicy(p, mergeable, states, approvals) ==
  /\ p.conflicted => mergeable
  /\ p.passing => states # {} /\ states \cap {"failure", "error", "pending"} = {}
  /\ approvals >= p.approvals

\* An update names some fields; the others keep the value that was read.
Updated(current, asks) ==
  [f \in DOMAIN current |-> IF asks[f] = None THEN current[f] ELSE asks[f]]

\* A model is ready with a card, weights and structured metadata.
Ready(manifest) ==
  /\ {"card", "weights"} \subseteq DOMAIN manifest
  /\ \E p \in DOMAIN manifest : manifest[p].metadata

\* The first and last byte a Range header selects of a payload of this size,
\* all of it without one, None when it cannot be satisfied.
ParseByteRange(r, size) ==
  CASE r.form = "absent" -> <<0, size - 1>>
    [] r.form = "unreadable" \/ (r.form = "bytes" /\ size = 0) -> None
    [] OTHER -> IF r.a = None
                THEN IF r.b = 0 THEN None ELSE <<size - Min({r.b, size}), size - 1>>
                ELSE IF r.a >= size \/ (r.b # None /\ r.b < r.a) THEN None
                ELSE <<r.a, IF r.b = None THEN size - 1 ELSE Min({r.b, size - 1})>>

\* Mutant: a commit names no release.
NamedByVersion(revision) ==
  {i \in DOMAIN releases : revision \in {"main", releases[i].version}}

\* The releases a revision names: main, a version or a commit.
Named(revision) ==
  {i \in DOMAIN releases : revision \in {"main", releases[i].version, releases[i].commit}}

\* The newest of them.
ResolveReleaseSnapshot(revision) ==
  IF Named(revision) = {} THEN None ELSE releases[Max(Named(revision))]

LoadRelease(version) ==
  LET rows == {i \in DOMAIN releases : releases[i].version = version}
  IN IF rows = {} THEN None ELSE releases[CHOOSE i \in rows : TRUE]

---------------------------------------------------------------------------
\* A new repository, or one with a strict policy and a first release, from
\* which main may have moved on.
Init ==
  /\ pull = [head |-> CHOOSE h \in Heads : TRUE, open |-> TRUE, mergeable |-> TRUE]
  /\ statuses = [h \in Heads |-> {}]
  /\ reviews = <<>>
  /\ \/ policy = None /\ releases = <<>> /\ main = Base
     \/ /\ main \in {Base} \cup Heads
        /\ policy = [passing |-> TRUE, conflicted |-> TRUE, approvals |-> 1]
        /\ releases = <<[version |-> CHOOSE v \in Versions : TRUE, commit |-> Base,
                        manifest |-> Tree[Base]]>>
  /\ payload = "whole"
  /\ reqs = [q \in Requests |-> Rest]
  /\ merged = None
  /\ moves = 0
  /\ faults = 0

forgejo == <<pull, statuses, reviews, main, merged>>

At(q, kind, pc) == reqs[q].kind = kind /\ reqs[q].pc = pc

Set(q, r) == reqs' = [reqs EXCEPT ![q] = r]

Goto(q, pc, seen) ==
  Set(q, [reqs[q] EXCEPT !.pc = pc, !.seen = seen])

Answer(q, a) ==
  Set(q, [reqs[q] EXCEPT !.pc = "done", !.answer = a, !.seen = None])

\* The merges under way other than q are no longer undisturbed.
Disturbed(q, rs) ==
  [o \in Requests |-> IF o # q /\ rs[o].kind = "merge_pull" /\ rs[o].pc # "done"
                      THEN [rs[o] EXCEPT !.calm = FALSE] ELSE rs[o]]

Fault == faults < MaxFaults /\ faults' = faults + 1

\* A call of the request fails: the handler returns the error.
Fail(q) ==
  /\ reqs[q].pc \in {"pull", "policy", "merge", "write", "list", "read", "insert",
                     "log", "info", "resolve", "load"}
  /\ Fault
  /\ Answer(q, [what |-> "error"])
  /\ UNCHANGED <<forgejo, policy, releases, payload, moves>>

Quiet == UNCHANGED <<forgejo, policy, releases, payload, moves, faults>>

---------------------------------------------------------------------------
(* merge_pull *)

StartMerge(q) ==
  /\ reqs[q].pc = "idle" /\ "merge_pull" \in Kinds
  /\ Set(q, [Rest EXCEPT !.kind = "merge_pull", !.pc = "pull"])
  /\ Quiet

GetPull(q) ==
  /\ At(q, "merge_pull", "pull")
  /\ Set(q, [reqs[q] EXCEPT !.pc = "policy", !.calm = TRUE,
                            !.seen = [head |-> pull.head, mergeable |-> pull.mergeable,
                                      policy |-> None, statuses |-> {}]])
  /\ Quiet

MergePolicyForRepo(q) ==
  /\ At(q, "merge_pull", "policy")
  /\ Goto(q, "statuses", [reqs[q].seen EXCEPT !.policy = PolicyInForce])
  /\ Quiet

\* The statuses of the head that was read.
CommitStatuses(q) ==
  /\ At(q, "merge_pull", "statuses")
  /\ Goto(q, "reviews", [reqs[q].seen EXCEPT !.statuses = statuses[reqs[q].seen.head]])
  /\ Quiet

\* A list that cannot be read is taken to be empty.
CommitStatusesUnavailable(q) ==
  /\ At(q, "merge_pull", "statuses")
  /\ Fault
  /\ Goto(q, "reviews", reqs[q].seen)
  /\ UNCHANGED <<forgejo, policy, releases, payload, moves>>

Judge(q, list) ==
  LET s == reqs[q].seen
  IN IF EvaluateMergePolicy(s.policy, s.mergeable, s.statuses, CountApprovingReviews(list))
     THEN Goto(q, "merge", s)
     ELSE Answer(q, [what |-> "blocked"])

ListPullReviews(q) ==
  /\ At(q, "merge_pull", "reviews")
  /\ Judge(q, reviews)
  /\ Quiet

ListPullReviewsUnavailable(q) ==
  /\ At(q, "merge_pull", "reviews")
  /\ Fault
  /\ Judge(q, <<>>)
  /\ UNCHANGED <<forgejo, policy, releases, payload, moves>>

\* By the reviews of the pull request, oldest first: u's latest word approves;
\* u's first word approved, and a later one does not.
Said(i, u, approving) ==
  reviews[i].user = u /\ (reviews[i].state = "APPROVED" <=> approving)
Approves(u) ==
  \E i \in DOMAIN reviews :
    Said(i, u, TRUE) /\ \A j \in DOMAIN reviews : Said(j, u, FALSE) => j < i
Withdrew(u) ==
  \E i, j \in DOMAIN reviews :
    /\ i < j /\ Said(i, u, TRUE) /\ Said(j, u, FALSE)
    /\ \A k \in DOMAIN reviews : reviews[k].user = u => i <= k

\* The policy as it stands allows the pull request as it stands, whatever the
\* request has read, but for two things the code lets pass: a report that is
\* neither a success nor a failure nor outstanding (Forgejo's "warning"), and
\* an approval that its reviewer has withdrawn.
Deserved ==
  LET p == PolicyInForce
      reports == statuses[pull.head]
  IN /\ p.conflicted => pull.mergeable
     /\ p.passing => reports # {} /\ reports \subseteq {"success", "warning"}
     /\ p.approvals <= Cardinality({u \in Users : Approves(u) \/ Withdrew(u)})

\* Forgejo merges whatever the branch points to by now: the call names the
\* pull request only.
MergeInForgejo(q) ==
  /\ pull.open /\ pull.mergeable
  /\ pull' = [pull EXCEPT !.open = FALSE]
  /\ main' = pull.head
  /\ merged' = [calm |-> reqs[q].calm, deserved |-> Deserved]
  /\ UNCHANGED <<statuses, reviews, policy, releases, payload, moves>>

MergePull(q) ==
  /\ At(q, "merge_pull", "merge")
  /\ MergeInForgejo(q)
  /\ Answer(q, [what |-> "merged"])
  /\ UNCHANGED faults

\* The merge is done and reading the pull request back fails.
MergeUnacknowledged(q) ==
  /\ At(q, "merge_pull", "merge")
  /\ Fault
  /\ MergeInForgejo(q)
  /\ Answer(q, [what |-> "error"])

MergeRefused(q) ==
  /\ At(q, "merge_pull", "merge")
  /\ ~(pull.open /\ pull.mergeable)
  /\ Answer(q, [what |-> "refused"])
  /\ Quiet

---------------------------------------------------------------------------
(* put_merge_policy_handler: upsert_merge_policy *)

PolicyAsks ==
  {[passing |-> FALSE, conflicted |-> None, approvals |-> None],
   [passing |-> None, conflicted |-> FALSE, approvals |-> 0],
   [passing |-> TRUE, conflicted |-> None, approvals |-> -1]}

StartPolicy(q) ==
  /\ reqs[q].pc = "idle" /\ "put_merge_policy" \in Kinds
  /\ \E a \in PolicyAsks :
       Set(q, [Rest EXCEPT !.kind = "put_merge_policy", !.pc = "policy", !.asks = a])
  /\ Quiet

LoadMergePolicy(q) ==
  /\ At(q, "put_merge_policy", "policy")
  /\ LET new == Updated(PolicyInForce, reqs[q].asks)
     IN IF new.approvals < 0 THEN Answer(q, [what |-> "invalid"])
        ELSE Set(q, [reqs[q] EXCEPT !.pc = "write", !.seen = new])
  /\ Quiet

UpsertMergePolicy(q) ==
  /\ At(q, "put_merge_policy", "write")
  /\ policy' = reqs[q].seen
  /\ reqs' = [Disturbed(q, reqs) EXCEPT
                ![q].pc = "done", ![q].answer = [what |-> "updated"], ![q].seen = None]
  /\ UNCHANGED <<forgejo, releases, payload, moves, faults>>

---------------------------------------------------------------------------
(* create_release, over artifact_manifest *)

StartRelease(q) ==
  /\ reqs[q].pc = "idle" /\ "create_release" \in Kinds
  /\ \E v \in Versions, c \in Commits \cup {None}, r \in BOOLEAN :
       /\ c # None => c = main   \* a client names a commit it has seen
       /\ Set(q, [Rest EXCEPT !.kind = "create_release", !.pc = "list",
                              !.asks = [version |-> v, commit |-> c, require_ready |-> r]])
  /\ Quiet

\* list_files resolves the commit once and says which it was.
ListFiles(q) ==
  /\ At(q, "create_release", "list")
  /\ LET c == IF reqs[q].asks.commit = None THEN main ELSE reqs[q].asks.commit
     IN Goto(q, "read", [commit |-> c, left |-> DOMAIN Tree[c], manifest |-> <<>>])
  /\ Quiet

FileAt(commit, path) == Tree[commit][path]

With(manifest, path, file) ==
  [p \in DOMAIN manifest \cup {path} |-> IF p = path THEN file ELSE manifest[p]]

\* One file after the other is read at the listed commit.
GetFile(q) ==
  /\ At(q, "create_release", "read")
  /\ LET s == reqs[q].seen
     IN \E p \in s.left :
          Goto(q, "read", [s EXCEPT !.left = @ \ {p},
                                    !.manifest = With(@, p, FileAt(s.commit, p))])
  /\ Quiet

CheckReadiness(q) ==
  /\ At(q, "create_release", "read")
  /\ reqs[q].seen.left = {}
  /\ IF reqs[q].asks.require_ready /\ ~Ready(reqs[q].seen.manifest)
     THEN Answer(q, [what |-> "not_ready"])
     ELSE Goto(q, "insert", reqs[q].seen)
  /\ Quiet

Row(q) == [version |-> reqs[q].asks.version, commit |-> reqs[q].seen.commit,
           manifest |-> reqs[q].seen.manifest]

\* Mutant: a release of the same version is replaced.
InsertReleaseOver(q) ==
  /\ At(q, "create_release", "insert")
  /\ releases' = Append(SelectSeq(releases, LAMBDA r : r.version # reqs[q].asks.version), Row(q))
  /\ Goto(q, "log", reqs[q].seen)
  /\ UNCHANGED <<forgejo, policy, payload, moves, faults>>

\* (repo_id, version) is unique.
InsertRelease(q) ==
  /\ At(q, "create_release", "insert")
  /\ LoadRelease(reqs[q].asks.version) = None
  /\ releases' = Append(releases, Row(q))
  /\ Goto(q, "log", reqs[q].seen)
  /\ UNCHANGED <<forgejo, policy, payload, moves, faults>>

ReleaseExists(q) ==
  /\ At(q, "create_release", "insert")
  /\ LoadRelease(reqs[q].asks.version) # None
  /\ Answer(q, [what |-> "exists"])
  /\ Quiet

LogRelease(q) ==
  /\ At(q, "create_release", "log")
  /\ Answer(q, [what |-> "created", commit |-> reqs[q].seen.commit])
  /\ Quiet

---------------------------------------------------------------------------
(* Downloads: hf_compat's repo_info and resolve, and serve_release_file *)

\* A Hub client asks for a revision; the native route names a version.
StartDownload(q) ==
  /\ reqs[q].pc = "idle"
  /\ \/ /\ "hub" \in Kinds
        /\ \E revision \in {"main"} \cup Versions :
             Set(q, [Rest EXCEPT !.kind = "hub", !.pc = "info", !.asks = [revision |-> revision]])
     \/ /\ "get_release_file" \in Kinds
        /\ \E v \in Versions, p \in {"card", "weights"} :
             Set(q, [Rest EXCEPT !.kind = "get_release_file", !.pc = "load",
                                 !.seen = [version |-> v, path |-> p,
                                           commit |-> None, file |-> None]])
  /\ Quiet

\* The client learns the commit and the files, and asks for one by the commit.
RepoInfo(q) ==
  /\ At(q, "hub", "info")
  /\ LET r == ResolveReleaseSnapshot(reqs[q].asks.revision)
     IN \/ r = None /\ Answer(q, [what |-> "no_release"])
        \/ /\ r # None
           /\ \E p \in DOMAIN r.manifest :
                Goto(q, "resolve", [version |-> None, path |-> p,
                                    commit |-> r.commit, file |-> r.manifest[p]])
  /\ Quiet

\* seen: what the client asked for; at: what was found for it; bytes: the
\* positions that reach the client; genuine: they are the file's.
Served(what, seen, at, bytes, genuine) ==
  [what |-> what, seen |-> seen, at |-> at, bytes |-> bytes, genuine |-> genuine]

\* hf_compat::resolve goes on with the version of the release it found.
Resolve(q) ==
  /\ At(q, "hub", "resolve")
  /\ LET r == ResolveReleaseSnapshot(reqs[q].seen.commit)
     IN IF r = None THEN Answer(q, Served("not_found", reqs[q].seen, None, {}, TRUE))
        ELSE Goto(q, "load", [reqs[q].seen EXCEPT !.version = r.version])
  /\ Quiet

\* serve_release_file up to its answer: the row, the manifest, the file at the
\* release's commit, and the range of the logical payload.
LoadReleaseFile(q) ==
  /\ reqs[q].pc = "load"
  /\ LET s == reqs[q].seen
         r == LoadRelease(s.version)
         f == FileAt(r.commit, s.path)
     IN CASE r = None \/ (r # None /\ s.path \notin DOMAIN r.manifest) ->
               Answer(q, Served("not_found", s, None, {}, TRUE))
          [] r # None /\ s.path \in DOMAIN r.manifest /\ f.conflicted ->
               Answer(q, Served("conflicted", s, None, {}, TRUE))
          [] OTHER ->
               \E range \in Ranges :
                 LET sel == ParseByteRange(range, f.size)
                     at == [range |-> range, file |-> f, release |-> r]
                 IN IF sel = None THEN Answer(q, Served("bad_range", s, at, {}, TRUE))
                    ELSE Goto(q, "stream", [asked |-> s, at |-> at,
                           from |-> sel[1], len |-> sel[2] - sel[1] + 1])
  /\ Quiet

\* Mutant: the digest is not compared.
StreamOutcomeByLength(f, from, len, got, genuine) == got = len

\* The body ends without an error: every byte asked for arrived, and a whole
\* payload has the digest its pointer names.
StreamOutcome(f, from, len, got, genuine) ==
  got = len /\ (from = 0 /\ len = f.size => genuine)

StreamBody(q) ==
  /\ reqs[q].pc = "stream"
  /\ LET s == reqs[q].seen
         f == s.at.file
         got == IF f.storage = "arachne" /\ payload = "short" /\ s.len > 0
                THEN s.len - 1 ELSE s.len
         genuine == f.storage = "git" \/ payload # "corrupt"
     IN Answer(q, Served(IF f.storage = "git" \/ StreamOutcome(f, s.from, s.len, got, genuine)
                         THEN "whole" ELSE "broken",
                         s.asked, s.at, {s.from + i : i \in 0 .. (got - 1)}, genuine))
  /\ Quiet

\* The same for a HEAD request: headers, and no body.
AnswerHead(q) ==
  /\ reqs[q].pc = "stream"
  /\ Answer(q, [what |-> "headers", length |-> reqs[q].seen.len])
  /\ Quiet

---------------------------------------------------------------------------
(* What happens meanwhile in Forgejo and in the store. *)

\* Moves in Forgejo matter to nobody but a merge under way, those in the store
\* to a body being sent: only these are taken.
Move(rs) ==
  /\ moves < MaxMoves
  /\ moves' = moves + 1
  /\ reqs' = rs
  /\ UNCHANGED <<policy, main, merged, releases, faults>>

MoveInForgejo ==
  /\ pull.open
  /\ \E q \in Requests : reqs[q].kind = "merge_pull" /\ reqs[q].pc # "done"
  /\ Move(Disturbed(None, reqs))

PushHead ==
  /\ MoveInForgejo
  /\ \E h \in Heads \ {pull.head}, m \in BOOLEAN :
       pull' = [pull EXCEPT !.head = h, !.mergeable = m]
  /\ UNCHANGED <<statuses, reviews, payload>>

ReportStatus ==
  /\ MoveInForgejo
  /\ \E s \in StatusState : statuses' = [statuses EXCEPT ![pull.head] = @ \cup {s}]
  /\ UNCHANGED <<pull, reviews, payload>>

\* review_pull, or a review given in Forgejo itself.
ReviewPull ==
  /\ MoveInForgejo
  /\ \E r \in Review : reviews' = Append(reviews, r)
  /\ UNCHANGED <<pull, statuses, payload>>

PayloadDecays ==
  /\ payload = "whole"
  /\ \E q \in Requests : reqs[q].pc = "stream"
  /\ Move(reqs)
  /\ payload' \in {"short", "corrupt"}
  /\ UNCHANGED <<pull, statuses, reviews>>

MergePullSteps(q) ==
  \/ StartMerge(q) \/ GetPull(q) \/ MergePolicyForRepo(q) \/ CommitStatuses(q)
  \/ CommitStatusesUnavailable(q) \/ ListPullReviews(q) \/ ListPullReviewsUnavailable(q)
  \/ MergePull(q) \/ MergeUnacknowledged(q) \/ MergeRefused(q)

PolicySteps(q) == StartPolicy(q) \/ LoadMergePolicy(q) \/ UpsertMergePolicy(q)

ReleaseSteps(q) ==
  \/ StartRelease(q) \/ ListFiles(q) \/ GetFile(q) \/ CheckReadiness(q)
  \/ InsertRelease(q) \/ ReleaseExists(q) \/ LogRelease(q)

DownloadSteps(q) ==
  \/ StartDownload(q) \/ RepoInfo(q) \/ Resolve(q) \/ LoadReleaseFile(q)
  \/ StreamBody(q) \/ AnswerHead(q)

Next ==
  \/ \E q \in Requests : \/ MergePullSteps(q) \/ PolicySteps(q) \/ ReleaseSteps(q)
                         \/ DownloadSteps(q) \/ Fail(q)
  \/ PushHead \/ ReportStatus \/ ReviewPull \/ PayloadDecays

Spec == Init /\ [][Next]_vars

---------------------------------------------------------------------------
TablesOK ==
  /\ pull \in [head : Heads, open : BOOLEAN, mergeable : BOOLEAN]
  /\ statuses \in [Heads -> SUBSET StatusState]
  /\ reviews \in Seq(Review)
  /\ policy = None \/ policy \in Policy
  /\ main \in Commits
  /\ \A i \in DOMAIN releases : /\ releases[i].version \in Versions
                              /\ releases[i].commit \in Commits
                              /\ \A p \in DOMAIN releases[i].manifest :
                                   releases[i].manifest[p] \in File
  /\ payload \in {"whole", "short", "corrupt"}
  /\ merged = None \/ merged \in [calm : BOOLEAN, deserved : BOOLEAN]
  /\ moves \in 0 .. MaxMoves /\ faults \in 0 .. MaxFaults

TypeOK ==
  /\ TablesOK
  /\ \A q \in Requests : reqs[q].pc \in Steps /\ reqs[q].kind \in Kinds \cup {"none"}

\* merge_pull judges what it read in four calls, two of which read a failure
\* as an empty list.  Unless the pull request, its statuses, its reviews or
\* the policy changed while it worked, what it merged deserved it: the policy
\* in force allowed the head that was merged by what Forgejo really held, where
\* a warning counts as passing and a withdrawn approval still as one.  (Of a
\* head that moved after it was judged this says nothing: the merge call does
\* not name the commit, and the new head is merged unjudged.)
MergesAreDeserved ==
  merged # None /\ merged.calm => merged.deserved

\* create_release reads its manifest in many calls while main moves: what it
\* records is the whole tree of the one commit it names.
ReleasesAreSnapshots ==
  \A i \in DOMAIN releases : releases[i].manifest = Tree[releases[i].commit]

\* A creation that was answered as created stays the release of its version,
\* at the commit it was told, and is ready if it asked for that; one refused
\* as existing left another's release in place; one version is created once.
CreationsAreHonoured ==
  \A q \in Requests :
    reqs[q].kind = "create_release" /\ reqs[q].pc = "done" =>
      LET a == reqs[q].answer
          r == LoadRelease(reqs[q].asks.version)
      IN /\ a.what = "created" =>
              /\ r # None /\ r.commit = a.commit
              /\ reqs[q].asks.require_ready => Ready(Tree[a.commit])
              /\ reqs[q].asks.commit \in {None, a.commit}
              /\ \A o \in Requests \ {q} :
                   reqs[o].kind = "create_release" /\ reqs[o].pc = "done"
                     /\ reqs[o].answer.what = "created"
                     => reqs[o].asks.version # reqs[q].asks.version
         /\ a.what = "exists" => r # None

\* A release is what its creator was told: the state is typed, its manifest is
\* one commit's, and answered creations keep their version. (create_release)
ReleasesAreHonoured == TypeOK /\ ReleasesAreSnapshots /\ CreationsAreHonoured

\* The positions a Range header asks for, as the header is defined.
Wanted(r, size) ==
  {i \in 0 .. (size - 1) :
     \/ r.form = "absent"
     \/ r.form = "bytes" /\ IF r.a = None THEN i >= size - r.b
                            ELSE r.a <= i /\ (r.b = None \/ (r.a <= r.b /\ i <= r.b))}

\* What is served is the file in the release's commit.  A whole body is the
\* positions asked for, and nobody else's bytes if it is the whole file; a
\* refused range selects none.
Exact(a) ==
  LET wanted == Wanted(a.at.range, a.at.file.size)
  IN /\ a.at.file = Tree[a.at.release.commit][a.seen.path]
     /\ a.what = "whole" => /\ a.bytes = wanted /\ (wanted = {} => a.at.range.form = "absent")
                            /\ a.bytes = 0 .. (a.at.file.size - 1) /\ a.bytes # {} => a.genuine
     /\ a.what = "bad_range" => wanted = {}

\* serve_release_file: a body that ends without an error is exactly the bytes
\* the Range header asks for of the file in the release's commit, and a whole
\* file is never another's bytes; a range is refused only if it selects none.
DownloadsAreExact ==
  \A q \in Requests :
    reqs[q].pc = "done" /\ reqs[q].answer.what \in {"whole", "bad_range"} => Exact(reqs[q].answer)

\* What a Hub client got is the file it was told of.
Agreeing(a) ==
  a.what # "not_found" /\ a.at.release.commit = a.seen.commit /\ a.at.file = a.seen.file

\* Some release has this commit's id for its version: validate_version lets
\* that through.
Labelled(commit) == \E i \in DOMAIN releases : releases[i].version = commit

\* A Hub client lists a revision and then asks for a listed file by the commit
\* it was told.  However many releases appear meanwhile, the file is found,
\* and it is the file that was listed, unless a release has that commit for
\* its label.
HubSessionsAgree ==
  \A q \in Requests :
    (/\ reqs[q].kind = "hub" /\ reqs[q].pc = "done"
     /\ reqs[q].answer.what \in {"not_found", "whole"})
    => Agreeing(reqs[q].answer) \/ Labelled(reqs[q].answer.seen.commit)
=============================================================================
