-------------------------- MODULE PublishingProofs --------------------------
(***************************************************************************)
(* Theorems about Publishing, for all requests, commits, files, versions   *)
(* and reviewers, and any number of moves and faults.                      *)
(*                                                                         *)
(* The argument is one inductive invariant, IInv. Its heart is Sound,      *)
(* which says of one request what its steps so far have established: that  *)
(* an undisturbed merge has read what still holds, that a creation holds   *)
(* the whole tree of one commit, that a download has found the file that   *)
(* was listed. Rows of releases are only added, so what a row says stays   *)
(* said; what Forgejo holds and the policy change only under merges that   *)
(* are disturbed by it. OthersKept is that argument, and Stepped puts the  *)
(* invariant together after a step of one request.                         *)
(***************************************************************************)
EXTENDS Publishing, FiniteSetTheorems, SequenceTheorems, WellFoundedInduction, TLAPS

Fields == {"pc", "kind", "asks", "seen", "calm", "answer"}

AllKinds == {"none", "merge_pull", "put_merge_policy", "create_release", "hub", "get_release_file"}

Rows == {[version |-> v, commit |-> c, manifest |-> Tree[c]] : v \in Versions, c \in Commits}

\* Rows are one commit's tree each, and one per version.
Tidy ==
  /\ releases \in Seq(Rows)
  /\ \A i, j \in DOMAIN releases : releases[i].version = releases[j].version => i = j

MergeSeen == [head : Heads, mergeable : BOOLEAN, policy : Policy \cup {None},
              statuses : SUBSET StatusState]

\* A merge that nobody disturbed has read what still holds.
MergeSound(q) ==
  LET r == reqs[q]  s == r.seen IN
  r.kind = "merge_pull" =>
    /\ r.pc \in {"pull", "policy", "statuses", "reviews", "merge", "done"}
    /\ r.pc \in {"policy", "statuses", "reviews", "merge"} => s \in MergeSeen
    /\ r.pc \in {"policy", "statuses"} => s.statuses = {}
    /\ r.pc \in {"statuses", "reviews", "merge"} => s.policy \in Policy
    /\ r.calm /\ r.pc \in {"policy", "statuses", "reviews"} =>
         s.head = pull.head /\ s.mergeable = pull.mergeable
    /\ r.calm /\ r.pc \in {"statuses", "reviews"} => s.policy = PolicyInForce
    /\ r.calm /\ r.pc = "reviews" => s.statuses \in {{}, statuses[pull.head]}
    /\ r.calm /\ r.pc = "merge" => Deserved
    /\ r.pc = "done" => r.answer.what \in {"merged", "blocked", "refused", "error"}

\* What an update is about to write is a policy.
PolicySound(q) ==
  LET r == reqs[q] IN
  r.kind = "put_merge_policy" =>
    /\ r.pc \in {"policy", "write", "done"}
    /\ r.pc = "policy" => r.asks \in PolicyAsks
    /\ r.pc = "write" => r.seen \in Policy
    /\ r.pc = "done" => r.answer.what \in {"updated", "invalid", "error"}

HasRow(version, commit) ==
  \E i \in DOMAIN releases : releases[i].version = version /\ releases[i].commit = commit

\* A creation has read the files of one commit, all but those left.
CreateSound(q) ==
  LET r == reqs[q]  s == r.seen IN
  r.kind = "create_release" =>
    /\ r.pc \in {"list", "read", "insert", "log", "done"}
    /\ r.asks \in [version : Versions, commit : Commits \cup {None}, require_ready : BOOLEAN]
    /\ r.pc \in {"read", "insert", "log"} =>
         /\ s = [commit |-> s.commit, left |-> s.left, manifest |-> s.manifest]
         /\ s.commit \in Commits /\ r.asks.commit \in {None, s.commit}
         /\ s.left \subseteq DOMAIN Tree[s.commit]
         /\ s.manifest = [p \in DOMAIN Tree[s.commit] \ s.left |-> Tree[s.commit][p]]
    /\ r.pc \in {"insert", "log"} =>
         s.manifest = Tree[s.commit] /\ (r.asks.require_ready => Ready(Tree[s.commit]))
    /\ r.pc = "log" => HasRow(r.asks.version, s.commit)
    /\ r.pc = "done" => r.answer.what \in {"created", "exists", "not_ready", "error"}
    /\ r.pc = "done" /\ r.answer.what = "created" =>
         /\ HasRow(r.asks.version, r.answer.commit)
         /\ r.asks.require_ready => Ready(Tree[r.answer.commit])
         /\ r.asks.commit \in {None, r.answer.commit}
    /\ r.pc = "done" /\ r.answer.what = "exists" => Labelled(r.asks.version)

\* What a Hub client was told of is a file of a released commit.
Listing(s) ==
  /\ s = [version |-> s.version, path |-> s.path, commit |-> s.commit, file |-> s.file]
  /\ s.commit \in Commits /\ s.path \in DOMAIN Tree[s.commit]
  /\ s.file = Tree[s.commit][s.path]
  /\ \E i \in DOMAIN releases : releases[i].commit = s.commit

\* The version it goes on with is a release of that commit, or one labelled with it.
Leads(s) ==
  Listing(s) /\ \/ HasRow(s.version, s.commit)
                \/ Labelled(s.commit)

\* What a body is made of: the file of a release, and what its range selects.
Found(s) ==
  LET c == s.at.release.commit  sel == ParseByteRange(s.at.range, s.at.file.size) IN
  /\ s = [asked |-> s.asked, at |-> s.at, from |-> s.from, len |-> s.len]
  /\ s.at = [range |-> s.at.range, file |-> s.at.file, release |-> s.at.release]
  /\ s.at.release \in Rows /\ s.asked.path \in DOMAIN Tree[c]
  /\ s.at.file = Tree[c][s.asked.path]
  /\ s.at.range \in Ranges /\ sel # None
  /\ s.from = sel[1] /\ s.len = sel[2] - sel[1] + 1

\* A download has found what was listed.
DownloadSound(q) ==
  LET r == reqs[q]  s == r.seen  a == r.answer IN
  r.kind \in {"hub", "get_release_file"} =>
    /\ r.pc \in {"info", "resolve", "load", "stream", "done"}
    /\ r.pc \in {"info", "resolve"} => r.kind = "hub"
    /\ r.pc = "resolve" => Listing(s)
    /\ r.pc = "load" /\ r.kind = "hub" => Leads(s)
    /\ r.pc = "stream" => Found(s)
    /\ r.pc = "stream" /\ r.kind = "hub" =>
         \/ s.at.release.commit = s.asked.commit /\ s.at.file = s.asked.file
         \/ Labelled(s.asked.commit)
    /\ r.pc = "done" => a.what \in {"no_release", "not_found", "conflicted", "bad_range", "headers",
                                    "whole", "broken", "error"}
    /\ r.pc = "done" /\ a.what \in {"whole", "bad_range"} => Exact(a)
    /\ r.pc = "done" /\ r.kind = "hub" /\ a.what \in {"not_found", "whole"} =>
         Agreeing(a) \/ Labelled(a.seen.commit)

\* A request is a record of these fields, and idle until it is for a handler.
Shape(q) ==
  /\ DOMAIN reqs[q] = Fields /\ reqs[q].calm \in BOOLEAN /\ reqs[q].kind \in AllKinds
  /\ reqs[q].kind = "none" <=> reqs[q].pc = "idle"

Sound(q) == Shape(q) /\ MergeSound(q) /\ PolicySound(q) /\ CreateSound(q) /\ DownloadSound(q)

\* A creation that has inserted its row.
Holding(q) ==
  /\ reqs[q].kind = "create_release"
  /\ reqs[q].pc = "log" \/ (reqs[q].pc = "done" /\ reqs[q].answer.what = "created")

\* No two of them have the same version.
CreatedApart ==
  \A q, o \in Requests : q # o /\ Holding(q) /\ Holding(o) =>
    reqs[q].asks.version # reqs[o].asks.version

IInv == /\ TypeOK /\ DOMAIN reqs = Requests /\ Tidy
        /\ \A q \in Requests : Sound(q)
        /\ CreatedApart /\ MergesAreDeserved

-----------------------------------------------------------------------------
(* Releases by version and by revision *)

\* A finite set of positions has a greatest one. (order by created_at desc)
LEMMA MaxIsIn ==
  ASSUME NEW n \in Nat, NEW S, S \subseteq 1 .. n, S # {}
  PROVE  Max(S) \in S
  <1> DEFINE T == {n - i : i \in S}
  <1>1. IsWellFoundedOn(OpToRel(<, Nat), Nat)
    BY NatLessThanWellFounded
  <1>2. T \subseteq Nat /\ T # {}
    <2>1. \A i \in S : n - i \in Nat /\ n - i \in T
      OBVIOUS
    <2>2. QED
      BY <2>1
  <1>3. PICK x \in T : \A y \in T : ~(<<y, x>> \in OpToRel(<, Nat))
    BY <1>1, <1>2, WFMin
  <1>4. PICK m \in S : x = n - m
    BY <1>3
  <1>5. \A i \in S : m >= i
    <2>1. SUFFICES ASSUME NEW i \in S PROVE m >= i
      OBVIOUS
    <2>2. n - i \in T /\ ~(<<n - i, x>> \in OpToRel(<, Nat))
      BY <1>3
    <2>3. ~(n - i < x)
      BY <1>2, <1>3, <2>2 DEF OpToRel
    <2>4. QED
      BY <1>4, <2>3
  <1>6. QED
    BY <1>5 DEF Max

\* A row is not the absent one. (Option)
LEMMA RowsAreRows ==
  ASSUME NEW r \in Rows
  PROVE  /\ r # None /\ r.version \in Versions /\ r.commit \in Commits
         /\ r.manifest = Tree[r.commit] /\ r = [version |-> r.version, commit |-> r.commit,
                                                manifest |-> r.manifest]
  BY NoneAssumption DEF Rows

LEMMA RowAt ==
  ASSUME Tidy, NEW i \in DOMAIN releases
  PROVE  releases[i] \in Rows
  BY DEF Tidy

\* The row of a version is the one with that version. (unique (repo_id, version))
LEMMA LoadReleaseFacts ==
  ASSUME Tidy
  PROVE  /\ \A i \in DOMAIN releases : LoadRelease(releases[i].version) = releases[i]
         /\ \A v : LoadRelease(v) = None <=> ~Labelled(v)
         /\ \A v : LoadRelease(v) # None => /\ LoadRelease(v) \in Rows /\ LoadRelease(v).version = v
                                            /\ \E i \in DOMAIN releases : releases[i] = LoadRelease(v)
  <1> DEFINE Having(v) == {i \in DOMAIN releases : releases[i].version = v}
  <1>1. \A v : Having(v) = {} => LoadRelease(v) = None /\ ~Labelled(v)
    BY DEF LoadRelease, Labelled
  <1>2. ASSUME NEW v, NEW i \in Having(v)
        PROVE  LoadRelease(v) = releases[i] /\ Labelled(v)
    <2>1. \A j \in Having(v) : j = i
      BY <1>2 DEF Tidy
    <2>2. (CHOOSE j \in Having(v) : TRUE) = i
      BY <2>1
    <2>3. LoadRelease(v) = IF Having(v) = {} THEN None ELSE releases[CHOOSE j \in Having(v) : TRUE]
      BY DEF LoadRelease
    <2>4. QED
      BY <2>2, <2>3 DEF Labelled
  <1>3. \A v : Having(v) # {} => \E i \in DOMAIN releases : i \in Having(v)
    OBVIOUS
  <1>4. \A v : \A i \in Having(v) : LoadRelease(v) \in Rows /\ LoadRelease(v) # None
    BY <1>2, RowAt, RowsAreRows
  <1>5. \A i \in DOMAIN releases : i \in Having(releases[i].version)
    OBVIOUS
  <1> HIDE DEF Having
  <1>6. ASSUME NEW i \in DOMAIN releases
        PROVE  LoadRelease(releases[i].version) = releases[i]
    BY <1>2, <1>5
  <1>7. ASSUME NEW v PROVE LoadRelease(v) = None <=> ~Labelled(v)
    BY <1>1, <1>2, <1>3, <1>4
  <1>8. ASSUME NEW v, LoadRelease(v) # None
        PROVE  /\ LoadRelease(v) \in Rows /\ LoadRelease(v).version = v
               /\ \E i \in DOMAIN releases : releases[i] = LoadRelease(v)
    <2>1. PICK i \in DOMAIN releases : i \in Having(v)
      BY <1>1, <1>3, <1>8
    <2>2. LoadRelease(v) = releases[i] /\ releases[i].version = v
      BY <1>2, <2>1 DEF Having
    <2>3. QED
      BY <2>1, <2>2, RowAt
  <1>9. QED
    BY <1>6, <1>7, <1>8

\* A revision is resolved to a release that it names, and only to none if it names
\* none. (resolve_release_snapshot)
LEMMA ResolveFacts ==
  ASSUME Tidy, NEW revision
  PROVE  LET r == ResolveReleaseSnapshot(revision) IN
         /\ r = None => Named(revision) = {}
         /\ r # None => \E i \in Named(revision) : r = releases[i] /\ r \in Rows
  <1>1. Named(revision) \subseteq 1 .. Len(releases) /\ Len(releases) \in Nat
    BY DEF Named, Tidy
  <1>2. Named(revision) # {} => Max(Named(revision)) \in Named(revision)
    BY <1>1, MaxIsIn
  <1>3. \A i \in Named(revision) : releases[i] \in Rows /\ releases[i] # None
    BY RowAt, RowsAreRows DEF Named
  <1>4. QED
    BY <1>2, <1>3 DEF ResolveReleaseSnapshot

-----------------------------------------------------------------------------
(* Ranges *)

LEMMA MinOfTwo ==
  ASSUME NEW a \in Int, NEW b \in Int
  PROVE  Min({a, b}) = IF a <= b THEN a ELSE b
  <1>1. PICK m \in {a, b} : \A y \in {a, b} : m <= y
    OBVIOUS
  <1>2. Min({a, b}) \in {a, b} /\ \A y \in {a, b} : Min({a, b}) <= y
    BY <1>1 DEF Min
  <1>3. QED
    BY <1>2

\* The forms of a Range header. (parse_byte_range)
LEMMA RangeForms ==
  ASSUME NEW r \in Ranges
  PROVE  \/ r.form = "absent"
         \/ r.form = "unreadable"
         \/ /\ r.form = "bytes"
            /\ r.a \in Nat \/ (r.a = None /\ r.b # None)
            /\ r.b \in Nat \/ r.b = None
  <1>1. Offset \subseteq Nat /\ None \notin Offset
    BY BoundsAssumption, NoneAssumption DEF Offset
  <1>2. QED
    BY <1>1 DEF Ranges

\* What a header selects is what it asks for: refused, it asks for nothing.
LEMMA RefusedSelectNothing ==
  ASSUME NEW r \in Ranges, NEW size \in Nat, ParseByteRange(r, size) = None
  PROVE  Wanted(r, size) = {}
  <1>1. None \notin Int \X Int /\ None \notin Int
    BY NoneAssumption
  <1>2. CASE r.form = "absent"
    BY <1>1, <1>2 DEF ParseByteRange
  <1>3. CASE r.form = "unreadable"
    BY <1>3 DEF Wanted
  <1>4. CASE r.form = "bytes" /\ size = 0
    BY <1>4 DEF Wanted
  <1>5. CASE r.form = "bytes" /\ size > 0 /\ r.a = None
    <2>1. r.b \in Nat
      BY <1>5, RangeForms
    <2>2. Min({r.b, size}) \in Int
      BY <2>1, MinOfTwo
    <2>3. r.b = 0
      BY <1>1, <1>5, <2>2 DEF ParseByteRange
    <2>4. QED
      BY <1>5, <2>3 DEF Wanted
  <1>6. CASE r.form = "bytes" /\ size > 0 /\ r.a # None
    <2>1. r.a \in Nat /\ (r.b = None \/ r.b \in Nat)
      BY <1>6, RangeForms
    <2>2. r.b # None => Min({r.b, size - 1}) \in Int
      BY <2>1, MinOfTwo
    <2>3. r.a >= size \/ (r.b # None /\ r.b < r.a)
      BY <1>1, <1>6, <2>1, <2>2 DEF ParseByteRange
    <2>4. QED
      BY <1>1, <1>6, <2>1, <2>3 DEF Wanted
  <1>7. QED
    BY <1>2, <1>3, <1>4, <1>5, <1>6, RangeForms

LEMMA SelectedAreWanted ==
  ASSUME NEW r \in Ranges, NEW size \in Nat, ParseByteRange(r, size) # None
  PROVE  LET sel == ParseByteRange(r, size) IN
         /\ sel[1] \in Nat /\ sel[2] \in Int /\ sel[2] < size /\ sel[1] <= sel[2] + 1
         /\ Wanted(r, size) = sel[1] .. sel[2]
         /\ sel[1] <= sel[2] \/ r.form = "absent"
  <1> DEFINE sel == ParseByteRange(r, size)
  <1>1. None \notin Int
    BY NoneAssumption
  <1>2. CASE r.form = "absent"
    BY <1>2 DEF ParseByteRange, Wanted
  <1>3. CASE r.form = "unreadable" \/ (r.form = "bytes" /\ size = 0)
    BY <1>3 DEF ParseByteRange
  <1>5. CASE r.form = "bytes" /\ size > 0 /\ r.a = None
    <2>1. r.b \in Nat
      BY <1>5, RangeForms
    <2>2. r.b # 0 /\ sel = <<size - Min({r.b, size}), size - 1>>
      BY <1>5 DEF ParseByteRange
    <2>3. sel[1] = IF r.b <= size THEN size - r.b ELSE 0
      BY <2>1, <2>2, MinOfTwo
    <2>4. sel[2] = size - 1
      BY <2>2
    <2>5. Wanted(r, size) = sel[1] .. sel[2]
      BY <1>5, <2>1, <2>3, <2>4 DEF Wanted
    <2>6. QED
      BY <1>5, <2>1, <2>2, <2>3, <2>4, <2>5
  <1>6. CASE r.form = "bytes" /\ size > 0 /\ r.a # None
    <2>1. r.a \in Nat /\ (r.b = None \/ r.b \in Nat)
      BY <1>6, RangeForms
    <2>2. /\ ~(r.a >= size) /\ ~(r.b # None /\ r.b < r.a)
          /\ sel = <<r.a, IF r.b = None THEN size - 1 ELSE Min({r.b, size - 1})>>
      BY <1>6 DEF ParseByteRange
    <2>3. /\ sel[1] = r.a
          /\ sel[2] = IF r.b = None \/ size - 1 < r.b THEN size - 1 ELSE r.b
      BY <2>1, <2>2, MinOfTwo
    <2>4. Wanted(r, size) = sel[1] .. sel[2]
      BY <1>1, <1>6, <2>1, <2>2, <2>3 DEF Wanted
    <2>5. QED
      BY <1>1, <2>1, <2>2, <2>3, <2>4
  <1>7. QED
    BY <1>2, <1>3, <1>5, <1>6, RangeForms

-----------------------------------------------------------------------------
(* Reviews *)

\* Nobody is counted whose latest review does not approve, unless the first one
\* did. (count_approving_reviews)
LEMMA CountedApproveOrWithdrew ==
  ASSUME reviews \in Seq(Review)
  PROVE  LET approving == {u \in Users : Approves(u) \/ Withdrew(u)}
         IN  /\ IsFiniteSet(approving)
             /\ CountApprovingReviews(reviews) \in Nat
             /\ CountApprovingReviews(reviews) <= Cardinality(approving)
  <1> DEFINE first == {i \in DOMAIN reviews :
                         /\ reviews[i].state = "APPROVED"
                         /\ \A j \in 1 .. (i - 1) : reviews[j].user # reviews[i].user}
             approving == {u \in Users : Approves(u) \/ Withdrew(u)}
             f == [i \in first |-> reviews[i].user]
             pos == [u \in approving |-> CHOOSE i \in DOMAIN reviews : reviews[i].user = u]
  <1>1. /\ DOMAIN reviews = 1 .. Len(reviews) /\ Len(reviews) \in Nat
        /\ \A i \in DOMAIN reviews : reviews[i] \in Review
    OBVIOUS
  <1>2. ASSUME NEW i \in first PROVE f[i] \in approving
    <2> DEFINE u == reviews[i].user
    <2>1. u \in Users /\ Said(i, u, TRUE) /\ i \in DOMAIN reviews
      BY <1>1 DEF Review, Said
    <2>2. \A k \in DOMAIN reviews : reviews[k].user = u => i <= k
      BY <1>1
    <2>3. CASE \E j \in DOMAIN reviews : i < j /\ Said(j, u, FALSE)
      BY <2>1, <2>2, <2>3 DEF Withdrew
    <2>4. CASE \A j \in DOMAIN reviews : i < j => ~Said(j, u, FALSE)
      <3>1. ~Said(i, u, FALSE)
        BY <2>1 DEF Said
      <3>2. ASSUME NEW j \in DOMAIN reviews, Said(j, u, FALSE) PROVE j < i
        <4>1. j # i /\ ~(i < j)
          BY <2>4, <3>1, <3>2
        <4>2. i \in Int /\ j \in Int
          BY <1>1, <2>1, <3>2
        <4>3. QED
          BY <4>1, <4>2
      <3>3. QED
        BY <2>1, <3>2 DEF Approves
    <2>5. QED
      BY <2>3, <2>4
  <1>3. \A i, j \in first : f[i] = f[j] => i = j
    <2>1. \A i, j \in first : i < j => f[i] # f[j]
      BY <1>1
    <2>2. QED
      BY <1>1, <2>1
  <1>4. IsFiniteSet(approving)
    <2>1. \A u \in approving : pos[u] \in DOMAIN reviews /\ reviews[pos[u]].user = u
      BY DEF Approves, Withdrew, Said
    <2>2. pos \in Injection(approving, DOMAIN reviews)
      BY <2>1 DEF Injection, IsInjective
    <2>3. IsFiniteSet(DOMAIN reviews)
      BY <1>1, FS_Interval
    <2>4. QED
      BY <2>2, <2>3, FS_Injection
  <1>5. f \in Injection(first, approving)
    BY <1>2, <1>3 DEF Injection, IsInjective
  <1>6. Cardinality(first) <= Cardinality(approving) /\ Cardinality(first) \in Nat
    BY <1>4, <1>5, FS_Injection, FS_CardinalityType
  <1>7. QED
    BY <1>4, <1>6 DEF CountApprovingReviews

LEMMA NoReviewsCountNothing == CountApprovingReviews(<<>>) = 0
  <1>1. DOMAIN <<>> = {}
    OBVIOUS
  <1>2. QED
    BY <1>1, FS_EmptySet DEF CountApprovingReviews

-----------------------------------------------------------------------------
(* What a step leaves the other requests *)

\* Rows are only added.
Grown == \A i \in DOMAIN releases : i \in DOMAIN releases' /\ releases'[i] = releases[i]

\* Nothing that a merge works on changes.
Steady == /\ pull'.head = pull.head /\ pull'.mergeable = pull.mergeable
          /\ UNCHANGED <<statuses, reviews, policy>>

\* A request does not move, and if it is a merge under way and what it works on
\* changes, it is disturbed.
Kept(q) ==
  \/ /\ reqs'[q] = reqs[q]
     /\ Steady \/ reqs[q].kind # "merge_pull" \/ reqs[q].pc = "done"
  \/ /\ reqs[q].kind = "merge_pull" /\ reqs[q].pc # "done"
     /\ reqs'[q] = [reqs[q] EXCEPT !.calm = FALSE]

\* What a row says stays said. (repo_releases has no update and no delete)
LEMMA RowsStay ==
  ASSUME Grown
  PROVE  /\ \A v, c : HasRow(v, c) => HasRow(v, c)'
         /\ \A v : Labelled(v) => Labelled(v)'
         /\ \A s : Listing(s) => Listing(s)'
         /\ \A s : Leads(s) => Leads(s)'
  <1>1. \A v, c : HasRow(v, c) => HasRow(v, c)'
    BY DEF Grown, HasRow
  <1>2. \A v : Labelled(v) => Labelled(v)'
    BY DEF Grown, Labelled
  <1>3. \A s : Listing(s) => Listing(s)'
    BY DEF Grown, Listing
  <1>4. QED
    BY <1>1, <1>2, <1>3 DEF Leads

LEMMA SteadyPolicy ==
  ASSUME Steady
  PROVE  PolicyInForce' = PolicyInForce /\ (Deserved <=> Deserved')
  BY DEF Steady, PolicyInForce, Deserved, Approves, Withdrew, Said

\* A request that does not move stays sound. (merge_pull, create_release, resolve)
LEMMA OthersKept ==
  ASSUME NEW q \in Requests, Sound(q), Kept(q), Grown
  PROVE  /\ Sound(q)'
         /\ reqs'[q].kind = reqs[q].kind /\ reqs'[q].asks = reqs[q].asks
         /\ Holding(q)' <=> Holding(q)
  <1> USE DEF Sound
  <1>1. CASE reqs'[q] = reqs[q] /\ (Steady \/ reqs[q].kind # "merge_pull" \/ reqs[q].pc = "done")
    <2>1. Shape(q)'
      BY <1>1 DEF Shape
    <2>2. MergeSound(q)'
      <3>1. CASE reqs[q].kind # "merge_pull"
        BY <1>1, <3>1 DEF MergeSound
      <3>2. CASE reqs[q].kind = "merge_pull" /\ reqs[q].pc = "done"
        BY <1>1, <3>2 DEF MergeSound
      <3>3. CASE reqs[q].kind = "merge_pull" /\ Steady
        BY <1>1, <3>3, SteadyPolicy DEF MergeSound, Steady
      <3>4. QED
        BY <1>1, <3>1, <3>2, <3>3
    <2>3. PolicySound(q)'
      BY <1>1 DEF PolicySound
    <2>4. CreateSound(q)'
      BY <1>1, RowsStay DEF CreateSound
    <2>5. DownloadSound(q)'
      BY <1>1, RowsStay, Zenon DEF DownloadSound, Found, Exact, Agreeing
    <2>6. QED
      BY <1>1, <2>1, <2>2, <2>3, <2>4, <2>5 DEF Holding
  <1>2. CASE /\ reqs[q].kind = "merge_pull" /\ reqs[q].pc # "done"
             /\ reqs'[q] = [reqs[q] EXCEPT !.calm = FALSE]
    <2>1. /\ DOMAIN reqs'[q] = Fields /\ reqs'[q].calm = FALSE
          /\ reqs'[q].kind = "merge_pull" /\ reqs'[q].pc = reqs[q].pc /\ reqs'[q].seen = reqs[q].seen
          /\ reqs'[q].asks = reqs[q].asks
      BY <1>2 DEF Shape, Fields
    <2>2. Shape(q)'
      BY <1>2, <2>1 DEF Shape
    <2>3. MergeSound(q)'
      BY <1>2, <2>1 DEF MergeSound
    <2>4. PolicySound(q)' /\ CreateSound(q)' /\ DownloadSound(q)'
      BY <2>1 DEF PolicySound, CreateSound, DownloadSound
    <2>5. QED
      BY <1>2, <2>1, <2>2, <2>3, <2>4 DEF Holding
  <1>3. QED
    BY <1>1, <1>2 DEF Kept

\* A sound request is at one of its handler's steps.
LEMMA StepsOfSound ==
  ASSUME NEW q \in Requests, Sound(q)'
  PROVE  reqs'[q].pc \in Steps
  <1>1. CASE reqs'[q].kind = "none"
    BY <1>1 DEF Sound, Shape, Steps
  <1>2. CASE reqs'[q].kind = "merge_pull"
    BY <1>2 DEF Sound, MergeSound, Steps
  <1>3. CASE reqs'[q].kind = "put_merge_policy"
    BY <1>3 DEF Sound, PolicySound, Steps
  <1>4. CASE reqs'[q].kind = "create_release"
    BY <1>4 DEF Sound, CreateSound, Steps
  <1>5. CASE reqs'[q].kind \in {"hub", "get_release_file"}
    BY <1>5 DEF Sound, DownloadSound, Steps
  <1>6. QED
    BY <1>1, <1>2, <1>3, <1>4, <1>5 DEF Sound, Shape, AllKinds

\* A step of one request that leaves the others, keeps what it holds and takes a
\* version only if nobody holds it.
LEMMA Stepped ==
  ASSUME IInv, NEW q \in Requests, DOMAIN reqs' = Requests,
         \A o \in Requests \ {q} : Kept(o), Grown, TablesOK', Tidy', Sound(q)',
         reqs'[q].kind \in Kinds \cup {"none"},
         Holding(q)' => \/ Holding(q) /\ reqs'[q].asks = reqs[q].asks
                        \/ \A o \in Requests \ {q} : Holding(o) => reqs[o].asks.version # reqs'[q].asks.version,
         MergesAreDeserved'
  PROVE  IInv'
  <1>1. \A o \in Requests : Sound(o)
    BY DEF IInv
  <1>2. \A o \in Requests \ {q} : /\ Sound(o)' /\ (Holding(o)' <=> Holding(o))
                                  /\ reqs'[o].asks = reqs[o].asks /\ reqs'[o].kind = reqs[o].kind
    BY <1>1, OthersKept
  <1>3. \A o \in Requests : Sound(o)'
    BY <1>2
  <1>4. TypeOK'
    BY <1>2, <1>3, StepsOfSound DEF IInv, TypeOK
  <1>5. CreatedApart'
    <2>1. ASSUME NEW o \in Requests \ {q}, Holding(q)', Holding(o)'
          PROVE  reqs'[o].asks.version # reqs'[q].asks.version
      BY <1>2, <2>1 DEF IInv, CreatedApart
    <2>2. ASSUME NEW o \in Requests \ {q}, NEW p \in Requests \ {q}, o # p, Holding(p)', Holding(o)'
          PROVE  reqs'[o].asks.version # reqs'[p].asks.version
      BY <1>2, <2>2 DEF IInv, CreatedApart
    <2>3. QED
      BY <2>1, <2>2 DEF CreatedApart
  <1>6. QED
    BY <1>3, <1>4, <1>5 DEF IInv

\* A step that only moves its request, or counts a fault.
LEMMA QuietStep ==
  ASSUME IInv, NEW q \in Requests, DOMAIN reqs' = Requests,
         \A o \in Requests \ {q} : reqs'[o] = reqs[o],
         UNCHANGED <<forgejo, policy, releases, payload, moves>>, faults' \in 0 .. MaxFaults,
         Sound(q)', reqs'[q].kind \in Kinds \cup {"none"},
         Holding(q)' => Holding(q) /\ reqs'[q].asks = reqs[q].asks
  PROVE  IInv'
  <1>1. Steady /\ Grown
    BY DEF Steady, Grown, forgejo
  <1>2. \A o \in Requests \ {q} : Kept(o)
    BY <1>1 DEF Kept
  <1>3. TablesOK'
    BY DEF IInv, TypeOK, TablesOK, forgejo
  <1>4. Tidy'
    BY DEF IInv, Tidy
  <1>5. MergesAreDeserved'
    BY DEF IInv, MergesAreDeserved, forgejo
  <1>6. QED
    BY <1>1, <1>2, <1>3, <1>4, <1>5, Stepped

-----------------------------------------------------------------------------
(* What Goto and Answer do *)

LEMMA WentTo ==
  ASSUME NEW q \in Requests, DOMAIN reqs = Requests, DOMAIN reqs[q] = Fields,
         NEW pc, NEW seen, Goto(q, pc, seen)
  PROVE  /\ DOMAIN reqs' = Requests /\ \A o \in Requests \ {q} : reqs'[o] = reqs[o]
         /\ DOMAIN reqs'[q] = Fields /\ reqs'[q].pc = pc /\ reqs'[q].seen = seen
         /\ reqs'[q].kind = reqs[q].kind /\ reqs'[q].asks = reqs[q].asks
         /\ reqs'[q].calm = reqs[q].calm /\ reqs'[q].answer = reqs[q].answer
  BY DEF Goto, Set, Fields

LEMMA WasAnswered ==
  ASSUME NEW q \in Requests, DOMAIN reqs = Requests, DOMAIN reqs[q] = Fields,
         NEW a, Answer(q, a)
  PROVE  /\ DOMAIN reqs' = Requests /\ \A o \in Requests \ {q} : reqs'[o] = reqs[o]
         /\ DOMAIN reqs'[q] = Fields /\ reqs'[q].pc = "done" /\ reqs'[q].answer = a
         /\ reqs'[q].kind = reqs[q].kind /\ reqs'[q].asks = reqs[q].asks
         /\ reqs'[q].calm = reqs[q].calm
  BY DEF Answer, Set, Fields

LEMMA IInvFacts ==
  ASSUME IInv, NEW q \in Requests
  PROVE  /\ DOMAIN reqs = Requests /\ DOMAIN reqs[q] = Fields /\ reqs[q].calm \in BOOLEAN
         /\ reqs[q].kind \in Kinds \cup {"none"} /\ reqs[q].kind \in AllKinds
         /\ Sound(q) /\ Tidy /\ TablesOK /\ (reqs[q].kind = "none" <=> reqs[q].pc = "idle")
  BY DEF IInv, TypeOK, Sound, Shape

-----------------------------------------------------------------------------
(* A request that starts, and one that fails *)

\* A new request is sound at its handler's first step.
LEMMA Started ==
  ASSUME IInv, NEW q \in Requests, reqs[q].pc = "idle", Quiet,
         NEW r, Set(q, r), DOMAIN r = Fields, r.calm \in BOOLEAN, r.kind \in Kinds \cap AllKinds,
         \/ r.kind = "merge_pull" /\ r.pc = "pull"
         \/ r.kind = "put_merge_policy" /\ r.pc = "policy" /\ r.asks \in PolicyAsks
         \/ /\ r.kind = "create_release" /\ r.pc = "list"
            /\ r.asks \in [version : Versions, commit : Commits \cup {None}, require_ready : BOOLEAN]
         \/ r.kind = "hub" /\ r.pc = "info"
         \/ r.kind = "get_release_file" /\ r.pc = "load"
  PROVE  IInv'
  <1>1. /\ DOMAIN reqs' = Requests /\ \A o \in Requests \ {q} : reqs'[o] = reqs[o]
        /\ reqs'[q] = r
    BY IInvFacts DEF Set
  <1>2. Shape(q)'
    BY <1>1 DEF Shape
  <1>3. MergeSound(q)'
    BY <1>1 DEF MergeSound
  <1>4. PolicySound(q)'
    BY <1>1 DEF PolicySound
  <1>5. CreateSound(q)'
    BY <1>1 DEF CreateSound
  <1>6. DownloadSound(q)'
    BY <1>1 DEF DownloadSound
  <1>7. ~Holding(q)'
    BY <1>1 DEF Holding
  <1>8. faults' \in 0 .. MaxFaults
    BY IInvFacts DEF Quiet, TablesOK
  <1>9. QED
    BY <1>1, <1>2, <1>3, <1>4, <1>5, <1>6, <1>7, <1>8, QuietStep DEF Quiet, Sound

\* A fault is counted. (Fail and the calls whose failure is passed over)
LEMMA FaultCounted ==
  ASSUME IInv, Fault \/ faults' = faults
  PROVE  faults' \in 0 .. MaxFaults
  BY BoundsAssumption DEF IInv, TypeOK, TablesOK, Fault

\* An answer that promises nothing is sound for every handler.
LEMMA AnsweredError ==
  ASSUME IInv, NEW q \in Requests, reqs[q].kind # "none", Answer(q, [what |-> "error"]),
         UNCHANGED <<forgejo, policy, releases, payload, moves>>, Fault
  PROVE  IInv'
  <1>1. /\ DOMAIN reqs' = Requests /\ \A o \in Requests \ {q} : reqs'[o] = reqs[o]
        /\ DOMAIN reqs'[q] = Fields /\ reqs'[q].pc = "done" /\ reqs'[q].answer.what = "error"
        /\ reqs'[q].kind = reqs[q].kind /\ reqs'[q].asks = reqs[q].asks
        /\ reqs'[q].calm = reqs[q].calm
    BY IInvFacts, WasAnswered
  <1>2. Shape(q)'
    BY <1>1, IInvFacts DEF Shape
  <1>3. MergeSound(q)' /\ PolicySound(q)'
    BY <1>1 DEF MergeSound, PolicySound
  <1>4. CreateSound(q)'
    BY <1>1, IInvFacts DEF CreateSound, Sound
  <1>5. DownloadSound(q)'
    BY <1>1 DEF DownloadSound
  <1>6. ~Holding(q)'
    BY <1>1 DEF Holding
  <1>7. faults' \in 0 .. MaxFaults
    BY FaultCounted
  <1>8. QED
    BY <1>1, <1>2, <1>3, <1>4, <1>5, <1>6, <1>7, IInvFacts, QuietStep DEF Sound

-----------------------------------------------------------------------------
(* merge_pull *)

\* A merge that moves on without a change of what it works on.
LEMMA MergeMoved ==
  ASSUME IInv, NEW q \in Requests, reqs[q].kind = "merge_pull",
         UNCHANGED <<forgejo, policy, releases, payload, moves>>, Fault \/ faults' = faults,
         DOMAIN reqs' = Requests, \A o \in Requests \ {q} : reqs'[o] = reqs[o],
         DOMAIN reqs'[q] = Fields, reqs'[q].kind = "merge_pull", reqs'[q].calm \in BOOLEAN,
         reqs'[q].pc # "idle", MergeSound(q)'
  PROVE  IInv'
  <1>1. Shape(q)'
    BY DEF Shape, AllKinds
  <1>2. PolicySound(q)' /\ CreateSound(q)' /\ DownloadSound(q)' /\ ~Holding(q)'
    BY DEF PolicySound, CreateSound, DownloadSound, Holding
  <1>3. faults' \in 0 .. MaxFaults
    BY FaultCounted
  <1>4. QED
    BY <1>1, <1>2, <1>3, IInvFacts, QuietStep DEF Sound

LEMMA StartMergeStep ==
  ASSUME IInv, NEW q \in Requests, StartMerge(q) PROVE IInv'
  <1> DEFINE r == [Rest EXCEPT !.kind = "merge_pull", !.pc = "pull"]
  <1>1. DOMAIN r = Fields /\ r.kind = "merge_pull" /\ r.pc = "pull" /\ r.calm = TRUE
    BY DEF Rest, Fields
  <1>2. Set(q, r) /\ reqs[q].pc = "idle" /\ Quiet /\ "merge_pull" \in Kinds
    BY DEF StartMerge
  <1> HIDE DEF r
  <1>3. QED
    BY <1>1, <1>2, Started DEF AllKinds

LEMMA GetPullStep ==
  ASSUME IInv, NEW q \in Requests, GetPull(q) PROVE IInv'
  <1> DEFINE seen == [head |-> pull.head, mergeable |-> pull.mergeable,
                      policy |-> None, statuses |-> {}]
  <1>1. /\ DOMAIN reqs' = Requests /\ \A o \in Requests \ {q} : reqs'[o] = reqs[o]
        /\ DOMAIN reqs'[q] = Fields /\ reqs'[q].pc = "policy" /\ reqs'[q].calm = TRUE
        /\ reqs'[q].seen = seen /\ reqs'[q].kind = "merge_pull"
    BY IInvFacts DEF GetPull, Set, At, Fields
  <1>2. seen \in MergeSeen
    BY IInvFacts DEF TablesOK, MergeSeen
  <1>3. UNCHANGED <<forgejo, policy, releases, payload, moves, faults>> /\ pull' = pull
    BY DEF GetPull, Quiet, forgejo
  <1>4. MergeSound(q)'
    BY <1>1, <1>2, <1>3 DEF MergeSound
  <1>5. QED
    BY <1>1, <1>3, <1>4, MergeMoved DEF GetPull, At

\* The policy in force is a policy.
LEMMA PolicyIsPolicy ==
  ASSUME TablesOK
  PROVE  PolicyInForce \in Policy
  BY DEF TablesOK, PolicyInForce, DefaultPolicy, Policy

LEMMA MergePolicyForRepoStep ==
  ASSUME IInv, NEW q \in Requests, MergePolicyForRepo(q) PROVE IInv'
  <1> DEFINE seen == [reqs[q].seen EXCEPT !.policy = PolicyInForce]
  <1>1. At(q, "merge_pull", "policy") /\ Goto(q, "statuses", seen)
    BY DEF MergePolicyForRepo
  <1>2. reqs[q].seen \in MergeSeen /\ MergeSound(q)
    BY <1>1, IInvFacts DEF At, Sound, MergeSound
  <1>3. /\ seen \in MergeSeen /\ seen.policy = PolicyInForce /\ seen.policy \in Policy
        /\ seen.head = reqs[q].seen.head /\ seen.mergeable = reqs[q].seen.mergeable
        /\ seen.statuses = reqs[q].seen.statuses
    BY <1>2, IInvFacts, PolicyIsPolicy DEF MergeSeen
  <1>4. /\ UNCHANGED <<forgejo, policy, releases, payload, moves, faults>> /\ pull' = pull
        /\ PolicyInForce' = PolicyInForce
    BY DEF MergePolicyForRepo, Quiet, forgejo, PolicyInForce
  <1> HIDE DEF seen
  <1>5. /\ DOMAIN reqs' = Requests /\ \A o \in Requests \ {q} : reqs'[o] = reqs[o]
        /\ DOMAIN reqs'[q] = Fields /\ reqs'[q].pc = "statuses" /\ reqs'[q].calm = reqs[q].calm
        /\ reqs'[q].seen = seen /\ reqs'[q].kind = "merge_pull"
    BY <1>1, IInvFacts, WentTo DEF At
  <1>6. MergeSound(q)'
    BY <1>1, <1>2, <1>3, <1>4, <1>5 DEF MergeSound, At
  <1>7. QED
    BY <1>1, <1>4, <1>5, <1>6, IInvFacts, MergeMoved DEF At

LEMMA CommitStatusesStep ==
  ASSUME IInv, NEW q \in Requests, CommitStatuses(q) PROVE IInv'
  <1> DEFINE seen == [reqs[q].seen EXCEPT !.statuses = statuses[reqs[q].seen.head]]
  <1>1. At(q, "merge_pull", "statuses") /\ Goto(q, "reviews", seen)
    BY DEF CommitStatuses
  <1>2. reqs[q].seen \in MergeSeen /\ reqs[q].seen.policy \in Policy /\ MergeSound(q)
    BY <1>1, IInvFacts DEF At, Sound, MergeSound
  <1>3. /\ seen \in MergeSeen /\ seen.policy = reqs[q].seen.policy
        /\ seen.head = reqs[q].seen.head /\ seen.mergeable = reqs[q].seen.mergeable
        /\ seen.statuses = statuses[reqs[q].seen.head]
    BY <1>2, IInvFacts DEF MergeSeen, TablesOK
  <1>4. /\ UNCHANGED <<forgejo, policy, releases, payload, moves, faults>> /\ pull' = pull
        /\ PolicyInForce' = PolicyInForce /\ statuses' = statuses
    BY DEF CommitStatuses, Quiet, forgejo, PolicyInForce
  <1> HIDE DEF seen
  <1>5. /\ DOMAIN reqs' = Requests /\ \A o \in Requests \ {q} : reqs'[o] = reqs[o]
        /\ DOMAIN reqs'[q] = Fields /\ reqs'[q].pc = "reviews" /\ reqs'[q].calm = reqs[q].calm
        /\ reqs'[q].seen = seen /\ reqs'[q].kind = "merge_pull"
    BY <1>1, IInvFacts, WentTo DEF At
  <1>6. MergeSound(q)'
    BY <1>1, <1>2, <1>3, <1>4, <1>5 DEF MergeSound, At
  <1>7. QED
    BY <1>1, <1>4, <1>5, <1>6, IInvFacts, MergeMoved DEF At

\* A failed read leaves no status: seen.statuses is still empty.
LEMMA CommitStatusesUnavailableStep ==
  ASSUME IInv, NEW q \in Requests, CommitStatusesUnavailable(q) PROVE IInv'
  <1>1. At(q, "merge_pull", "statuses") /\ Goto(q, "reviews", reqs[q].seen)
    BY DEF CommitStatusesUnavailable
  <1>2. /\ UNCHANGED <<forgejo, policy, releases, payload, moves>> /\ Fault /\ pull' = pull
        /\ PolicyInForce' = PolicyInForce /\ statuses' = statuses
    BY DEF CommitStatusesUnavailable, forgejo, PolicyInForce
  <1>3. reqs[q].seen \in MergeSeen /\ reqs[q].seen.policy \in Policy /\ MergeSound(q)
        /\ reqs[q].seen.statuses = {}
    BY <1>1, IInvFacts DEF At, Sound, MergeSound
  <1>4. /\ DOMAIN reqs' = Requests /\ \A o \in Requests \ {q} : reqs'[o] = reqs[o]
        /\ DOMAIN reqs'[q] = Fields /\ reqs'[q].pc = "reviews" /\ reqs'[q].calm = reqs[q].calm
        /\ reqs'[q].seen = reqs[q].seen /\ reqs'[q].kind = "merge_pull"
    BY <1>1, IInvFacts, WentTo DEF At
  <1>5. MergeSound(q)'
    BY <1>1, <1>2, <1>3, <1>4 DEF MergeSound, At
  <1>6. QED
    BY <1>1, <1>2, <1>4, <1>5, IInvFacts, MergeMoved DEF At

\* What an undisturbed merge has read and a list of reviews that is Forgejo's or
\* empty allow, the policy in force allows. (evaluate_merge_policy)
LEMMA JudgedIsDeserved ==
  ASSUME IInv, NEW q \in Requests, At(q, "merge_pull", "reviews"), reqs[q].calm,
         NEW list \in {<<>>, reviews},
         EvaluateMergePolicy(reqs[q].seen.policy, reqs[q].seen.mergeable, reqs[q].seen.statuses,
                             CountApprovingReviews(list))
  PROVE  Deserved
  <1> DEFINE p == PolicyInForce
             s == reqs[q].seen
             approving == {u \in Users : Approves(u) \/ Withdrew(u)}
  <1>1. /\ s \in MergeSeen /\ s.policy = p /\ s.mergeable = pull.mergeable
        /\ s.statuses \in {{}, statuses[pull.head]}
    BY IInvFacts DEF At, Sound, MergeSound
  <1>2. p \in Policy /\ reviews \in Seq(Review)
    BY IInvFacts, PolicyIsPolicy DEF TablesOK
  <1>3. p.conflicted => pull.mergeable
    BY <1>1 DEF EvaluateMergePolicy
  <1>4. p.passing => /\ statuses[pull.head] # {}
                   /\ statuses[pull.head] \subseteq {"success", "warning"}
    BY <1>1, IInvFacts DEF EvaluateMergePolicy, MergeSeen, StatusState
  <1>5. p.approvals <= Cardinality(approving)
    <2>1. p.approvals \in Nat
      BY <1>2 DEF Policy
    <2>2. p.approvals <= CountApprovingReviews(list)
      BY <1>1 DEF EvaluateMergePolicy
    <2>3. IsFiniteSet(approving) /\ CountApprovingReviews(reviews) \in Nat
          /\ CountApprovingReviews(reviews) <= Cardinality(approving)
      BY <1>2, CountedApproveOrWithdrew
    <2>4. Cardinality(approving) \in Nat
      BY <2>3, FS_CardinalityType
    <2>5. CASE list = <<>>
      BY <2>1, <2>2, <2>4, <2>5, NoReviewsCountNothing
    <2>6. CASE list = reviews
      BY <2>1, <2>2, <2>3, <2>4, <2>6
    <2>7. QED
      BY <2>5, <2>6
  <1>6. QED
    BY <1>3, <1>4, <1>5 DEF Deserved

LEMMA JudgeStep ==
  ASSUME IInv, NEW q \in Requests, At(q, "merge_pull", "reviews"),
         NEW list \in {<<>>, reviews}, Judge(q, list),
         UNCHANGED <<forgejo, policy, releases, payload, moves>>, Fault \/ faults' = faults
  PROVE  IInv'
  <1> DEFINE s == reqs[q].seen
             allowed == EvaluateMergePolicy(s.policy, s.mergeable, s.statuses, CountApprovingReviews(list))
  <1>1. s \in MergeSeen /\ s.policy \in Policy
    BY IInvFacts DEF At, Sound, MergeSound
  <1>2. CASE allowed
    <2>1. Goto(q, "merge", s)
      BY <1>2 DEF Judge
    <2>2. /\ DOMAIN reqs' = Requests /\ \A o \in Requests \ {q} : reqs'[o] = reqs[o]
          /\ DOMAIN reqs'[q] = Fields /\ reqs'[q].pc = "merge" /\ reqs'[q].calm = reqs[q].calm
          /\ reqs'[q].seen = s /\ reqs'[q].kind = "merge_pull"
      BY <2>1, IInvFacts, WentTo DEF At
    <2>3. reqs[q].calm => Deserved'
      <3>1. Steady
        BY DEF Steady, forgejo
      <3>2. QED
        BY <1>2, <3>1, JudgedIsDeserved, SteadyPolicy
    <2>4. MergeSound(q)'
      BY <1>1, <2>2, <2>3 DEF MergeSound
    <2>5. QED
      BY <2>2, <2>4, IInvFacts, MergeMoved DEF At
  <1>3. CASE ~allowed
    <2>1. Answer(q, [what |-> "blocked"])
      BY <1>3 DEF Judge
    <2>2. /\ DOMAIN reqs' = Requests /\ \A o \in Requests \ {q} : reqs'[o] = reqs[o]
          /\ DOMAIN reqs'[q] = Fields /\ reqs'[q].pc = "done" /\ reqs'[q].answer.what = "blocked"
          /\ reqs'[q].kind = "merge_pull" /\ reqs'[q].calm = reqs[q].calm
      BY <2>1, IInvFacts, WasAnswered DEF At
    <2>3. MergeSound(q)'
      BY <2>2 DEF MergeSound
    <2>4. QED
      BY <2>2, <2>3, IInvFacts, MergeMoved DEF At
  <1>4. QED
    BY <1>2, <1>3

\* Whatever is merged, an undisturbed merge deserves it.
LEMMA MergeInForgejoStep ==
  ASSUME IInv, NEW q \in Requests, At(q, "merge_pull", "merge"), MergeInForgejo(q),
         NEW w \in {"merged", "error"}, Answer(q, [what |-> w]), Fault \/ faults' = faults
  PROVE  IInv'
  <1>1. /\ DOMAIN reqs' = Requests /\ \A o \in Requests \ {q} : reqs'[o] = reqs[o]
        /\ DOMAIN reqs'[q] = Fields /\ reqs'[q].pc = "done" /\ reqs'[q].answer.what = w
        /\ reqs'[q].kind = "merge_pull" /\ reqs'[q].calm = reqs[q].calm
    BY IInvFacts, WasAnswered DEF At
  <1>2. /\ pull \in [head : Heads, open : BOOLEAN, mergeable : BOOLEAN]
        /\ pull' = [pull EXCEPT !.open = FALSE]
    BY IInvFacts DEF TablesOK, MergeInForgejo
  <1>3. Steady /\ Grown
    BY <1>2 DEF Steady, Grown, MergeInForgejo
  <1>4. \A o \in Requests \ {q} : Kept(o)
    BY <1>1, <1>3 DEF Kept
  <1>5. faults' \in 0 .. MaxFaults
    BY FaultCounted
  <1>6. TablesOK'
    <2>1. Deserved \in BOOLEAN
      BY DEF Deserved
    <2>2. merged' \in [calm : BOOLEAN, deserved : BOOLEAN]
      BY <2>1, IInvFacts DEF MergeInForgejo
    <2>3. main' \in Commits
      BY <1>2, TreeAssumption DEF MergeInForgejo
    <2>4. QED
      BY <1>2, <1>5, <2>2, <2>3, IInvFacts DEF TablesOK, MergeInForgejo
  <1>7. Tidy'
    BY IInvFacts DEF Tidy, MergeInForgejo
  <1>8. Sound(q)'
    BY <1>1, IInvFacts DEF Sound, Shape, AllKinds, MergeSound, PolicySound, CreateSound, DownloadSound
  <1>9. MergesAreDeserved'
    <2>1. reqs[q].calm => Deserved
      BY IInvFacts DEF At, Sound, MergeSound
    <2>2. QED
      BY <2>1 DEF MergesAreDeserved, MergeInForgejo
  <1>10. ~Holding(q)'
    BY <1>1 DEF Holding
  <1>11. QED
    BY <1>1, <1>3, <1>4, <1>6, <1>7, <1>8, <1>9, <1>10, IInvFacts, Stepped DEF At

LEMMA MergeRefusedStep ==
  ASSUME IInv, NEW q \in Requests, MergeRefused(q) PROVE IInv'
  <1>1. /\ DOMAIN reqs' = Requests /\ \A o \in Requests \ {q} : reqs'[o] = reqs[o]
        /\ DOMAIN reqs'[q] = Fields /\ reqs'[q].pc = "done" /\ reqs'[q].answer.what = "refused"
        /\ reqs'[q].kind = "merge_pull" /\ reqs'[q].calm = reqs[q].calm
    BY IInvFacts, WasAnswered DEF At, MergeRefused
  <1>2. MergeSound(q)'
    BY <1>1 DEF MergeSound
  <1>3. QED
    BY <1>1, <1>2, IInvFacts, MergeMoved DEF At, MergeRefused, Quiet

LEMMA MergePullSafe ==
  ASSUME IInv, NEW q \in Requests, MergePullSteps(q) PROVE IInv'
  <1>1. CASE ListPullReviews(q)
    BY <1>1, JudgeStep DEF ListPullReviews, Quiet
  <1>2. CASE ListPullReviewsUnavailable(q)
    BY <1>2, JudgeStep DEF ListPullReviewsUnavailable
  <1>3. CASE MergePull(q)
    BY <1>3, MergeInForgejoStep DEF MergePull
  <1>4. CASE MergeUnacknowledged(q)
    BY <1>4, MergeInForgejoStep DEF MergeUnacknowledged
  <1>5. QED
    BY <1>1, <1>2, <1>3, <1>4, StartMergeStep, GetPullStep, MergePolicyForRepoStep, CommitStatusesStep,
       CommitStatusesUnavailableStep, MergeRefusedStep DEF MergePullSteps

-----------------------------------------------------------------------------
(* put_merge_policy_handler *)

\* A policy update that moves on without a change of the tables.
LEMMA PolicyMoved ==
  ASSUME IInv, NEW q \in Requests, reqs[q].kind = "put_merge_policy", Quiet,
         DOMAIN reqs' = Requests, \A o \in Requests \ {q} : reqs'[o] = reqs[o],
         DOMAIN reqs'[q] = Fields, reqs'[q].kind = "put_merge_policy", reqs'[q].calm = reqs[q].calm,
         reqs'[q].pc # "idle", PolicySound(q)'
  PROVE  IInv'
  <1>1. Shape(q)'
    BY IInvFacts DEF Shape, AllKinds
  <1>2. MergeSound(q)' /\ CreateSound(q)' /\ DownloadSound(q)' /\ ~Holding(q)'
    BY DEF MergeSound, CreateSound, DownloadSound, Holding
  <1>3. faults' \in 0 .. MaxFaults
    BY FaultCounted DEF Quiet
  <1>4. QED
    BY <1>1, <1>2, <1>3, IInvFacts, QuietStep DEF Sound, Quiet

LEMMA StartPolicyStep ==
  ASSUME IInv, NEW q \in Requests, StartPolicy(q) PROVE IInv'
  <1>1. PICK a \in PolicyAsks :
          Set(q, [Rest EXCEPT !.kind = "put_merge_policy", !.pc = "policy", !.asks = a])
    BY DEF StartPolicy
  <1> DEFINE r == [Rest EXCEPT !.kind = "put_merge_policy", !.pc = "policy", !.asks = a]
  <1>2. DOMAIN r = Fields /\ r.kind = "put_merge_policy" /\ r.pc = "policy" /\ r.calm = TRUE /\ r.asks = a
    BY DEF Rest, Fields
  <1>3. Set(q, r) /\ reqs[q].pc = "idle" /\ Quiet /\ "put_merge_policy" \in Kinds
    BY <1>1 DEF StartPolicy
  <1> HIDE DEF r
  <1>4. QED
    BY <1>2, <1>3, Started DEF AllKinds

\* A policy with some fields replaced is a policy, unless it counts below zero.
LEMMA UpdatedIsPolicy ==
  ASSUME NEW p \in Policy, NEW a \in PolicyAsks, ~(Updated(p, a).approvals < 0)
  PROVE  Updated(p, a) \in Policy
  <1> DEFINE u == Updated(p, a)
  <1>1. /\ DOMAIN p = {"passing", "conflicted", "approvals"}
        /\ p.passing \in BOOLEAN /\ p.conflicted \in BOOLEAN /\ p.approvals \in Nat
    BY DEF Policy
  <1>2. u = [f \in DOMAIN p |-> IF a[f] = None THEN p[f] ELSE a[f]]
    BY DEF Updated
  <1>3. /\ u.passing \in {p.passing, a.passing} /\ u.conflicted \in {p.conflicted, a.conflicted}
        /\ u.passing = IF a.passing = None THEN p.passing ELSE a.passing
        /\ u.conflicted = IF a.conflicted = None THEN p.conflicted ELSE a.conflicted
        /\ u.approvals = IF a.approvals = None THEN p.approvals ELSE a.approvals
    BY <1>1, <1>2
  <1>4. /\ a.passing = None \/ a.passing \in BOOLEAN
        /\ a.conflicted = None \/ a.conflicted \in BOOLEAN
        /\ a.approvals = None \/ a.approvals \in Int
    <2>1. CASE a = [passing |-> FALSE, conflicted |-> None, approvals |-> None]
      BY <2>1
    <2>2. CASE a = [passing |-> None, conflicted |-> FALSE, approvals |-> 0]
      BY <2>2
    <2>3. CASE a = [passing |-> TRUE, conflicted |-> None, approvals |-> -1]
      BY <2>3
    <2>4. QED
      BY <2>1, <2>2, <2>3 DEF PolicyAsks
  <1>5. u.passing \in BOOLEAN
    BY <1>1, <1>3, <1>4, Zenon
  <1>6. u.conflicted \in BOOLEAN
    BY <1>1, <1>3, <1>4, Zenon
  <1>7. u.approvals \in Nat
    BY <1>1, <1>3, <1>4
  <1>8. u = [passing |-> u.passing, conflicted |-> u.conflicted, approvals |-> u.approvals]
    BY <1>1, <1>2
  <1>9. \A x, y \in BOOLEAN, n \in Nat :
          [passing |-> x, conflicted |-> y, approvals |-> n] \in Policy
    BY DEF Policy
  <1>10. u \in Policy
    BY <1>5, <1>6, <1>7, <1>8, <1>9, Zenon
  <1>11. QED
    BY <1>10

LEMMA LoadMergePolicyStep ==
  ASSUME IInv, NEW q \in Requests, LoadMergePolicy(q) PROVE IInv'
  <1> DEFINE new == Updated(PolicyInForce, reqs[q].asks)
  <1>1. At(q, "put_merge_policy", "policy") /\ Quiet /\ reqs[q].asks \in PolicyAsks
    BY IInvFacts DEF LoadMergePolicy, At, Sound, PolicySound
  <1>2. CASE new.approvals < 0
    <2>1. Answer(q, [what |-> "invalid"])
      BY <1>2 DEF LoadMergePolicy
    <2>2. /\ DOMAIN reqs' = Requests /\ \A o \in Requests \ {q} : reqs'[o] = reqs[o]
          /\ DOMAIN reqs'[q] = Fields /\ reqs'[q].pc = "done" /\ reqs'[q].answer.what = "invalid"
          /\ reqs'[q].kind = "put_merge_policy" /\ reqs'[q].calm = reqs[q].calm
      BY <1>1, <2>1, IInvFacts, WasAnswered DEF At
    <2>3. PolicySound(q)'
      BY <2>2 DEF PolicySound
    <2>4. QED
      BY <1>1, <2>2, <2>3, PolicyMoved DEF At
  <1>3. CASE ~(new.approvals < 0)
    <2>1. new \in Policy
      BY <1>1, <1>3, IInvFacts, PolicyIsPolicy, UpdatedIsPolicy
    <2>2. reqs' = [reqs EXCEPT ![q] = [reqs[q] EXCEPT !.pc = "write", !.seen = new]]
      BY <1>3 DEF LoadMergePolicy, Set
    <2> HIDE DEF new
    <2>3. /\ DOMAIN reqs' = Requests /\ \A o \in Requests \ {q} : reqs'[o] = reqs[o]
          /\ DOMAIN reqs'[q] = Fields /\ reqs'[q].pc = "write" /\ reqs'[q].seen = new
          /\ reqs'[q].kind = "put_merge_policy" /\ reqs'[q].calm = reqs[q].calm
      BY <1>1, <2>2, IInvFacts DEF At, Fields
    <2>4. PolicySound(q)'
      BY <2>1, <2>3 DEF PolicySound
    <2>5. QED
      BY <1>1, <2>3, <2>4, PolicyMoved DEF At
  <1>4. QED
    BY <1>2, <1>3

\* A request is left alone, or is a merge under way that is disturbed.
LEMMA DisturbedOthers ==
  ASSUME IInv, NEW o \in Requests, NEW q, o # q, reqs'[o] = Disturbed(q, reqs)[o]
  PROVE  Kept(o)
  BY DEF Disturbed, Kept

LEMMA UpsertMergePolicyStep ==
  ASSUME IInv, NEW q \in Requests, UpsertMergePolicy(q) PROVE IInv'
  <1> DEFINE d == Disturbed(q, reqs)
  <1>1. At(q, "put_merge_policy", "write") /\ reqs[q].seen \in Policy
    BY IInvFacts DEF UpsertMergePolicy, At, Sound, PolicySound
  <1>2. DOMAIN d = Requests /\ d[q] = reqs[q]
    BY DEF Disturbed
  <1>3. reqs' = [d EXCEPT ![q].pc = "done", ![q].answer = [what |-> "updated"], ![q].seen = None]
    BY DEF UpsertMergePolicy
  <1> HIDE DEF d
  <1>4. /\ DOMAIN reqs' = Requests /\ \A o \in Requests \ {q} : reqs'[o] = d[o]
        /\ DOMAIN reqs'[q] = Fields /\ reqs'[q].pc = "done" /\ reqs'[q].answer.what = "updated"
        /\ reqs'[q].kind = "put_merge_policy" /\ reqs'[q].calm = reqs[q].calm
    BY <1>1, <1>2, <1>3, IInvFacts DEF At, Fields
  <1>5. \A o \in Requests \ {q} : Kept(o)
    BY <1>4, DisturbedOthers DEF d
  <1>6. Grown /\ Tidy'
    BY IInvFacts DEF UpsertMergePolicy, Grown, Tidy
  <1>7. TablesOK'
    BY <1>1, IInvFacts DEF UpsertMergePolicy, forgejo, TablesOK
  <1>8. Sound(q)'
    BY <1>4, IInvFacts DEF Sound, Shape, AllKinds, MergeSound, PolicySound, CreateSound, DownloadSound
  <1>9. MergesAreDeserved'
    BY DEF IInv, MergesAreDeserved, UpsertMergePolicy, forgejo
  <1>10. ~Holding(q)'
    BY <1>4 DEF Holding
  <1>11. QED
    BY <1>1, <1>4, <1>5, <1>6, <1>7, <1>8, <1>9, <1>10, IInvFacts, Stepped DEF At

LEMMA PolicySafe ==
  ASSUME IInv, NEW q \in Requests, PolicySteps(q) PROVE IInv'
  BY StartPolicyStep, LoadMergePolicyStep, UpsertMergePolicyStep DEF PolicySteps

\* A failed call. (the ? operator)
LEMMA FailStep ==
  ASSUME IInv, NEW q \in Requests, Fail(q) PROVE IInv'
  <1>1. reqs[q].kind # "none"
    BY IInvFacts DEF Fail
  <1>2. QED
    BY <1>1, AnsweredError DEF Fail

-----------------------------------------------------------------------------
(* What happens meanwhile *)

\* A step of no request, that disturbs those it concerns.
LEMMA MeanwhileStep ==
  ASSUME IInv, DOMAIN reqs' = Requests, \A o \in Requests : Kept(o), moves < MaxMoves,
         moves' = moves + 1, UNCHANGED <<policy, main, merged, releases, faults>>,
         /\ pull' \in [head : Heads, open : BOOLEAN, mergeable : BOOLEAN]
         /\ statuses' \in [Heads -> SUBSET StatusState]
         /\ reviews' \in Seq(Review)
         /\ payload' \in {"whole", "short", "corrupt"}
  PROVE  IInv'
  <1>1. Grown
    BY DEF Grown
  <1>2. \A o \in Requests : /\ Sound(o)' /\ (Holding(o)' <=> Holding(o))
                            /\ reqs'[o].asks = reqs[o].asks /\ reqs'[o].kind = reqs[o].kind
    BY <1>1, OthersKept DEF IInv
  <1>3. TablesOK'
    BY BoundsAssumption DEF IInv, TypeOK, TablesOK
  <1>4. TypeOK'
    BY <1>2, <1>3, StepsOfSound DEF IInv, TypeOK
  <1>5. CreatedApart'
    BY <1>2 DEF IInv, CreatedApart
  <1>6. Tidy' /\ MergesAreDeserved'
    BY DEF IInv, Tidy, MergesAreDeserved
  <1>7. QED
    BY <1>2, <1>4, <1>5, <1>6 DEF IInv

LEMMA MeanwhileInForgejo ==
  ASSUME IInv, MoveInForgejo
  PROVE  DOMAIN reqs' = Requests /\ \A o \in Requests : Kept(o)
  <1>1. reqs' = Disturbed(None, reqs)
    BY DEF MoveInForgejo, Move
  <1>2. \A o \in Requests : o # None /\ reqs'[o] = Disturbed(None, reqs)[o]
    BY <1>1, NoneAssumption
  <1>3. \A o \in Requests : Kept(o)
    BY <1>2, DisturbedOthers
  <1>4. QED
    BY <1>1, <1>3 DEF Disturbed

LEMMA MovesSafe ==
  ASSUME IInv, PushHead \/ ReportStatus \/ ReviewPull \/ PayloadDecays PROVE IInv'
  <1>1. TablesOK
    BY DEF IInv, TypeOK
  <1>2. CASE PushHead
    <2>1. PICK h \in Heads, m \in BOOLEAN : pull' = [pull EXCEPT !.head = h, !.mergeable = m]
      BY <1>2 DEF PushHead
    <2>2. pull' \in [head : Heads, open : BOOLEAN, mergeable : BOOLEAN]
      BY <1>1, <2>1 DEF TablesOK
    <2>3. QED
      BY <1>1, <1>2, <2>2, MeanwhileInForgejo, MeanwhileStep DEF PushHead, MoveInForgejo, Move, TablesOK
  <1>3. CASE ReportStatus
    <2>1. PICK s \in StatusState : statuses' = [statuses EXCEPT ![pull.head] = @ \cup {s}]
      BY <1>3 DEF ReportStatus
    <2>2. statuses' \in [Heads -> SUBSET StatusState]
      BY <1>1, <2>1 DEF TablesOK
    <2>3. QED
      BY <1>1, <1>3, <2>2, MeanwhileInForgejo, MeanwhileStep DEF ReportStatus, MoveInForgejo, Move, TablesOK
  <1>4. CASE ReviewPull
    <2>1. PICK r \in Review : reviews' = Append(reviews, r)
      BY <1>4 DEF ReviewPull
    <2>2. reviews' \in Seq(Review)
      BY <1>1, <2>1 DEF TablesOK
    <2>3. QED
      BY <1>1, <1>4, <2>2, MeanwhileInForgejo, MeanwhileStep DEF ReviewPull, MoveInForgejo, Move, TablesOK
  <1>5. CASE PayloadDecays
    <2>1. reqs' = reqs /\ UNCHANGED <<pull, statuses, reviews, policy>>
      BY <1>5 DEF PayloadDecays, Move
    <2>2. \A o \in Requests : Kept(o)
      BY <2>1 DEF Kept, Steady
    <2>3. QED
      BY <1>1, <1>5, <2>1, <2>2, MeanwhileStep DEF IInv, PayloadDecays, Move, TablesOK
  <1>6. QED
    BY <1>2, <1>3, <1>4, <1>5

-----------------------------------------------------------------------------
(* create_release *)

\* A creation that moves on without a change of the tables, and holds no more.
LEMMA CreateMoved ==
  ASSUME IInv, NEW q \in Requests, reqs[q].kind = "create_release", Quiet,
         DOMAIN reqs' = Requests, \A o \in Requests \ {q} : reqs'[o] = reqs[o],
         DOMAIN reqs'[q] = Fields, reqs'[q].kind = "create_release", reqs'[q].calm = reqs[q].calm,
         reqs'[q].asks = reqs[q].asks, reqs'[q].pc # "idle", CreateSound(q)',
         Holding(q)' => Holding(q)
  PROVE  IInv'
  <1>1. Shape(q)'
    BY IInvFacts DEF Shape, AllKinds
  <1>2. MergeSound(q)' /\ PolicySound(q)' /\ DownloadSound(q)'
    BY DEF MergeSound, PolicySound, DownloadSound
  <1>3. faults' \in 0 .. MaxFaults
    BY FaultCounted DEF Quiet
  <1>4. QED
    BY <1>1, <1>2, <1>3, IInvFacts, QuietStep DEF Sound, Quiet

LEMMA StartReleaseStep ==
  ASSUME IInv, NEW q \in Requests, StartRelease(q) PROVE IInv'
  <1>1. PICK v \in Versions, c \in Commits \cup {None}, b \in BOOLEAN :
          Set(q, [Rest EXCEPT !.kind = "create_release", !.pc = "list",
                              !.asks = [version |-> v, commit |-> c, require_ready |-> b]])
    BY DEF StartRelease
  <1> DEFINE a == [version |-> v, commit |-> c, require_ready |-> b]
             r == [Rest EXCEPT !.kind = "create_release", !.pc = "list", !.asks = a]
  <1>2. a \in [version : Versions, commit : Commits \cup {None}, require_ready : BOOLEAN]
    OBVIOUS
  <1> HIDE DEF a
  <1>3. DOMAIN r = Fields /\ r.kind = "create_release" /\ r.pc = "list" /\ r.calm = TRUE /\ r.asks = a
    BY DEF Rest, Fields
  <1>4. Set(q, r) /\ reqs[q].pc = "idle" /\ Quiet /\ "create_release" \in Kinds
    BY <1>1 DEF StartRelease, a
  <1> HIDE DEF r
  <1>5. QED
    BY <1>2, <1>3, <1>4, Started DEF AllKinds

\* Nothing of the listed commit is read yet. (list_files)
LEMMA ListFilesStep ==
  ASSUME IInv, NEW q \in Requests, ListFiles(q) PROVE IInv'
  <1> DEFINE a == reqs[q].asks
             c == IF a.commit = None THEN main ELSE a.commit
             seen == [commit |-> c, left |-> DOMAIN Tree[c], manifest |-> <<>>]
  <1>1. At(q, "create_release", "list") /\ Goto(q, "read", seen) /\ Quiet
    BY DEF ListFiles
  <1>2. a \in [version : Versions, commit : Commits \cup {None}, require_ready : BOOLEAN]
    BY <1>1, IInvFacts DEF At, Sound, CreateSound
  <1>3. c \in Commits /\ a.commit \in {None, c}
    BY <1>2, IInvFacts DEF TablesOK
  <1>4. /\ DOMAIN reqs' = Requests /\ \A o \in Requests \ {q} : reqs'[o] = reqs[o]
        /\ DOMAIN reqs'[q] = Fields /\ reqs'[q].pc = "read" /\ reqs'[q].seen = seen
        /\ reqs'[q].kind = "create_release" /\ reqs'[q].calm = reqs[q].calm
        /\ reqs'[q].asks = a
    BY <1>1, IInvFacts, WentTo DEF At
  <1>5. <<>> = [p \in DOMAIN Tree[c] \ DOMAIN Tree[c] |-> Tree[c][p]]
    OBVIOUS
  <1>6. CreateSound(q)' /\ ~Holding(q)'
    <2>1. /\ seen.commit = c /\ seen.left = DOMAIN Tree[c] /\ seen.manifest = <<>>
          /\ seen = [commit |-> seen.commit, left |-> seen.left, manifest |-> seen.manifest]
      OBVIOUS
    <2> HIDE DEF seen, c, a
    <2>2. QED
      BY <1>2, <1>3, <1>4, <1>5, <2>1 DEF CreateSound, Holding
  <1>7. QED
    BY <1>1, <1>4, <1>6, CreateMoved DEF At

\* A creation on its way knows one commit.
LEMMA Reading ==
  ASSUME IInv, NEW q \in Requests, reqs[q].kind = "create_release", reqs[q].pc \in {"read", "insert", "log"}
  PROVE  LET s == reqs[q].seen  a == reqs[q].asks IN
         /\ a \in [version : Versions, commit : Commits \cup {None}, require_ready : BOOLEAN]
         /\ s = [commit |-> s.commit, left |-> s.left, manifest |-> s.manifest]
         /\ s.commit \in Commits /\ a.commit \in {None, s.commit}
         /\ s.left \subseteq DOMAIN Tree[s.commit]
         /\ s.manifest = [p \in DOMAIN Tree[s.commit] \ s.left |-> Tree[s.commit][p]]
  BY IInvFacts DEF Sound, CreateSound

\* One more file of it is read. (get_file)
LEMMA GetFileStep ==
  ASSUME IInv, NEW q \in Requests, GetFile(q) PROVE IInv'
  <1> DEFINE s == reqs[q].seen
             c == s.commit
  <1>1. At(q, "create_release", "read") /\ Quiet
    BY DEF GetFile
  <1>2. PICK p \in s.left :
          Goto(q, "read", [s EXCEPT !.left = @ \ {p}, !.manifest = With(@, p, FileAt(c, p))])
    BY DEF GetFile
  <1> DEFINE seen == [s EXCEPT !.left = @ \ {p}, !.manifest = With(@, p, FileAt(c, p))]
  <1>3. /\ s = [commit |-> s.commit, left |-> s.left, manifest |-> s.manifest]
        /\ s.left \subseteq DOMAIN Tree[c] /\ c \in Commits
        /\ s.manifest = [x \in DOMAIN Tree[c] \ s.left |-> Tree[c][x]]
    BY <1>1, Reading DEF At
  <1>4. /\ seen = [commit |-> seen.commit, left |-> seen.left, manifest |-> seen.manifest]
        /\ seen.commit = c /\ seen.left = s.left \ {p}
        /\ seen.manifest = With(s.manifest, p, Tree[c][p])
    <2> DEFINE l == s.left \ {p}
               m == With(s.manifest, p, Tree[c][p])
    <2>1. seen = [s EXCEPT !.left = l, !.manifest = m]
      BY DEF FileAt
    <2> HIDE DEF seen, l, m
    <2>2. /\ seen = [commit |-> s.commit, left |-> l, manifest |-> m]
      BY <1>3, <2>1
    <2>3. QED
      BY <2>2 DEF l, m
  <1>5. With(s.manifest, p, Tree[c][p]) = [x \in DOMAIN Tree[c] \ (s.left \ {p}) |-> Tree[c][x]]
    BY <1>3 DEF With
  <1> HIDE DEF seen
  <1>6. /\ DOMAIN reqs' = Requests /\ \A o \in Requests \ {q} : reqs'[o] = reqs[o]
        /\ DOMAIN reqs'[q] = Fields /\ reqs'[q].pc = "read" /\ reqs'[q].seen = seen
        /\ reqs'[q].kind = "create_release" /\ reqs'[q].calm = reqs[q].calm
        /\ reqs'[q].asks = reqs[q].asks
    BY <1>1, <1>2, IInvFacts, WentTo DEF At, seen
  <1>7. CreateSound(q)' /\ ~Holding(q)'
    <2>1. /\ reqs[q].asks \in [version : Versions, commit : Commits \cup {None}, require_ready : BOOLEAN]
          /\ reqs[q].asks.commit \in {None, c}
      BY <1>1, Reading DEF At
    <2>2. seen.left \subseteq DOMAIN Tree[c]
      BY <1>3, <1>4
    <2>3. seen.manifest = [x \in DOMAIN Tree[c] \ seen.left |-> Tree[c][x]]
      BY <1>4, <1>5
    <2>4. /\ reqs'[q].seen.commit = c /\ c \in Commits
          /\ reqs'[q].seen = [commit |-> c, left |-> seen.left, manifest |-> seen.manifest]
      BY <1>3, <1>4, <1>6
    <2>5. QED
      BY <1>6, <2>1, <2>2, <2>3, <2>4, Zenon DEF CreateSound, Holding
  <1>8. QED
    BY <1>1, <1>6, <1>7, CreateMoved DEF At

\* All of it is read. (artifact_manifest, check_readiness)
LEMMA CheckReadinessStep ==
  ASSUME IInv, NEW q \in Requests, CheckReadiness(q) PROVE IInv'
  <1> DEFINE s == reqs[q].seen
             c == s.commit
             a == reqs[q].asks
  <1>1. At(q, "create_release", "read") /\ Quiet /\ s.left = {}
    BY DEF CheckReadiness
  <1>2. /\ a \in [version : Versions, commit : Commits \cup {None}, require_ready : BOOLEAN]
        /\ s = [commit |-> s.commit, left |-> s.left, manifest |-> s.manifest]
        /\ c \in Commits /\ a.commit \in {None, c} /\ s.left \subseteq DOMAIN Tree[c]
        /\ s.manifest = [p \in DOMAIN Tree[c] \ s.left |-> Tree[c][p]]
    BY <1>1, Reading DEF At
  <1>3. s.manifest = Tree[c]
    BY <1>1, <1>2, TreeAssumption
  <1>4. CASE a.require_ready /\ ~Ready(s.manifest)
    <2>1. Answer(q, [what |-> "not_ready"])
      BY <1>4 DEF CheckReadiness
    <2>2. /\ DOMAIN reqs' = Requests /\ \A o \in Requests \ {q} : reqs'[o] = reqs[o]
          /\ DOMAIN reqs'[q] = Fields /\ reqs'[q].pc = "done" /\ reqs'[q].answer.what = "not_ready"
          /\ reqs'[q].kind = "create_release" /\ reqs'[q].calm = reqs[q].calm /\ reqs'[q].asks = a
      BY <1>1, <2>1, IInvFacts, WasAnswered DEF At
    <2>3. CreateSound(q)' /\ ~Holding(q)'
      BY <1>2, <2>2 DEF CreateSound, Holding
    <2>4. QED
      BY <1>1, <2>2, <2>3, CreateMoved DEF At
  <1>5. CASE ~(a.require_ready /\ ~Ready(s.manifest))
    <2>1. Goto(q, "insert", s)
      BY <1>5 DEF CheckReadiness
    <2>2. /\ DOMAIN reqs' = Requests /\ \A o \in Requests \ {q} : reqs'[o] = reqs[o]
          /\ DOMAIN reqs'[q] = Fields /\ reqs'[q].pc = "insert" /\ reqs'[q].seen = s
          /\ reqs'[q].kind = "create_release" /\ reqs'[q].calm = reqs[q].calm /\ reqs'[q].asks = a
      BY <1>1, <2>1, IInvFacts, WentTo DEF At
    <2>3. a.require_ready => Ready(Tree[c])
      BY <1>3, <1>5
    <2>4. CreateSound(q)' /\ ~Holding(q)'
      BY <1>2, <1>3, <2>2, <2>3 DEF CreateSound, Holding
    <2>5. QED
      BY <1>1, <2>2, <2>4, CreateMoved DEF At
  <1>6. QED
    BY <1>4, <1>5

\* A creation past its checks holds the whole tree of its commit.
LEMMA ReadyToInsert ==
  ASSUME IInv, NEW q \in Requests, reqs[q].kind = "create_release", reqs[q].pc \in {"insert", "log"}
  PROVE  LET s == reqs[q].seen  a == reqs[q].asks IN
         /\ s.manifest = Tree[s.commit] /\ (a.require_ready => Ready(Tree[s.commit]))
         /\ a.version \in Versions /\ a.commit \in {None, s.commit} /\ s.commit \in Commits
  BY IInvFacts DEF Sound, CreateSound

\* A row is added under a version that has none. (insert_release)
LEMMA InsertReleaseStep ==
  ASSUME IInv, NEW q \in Requests, InsertRelease(q) PROVE IInv'
  <1> DEFINE s == reqs[q].seen
             a == reqs[q].asks
             row == Row(q)
             n == Len(releases)
  <1>1. /\ At(q, "create_release", "insert") /\ LoadRelease(a.version) = None
        /\ releases' = Append(releases, row) /\ Goto(q, "log", s)
        /\ UNCHANGED <<forgejo, policy, payload, moves, faults>>
    BY DEF InsertRelease
  <1>2. /\ s.manifest = Tree[s.commit] /\ (a.require_ready => Ready(Tree[s.commit]))
        /\ a.version \in Versions /\ a.commit \in {None, s.commit} /\ s.commit \in Commits
    BY <1>1, ReadyToInsert DEF At
  <1>3. row \in Rows /\ row.version = a.version /\ row.commit = s.commit
    BY <1>2 DEF Row, Rows
  <1>4. releases \in Seq(Rows) /\ ~Labelled(a.version)
    BY <1>1, IInvFacts, LoadReleaseFacts DEF Tidy
  <1> HIDE DEF row
  <1>5. /\ n \in Nat /\ DOMAIN releases = 1 .. n /\ DOMAIN releases' = 1 .. (n + 1)
        /\ \A i \in 1 .. n : releases'[i] = releases[i] /\ releases'[n + 1] = row
        /\ releases' \in Seq(Rows)
        /\ releases'[n + 1] = row
    BY <1>1, <1>3, <1>4
  <1> HIDE DEF n
  <1>6. Grown
    BY <1>5 DEF Grown
  <1>7. HasRow(a.version, s.commit)'
    <2>1. n + 1 \in DOMAIN releases' /\ releases'[n + 1].version = a.version
          /\ releases'[n + 1].commit = s.commit
      BY <1>3, <1>5
    <2>2. /\ DOMAIN reqs' = Requests
          /\ \E i \in DOMAIN releases' : releases'[i].version = a.version /\ releases'[i].commit = s.commit
      BY <1>1, <2>1, IInvFacts, WentTo
    <2>3. reqs'[q].asks = a /\ reqs'[q].seen = s
      BY <1>1, IInvFacts, WentTo
    <2>4. QED
      BY <2>2, <2>3 DEF HasRow
  <1>8. Tidy'
    <2>1. \A i \in 1 .. n : releases[i].version # a.version
      BY <1>4, <1>5 DEF Labelled
    <2>2. \A i, j \in 1 .. n : releases[i].version = releases[j].version => i = j
      BY <1>5, IInvFacts DEF Tidy
    <2>3. ASSUME NEW i \in 1 .. (n + 1), NEW j \in 1 .. (n + 1),
                 releases'[i].version = releases'[j].version
          PROVE  i = j
      <3>1. CASE i \in 1 .. n /\ j \in 1 .. n
        BY <1>5, <2>2, <2>3, <3>1
      <3>2. CASE i \in 1 .. n /\ j = n + 1
        BY <1>3, <1>5, <2>1, <2>3, <3>2
      <3>3. CASE i = n + 1 /\ j \in 1 .. n
        BY <1>3, <1>5, <2>1, <2>3, <3>3
      <3>4. QED
        BY <1>5, <3>1, <3>2, <3>3
    <2>4. QED
      BY <1>5, <2>3 DEF Tidy
  <1>9. /\ DOMAIN reqs' = Requests /\ \A o \in Requests \ {q} : reqs'[o] = reqs[o]
        /\ DOMAIN reqs'[q] = Fields /\ reqs'[q].pc = "log" /\ reqs'[q].seen = s
        /\ reqs'[q].kind = "create_release" /\ reqs'[q].calm = reqs[q].calm /\ reqs'[q].asks = a
    BY <1>1, IInvFacts, WentTo DEF At
  <1>10. TablesOK'
    <2>1. \A r \in Rows : /\ r.version \in Versions /\ r.commit \in Commits
                          /\ \A p \in DOMAIN r.manifest : r.manifest[p] \in File
      BY RowsAreRows, TreeAssumption
    <2>2. \A i \in DOMAIN releases' : releases'[i] \in Rows
      BY <1>5
    <2>3. QED
      BY <1>1, <2>1, <2>2, IInvFacts DEF TablesOK, forgejo
  <1>11. Sound(q)'
    <2>1. Shape(q)'
      BY <1>9, IInvFacts DEF Shape, AllKinds
    <2>2. /\ reqs[q].asks \in [version : Versions, commit : Commits \cup {None}, require_ready : BOOLEAN]
          /\ s = [commit |-> s.commit, left |-> s.left, manifest |-> s.manifest]
          /\ s.left \subseteq DOMAIN Tree[s.commit]
          /\ s.manifest = [p \in DOMAIN Tree[s.commit] \ s.left |-> Tree[s.commit][p]]
      BY <1>1, Reading DEF At
    <2>3. CreateSound(q)'
      BY <1>2, <1>7, <1>9, <2>2, Zenon DEF CreateSound
    <2>4. MergeSound(q)' /\ PolicySound(q)' /\ DownloadSound(q)'
      BY <1>9 DEF MergeSound, PolicySound, DownloadSound
    <2>5. QED
      BY <2>1, <2>3, <2>4 DEF Sound
  <1>12. \A o \in Requests \ {q} : Kept(o)
    <2>1. Steady
      BY <1>1 DEF Steady, forgejo
    <2>2. QED
      BY <1>9, <2>1 DEF Kept
  <1>13. \A o \in Requests \ {q} : Holding(o) => reqs[o].asks.version # reqs'[q].asks.version
    <2>1. SUFFICES ASSUME NEW o \in Requests \ {q}, Holding(o)
                   PROVE  Labelled(reqs[o].asks.version)
      BY <1>4, <1>9
    <2>2. \E c : HasRow(reqs[o].asks.version, c)
      BY <2>1, IInvFacts DEF Holding, Sound, CreateSound
    <2>3. QED
      BY <2>2 DEF HasRow, Labelled
  <1>14. MergesAreDeserved'
    BY <1>1 DEF IInv, MergesAreDeserved, forgejo
  <1>15. QED
    BY <1>1, <1>6, <1>8, <1>9, <1>10, <1>11, <1>12, <1>13, <1>14, IInvFacts, Stepped DEF At

LEMMA ReleaseExistsStep ==
  ASSUME IInv, NEW q \in Requests, ReleaseExists(q) PROVE IInv'
  <1>1. /\ At(q, "create_release", "insert") /\ Quiet /\ Answer(q, [what |-> "exists"])
        /\ LoadRelease(reqs[q].asks.version) # None
    BY DEF ReleaseExists
  <1>2. Labelled(reqs[q].asks.version) /\ releases' = releases
    BY <1>1, IInvFacts, LoadReleaseFacts DEF Quiet
  <1>3. /\ DOMAIN reqs' = Requests /\ \A o \in Requests \ {q} : reqs'[o] = reqs[o]
        /\ DOMAIN reqs'[q] = Fields /\ reqs'[q].pc = "done" /\ reqs'[q].answer.what = "exists"
        /\ reqs'[q].kind = "create_release" /\ reqs'[q].calm = reqs[q].calm
        /\ reqs'[q].asks = reqs[q].asks
    BY <1>1, IInvFacts, WasAnswered DEF At
  <1>4. reqs[q].asks \in [version : Versions, commit : Commits \cup {None}, require_ready : BOOLEAN]
    BY <1>1, Reading DEF At
  <1>5. CreateSound(q)' /\ ~Holding(q)'
    BY <1>2, <1>3, <1>4 DEF CreateSound, Holding, Labelled
  <1>6. QED
    BY <1>1, <1>3, <1>5, CreateMoved DEF At

LEMMA LogReleaseStep ==
  ASSUME IInv, NEW q \in Requests, LogRelease(q) PROVE IInv'
  <1> DEFINE s == reqs[q].seen
             a == reqs[q].asks
  <1>1. /\ At(q, "create_release", "log") /\ Quiet
        /\ Answer(q, [what |-> "created", commit |-> s.commit])
    BY DEF LogRelease
  <1>2. HasRow(a.version, s.commit) /\ releases' = releases /\ Holding(q)
    BY <1>1, IInvFacts DEF Quiet, At, Sound, CreateSound, Holding
  <1>3. /\ DOMAIN reqs' = Requests /\ \A o \in Requests \ {q} : reqs'[o] = reqs[o]
        /\ DOMAIN reqs'[q] = Fields /\ reqs'[q].pc = "done" /\ reqs'[q].answer.what = "created"
        /\ reqs'[q].answer.commit = s.commit
        /\ reqs'[q].kind = "create_release" /\ reqs'[q].calm = reqs[q].calm /\ reqs'[q].asks = a
    BY <1>1, IInvFacts, WasAnswered DEF At
  <1>4. /\ a \in [version : Versions, commit : Commits \cup {None}, require_ready : BOOLEAN]
        /\ a.commit \in {None, s.commit} /\ (a.require_ready => Ready(Tree[s.commit]))
    BY <1>1, Reading, ReadyToInsert DEF At
  <1>5. CreateSound(q)'
    BY <1>2, <1>3, <1>4 DEF CreateSound, HasRow
  <1>6. QED
    BY <1>1, <1>2, <1>3, <1>5, CreateMoved DEF At

LEMMA ReleaseSafe ==
  ASSUME IInv, NEW q \in Requests, ReleaseSteps(q) PROVE IInv'
  BY StartReleaseStep, ListFilesStep, GetFileStep, CheckReadinessStep, InsertReleaseStep,
     ReleaseExistsStep, LogReleaseStep DEF ReleaseSteps

-----------------------------------------------------------------------------
(* repo_info, resolve and serve_release_file *)

\* A download that moves on.
LEMMA DownloadMoved ==
  ASSUME IInv, NEW q \in Requests, reqs[q].kind \in {"hub", "get_release_file"}, Quiet,
         DOMAIN reqs' = Requests, \A o \in Requests \ {q} : reqs'[o] = reqs[o],
         DOMAIN reqs'[q] = Fields, reqs'[q].kind = reqs[q].kind, reqs'[q].calm = reqs[q].calm,
         reqs'[q].pc # "idle", DownloadSound(q)'
  PROVE  IInv'
  <1>1. Shape(q)'
    BY IInvFacts DEF Shape, AllKinds
  <1>2. MergeSound(q)' /\ PolicySound(q)' /\ CreateSound(q)' /\ ~Holding(q)'
    BY DEF MergeSound, PolicySound, CreateSound, Holding
  <1>3. faults' \in 0 .. MaxFaults
    BY FaultCounted DEF Quiet
  <1>4. QED
    BY <1>1, <1>2, <1>3, IInvFacts, QuietStep DEF Sound, Quiet

LEMMA StartDownloadStep ==
  ASSUME IInv, NEW q \in Requests, StartDownload(q) PROVE IInv'
  <1>1. reqs[q].pc = "idle" /\ Quiet
    BY Zenon DEF StartDownload
  <1>2. CASE "hub" \in Kinds /\ \E revision \in {"main"} \cup Versions :
               Set(q, [Rest EXCEPT !.kind = "hub", !.pc = "info", !.asks = [revision |-> revision]])
    <2>1. PICK revision \in {"main"} \cup Versions :
            Set(q, [Rest EXCEPT !.kind = "hub", !.pc = "info", !.asks = [revision |-> revision]])
      BY <1>2
    <2> DEFINE r == [Rest EXCEPT !.kind = "hub", !.pc = "info", !.asks = [revision |-> revision]]
    <2>2. DOMAIN r = Fields /\ r.kind = "hub" /\ r.pc = "info" /\ r.calm = TRUE
      BY DEF Rest, Fields
    <2>3. Set(q, r)
      BY <2>1
    <2> HIDE DEF r
    <2>4. QED
      BY <1>1, <1>2, <2>2, <2>3, Started DEF AllKinds
  <1>3. CASE "get_release_file" \in Kinds /\ \E v \in Versions, p \in {"card", "weights"} :
               Set(q, [Rest EXCEPT !.kind = "get_release_file", !.pc = "load",
                                   !.seen = [version |-> v, path |-> p,
                                             commit |-> None, file |-> None]])
    <2>1. PICK v \in Versions, p \in {"card", "weights"} :
            Set(q, [Rest EXCEPT !.kind = "get_release_file", !.pc = "load",
                                !.seen = [version |-> v, path |-> p,
                                          commit |-> None, file |-> None]])
      BY <1>3, Zenon
    <2> DEFINE r == [Rest EXCEPT !.kind = "get_release_file", !.pc = "load",
                                 !.seen = [version |-> v, path |-> p,
                                           commit |-> None, file |-> None]]
    <2>2. DOMAIN r = Fields /\ r.kind = "get_release_file" /\ r.pc = "load" /\ r.calm = TRUE
      BY DEF Rest, Fields
    <2>3. Set(q, r)
      BY <2>1
    <2> HIDE DEF r
    <2>4. QED
      BY <1>1, <1>3, <2>2, <2>3, Started DEF AllKinds
  <1>4. QED
    BY <1>2, <1>3, Zenon DEF StartDownload

\* A client that is told of a file is told the truth. (repo_info)
LEMMA RepoInfoStep ==
  ASSUME IInv, NEW q \in Requests, RepoInfo(q) PROVE IInv'
  <1> DEFINE r == ResolveReleaseSnapshot(reqs[q].asks.revision)
  <1>1. At(q, "hub", "info") /\ Quiet
    BY DEF RepoInfo
  <1>2. CASE r = None /\ Answer(q, [what |-> "no_release"])
    <2>1. /\ DOMAIN reqs' = Requests /\ \A o \in Requests \ {q} : reqs'[o] = reqs[o]
          /\ DOMAIN reqs'[q] = Fields /\ reqs'[q].pc = "done" /\ reqs'[q].answer.what = "no_release"
          /\ reqs'[q].kind = "hub" /\ reqs'[q].calm = reqs[q].calm
      BY <1>1, <1>2, IInvFacts, WasAnswered DEF At
    <2>2. DownloadSound(q)'
      BY <2>1 DEF DownloadSound
    <2>3. QED
      BY <1>1, <2>1, <2>2, DownloadMoved DEF At
  <1>3. CASE /\ r # None
             /\ \E p \in DOMAIN r.manifest :
                  Goto(q, "resolve", [version |-> None, path |-> p,
                                      commit |-> r.commit, file |-> r.manifest[p]])
    <2>1. PICK i \in DOMAIN releases : r = releases[i] /\ r \in Rows
      BY <1>3, IInvFacts, ResolveFacts DEF Named
    <2> HIDE DEF r
    <2>2. PICK p \in DOMAIN r.manifest :
            Goto(q, "resolve", [version |-> None, path |-> p,
                                commit |-> r.commit, file |-> r.manifest[p]])
      BY <1>3
    <2> DEFINE seen == [version |-> None, path |-> p, commit |-> r.commit, file |-> r.manifest[p]]
    <2>3. /\ seen = [version |-> seen.version, path |-> seen.path, commit |-> seen.commit,
                     file |-> seen.file]
          /\ seen.path = p /\ seen.commit = r.commit /\ seen.file = r.manifest[p]
      OBVIOUS
    <2> HIDE DEF seen
    <2>4. Listing(seen)
      <3>1. r.commit \in Commits /\ r.manifest = Tree[r.commit]
        BY <2>1, RowsAreRows
      <3>2. QED
        BY <2>1, <2>2, <2>3, <3>1 DEF Listing
    <2>5. /\ DOMAIN reqs' = Requests /\ \A o \in Requests \ {q} : reqs'[o] = reqs[o]
          /\ DOMAIN reqs'[q] = Fields /\ reqs'[q].pc = "resolve" /\ reqs'[q].seen = seen
          /\ reqs'[q].kind = "hub" /\ reqs'[q].calm = reqs[q].calm
      BY <1>1, <2>2, IInvFacts, WentTo DEF At, seen
    <2>6. Listing(reqs[q].seen)'
      BY <1>1, <2>4, <2>5 DEF Quiet, Listing
    <2>7. DownloadSound(q)'
      BY <2>5, <2>6 DEF DownloadSound
    <2>8. QED
      BY <1>1, <2>5, <2>7, DownloadMoved DEF At
  <1>4. QED
    BY <1>2, <1>3 DEF RepoInfo

\* The commit of a listing leads to a release of it, or one labelled with it.
\* (resolve_release_snapshot, in resolve)
LEMMA ResolveStep ==
  ASSUME IInv, NEW q \in Requests, Resolve(q) PROVE IInv'
  <1> DEFINE s == reqs[q].seen
             r == ResolveReleaseSnapshot(s.commit)
             seen == [s EXCEPT !.version = r.version]
  <1>1. At(q, "hub", "resolve") /\ Quiet
    BY DEF Resolve
  <1>2. Listing(s)
    BY <1>1, IInvFacts DEF At, Sound, DownloadSound
  <1>3. PICK i \in Named(s.commit) : r = releases[i] /\ r \in Rows /\ r # None
    <2>1. Named(s.commit) # {}
      BY <1>2 DEF Listing, Named
    <2>2. QED
      BY <2>1, IInvFacts, ResolveFacts
  <1>4. Goto(q, "load", seen)
    BY <1>3 DEF Resolve
  <1>5. /\ seen = [version |-> seen.version, path |-> seen.path, commit |-> seen.commit,
                   file |-> seen.file]
        /\ seen.version = r.version /\ seen.path = s.path /\ seen.commit = s.commit
        /\ seen.file = s.file
    <2>1. s = [version |-> s.version, path |-> s.path, commit |-> s.commit, file |-> s.file]
      BY <1>2 DEF Listing
    <2> HIDE DEF r, s
    <2>2. QED
      BY <2>1
  <1> HIDE DEF seen
  <1>6. Leads(seen)
    <2>1. Listing(seen)
      BY <1>2, <1>5 DEF Listing
    <2>2. s.commit # "main"
      BY <1>2, TreeAssumption DEF Listing
    <2>3. CASE s.commit = releases[i].commit
      BY <1>3, <1>5, <2>1, <2>3 DEF Leads, HasRow, Named
    <2>4. CASE s.commit = releases[i].version
      BY <1>3, <1>5, <2>1, <2>4 DEF Leads, Labelled, Named
    <2>5. QED
      BY <2>2, <2>3, <2>4 DEF Named
  <1>7. /\ DOMAIN reqs' = Requests /\ \A o \in Requests \ {q} : reqs'[o] = reqs[o]
        /\ DOMAIN reqs'[q] = Fields /\ reqs'[q].pc = "load" /\ reqs'[q].seen = seen
        /\ reqs'[q].kind = "hub" /\ reqs'[q].calm = reqs[q].calm
    BY <1>1, <1>4, IInvFacts, WentTo DEF At
  <1>8. Leads(reqs[q].seen)'
    BY <1>1, <1>6, <1>7 DEF Quiet, Leads, Listing, HasRow, Labelled
  <1>9. DownloadSound(q)'
    BY <1>7, <1>8 DEF DownloadSound
  <1>10. QED
    BY <1>1, <1>7, <1>9, DownloadMoved DEF At

\* What a Hub client's version leads to is the file it was told of.
LEMMA LedToTheFile ==
  ASSUME Tidy, NEW s, Leads(s), ~Labelled(s.commit)
  PROVE  LET r == LoadRelease(s.version) IN
         /\ r # None /\ r.commit = s.commit /\ s.path \in DOMAIN r.manifest
         /\ FileAt(r.commit, s.path) = s.file
  <1>1. PICK i \in DOMAIN releases : releases[i].version = s.version /\ releases[i].commit = s.commit
    BY DEF Leads, HasRow
  <1>2. LoadRelease(s.version) = releases[i]
    BY <1>1, LoadReleaseFacts
  <1>3. releases[i] # None /\ releases[i].manifest = Tree[releases[i].commit]
    BY RowAt, RowsAreRows
  <1>4. QED
    BY <1>1, <1>2, <1>3 DEF Leads, Listing, FileAt

\* A download that is answered with nothing, or headers, or a refusal.
LEMMA LoadReleaseFileStep ==
  ASSUME IInv, NEW q \in Requests, reqs[q].kind \in {"hub", "get_release_file"}, LoadReleaseFile(q)
  PROVE  IInv'
  <1> DEFINE s == reqs[q].seen
             r == LoadRelease(s.version)
             f == FileAt(r.commit, s.path)
             missing == r = None \/ (r # None /\ s.path \notin DOMAIN r.manifest)
  <1>1. reqs[q].pc = "load" /\ Quiet /\ releases' = releases
    BY Zenon DEF LoadReleaseFile, Quiet
  <1>2. reqs[q].kind = "hub" => Leads(s)
    BY <1>1, IInvFacts DEF Sound, DownloadSound
  <1>3. reqs[q].kind = "hub" /\ ~Labelled(s.commit) =>
          ~missing /\ r.commit = s.commit /\ f = s.file
    BY <1>2, IInvFacts, LedToTheFile
  <1>4. CASE missing
    <2> DEFINE a == Served("not_found", s, None, {}, TRUE)
    <2>1. Answer(q, a)
      BY <1>4, Zenon DEF LoadReleaseFile
    <2>2. a.what = "not_found" /\ a.seen = s
      BY DEF Served
    <2> HIDE DEF a
    <2>3. /\ DOMAIN reqs' = Requests /\ \A o \in Requests \ {q} : reqs'[o] = reqs[o]
          /\ DOMAIN reqs'[q] = Fields /\ reqs'[q].pc = "done" /\ reqs'[q].answer = a
          /\ reqs'[q].kind = reqs[q].kind /\ reqs'[q].calm = reqs[q].calm
      BY <2>1, IInvFacts, WasAnswered
    <2>4. DownloadSound(q)'
      <3>1. reqs[q].kind = "hub" => Labelled(reqs[q].answer.seen.commit)'
        BY <1>1, <1>3, <1>4, <2>2, <2>3 DEF Labelled
      <3>2. QED
        BY <2>2, <2>3, <3>1 DEF DownloadSound
    <2>5. QED
      BY <1>1, <2>3, <2>4, DownloadMoved
  <1>5. CASE ~missing
    <2>1. /\ r \in Rows /\ r # None /\ s.path \in DOMAIN r.manifest /\ r.manifest = Tree[r.commit]
          /\ r.commit \in Commits
      BY <1>5, IInvFacts, LoadReleaseFacts, RowsAreRows
    <2>2. f \in File /\ f = Tree[r.commit][s.path] /\ s.path \in DOMAIN Tree[r.commit]
      BY <2>1, TreeAssumption DEF FileAt
    <2>3. f.size \in Nat
      BY <2>2 DEF File
    <2>4. CASE f.conflicted
      <3> DEFINE a == Served("conflicted", s, None, {}, TRUE)
      <3>1. Answer(q, a)
        BY <1>5, <2>4, Zenon DEF LoadReleaseFile
      <3>2. a.what = "conflicted"
        BY DEF Served
      <3> HIDE DEF a
      <3>3. /\ DOMAIN reqs' = Requests /\ \A o \in Requests \ {q} : reqs'[o] = reqs[o]
            /\ DOMAIN reqs'[q] = Fields /\ reqs'[q].pc = "done" /\ reqs'[q].answer = a
            /\ reqs'[q].kind = reqs[q].kind /\ reqs'[q].calm = reqs[q].calm
        BY <3>1, IInvFacts, WasAnswered
      <3>4. DownloadSound(q)'
        BY <3>2, <3>3 DEF DownloadSound
      <3>5. QED
        BY <1>1, <3>3, <3>4, DownloadMoved
    <2>5. CASE ~f.conflicted
      <3>1. PICK range \in Ranges :
              LET sel == ParseByteRange(range, f.size)
                  at == [range |-> range, file |-> f, release |-> r]
              IN IF sel = None THEN Answer(q, Served("bad_range", s, at, {}, TRUE))
                 ELSE Goto(q, "stream", [asked |-> s, at |-> at,
                                         from |-> sel[1], len |-> sel[2] - sel[1] + 1])
        BY <1>5, <2>5, Zenon DEF LoadReleaseFile
      <3> DEFINE sel == ParseByteRange(range, f.size)
                 at == [range |-> range, file |-> f, release |-> r]
      <3>2. at.range = range /\ at.file = f /\ at.release = r
            /\ at = [range |-> at.range, file |-> at.file, release |-> at.release]
        OBVIOUS
      <3> HIDE DEF at
      <3>3. CASE sel = None
        <4> DEFINE a == Served("bad_range", s, at, {}, TRUE)
        <4>1. Answer(q, a)
          BY <3>1, <3>3 DEF at
        <4>2. a.what = "bad_range" /\ a.seen = s /\ a.at = at
          BY DEF Served
        <4> HIDE DEF a
        <4>3. /\ DOMAIN reqs' = Requests /\ \A o \in Requests \ {q} : reqs'[o] = reqs[o]
              /\ DOMAIN reqs'[q] = Fields /\ reqs'[q].pc = "done" /\ reqs'[q].answer = a
              /\ reqs'[q].kind = reqs[q].kind /\ reqs'[q].calm = reqs[q].calm
          BY <4>1, IInvFacts, WasAnswered
        <4>4. Exact(a)
          <5>1. Wanted(range, f.size) = {}
            BY <2>3, <3>3, RefusedSelectNothing
          <5>2. QED
            BY <2>2, <3>2, <4>2, <5>1, Zenon DEF Exact
        <4>5. Exact(reqs'[q].answer)
          BY <4>3, <4>4
        <4>6. DownloadSound(q)'
          BY <4>2, <4>3, <4>5 DEF DownloadSound, Exact
        <4>7. QED
          BY <1>1, <4>3, <4>6, DownloadMoved
      <3>4. CASE sel # None
        <4> DEFINE seen == [asked |-> s, at |-> at, from |-> sel[1], len |-> sel[2] - sel[1] + 1]
        <4>1. Goto(q, "stream", seen)
          BY <3>1, <3>4, Zenon DEF at
        <4>2. /\ seen.asked = s /\ seen.at = at /\ seen.from = sel[1] /\ seen.len = sel[2] - sel[1] + 1
              /\ seen = [asked |-> seen.asked, at |-> seen.at, from |-> seen.from, len |-> seen.len]
          OBVIOUS
        <4> HIDE DEF seen
        <4>3. /\ DOMAIN reqs' = Requests /\ \A o \in Requests \ {q} : reqs'[o] = reqs[o]
              /\ DOMAIN reqs'[q] = Fields /\ reqs'[q].pc = "stream" /\ reqs'[q].seen = seen
              /\ reqs'[q].kind = reqs[q].kind /\ reqs'[q].calm = reqs[q].calm
          BY <4>1, IInvFacts, WentTo
        <4>4. Found(seen)
          BY <2>1, <2>2, <3>2, <3>4, <4>2, Zenon DEF Found
        <4>5. Found(reqs'[q].seen)
          BY <4>3, <4>4
        <4>6. reqs[q].kind = "hub" => \/ seen.at.release.commit = seen.asked.commit
                                         /\ seen.at.file = seen.asked.file
                                      \/ Labelled(seen.asked.commit)
          BY <1>3, <3>2, <4>2
        <4>7. DownloadSound(q)'
          BY <1>1, <4>3, <4>5, <4>6, Zenon DEF DownloadSound, Found, Labelled
        <4>8. QED
          BY <1>1, <4>3, <4>7, DownloadMoved
      <3>5. QED
        BY <3>3, <3>4
    <2>6. QED
      BY <2>4, <2>5
  <1>6. QED
    BY <1>4, <1>5

\* What a body is made of: a file, and positions in it. (serve_release_file)
LEMMA FoundFacts ==
  ASSUME NEW s, Found(s)
  PROVE  LET size == s.at.file.size  sel == ParseByteRange(s.at.range, size) IN
         /\ s.at.file \in File /\ size \in Nat /\ s.len \in Int
         /\ sel[1] \in Nat /\ sel[2] \in Int /\ sel[2] < size /\ sel[1] <= sel[2] + 1
         /\ Wanted(s.at.range, size) = sel[1] .. sel[2]
         /\ sel[1] <= sel[2] \/ s.at.range.form = "absent"
         /\ s.from = sel[1] /\ s.len = sel[2] - sel[1] + 1
  <1> DEFINE c == s.at.release.commit
             size == s.at.file.size
             sel == ParseByteRange(s.at.range, size)
  <1>1. c \in Commits
    BY RowsAreRows, Zenon DEF Found
  <1>2. Tree[c] \in [DOMAIN Tree[c] -> File]
    BY <1>1, TreeAssumption
  <1>3. s.at.file \in File
    BY <1>2, Zenon DEF Found
  <1>4. size \in Nat
    BY <1>3 DEF File
  <1>5. s.at.range \in Ranges /\ sel # None /\ s.from = sel[1] /\ s.len = sel[2] - sel[1] + 1
    BY Zenon DEF Found
  <1>6. /\ sel[1] \in Nat /\ sel[2] \in Int /\ sel[2] < size /\ sel[1] <= sel[2] + 1
        /\ Wanted(s.at.range, size) = sel[1] .. sel[2]
        /\ sel[1] <= sel[2] \/ s.at.range.form = "absent"
    BY <1>4, <1>5, SelectedAreWanted
  <1> HIDE DEF sel
  <1>7. s.len \in Int
    BY <1>5, <1>6
  <1>8. QED
    BY <1>3, <1>4, <1>5, <1>6, <1>7 DEF sel

\* A body that ends without an error is what its range asks for. (stream_outcome)
LEMMA WholeIsExact ==
  ASSUME NEW s, Found(s), NEW got \in Int, NEW genuine \in BOOLEAN, NEW a,
         a = Served("whole", s.asked, s.at, {s.from + i : i \in 0 .. (got - 1)}, genuine),
         \/ s.at.file.storage = "git" /\ got = s.len /\ genuine
         \/ StreamOutcome(s.at.file, s.from, s.len, got, genuine)
  PROVE  Exact(a)
  <1> DEFINE range == s.at.range
             size == s.at.file.size
             sel == ParseByteRange(range, size)
             bytes == {s.from + i : i \in 0 .. (got - 1)}
  <1>2. size \in Nat
    BY FoundFacts
  <1>3. /\ sel[1] \in Nat /\ sel[2] \in Int /\ sel[2] < size /\ sel[1] <= sel[2] + 1
        /\ Wanted(range, size) = sel[1] .. sel[2]
        /\ sel[1] <= sel[2] \/ range.form = "absent"
    BY FoundFacts
  <1>4. s.from = sel[1] /\ s.len = sel[2] - sel[1] + 1 /\ got = s.len
    BY FoundFacts DEF StreamOutcome
  <1>5. /\ a.what = "whole" /\ a.seen = s.asked /\ a.at = s.at /\ a.bytes = bytes
        /\ a.genuine = genuine
    BY DEF Served
  <1>6. bytes = sel[1] .. sel[2]
    <2> DEFINE lo == sel[1]
               hi == sel[2]
    <2>1. lo \in Nat /\ hi \in Int /\ got = hi - lo + 1 /\ s.from = lo
      BY <1>3, <1>4
    <2>2. bytes = {lo + i : i \in 0 .. (hi - lo)}
      <3>1. got - 1 = hi - lo
        BY <2>1
      <3>2. bytes = {lo + i : i \in 0 .. (got - 1)}
        BY <2>1
      <3> HIDE DEF lo, hi, bytes
      <3>3. QED
        BY <3>1, <3>2
    <2> HIDE DEF lo, hi, bytes
    <2>3. \A k \in lo .. hi : k - lo \in 0 .. (hi - lo) /\ lo + (k - lo) = k
      BY <2>1
    <2>4. \A i \in 0 .. (hi - lo) : lo + i \in lo .. hi
      BY <2>1
    <2>5. bytes = lo .. hi
      BY <2>2, <2>3, <2>4
    <2>6. QED
      BY <2>5, Zenon DEF lo, hi
  <1>7. a.bytes = Wanted(range, size) /\ (Wanted(range, size) = {} => range.form = "absent")
    <2> DEFINE lo == sel[1]
               hi == sel[2]
    <2>1. lo \in Nat /\ hi \in Int /\ Wanted(range, size) = lo .. hi
          /\ (lo <= hi \/ range.form = "absent")
      BY <1>3
    <2> HIDE DEF lo, hi
    <2>2. lo .. hi = {} => ~(lo <= hi)
      BY <2>1
    <2>3. QED
      BY <1>3, <1>5, <1>6, <2>1, <2>2
  <1>8. bytes = 0 .. (size - 1) /\ bytes # {} => genuine
    <2> SUFFICES ASSUME bytes = 0 .. (size - 1), bytes # {} PROVE genuine
      OBVIOUS
    <2> DEFINE lo == sel[1]
               hi == sel[2]
    <2>1. lo \in Nat /\ hi \in Int /\ lo .. hi = 0 .. (size - 1) /\ lo .. hi # {} /\ size \in Nat
      BY <1>2, <1>3, <1>6
    <2>2. s.from = lo /\ s.len = hi - lo + 1
      BY <1>4, Zenon
    <2> HIDE DEF lo, hi
    <2>3. lo <= hi
      BY <2>1
    <2>4. lo \in 0 .. (size - 1) /\ hi \in 0 .. (size - 1) /\ 0 \in lo .. hi /\ size - 1 \in lo .. hi
      <3>1. lo \in lo .. hi /\ hi \in lo .. hi
        BY <2>1, <2>3
      <3>2. 0 <= size - 1
        BY <2>1, <3>1
      <3>3. 0 \in 0 .. (size - 1) /\ size - 1 \in 0 .. (size - 1)
        BY <2>1, <3>2
      <3>4. QED
        BY <2>1, <3>1, <3>3
    <2>5. lo = 0 /\ hi = size - 1
      BY <2>1, <2>4
    <2>6. s.from = 0 /\ s.len = s.at.file.size
      BY <2>1, <2>2, <2>5
    <2>7. QED
      BY <2>6 DEF StreamOutcome
  <1>9. a.at.file = Tree[a.at.release.commit][a.seen.path]
    BY <1>5, Zenon DEF Found
  <1> HIDE DEF bytes
  <1>10. QED
    BY <1>5, <1>7, <1>8, <1>9, Zenon DEF Exact

LEMMA StreamBodyStep ==
  ASSUME IInv, NEW q \in Requests, reqs[q].kind \in {"hub", "get_release_file"}, StreamBody(q)
  PROVE  IInv'
  <1> DEFINE s == reqs[q].seen
             f == s.at.file
             got == IF f.storage = "arachne" /\ payload = "short" /\ s.len > 0
                    THEN s.len - 1 ELSE s.len
             genuine == f.storage = "git" \/ payload # "corrupt"
             what == IF f.storage = "git" \/ StreamOutcome(f, s.from, s.len, got, genuine)
                     THEN "whole" ELSE "broken"
             a == Served(what, s.asked, s.at, {s.from + i : i \in 0 .. (got - 1)}, genuine)
  <1>1. reqs[q].pc = "stream" /\ Quiet /\ releases' = releases /\ Answer(q, a)
    BY DEF StreamBody, Quiet
  <1>2. /\ Found(s)
        /\ reqs[q].kind = "hub" => \/ s.at.release.commit = s.asked.commit /\ s.at.file = s.asked.file
                                   \/ Labelled(s.asked.commit)
    BY <1>1, IInvFacts, Zenon DEF Sound, DownloadSound
  <1>3. s.len \in Int
    BY <1>2, FoundFacts
  <1>4. a.what = what /\ a.seen = s.asked /\ a.at = s.at
    BY DEF Served
  <1>5. a.what = "whole" => Exact(a)
    <2>1. SUFFICES ASSUME what = "whole" PROVE Exact(a)
      BY <1>4, Zenon
    <2>2. got \in Int /\ genuine \in BOOLEAN
      BY <1>3
    <2>3. \/ f.storage = "git" /\ got = s.len /\ genuine
          \/ StreamOutcome(f, s.from, s.len, got, genuine)
      BY <2>1
    <2>4. a = Served("whole", s.asked, s.at, {s.from + i : i \in 0 .. (got - 1)}, genuine)
      BY <2>1
    <2> HIDE DEF a, got, genuine, what
    <2>5. QED
      BY <1>2, <2>2, <2>3, <2>4, WholeIsExact
  <1>6. what \in {"whole", "broken"}
    OBVIOUS
  <1> HIDE DEF a, what, got, genuine
  <1>7. /\ DOMAIN reqs' = Requests /\ \A o \in Requests \ {q} : reqs'[o] = reqs[o]
        /\ DOMAIN reqs'[q] = Fields /\ reqs'[q].pc = "done" /\ reqs'[q].answer = a
        /\ reqs'[q].kind = reqs[q].kind /\ reqs'[q].calm = reqs[q].calm
    BY <1>1, IInvFacts, WasAnswered
  <1>8. a.what = "whole" => Exact(reqs'[q].answer)
    BY <1>5, <1>7
  <1>9. reqs[q].kind = "hub" /\ a.what = "whole" => Agreeing(a) \/ Labelled(a.seen.commit)
    BY <1>2, <1>4 DEF Agreeing
  <1>10. DownloadSound(q)'
    BY <1>1, <1>4, <1>6, <1>7, <1>8, <1>9 DEF DownloadSound, Exact, Agreeing, Labelled
  <1>11. QED
    BY <1>1, <1>7, <1>10, DownloadMoved

LEMMA AnswerHeadStep ==
  ASSUME IInv, NEW q \in Requests, reqs[q].kind \in {"hub", "get_release_file"}, AnswerHead(q)
  PROVE  IInv'
  <1>1. /\ DOMAIN reqs' = Requests /\ \A o \in Requests \ {q} : reqs'[o] = reqs[o]
        /\ DOMAIN reqs'[q] = Fields /\ reqs'[q].pc = "done" /\ reqs'[q].answer.what = "headers"
        /\ reqs'[q].kind = reqs[q].kind /\ reqs'[q].calm = reqs[q].calm
    BY IInvFacts, WasAnswered DEF AnswerHead
  <1>2. DownloadSound(q)'
    BY <1>1 DEF DownloadSound
  <1>3. QED
    BY <1>1, <1>2, DownloadMoved DEF AnswerHead

LEMMA DownloadSafe ==
  ASSUME IInv, NEW q \in Requests, DownloadSteps(q) PROVE IInv'
  <1>1. reqs[q].pc \in {"load", "stream"} => reqs[q].kind \in {"hub", "get_release_file"}
    BY IInvFacts DEF Sound, AllKinds, MergeSound, PolicySound, CreateSound
  <1>2. CASE LoadReleaseFile(q)
    BY <1>1, <1>2, LoadReleaseFileStep, Zenon DEF LoadReleaseFile
  <1>3. CASE StreamBody(q)
    BY <1>1, <1>3, StreamBodyStep, Zenon DEF StreamBody
  <1>4. CASE AnswerHead(q)
    BY <1>1, <1>4, AnswerHeadStep DEF AnswerHead
  <1>5. QED
    BY <1>2, <1>3, <1>4, StartDownloadStep, RepoInfoStep, ResolveStep DEF DownloadSteps

-----------------------------------------------------------------------------
(* The theorems *)

LEMMA InitSafe == Init => IInv
  <1> SUFFICES ASSUME Init PROVE IInv
    OBVIOUS
  <1>1. \A q \in Requests : reqs[q] = Rest
    BY DEF Init
  <1>2. DOMAIN reqs = Requests
    BY DEF Init
  <1>3. (CHOOSE h \in Heads : TRUE) \in Heads /\ (CHOOSE v \in Versions : TRUE) \in Versions
    BY TreeAssumption
  <1>4. releases \in Seq(Rows) /\ Tidy
    <2>1. CASE releases = <<>>
      BY <2>1 DEF Tidy
    <2>2. CASE releases = <<[version |-> CHOOSE v \in Versions : TRUE, commit |-> Base,
                             manifest |-> Tree[Base]]>>
      <3> DEFINE v0 == CHOOSE v \in Versions : TRUE
                 row == [version |-> v0, commit |-> Base, manifest |-> Tree[Base]]
      <3>1. releases = <<row>>
        BY <2>2
      <3>2. row \in Rows
        <4>1. v0 \in Versions /\ Base \in Commits
          BY <1>3, TreeAssumption
        <4> HIDE DEF v0
        <4>2. QED
          BY <4>1 DEF Rows
      <3> HIDE DEF row
      <3>3. DOMAIN releases = 1 .. 1 /\ releases \in Seq(Rows)
        BY <3>1, <3>2
      <3>4. QED
        BY <3>3 DEF Tidy
    <2>3. QED
      BY <2>1, <2>2 DEF Init
  <1>5. TablesOK
    <2>1. main \in Commits
      BY TreeAssumption DEF Init
    <2>2. policy = None \/ policy \in Policy
      <3>1. [passing |-> TRUE, conflicted |-> TRUE, approvals |-> 1] \in Policy
        BY DEF Policy
      <3>2. QED
        BY <3>1 DEF Init
    <2>3. \A i \in DOMAIN releases : /\ releases[i].version \in Versions
                                   /\ releases[i].commit \in Commits
                                   /\ \A p \in DOMAIN releases[i].manifest :
                                        releases[i].manifest[p] \in File
      BY <1>4, RowAt, RowsAreRows, TreeAssumption
    <2>4. pull \in [head : Heads, open : BOOLEAN, mergeable : BOOLEAN]
      BY <1>3 DEF Init
    <2>5. QED
      BY <2>1, <2>2, <2>3, <2>4, BoundsAssumption DEF Init, TablesOK
  <1>6. \A q \in Requests : Sound(q) /\ ~Holding(q)
    <2> SUFFICES ASSUME NEW q \in Requests PROVE Sound(q) /\ ~Holding(q)
      OBVIOUS
    <2>1. /\ DOMAIN reqs[q] = Fields /\ reqs[q].kind = "none" /\ reqs[q].pc = "idle"
          /\ reqs[q].calm = TRUE
      BY <1>1 DEF Rest, Fields
    <2>2. Shape(q)
      BY <2>1 DEF Shape, AllKinds
    <2>3. MergeSound(q) /\ PolicySound(q) /\ CreateSound(q) /\ DownloadSound(q) /\ ~Holding(q)
      BY <2>1 DEF MergeSound, PolicySound, CreateSound, DownloadSound, Holding
    <2>4. QED
      BY <2>2, <2>3 DEF Sound
  <1>7. TypeOK
    BY <1>1, <1>5 DEF TypeOK, Rest, Steps
  <1>8. QED
    BY <1>2, <1>4, <1>6, <1>7 DEF IInv, CreatedApart, MergesAreDeserved, Init

LEMMA NextSafe == IInv /\ [Next]_vars => IInv'
  <1> SUFFICES ASSUME IInv, [Next]_vars PROVE IInv'
    OBVIOUS
  <1>1. CASE UNCHANGED vars
    <2>1. UNCHANGED <<pull, statuses, reviews, policy, main, releases, payload, reqs,
                      merged, moves, faults>>
      BY <1>1 DEF vars
    <2>2. \A q \in Requests : Kept(q)
      BY <2>1 DEF Kept, Steady
    <2>3. \A q \in Requests : Sound(q)' /\ (Holding(q)' <=> Holding(q)) /\ reqs'[q].asks = reqs[q].asks
      BY <2>1, <2>2, OthersKept DEF IInv, Grown
    <2>4. QED
      BY <2>1, <2>3 DEF IInv, TypeOK, TablesOK, Tidy, CreatedApart, MergesAreDeserved
  <1>2. CASE Next
    <2>1. ASSUME NEW q \in Requests,
                 MergePullSteps(q) \/ PolicySteps(q) \/ ReleaseSteps(q) \/ DownloadSteps(q) \/ Fail(q)
          PROVE  IInv'
      BY <2>1, MergePullSafe, PolicySafe, ReleaseSafe, DownloadSafe, FailStep
    <2>2. QED
      BY <1>2, <2>1, MovesSafe DEF Next
  <1>3. QED
    BY <1>1, <1>2

LEMMA Safety == Spec => []IInv
  BY InitSafe, NextSafe, PTL DEF Spec

\* What an undisturbed merge_pull merges, the policy in force allows by the
\* statuses of the merged head and the latest review of each reviewer, but for
\* warnings and withdrawn approvals, whatever two failing reads hide from it.
THEOREM MergesTheorem == Spec => []MergesAreDeserved
  <1>1. IInv => MergesAreDeserved
    BY DEF IInv
  <1>2. QED
    BY <1>1, Safety, PTL

\* create_release records the whole tree of one commit, under a version of its
\* own that is never given to another, and says so truly.
THEOREM ReleasesTheorem == Spec => []ReleasesAreHonoured
  <1>1. IInv => ReleasesAreHonoured
    <2> SUFFICES ASSUME IInv PROVE ReleasesAreHonoured
      OBVIOUS
    <2>1. ReleasesAreSnapshots
      BY RowAt, RowsAreRows DEF IInv, ReleasesAreSnapshots
    <2>2. CreationsAreHonoured
      <3> SUFFICES ASSUME NEW q \in Requests, reqs[q].kind = "create_release", reqs[q].pc = "done"
                   PROVE  LET a == reqs[q].answer
                              r == LoadRelease(reqs[q].asks.version)
                          IN /\ a.what = "created" =>
                                  /\ r # None /\ r.commit = a.commit
                                  /\ reqs[q].asks.require_ready => Ready(Tree[a.commit])
                                  /\ reqs[q].asks.commit \in {None, a.commit}
                                  /\ \A o \in Requests \ {q} :
                                       reqs[o].kind = "create_release" /\ reqs[o].pc = "done"
                                         /\ reqs[o].answer.what = "created"
                                         => reqs[o].asks.version # reqs[q].asks.version
                             /\ a.what = "exists" => r # None
        BY DEF CreationsAreHonoured
      <3> DEFINE a == reqs[q].answer
                 v == reqs[q].asks.version
      <3>1. CreateSound(q) /\ Tidy
        BY IInvFacts DEF Sound
      <3>2. CASE a.what = "created"
        <4>1. PICK i \in DOMAIN releases : releases[i].version = v /\ releases[i].commit = a.commit
          BY <3>1, <3>2 DEF CreateSound, HasRow
        <4>2. LoadRelease(v) = releases[i] /\ releases[i] # None
          BY <3>1, <4>1, LoadReleaseFacts, RowAt, RowsAreRows
        <4>3. /\ reqs[q].asks.require_ready => Ready(Tree[a.commit])
              /\ reqs[q].asks.commit \in {None, a.commit}
          BY <3>1, <3>2 DEF CreateSound
        <4>4. \A o \in Requests \ {q} :
                reqs[o].kind = "create_release" /\ reqs[o].pc = "done"
                  /\ reqs[o].answer.what = "created" => reqs[o].asks.version # v
          BY <3>2 DEF IInv, CreatedApart, Holding
        <4>5. QED
          BY <3>2, <4>1, <4>2, <4>3, <4>4
      <3>3. CASE a.what = "exists"
        <4>1. Labelled(v)
          BY <3>1, <3>3 DEF CreateSound
        <4>2. LoadRelease(v) # None
          BY <3>1, <4>1, LoadReleaseFacts
        <4>3. QED
          BY <3>3, <4>2
      <3>4. QED
        BY <3>2, <3>3
    <2>3. QED
      BY <2>1, <2>2 DEF IInv, ReleasesAreHonoured
  <1>2. QED
    BY <1>1, Safety, PTL

\* A body that serve_release_file ends without an error is the bytes asked for of
\* the file in the release's commit, for every range, size and state of the store.
THEOREM DownloadsTheorem == Spec => []DownloadsAreExact
  <1>1. IInv => DownloadsAreExact
    <2> SUFFICES ASSUME IInv, NEW q \in Requests, reqs[q].pc = "done",
                        reqs[q].answer.what \in {"whole", "bad_range"}
                 PROVE  Exact(reqs[q].answer)
      BY DEF DownloadsAreExact
    <2>1. reqs[q].kind \in {"hub", "get_release_file"}
      BY IInvFacts DEF Sound, AllKinds, MergeSound, PolicySound, CreateSound
    <2>2. QED
      BY <2>1, IInvFacts DEF Sound, DownloadSound
  <1>2. QED
    BY <1>1, Safety, PTL

\* A file that a Hub client was told of is found by its commit, and is that file,
\* unless a release has the commit's id for its version.
THEOREM SessionsTheorem == Spec => []HubSessionsAgree
  <1>1. IInv => HubSessionsAgree
    BY IInvFacts DEF HubSessionsAgree, Sound, DownloadSound
  <1>2. QED
    BY <1>1, Safety, PTL
=============================================================================
