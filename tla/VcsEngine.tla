------------------------------ MODULE VcsEngine ------------------------------
(***************************************************************************)
(* One repository behind clotho-vcs and the merge queue.                   *)
(*                                                                         *)
(* An engine call loads the repository at the head of the operation log    *)
(* (merging diverged heads), imports what moved in the backing git         *)
(* repository, writes its own operation, and only then mirrors main into   *)
(* refs/heads/main. Nothing locks the repository across these steps: calls *)
(* overlap freely, except that the merge queue lets one submission at a    *)
(* time call IntegrateCommit. Overlap = FALSE keeps calls one at a time.   *)
(*                                                                         *)
(* Plain git writers (Forgejo) move refs/heads/main behind the engine's    *)
(* back, by fast-forward. The engine's process may stop between any two    *)
(* steps; the operation log, the commits and the git ref are on disk.      *)
(*                                                                         *)
(* Left out: file conflicts, which never stop a call, and submitting a     *)
(* commit that main has already built on, which leaves the result to a     *)
(* rewrite of jj-lib that the engine's code says nothing about.            *)
(***************************************************************************)
EXTENDS JjRepo

CONSTANTS Callers,     \* engine calls, each made once
          Kinds,       \* the kinds of calls that are made
          Overlap,     \* whether calls overlap
          MaxMishaps,  \* bound on crashes, failed mirrors and cancelled clients
          MaxPushes    \* bound on pushes by plain git writers

ASSUME KindsAssumption ==
  Kinds \subseteq {"commit", "integrate", "checkpoint", "restore", "read"}
ASSUME CallersAssumption == None \notin Callers
ASSUME OverlapAssumption == Overlap \in BOOLEAN
ASSUME BoundsAssumption == MaxMishaps \in Nat /\ MaxPushes \in Nat

VARIABLES commits,   \* the git object store: every commit ever written
          ops,       \* the operation store: every operation ever published
          opHeads,   \* the heads of the operation log
          git,       \* refs/heads/main of the backing git repository
          calls,     \* the engine calls
          turn,      \* the submission that holds the queue's lock of the repo
          pushed,    \* commits written by plain git writers
          acked,     \* changes whose commit was acknowledged
          landed,    \* changes acknowledged as landed since a restore
          mishaps    \* mishaps so far

vcsVars == <<commits, ops, opHeads, git, calls, turn, pushed, acked, landed, mishaps>>

-----------------------------------------------------------------------------
(* Types *)

Commit == DOMAIN commits
Ref == (SUBSET (Commit \cup {None})) \ {{}}
View == [heads : SUBSET Commit, main : Ref, git : Ref]

Operation == [kind : {"init", "merge", "import", "commit", "integrate",
                      "checkpoint", "restore"},
              view : View, anc : SUBSET DOMAIN ops]

\* op: the operation the call works on. target: what it mirrors. client:
\* whether somebody still waits for the answer.
Call == [pc : {"idle", "queued", "called", "loaded", "ready", "mirroring", "done"},
         kind : Kinds \cup {"none"}, arg : Nat \cup {None}, op : Nat,
         target : Commit \cup {None}, client : BOOLEAN]

VcsTypeOK ==
  /\ \A c \in Commit :
       /\ commits[c].change \in 1 .. c
       /\ commits[c].parents \subseteq commits[c].anc \ {c}
       /\ commits[c].edits \subseteq 1 .. Len(commits)
  /\ \A o \in DOMAIN ops : ops[o] \in Operation
  /\ opHeads \in (SUBSET DOMAIN ops) \ {{}}
  /\ git \in Commit \cup {None}
  /\ calls \in [Callers -> Call]
  /\ turn \in Callers \cup {None}
  /\ pushed \subseteq Commit
  /\ landed \subseteq 1 .. Len(commits) /\ acked \subseteq 1 .. Len(commits)
  /\ mishaps \in 0 .. MaxMishaps

-----------------------------------------------------------------------------
(* Helpers *)

Mishap == mishaps < MaxMishaps /\ mishaps' = mishaps + 1

UnderWay(c) == calls[c].pc \in {"called", "loaded", "ready", "mirroring"}

\* The view a call has loaded, and main in it; a conflicted main reads as unborn.
Loaded(c) == ops[calls[c].op].view
Main(c) == AsNormal(Loaded(c).main)

IsAncestor(cs, a, c) == a \in cs[c].anc

\* Mutant: the new operation becomes the only head.
PublishAlone(parents, kind, view) ==
  /\ ops' = Append(ops, [kind |-> kind, view |-> view,
                         anc |-> (UNION {ops[p].anc : p \in parents}) \cup {Len(ops) + 1}])
  /\ opHeads' = {Len(ops) + 1}

\* Transaction::commit: the operation is written and replaces its parents, and
\* only them, among the heads of the operation log.
Publish(parents, kind, view) ==
  /\ ops' = Append(ops, [kind |-> kind, view |-> view,
                         anc |-> (UNION {ops[p].anc : p \in parents}) \cup {Len(ops) + 1}])
  /\ opHeads' = (opHeads \ parents) \cup {Len(ops) + 1}

\* set_local_bookmark_target and record_main_git_ref.
MoveMain(view, c) == [view EXCEPT !.main = {c}, !.git = {c}]

\* The call's answer reaches its client, if there still is one.
Acknowledge(c, change) ==
  /\ acked' = IF calls[c].kind = "commit" /\ calls[c].client THEN acked \cup {change} ELSE acked
  /\ landed' = IF calls[c].kind = "integrate" /\ calls[c].client THEN landed \cup {change} ELSE landed

\* The call is over; a submission gives up its turn.
Return(c) ==
  /\ calls' = [calls EXCEPT ![c].pc = "done"]
  /\ turn' = IF turn = c THEN None ELSE turn

-----------------------------------------------------------------------------
(* Initial states: a repository as init_repo leaves it, or one with a       *)
(* commit on main and a side commit, both built on a first one.             *)

Repo(cs, heads, main) ==
  /\ commits = cs
  /\ ops = <<[kind |-> "init", anc |-> {1},
              view |-> [heads |-> heads, main |-> {main}, git |-> {main}]]>>
  /\ git = main

Forked ==
  LET base == WithCommit(<<>>, {}, 1, {1})
      onMain == WithCommit(base, {1}, 2, {1, 2})
  IN  WithCommit(onMain, {1}, 3, {1, 3})

VcsInit ==
  /\ Repo(<<>>, {}, None) \/ Repo(Forked, {2, 3}, 2)
  /\ opHeads = {1}
  /\ calls = [c \in Callers |-> [pc |-> "idle", kind |-> "none", arg |-> None,
                                 op |-> 0, target |-> None, client |-> TRUE]]
  /\ turn = None
  /\ pushed = {} /\ acked = {} /\ landed = {}
  /\ mishaps = 0

-----------------------------------------------------------------------------
(* The start of a call *)

\* What a client may name: a parent (None: the heads), a commit to land that
\* main has not built on, an operation to restore to.
Args(kind) ==
  CASE kind = "commit" -> Commit \cup {None}
    [] kind = "integrate" -> {c \in Commit : git = None \/ ~ IsAncestor(commits, c, git) \/ c = git}
    [] kind = "restore" -> DOMAIN ops
    [] OTHER -> {None}

Begin(c, kind, arg) ==
  /\ calls[c].pc = "idle"
  /\ Overlap \/ \A d \in Callers : ~UnderWay(d) /\ calls[d].pc # "queued"
  /\ calls' = [calls EXCEPT ![c] = [@ EXCEPT !.pc = IF kind = "integrate" THEN "queued" ELSE "called",
                                             !.kind = kind, !.arg = arg]]
  /\ UNCHANGED <<commits, ops, opHeads, git, turn, pushed, acked, landed, mishaps>>

\* Mutant: the repository's lock is not taken.
TakeTurnUnlocked(c) ==
  /\ calls[c].pc = "queued"
  /\ turn' = c
  /\ calls' = [calls EXCEPT ![c].pc = "called"]
  /\ UNCHANGED <<commits, ops, opHeads, git, pushed, acked, landed, mishaps>>

\* submit_change takes the repository's turn and calls IntegrateCommit.
TakeTurn(c) ==
  /\ calls[c].pc = "queued"
  /\ turn = None
  /\ turn' = c
  /\ calls' = [calls EXCEPT ![c].pc = "called"]
  /\ UNCHANGED <<commits, ops, opHeads, git, pushed, acked, landed, mishaps>>

-----------------------------------------------------------------------------
(* load_repo *)

\* load_at_head, one head.
LoadAtHead(c) ==
  /\ calls[c].pc = "called"
  /\ Cardinality(opHeads) = 1
  /\ calls' = [calls EXCEPT ![c].pc = "loaded", ![c].op = CHOOSE o \in opHeads : TRUE]
  /\ UNCHANGED <<commits, ops, opHeads, git, turn, pushed, acked, landed, mishaps>>

\* A head and what was merged so far, from their closest common ancestor.
MergeIn(acc, o) ==
  LET base == Max(acc.anc \cap ops[o].anc)
      m == MergeViews(acc.cs, acc.view, ops[base].view, ops[o].view)
  IN  [cs |-> m.cs, view |-> m.view, anc |-> acc.anc \cup ops[o].anc]

\* The heads of the operation log, merged in order.
MergedHeads ==
  LET first == Min(opHeads)
      merged[o \in first .. Len(ops)] ==
        IF o = first THEN [cs |-> commits, view |-> ops[o].view, anc |-> ops[o].anc]
        ELSE IF o \in opHeads THEN MergeIn(merged[o - 1], o) ELSE merged[o - 1]
  IN  merged[Len(ops)]

\* load_at_head, diverged heads: merged, recorded as an operation.
LoadMerging(c) ==
  /\ calls[c].pc = "called"
  /\ Cardinality(opHeads) > 1
  /\ commits' = MergedHeads.cs
  /\ Publish(opHeads, "merge", MergedHeads.view)
  /\ calls' = [calls EXCEPT ![c].pc = "loaded", ![c].op = Len(ops) + 1]
  /\ UNCHANGED <<git, turn, pushed, acked, landed, mishaps>>

\* import_refs found refs/heads/main where the view last saw it.
NothingToImport(c) ==
  /\ calls[c].pc = "loaded"
  /\ Loaded(c).git = {git}
  /\ calls' = [calls EXCEPT ![c].pc = "ready"]
  /\ UNCHANGED <<commits, ops, opHeads, git, turn, pushed, acked, landed, mishaps>>

\* import_refs merged the move of refs/heads/main into main.
Import(c) ==
  LET view == Loaded(c) IN
  /\ calls[c].pc = "loaded"
  /\ view.git # {git}
  /\ Publish({calls[c].op}, "import",
             [heads |-> HeadsOf(commits, view.heads \cup ({git} \ {None})),
              main |-> MergeRef(commits, view.main, view.git, {git}),
              git |-> {git}])
  /\ calls' = [calls EXCEPT ![c].pc = "ready", ![c].op = Len(ops) + 1]
  /\ UNCHANGED <<commits, git, turn, pushed, acked, landed, mishaps>>

-----------------------------------------------------------------------------
(* The calls *)

\* get_heads, list_files, get_file, log_commits, diff_commits, query_op_log and
\* export_repo_archive write nothing of their own.
Read(c) ==
  /\ calls[c].pc = "ready" /\ calls[c].kind = "read"
  /\ Return(c)
  /\ UNCHANGED <<commits, ops, opHeads, git, pushed, acked, landed, mishaps>>

CheckpointCall(c) ==
  /\ calls[c].pc = "ready" /\ calls[c].kind = "checkpoint"
  /\ Publish({calls[c].op}, "checkpoint", Loaded(c))
  /\ Return(c)
  /\ UNCHANGED <<commits, git, pushed, acked, landed, mishaps>>

\* The parents of a new commit: the one named, or all the heads.
ParentsFor(c) == IF calls[c].arg = None THEN Loaded(c).heads ELSE {calls[c].arg}

\* Mutant: the tree starts empty.
CommitCallFromScratch(c) ==
  LET n == Len(commits) + 1
      heads == [Loaded(c) EXCEPT !.heads = HeadsOf(commits', @ \cup {n})]
  IN
  /\ calls[c].pc = "ready" /\ calls[c].kind = "commit"
  /\ commits' = WithCommit(commits, ParentsFor(c), n, {n})
  /\ IF Main(c) = None \/ IsAncestor(commits', Main(c), n)
     THEN /\ Publish({calls[c].op}, "commit", MoveMain(heads, n))
          /\ calls' = [calls EXCEPT ![c].pc = "mirroring", ![c].target = n]
          /\ UNCHANGED <<turn, acked, landed>>
     ELSE /\ Publish({calls[c].op}, "commit", heads)
          /\ Acknowledge(c, n)
          /\ Return(c)
  /\ UNCHANGED <<git, pushed, mishaps>>

\* commit: the tree starts from the first parent's, the one whose hash sorts
\* first; main advances when the new commit extends it.
CommitCall(c) ==
  LET n == Len(commits) + 1
      parents == ParentsFor(c)
      heads == [Loaded(c) EXCEPT !.heads = HeadsOf(commits', @ \cup {n})]
  IN
  /\ calls[c].pc = "ready" /\ calls[c].kind = "commit"
  /\ \E tree \in IF parents = {} THEN {{}} ELSE {commits[p].edits : p \in parents} :
       commits' = WithCommit(commits, parents, n, tree \cup {n})
  /\ IF Main(c) = None \/ IsAncestor(commits', Main(c), n)
     THEN /\ Publish({calls[c].op}, "commit", MoveMain(heads, n))
          /\ calls' = [calls EXCEPT ![c].pc = "mirroring", ![c].target = n]
          /\ UNCHANGED <<turn, acked, landed>>
     ELSE /\ Publish({calls[c].op}, "commit", heads)
          /\ Acknowledge(c, n)
          /\ Return(c)
  /\ UNCHANGED <<git, pushed, mishaps>>

\* Mutant: main is moved without asking whether the commit descends from it.
IntegrateUnchecked(c) ==
  LET x == calls[c].arg IN
  /\ calls[c].pc = "ready" /\ calls[c].kind = "integrate"
  /\ Publish({calls[c].op}, "integrate",
             MoveMain([Loaded(c) EXCEPT !.heads = HeadsOf(commits, @ \cup {x})], x))
  /\ calls' = [calls EXCEPT ![c].pc = "mirroring", ![c].target = x]
  /\ UNCHANGED <<commits, git, turn, pushed, acked, landed, mishaps>>

\* integrate_commit, fast-forward: the submitted commit becomes main.
IntegrateFastForward(c) ==
  LET x == calls[c].arg IN
  /\ calls[c].pc = "ready" /\ calls[c].kind = "integrate"
  /\ Main(c) = None \/ IsAncestor(commits, Main(c), x)
  /\ Publish({calls[c].op}, "integrate",
             MoveMain([Loaded(c) EXCEPT !.heads = HeadsOf(commits, @ \cup {x})], x))
  /\ calls' = [calls EXCEPT ![c].pc = "mirroring", ![c].target = x]
  /\ UNCHANGED <<commits, git, turn, pushed, acked, landed, mishaps>>

\* integrate_commit, rebase: the submitted commit is rewritten on top of main,
\* and so are its visible descendants.
IntegrateRebase(c) ==
  LET x == calls[c].arg
      new == Len(commits) + 1
      rebased == RebaseDescendants(Rebase(commits, x, {Main(c)}), Loaded(c), {x}, {new})
      view == [rebased.view EXCEPT !.heads = HeadsOf(rebased.cs, @ \cup {new})]
  IN
  /\ calls[c].pc = "ready" /\ calls[c].kind = "integrate"
  /\ Main(c) # None
  /\ ~IsAncestor(commits, Main(c), x) /\ ~IsAncestor(commits, x, Main(c))
  /\ commits' = rebased.cs
  /\ Publish({calls[c].op}, "integrate", MoveMain(view, new))
  /\ calls' = [calls EXCEPT ![c].pc = "mirroring", ![c].target = new]
  /\ UNCHANGED <<git, turn, pushed, acked, landed, mishaps>>

\* Main has built on the commit since it was submitted: not modelled further.
IntegrateOutOfScope(c) ==
  /\ calls[c].pc = "ready" /\ calls[c].kind = "integrate"
  /\ Main(c) # None /\ Main(c) # calls[c].arg
  /\ IsAncestor(commits, calls[c].arg, Main(c))
  /\ Return(c)
  /\ UNCHANGED <<commits, ops, opHeads, git, pushed, acked, landed, mishaps>>

\* restore_to: the view of an earlier operation, with the git ref that is about
\* to be written; a conflicted main is mirrored as none.
RestoreCall(c) ==
  LET view == ops[calls[c].arg].view
      main == AsNormal(view.main)
  IN
  /\ calls[c].pc = "ready" /\ calls[c].kind = "restore"
  /\ Publish({calls[c].op}, "restore", [view EXCEPT !.git = {main}])
  /\ calls' = [calls EXCEPT ![c].pc = "mirroring", ![c].target = main]
  /\ landed' = {}
  /\ UNCHANGED <<commits, git, turn, pushed, acked, mishaps>>

\* mirror_main_ref writes refs/heads/main whatever it holds, and the call returns.
Mirror(c) ==
  /\ calls[c].pc = "mirroring"
  /\ git' = calls[c].target
  /\ IF calls[c].kind = "restore" THEN UNCHANGED <<acked, landed>>
     ELSE Acknowledge(c, commits[calls[c].target].change)
  /\ Return(c)
  /\ UNCHANGED <<commits, ops, opHeads, pushed, mishaps>>

\* The git write fails: the call reports an error for what it has published.
MirrorFails(c) ==
  /\ calls[c].pc = "mirroring"
  /\ Mishap
  /\ Return(c)
  /\ UNCHANGED <<commits, ops, opHeads, git, pushed, acked, landed>>

-----------------------------------------------------------------------------
(* The environment *)

\* The client of a submission goes away: the queue's handler is dropped and
\* with it the turn, but the engine call runs on in its blocking thread.
CancelSubmission(c) ==
  /\ turn = c
  /\ Mishap
  /\ turn' = None
  /\ calls' = [calls EXCEPT ![c].client = FALSE]
  /\ UNCHANGED <<commits, ops, opHeads, git, pushed, acked, landed>>

\* The engine's process stops; its calls fail and the queue moves on.
Crash ==
  /\ \E c \in Callers : UnderWay(c)
  /\ Mishap
  /\ calls' = [c \in Callers |-> IF UnderWay(c) THEN [calls[c] EXCEPT !.pc = "done"] ELSE calls[c]]
  /\ turn' = None
  /\ UNCHANGED <<commits, ops, opHeads, git, pushed, acked, landed>>

\* A push or a merge in Forgejo puts a commit on top of refs/heads/main.
Push ==
  LET n == Len(commits) + 1
      below == {git} \ {None}
  IN
  /\ Cardinality(pushed) < MaxPushes
  /\ commits' = WithCommit(commits, below, n, MergedEdits(commits, below) \cup {n})
  /\ git' = n
  /\ pushed' = pushed \cup {n}
  /\ UNCHANGED <<ops, opHeads, calls, turn, acked, landed, mishaps>>

-----------------------------------------------------------------------------
(* The specification *)

Step(c) ==
  \/ \E kind \in Kinds : \E arg \in Args(kind) : Begin(c, kind, arg)
  \/ TakeTurn(c)
  \/ LoadAtHead(c) \/ LoadMerging(c)
  \/ NothingToImport(c) \/ Import(c)
  \/ Read(c) \/ CheckpointCall(c) \/ CommitCall(c) \/ RestoreCall(c)
  \/ IntegrateFastForward(c) \/ IntegrateRebase(c) \/ IntegrateOutOfScope(c)
  \/ Mirror(c) \/ MirrorFails(c) \/ CancelSubmission(c)

VcsNext == Push \/ Crash \/ \E c \in Callers : Step(c)

VcsSpec == VcsInit /\ [][VcsNext]_vcsVars

-----------------------------------------------------------------------------
(* Safety *)

Quiet == \A c \in Callers : ~UnderWay(c)

\* "The op log keeps everything": whatever calls overlap, stop or restore,
\* every published operation stays an ancestor of a head of the log, so any
\* state can be restored. (Transaction::commit as used by every engine call)
OpLogComplete == UNION {ops[h].anc : h \in opHeads} = DOMAIN ops

\* A commit that was acknowledged is never lost from sight: unless somebody
\* restores, its change is visible at some head of the operation log, rewritten
\* or not, however calls overlap. (commit, integrate_commit, load_repo)
CommitsStayVisible ==
  (\A o \in DOMAIN ops : ops[o].kind # "restore") =>
    acked \subseteq {commits[c].change :
                       c \in UNION {Visible(commits, ops[h].view) : h \in opHeads}}

\* Between calls, the history of refs/heads/main holds every change that was
\* acknowledged as landed since the last restore, across crashes, failed
\* mirrors and pushes. (integrate_commit, mirror_main_ref, load_repo)
LandedStaysOnMain ==
  Quiet => landed \subseteq IF git = None THEN {} ELSE History(commits, git)

\* The queue is enough among submissions: however they contend for the turn, a
\* change that landed stays in the history of refs/heads/main, whatever is read
\* and pushed meanwhile, as long as nobody commits, restores or fails. Nor may a
\* checkpoint overlap a push: a late one may bring back a main that was left
\* behind long ago, and the merge may move main off its git ref.
\* (submit_change's lock around IntegrateCommit)
QueueKeepsLandings ==
  /\ mishaps = 0
  /\ \A c \in Callers : calls[c].kind \notin {"commit", "restore"}
  /\ pushed = {} \/ \A c \in Callers : calls[c].kind # "checkpoint"
  => LandedStaysOnMain

\* Every operation records for main what it records for the git ref, so that
\* an import that finds nothing moved leaves the engine and plain git with one
\* and the same main. (record_main_git_ref, import_refs, restore_to)
MainMatchesRecord == \A o \in DOMAIN ops : ops[o].view.main = ops[o].view.git

\* Main keeps what landed: the state is typed, every operation agrees with the
\* git ref it records, and between calls plain git's main holds every landed
\* change. (integrate_commit, record_main_git_ref, load_repo)
MainKeepsLandings == VcsTypeOK /\ MainMatchesRecord /\ LandedStaysOnMain

\* "Everything after the await runs alone for this repo": no two submissions
\* are inside IntegrateCommit together, as long as no client gives up and takes
\* the turn with it. (submit_change)
SubmissionsRunAlone ==
  mishaps = 0 =>
    \A c, d \in Callers :
      /\ calls[c].kind = "integrate" /\ UnderWay(c)
      /\ calls[d].kind = "integrate" /\ UnderWay(d)
      => c = d

\* The queue's turn is enough: submissions run alone, and no landing is lost
\* among them. (submit_change)
TurnsAreEnough == SubmissionsRunAlone /\ QueueKeepsLandings

\* No commit is a merge, and none is built on another commit of its change.
Plain(cs) ==
  \A c \in DOMAIN cs : /\ Cardinality(cs[c].parents) <= 1
                       /\ \A a \in cs[c].anc \ {c} : cs[a].change # cs[c].change

\* Main's tree keeps the edits of the changes that landed, whatever is
\* committed, submitted, pushed or restored around them. Two things may lose
\* edits: a commit on top of several heads, which takes the tree of one of them,
\* and a change submitted again on top of itself, whose new commit has none.
\* (commit, integrate_commit)
LandedEditsStay ==
  Quiet /\ Plain(commits)
    => landed \subseteq IF git = None THEN {} ELSE commits[git].edits

=============================================================================
