----------------------------- MODULE HubImports -----------------------------
(***************************************************************************)
(* Hub imports: the table hub_import_jobs and the workers that drive it.   *)
(*                                                                         *)
(* A worker (spawn_job) claims its job under a fresh worker id, renews the *)
(* lease from a heartbeat task, discovers the files of the source, brings  *)
(* them in one by one, commits them, records the commit, submits it to the *)
(* merge queue, logs the activity and finishes the job. Every update of    *)
(* the row is fenced by the worker id; the commit and the submission are   *)
(* not. (The synchronous endpoint does the same work without a row.)       *)
(*                                                                         *)
(* Worker ids are the names of the slots (a slot is used again once no row *)
(* names it). A lease is null, live or expired: it runs out by itself when *)
(* its holder is silent, and otherwise only as a fault (LeaseLapses).      *)
(*                                                                         *)
(* The commit itself fast-forwards main when it extends main (the usual    *)
(* case: no parents are named), and the submission then finds it there; a  *)
(* commit beside main lands with the submission. "landed" counts both.     *)
(*                                                                         *)
(* No call of a worker has a deadline: one that is never answered keeps it *)
(* at that await for good (Hang), while its heartbeat goes on.             *)
(***************************************************************************)
EXTENDS Naturals, FiniteSets

CONSTANTS Jobs,        \* import jobs
          Gateways,    \* gateway replicas
          Workers,     \* slots for spawned workers
          None,        \* null
          MaxFiles,    \* bound on the files of a source
          MaxFaults    \* bound on faults in a behaviour

ASSUME NoneAssumption == None \notin Workers \cup Jobs \cup Gateways
ASSUME BoundsAssumption ==
  MaxFiles \in Nat \ {0} /\ MaxFaults \in Nat

VARIABLES jobs,        \* table hub_import_jobs
          epoch,       \* epoch[j]: how often j was claimed (a history)
          workers,     \* the spawned workers and their heartbeats
          landed,      \* landed[j]: the epochs whose commit main has got
          activity,    \* repo.hub_imported events per job
          faults       \* faults so far

vars == <<jobs, epoch, workers, landed, activity, faults>>

-----------------------------------------------------------------------------
(* Types *)

Outcome == {"succeeded", "failed"}

\* readable: whether the stored request can be deserialised by this release.
\* commit: the epoch whose commit the row names, 0 = ''.
Row == [status : {"absent", "queued", "running"} \cup Outcome, readable : BOOLEAN,
        lockedBy : Workers \cup {None}, lease : {"null", "live", "expired"},
        total : 0 .. MaxFiles, imported : 0 .. MaxFiles, commit : Nat]

Label == {"ended", "hung", "dispatched", "preflight", "importing", "recording", "submitting",
          "logging", "succeeding", "failing"}

\* "hung": the worker waits for an answer that will never come.
\* left: files still to bring in. beat: whether the heartbeat task still runs.
Worker == [pc : Label, gateway : Gateways \cup {None}, job : Jobs \cup {None},
           epoch : Nat, left : 0 .. MaxFiles, total : 0 .. MaxFiles, beat : BOOLEAN]

TypeOK ==
  /\ jobs \in [Jobs -> Row]
  /\ epoch \in [Jobs -> Nat]
  /\ workers \in [Workers -> Worker]
  /\ landed \in [Jobs -> SUBSET Nat]
  /\ activity \in [Jobs -> Nat]
  /\ faults \in 0 .. MaxFaults

-----------------------------------------------------------------------------
(* Helpers *)

Done(j) == jobs[j].status \in Outcome

NewJob(st, readable) ==
  [status |-> st, readable |-> readable, lockedBy |-> None, lease |-> "null",
   total |-> 0, imported |-> 0, commit |-> 0]

Idle == [pc |-> "ended", gateway |-> None, job |-> None, epoch |-> 0,
         left |-> 0, total |-> 0, beat |-> FALSE]

\* Mutants: leases ignored; a running job never taken over.
ClaimableIgnoringLease(j) == jobs[j].status \in {"queued", "running"}
ClaimableOnlyQueued(j) == jobs[j].status = "queued"

\* The where clause of the claim, and of the recovery query.
Claimable(j) ==
  \/ jobs[j].status = "queued"
  \/ jobs[j].status = "running" /\ jobs[j].lease \in {"null", "expired"}

Free(w) == workers[w] = Idle /\ \A j \in Jobs : jobs[j].lockedBy # w

\* spawn_job's tokio::spawn.
Spawn(g, j, w) ==
  /\ Free(w)
  /\ workers' = [workers EXCEPT ![w] = [Idle EXCEPT !.pc = "dispatched",
                                                    !.gateway = g, !.job = j]]

Goto(w, label) == workers' = [workers EXCEPT ![w].pc = label]

Return(w) == workers' = [workers EXCEPT ![w] = Idle]

\* The heartbeat ends; it was the last that could be seen of a hung worker.
StopBeat(w) ==
  workers' = [workers EXCEPT ![w] = IF @.pc = "hung" THEN Idle
                                    ELSE [@ EXCEPT !.beat = FALSE]]

Fault == faults < MaxFaults /\ faults' = faults + 1

\* Mutant: the where clause names only the job.
HoldsUnfenced(w) == TRUE

\* "where id = $1 and locked_by = $n", and require_job_lease.
Holds(w) == jobs[workers[w].job].lockedBy = w

-----------------------------------------------------------------------------
(* Initial states: rows of an earlier release have no lease, and perhaps a  *)
(* request this one cannot read.                                            *)

Init ==
  /\ jobs \in [Jobs -> {NewJob("absent", TRUE), NewJob("running", TRUE),
                        NewJob("running", FALSE), NewJob("queued", FALSE)}]
  /\ epoch = [j \in Jobs |-> 0]
  /\ workers = [w \in Workers |-> Idle]
  /\ landed = [j \in Jobs |-> {}]
  /\ activity = [j \in Jobs |-> 0]
  /\ faults = 0

-----------------------------------------------------------------------------
(* Creating and finding jobs *)

\* create_hub_import_job inserts the row, then starts the worker.
CreateJob(g, j, w) ==
  /\ jobs[j].status = "absent"
  /\ jobs' = [jobs EXCEPT ![j] = NewJob("queued", TRUE)]
  /\ Spawn(g, j, w)
  /\ UNCHANGED <<epoch, landed, activity, faults>>

\* recover_hub_import_jobs dispatches every claimable job it can read ...
Recover(g, j, w) ==
  /\ Claimable(j)
  /\ jobs[j].readable
  /\ Spawn(g, j, w)
  /\ UNCHANGED <<jobs, epoch, landed, activity, faults>>

\* ... and fails the others, leaving lock and lease as they are.
RecoverUnreadable(j) ==
  /\ Claimable(j)
  /\ ~jobs[j].readable
  /\ jobs' = [jobs EXCEPT ![j].status = "failed"]
  /\ UNCHANGED <<epoch, workers, landed, activity, faults>>

-----------------------------------------------------------------------------
(* The worker: spawn_job *)

\* The claiming update: a taken-over job starts its progress again.
TakeRow(w) ==
  LET j == workers[w].job IN
  /\ jobs' = [jobs EXCEPT ![j] = [@ EXCEPT !.status = "running", !.lockedBy = w,
                                           !.lease = "live", !.imported = 0]]
  /\ epoch' = [epoch EXCEPT ![j] = @ + 1]

Claim(w) ==
  /\ workers[w].pc = "dispatched"
  /\ Claimable(workers[w].job)
  /\ TakeRow(w)
  /\ workers' = [workers EXCEPT ![w] = [@ EXCEPT !.pc = "preflight", !.beat = TRUE,
                                                 !.epoch = epoch[workers[w].job] + 1]]
  /\ UNCHANGED <<landed, activity, faults>>

\* The claim matched no row.
ClaimLost(w) ==
  /\ workers[w].pc = "dispatched"
  /\ ~Claimable(workers[w].job)
  /\ Return(w)
  /\ UNCHANGED <<jobs, epoch, landed, activity, faults>>

\* The claim failed in the database, with or without effect.
ClaimFails(w) ==
  /\ workers[w].pc = "dispatched"
  /\ Fault
  /\ Return(w)
  /\ \/ UNCHANGED <<jobs, epoch>>
     \/ /\ Claimable(workers[w].job)
              /\ TakeRow(w)
  /\ UNCHANGED <<landed, activity>>

\* perform_import up to the preflight update: the source is listed, filtered
\* and admitted with n files, whose number the row then shows.
Preflight(w, n) ==
  /\ workers[w].pc = "preflight"
  /\ Holds(w)
  /\ jobs' = [jobs EXCEPT ![workers[w].job].total = n]
  /\ workers' = [workers EXCEPT ![w] = [@ EXCEPT !.pc = "importing", !.left = n, !.total = n]]
  /\ UNCHANGED <<epoch, landed, activity, faults>>

\* One file was downloaded and, if large, stored: its progress update.
ImportFile(w) ==
  /\ workers[w].pc = "importing"
  /\ workers[w].left > 0
  /\ Holds(w)
  /\ jobs' = [jobs EXCEPT ![workers[w].job].imported = @ + 1]
  /\ workers' = [workers EXCEPT ![w].left = @ - 1]
  /\ UNCHANGED <<epoch, landed, activity, faults>>

\* The worker waits for vcs.commit or submit_change, and main gets its commit.
Land(w) ==
  /\ \/ workers[w].pc = "importing" /\ workers[w].left = 0
     \/ workers[w].pc = "submitting"
  /\ landed' = [landed EXCEPT ![workers[w].job] = @ \cup {workers[w].epoch}]

\* The commit of all files, on main or beside it: nobody asks for the lease.
CommitFiles(w) ==
  /\ workers[w].pc = "importing"
  /\ workers[w].left = 0
  /\ Land(w) \/ UNCHANGED landed
  /\ Goto(w, "recording")
  /\ UNCHANGED <<jobs, epoch, activity, faults>>

RecordCommit(w) ==
  /\ workers[w].pc = "recording"
  /\ Holds(w)
  /\ jobs' = [jobs EXCEPT ![workers[w].job].commit = workers[w].epoch]
  /\ Goto(w, "submitting")
  /\ UNCHANGED <<epoch, landed, activity, faults>>

\* A fenced update that matched no row ends the import with an error.
LeaseMoved(w) ==
  /\ \/ workers[w].pc \in {"preflight", "recording"}
     \/ workers[w].pc = "importing" /\ workers[w].left > 0
  /\ ~Holds(w)
  /\ Goto(w, "failing")
  /\ UNCHANGED <<jobs, epoch, landed, activity, faults>>

\* The import fails: limits, missing or blocked files, a provider that refuses,
\* a size that differs, a commit or submission that is turned down.
ImportFails(w) ==
  /\ workers[w].pc \in {"preflight", "importing", "submitting"}
  /\ Goto(w, "failing")
  /\ UNCHANGED <<jobs, epoch, landed, activity, faults>>

\* submit_change lands the commit, whoever holds the job by now.
Submit(w) ==
  /\ workers[w].pc = "submitting"
  /\ Land(w)
  /\ Goto(w, "logging")
  /\ UNCHANGED <<jobs, epoch, activity, faults>>

\* Main has the commit but the answer was lost: the import counts as failed.
LandUnacknowledged(w) ==
  /\ Land(w)
  /\ Fault
  /\ Goto(w, "failing")
  /\ UNCHANGED <<jobs, epoch, activity>>

LogActivity(w) ==
  /\ workers[w].pc = "logging"
  /\ activity' = [activity EXCEPT ![workers[w].job] = @ + 1]
  /\ Goto(w, "succeeding")
  /\ UNCHANGED <<jobs, epoch, landed, faults>>

\* A database call of the import failed; after landing, too, the import fails.
DatabaseFails(w) ==
  /\ workers[w].pc \in {"preflight", "importing", "recording", "logging"}
  /\ Fault
  /\ Goto(w, "failing")
  /\ UNCHANGED <<jobs, epoch, landed, activity>>

\* The terminal update of spawn_job: fenced, lock and lease are given up.
Finish(w) ==
  LET j == workers[w].job IN
  /\ workers[w].pc \in {"succeeding", "failing"}
  /\ Holds(w)
  /\ jobs' = [jobs EXCEPT ![j] =
       IF workers[w].pc = "succeeding"
       THEN [@ EXCEPT !.status = "succeeded", !.imported = workers[w].total,
                      !.commit = workers[w].epoch, !.lockedBy = None, !.lease = "null"]
       ELSE [@ EXCEPT !.status = "failed", !.lockedBy = None, !.lease = "null"]]
  /\ Return(w)
  /\ UNCHANGED <<epoch, landed, activity, faults>>

\* "failed to finalize Hub import job lease": nothing else happens.
FinishStale(w) ==
  /\ workers[w].pc \in {"succeeding", "failing"}
  /\ ~Holds(w)
  /\ Return(w)
  /\ UNCHANGED <<jobs, epoch, landed, activity, faults>>

FinishFails(w) ==
  /\ workers[w].pc \in {"succeeding", "failing"}
  /\ Fault
  /\ Return(w)
  /\ UNCHANGED <<jobs, epoch, landed, activity>>

-----------------------------------------------------------------------------
(* Heartbeats, time and failures *)

\* The heartbeat renews while the worker holds a running job; one refusal or
\* error ends it for good.
Renew(w) ==
  LET j == workers[w].job IN
  /\ workers[w].beat
  /\ IF Holds(w) /\ jobs[j].status = "running"
     THEN jobs' = [jobs EXCEPT ![j].lease = "live"] /\ UNCHANGED workers
     ELSE StopBeat(w) /\ UNCHANGED jobs
  /\ UNCHANGED <<epoch, landed, activity, faults>>

RenewFails(w) ==
  /\ workers[w].beat
  /\ Fault
  /\ StopBeat(w)
  /\ UNCHANGED <<jobs, epoch, landed, activity>>

Expire(j) ==
  /\ jobs[j].status = "running" /\ jobs[j].lease = "live"
  /\ jobs' = [jobs EXCEPT ![j].lease = "expired"]
  /\ UNCHANGED <<epoch, workers, landed, activity>>

HolderSilent(j) == jobs[j].lockedBy # None => ~workers[jobs[j].lockedBy].beat

LeaseExpires(j) == HolderSilent(j) /\ Expire(j) /\ UNCHANGED faults

LeaseLapses(j) == ~HolderSilent(j) /\ Expire(j) /\ Fault

\* The call or statement the worker waits for is never answered; if it was the
\* commit or the submission, main may have got the commit. The worker takes no
\* further step and its heartbeat, unless it was stopped for the terminal
\* update, renews the lease of an import nobody works on.
Hang(w) ==
  /\ workers[w].pc \notin {"ended", "hung"}
  /\ Fault
  /\ workers' = [workers EXCEPT ![w] =
                   IF @.beat /\ @.pc \notin {"succeeding", "failing"}
                   THEN [@ EXCEPT !.pc = "hung"] ELSE Idle]
  /\ Land(w) \/ UNCHANGED landed
  /\ UNCHANGED <<jobs, epoch, activity>>

\* A replica stops, with its workers and heartbeats.
Crash(g) ==
  /\ Fault
  /\ \E w \in Workers : workers[w].gateway = g
  /\ workers' = [w \in Workers |-> IF workers[w].gateway = g THEN Idle ELSE workers[w]]
  /\ UNCHANGED <<jobs, epoch, landed, activity>>

-----------------------------------------------------------------------------
(* The specification *)

WorkerStep(w) ==
  \/ Claim(w) \/ ClaimLost(w)
  \/ \E n \in 1 .. MaxFiles : Preflight(w, n)
  \/ ImportFile(w) \/ CommitFiles(w) \/ RecordCommit(w) \/ LeaseMoved(w)
  \/ ImportFails(w) \/ Submit(w) \/ LogActivity(w) \/ Finish(w) \/ FinishStale(w)

WorkerFault(w) ==
  \/ ClaimFails(w) \/ LandUnacknowledged(w) \/ DatabaseFails(w)
  \/ FinishFails(w) \/ RenewFails(w) \/ Hang(w)

Next ==
  \/ \E g \in Gateways, j \in Jobs, w \in Workers : CreateJob(g, j, w) \/ Recover(g, j, w)
  \/ \E j \in Jobs : RecoverUnreadable(j) \/ LeaseExpires(j) \/ LeaseLapses(j)
  \/ \E w \in Workers : WorkerStep(w) \/ WorkerFault(w) \/ Renew(w)
  \/ \E g \in Gateways : Crash(g)

Spec == Init /\ [][Next]_vars

\* The runtime polls spawned workers, and a call that does not hang answers or
\* fails: a worker takes its next step unless Hang has stopped it for good. A
\* lease nobody renews runs out; some replica polls every five seconds, and only
\* the model's slots, never tokio::spawn, can keep it from dispatching.
Fairness ==
  /\ \A w \in Workers : WF_vars(WorkerStep(w)) /\ WF_vars(Renew(w))
  /\ \A j \in Jobs :
       /\ WF_vars(LeaseExpires(j)) /\ WF_vars(RecoverUnreadable(j))
       /\ SF_vars(\E g \in Gateways, w \in Workers : Recover(g, j, w))

FairSpec == Spec /\ Fairness

-----------------------------------------------------------------------------
(* Safety *)

\* What a running job shows is the progress of the worker that holds it, never
\* more than all files, whatever an earlier worker had done or a stale one still
\* does. (the case expressions of the claim, the fenced progress update)
ProgressIsHolders ==
  \A j \in Jobs :
    /\ jobs[j].imported <= jobs[j].total
    /\ \A w \in Workers :
         jobs[j].lockedBy = w /\ workers[w].pc \in {"importing", "recording", "submitting"} =>
           /\ jobs[j].total = workers[w].total
           /\ jobs[j].imported = workers[w].total - workers[w].left

\* A job that succeeded shows the commit of its newest attempt, that commit has
\* landed, all files are counted, and the activity was logged. (perform_import,
\* the terminal update)
SucceededIsLanded ==
  \A j \in Jobs :
    jobs[j].status = "succeeded" =>
      /\ jobs[j].commit = epoch[j]
      /\ epoch[j] \in landed[j]
      /\ jobs[j].imported = jobs[j].total
      /\ activity[j] >= 1

\* The lease makes the recovery loop "safe across gateway replicas" as far as
\* nothing fails: each repeated landing of one import is the work of a fault.
\* (spawn_job; neither the commit nor the submission is fenced)
LandingsAreCounted ==
  \A j \in Jobs : Cardinality(landed[j]) <= 1 + faults

\* Every import is accounted for: the state is typed, progress and verdict are
\* the holder's and tell the truth, and repeated landings are counted.
\* (spawn_job, perform_import)
ImportsAreAccounted ==
  TypeOK /\ ProgressIsHolders /\ SucceededIsLanded /\ LandingsAreCounted

\* Imports implement durable leased jobs. (hub.rs as a whole)
Job == INSTANCE LeasedJob WITH
  Job <- Jobs,
  Outcome <- Outcome,
  phase <- [j \in Jobs |-> IF Done(j) THEN "done" ELSE jobs[j].status],
  epoch <- epoch,
  outcome <- [j \in Jobs |-> IF Done(j) THEN [epoch |-> epoch[j], result |-> jobs[j].status]
                                        ELSE [epoch |-> 0, result |-> "none"]]

ImplementsLeasedJob == Job!Spec

-----------------------------------------------------------------------------
(* Liveness, under FairSpec *)

\* A hung worker still holds the job, and its heartbeat keeps the lease.
HeldByHung(j) ==
  \E w \in Workers : jobs[j].lockedBy = w /\ workers[w].pc = "hung"

\* Every import ends, across crashes, lost leases and database failures, as
\* long as there are finitely many of them. One thing alone can keep it from
\* that: a call without an answer inside the worker that holds the job, whose
\* heartbeat renews the lease all the while. (recover_hub_import_jobs)
EveryImportEnds ==
  \A j \in Jobs :
    jobs[j].status \in {"queued", "running"} ~> (Done(j) \/ HeldByHung(j))

=============================================================================
