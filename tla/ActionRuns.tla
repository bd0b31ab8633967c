----------------------------- MODULE ActionRuns -----------------------------
(***************************************************************************)
(* Durable Action runs: the action_runs table and the tasks that drive it. *)
(*                                                                         *)
(* Every gateway replica spawns tasks (ci::run_existing) for the runs it   *)
(* creates and, from a polling loop, for every queued run and every        *)
(* running run whose lease is over. A task claims its run under a fresh    *)
(* worker id, renews the lease from a heartbeat task of its own, posts     *)
(* "pending" to Forgejo, executes the check in a sandbox, records the      *)
(* result if it still holds the run, and posts the final commit status.    *)
(* A replica may stop at any await point; its tasks stop with it.          *)
(*                                                                         *)
(* Worker ids. Claiming draws a new uuid; the model names it after the     *)
(* task slot, and a slot is used again only once no row holds its name,    *)
(* so that a reused name is as good as a new one.                          *)
(*                                                                         *)
(* Time. A lease is null, live or expired. It expires by itself when its   *)
(* holder is silent (LeaseExpires); a lease that runs out although the     *)
(* holder is well, because it or the database stalled, is a fault          *)
(* (LeaseLapses). Faults are counted against MaxFaults.                    *)
(*                                                                         *)
(* No outbound call has a deadline: the Forgejo client and the gRPC        *)
(* channels are built without one. A call that is never answered keeps its *)
(* task at that await for good (Hang), while the heartbeat goes on.        *)
(***************************************************************************)
EXTENDS Naturals

CONSTANTS Runs,       \* ids from the run sequence
          Commits,    \* commit shas
          Gateways,   \* gateway replicas sharing the database
          Tasks,      \* slots for spawned run_existing tasks
          None,       \* a null column, an unset local
          MaxFaults   \* bound on faults in a behaviour

ASSUME NoneAssumption == None \notin Tasks \cup Runs \cup Gateways
ASSUME MaxFaultsAssumption == MaxFaults \in Nat
ASSUME GatewaysAssumption == Gateways # {}
ASSUME CommitsAssumption == Commits # {}

VARIABLES runs,       \* table action_runs
          logs,       \* table action_logs: the attempt whose log is kept, 0 = ''
          notified,   \* action_failed notifications sent for the run
          tasks,      \* the spawned tasks, with their heartbeats
          forgejo,    \* the latest clotho-ci commit status of each commit
          faults      \* faults so far

vars == <<runs, logs, notified, tasks, forgejo, faults>>

-----------------------------------------------------------------------------
(* Types *)

Conclusion == {"success", "failure", "error"}
RunStatus == {"absent", "queued", "running"} \cup Conclusion

\* A row of action_runs. The columns status and conclusion move together (the
\* conclusion is '' until the status is terminal), so one field stands for
\* both. "recorded" is a history of which attempt's result the row carries.
Row == [status : RunStatus, commit : Commits, lockedBy : Tasks \cup {None},
        lease : {"null", "live", "expired"}, attempt : Nat, recorded : Nat]

Label == {"ended", "hung", "dispatched", "pending", "executing", "finishing",
          "logging", "notifying", "reporting"}

\* pc: what the task does next; "hung" is a task that waits for an answer that
\* will never come. beat: its heartbeat task; "draining" is a
\* heartbeat told to stop while its last renewal is still under way.
Task == [pc : Label, gateway : Gateways \cup {None}, run : Runs \cup {None}, attempt : Nat,
         result : Conclusion \cup {"none"}, beat : {"off", "on", "draining"}]

Status == [state : {"none", "pending"} \cup Conclusion,
           run : Runs \cup {None}, attempt : Nat]

TypeOK ==
  /\ runs \in [Runs -> Row]
  /\ logs \in [Runs -> Nat]
  /\ notified \in [Runs -> Nat]
  /\ tasks \in [Tasks -> Task]
  /\ forgejo \in [Commits -> Status]
  /\ faults \in 0 .. MaxFaults

-----------------------------------------------------------------------------
(* Helpers *)

Terminal(r) == runs[r].status \in Conclusion

NewRow(st, c) ==
  [status |-> st, commit |-> c, lockedBy |-> None, lease |-> "null",
   attempt |-> 0, recorded |-> 0]

\* Mutants: the lease clause forgotten; leases ignored; unfinished misread.
ClaimableOnlyQueued(r) == runs[r].status = "queued"
ClaimableIgnoringLease(r) == runs[r].status \in {"queued", "running"}
ClaimableUnlessSuccess(r) ==
  runs[r].status \notin {"absent", "success"} /\ runs[r].lease # "live"

\* The where clause of claim_run, and of the recovery query.
Claimable(r) ==
  \/ runs[r].status = "queued"
  \/ /\ runs[r].status = "running"
     /\ runs[r].lease \in {"null", "expired"}

\* A slot without a task: nothing runs and no local variable is alive.
Idle == [pc |-> "ended", gateway |-> None, run |-> None, attempt |-> 0,
         result |-> "none", beat |-> "off"]

\* A slot whose name no longer occurs anywhere.
Free(w) ==
  /\ tasks[w] = Idle
  /\ \A r \in Runs : runs[r].lockedBy # w

\* tokio::spawn(ci::run_existing(..)) for run r on replica g.
Spawn(g, r, w) ==
  /\ Free(w)
  /\ tasks' = [tasks EXCEPT ![w] = [Idle EXCEPT !.pc = "dispatched",
                                                !.gateway = g, !.run = r]]

Goto(w, label) == tasks' = [tasks EXCEPT ![w].pc = label]

\* The task returns; a draining heartbeat may outlive it.
Return(w) ==
  tasks' = [tasks EXCEPT ![w] = IF @.beat = "off" THEN Idle
                                ELSE [@ EXCEPT !.pc = "ended"]]

\* The heartbeat task returns. It was the last that could be seen of a task
\* that is over or hangs.
StopBeat(w) ==
  tasks' = [tasks EXCEPT ![w] = IF @.pc \in {"ended", "hung"} THEN Idle
                                ELSE [@ EXCEPT !.beat = "off"]]

Fault == faults < MaxFaults /\ faults' = faults + 1

\* Mutant: the update names only the run id.
HoldsUnfenced(w) == TRUE

\* The fence of update_run_leased and renew_run_lease.
Holds(w) == runs[tasks[w].run].lockedBy = w

\* POST statuses/{sha} for the commit of the task's run.
Post(w, st) ==
  forgejo' = [forgejo EXCEPT ![runs[tasks[w].run].commit] =
                [state |-> st, run |-> tasks[w].run, attempt |-> tasks[w].attempt]]

\* The holder of r will not renew any more and is not about to finish.
HolderSilent(r) ==
  /\ runs[r].lockedBy # None
  /\ tasks[runs[r].lockedBy].beat = "off"
  /\ tasks[runs[r].lockedBy].pc # "finishing"

-----------------------------------------------------------------------------
(* Initial states: an empty table, or one with running rows written before  *)
(* the lease columns existed (migration 1015), whose lease is null.         *)

Init ==
  /\ \E c0 \in Commits :
       runs \in [Runs -> {NewRow("absent", c0)} \cup {NewRow("running", c) : c \in Commits}]
  /\ logs = [r \in Runs |-> 0]
  /\ notified = [r \in Runs |-> 0]
  /\ tasks = [w \in Tasks |-> Idle]
  /\ forgejo = [c \in Commits |-> [state |-> "none", run |-> None, attempt |-> 0]]
  /\ faults = 0

-----------------------------------------------------------------------------
(* Creating and dispatching runs *)

\* create_run inserts the queued row and its empty log in one transaction;
\* the handler, or ci::run after a push, then starts the task. A replica that
\* stops between the two is a Crash right after this step.
CreateRun(g, r, c, w) ==
  /\ runs[r].status = "absent"
  /\ runs' = [runs EXCEPT ![r] = NewRow("queued", c)]
  /\ Spawn(g, r, w)
  /\ UNCHANGED <<logs, notified, forgejo, faults>>

\* recover_action_runs: each poll dispatches every run it finds claimable,
\* also one that another task is already about to claim.
Recover(g, r, w) ==
  /\ Claimable(r)
  /\ Spawn(g, r, w)
  /\ UNCHANGED <<runs, logs, notified, forgejo, faults>>

-----------------------------------------------------------------------------
(* The task: ci::run_existing *)

\* Mutant: the claim does not count the attempt.
TakeRowUncounted(w) ==
  LET r == tasks[w].run IN
  /\ tasks[w].pc = "dispatched"
  /\ Claimable(r)
  /\ runs' = [runs EXCEPT ![r] = [@ EXCEPT !.status = "running", !.lockedBy = w,
                                           !.lease = "live"]]

\* The update of claim_run.
TakeRow(w) ==
  LET r == tasks[w].run IN
  /\ tasks[w].pc = "dispatched"
  /\ Claimable(r)
  /\ runs' = [runs EXCEPT ![r] = [@ EXCEPT !.status = "running", !.lockedBy = w,
                                           !.lease = "live", !.attempt = runs[r].attempt + 1]]

\* claim_run matched the row: the task owns the run and starts its heartbeat.
ClaimRun(w) ==
  /\ TakeRow(w)
  /\ tasks' = [tasks EXCEPT ![w] = [@ EXCEPT !.pc = "pending", !.beat = "on",
                                             !.attempt = runs[tasks[w].run].attempt + 1]]
  /\ UNCHANGED <<logs, notified, forgejo, faults>>

\* The update took effect but its answer was lost: the task returns and the row
\* waits for its lease to run out.
ClaimUnacknowledged(w) ==
  /\ TakeRow(w)
  /\ Fault
  /\ Return(w)
  /\ UNCHANGED <<logs, notified, forgejo>>

\* claim_run matched no row: somebody else has the run. The task returns.
ClaimLost(w) ==
  /\ tasks[w].pc = "dispatched"
  /\ ~Claimable(tasks[w].run)
  /\ Return(w)
  /\ UNCHANGED <<runs, logs, notified, forgejo, faults>>

\* get_run or claim_run failed in the database. The task returns.
ClaimFails(w) ==
  /\ tasks[w].pc = "dispatched"
  /\ Fault
  /\ Return(w)
  /\ UNCHANGED <<runs, logs, notified, forgejo>>

\* The pending status is posted, or the post fails and is only logged.
PostPending(w) ==
  /\ tasks[w].pc = "pending"
  /\ Post(w, "pending")
  /\ Goto(w, "executing")
  /\ UNCHANGED <<runs, logs, notified, faults>>

PostPendingFails(w) ==
  /\ tasks[w].pc = "pending"
  /\ Fault
  /\ Goto(w, "executing")
  /\ UNCHANGED <<runs, logs, notified, forgejo>>

\* execute returns (exit code 0, another exit code, or an error of the export,
\* the large files or the compute call) and the heartbeat is told to stop; a
\* renewal under way still reaches the database.
Execute(w, res) ==
  /\ tasks[w].pc = "executing"
  /\ \E b \in {"off", "draining"} :
       /\ b = "draining" => tasks[w].beat = "on"
       /\ tasks' = [tasks EXCEPT ![w] = [@ EXCEPT !.pc = "finishing",
                                                  !.result = res, !.beat = b]]
  /\ UNCHANGED <<runs, logs, notified, forgejo, faults>>

\* Mutant: locked_by is not cleared with the result.
RecordRowKeepsLock(w) ==
  /\ tasks[w].pc = "finishing"
  /\ Holds(w)
  /\ runs' = [runs EXCEPT ![tasks[w].run] =
                [@ EXCEPT !.status = tasks[w].result, !.recorded = tasks[w].attempt]]

\* Mutant: the conclusion is spelt "failed", as the notifier also accepts.
RecordRowAsFailed(w) ==
  /\ tasks[w].pc = "finishing"
  /\ Holds(w)
  /\ runs' = [runs EXCEPT ![tasks[w].run] =
                [@ EXCEPT !.status = "failed", !.lockedBy = None, !.lease = "null",
                          !.recorded = tasks[w].attempt]]

\* update_run_leased: the result is recorded and the lease is given up.
RecordRow(w) ==
  /\ tasks[w].pc = "finishing"
  /\ Holds(w)
  /\ runs' = [runs EXCEPT ![tasks[w].run] =
                [@ EXCEPT !.status = tasks[w].result, !.lockedBy = None, !.lease = "null",
                          !.recorded = tasks[w].attempt]]

\* finish_run records the result; the log and the notification follow in
\* statements of their own.
FinishRun(w) ==
  /\ RecordRow(w)
  /\ Goto(w, "logging")
  /\ UNCHANGED <<logs, notified, forgejo, faults>>

\* The result is recorded but the answer was lost: finish_run returns early.
FinishUnacknowledged(w) ==
  /\ RecordRow(w)
  /\ Fault
  /\ Goto(w, "reporting")
  /\ UNCHANGED <<logs, notified, forgejo>>

\* Mutant: a stale result is noticed, and its log is written all the same.
FinishStaleButLog(w) ==
  /\ tasks[w].pc = "finishing"
  /\ ~Holds(w)
  /\ Goto(w, "logging")
  /\ UNCHANGED <<runs, logs, notified, forgejo, faults>>

\* "discarded result from stale Action worker": finish_run returns early.
FinishStale(w) ==
  /\ tasks[w].pc = "finishing"
  /\ ~Holds(w)
  /\ Goto(w, "reporting")
  /\ UNCHANGED <<runs, logs, notified, forgejo, faults>>

\* Loading or updating the row failed: the row stays running, under lease.
FinishFails(w) ==
  /\ tasks[w].pc = "finishing"
  /\ Fault
  /\ Goto(w, "reporting")
  /\ UNCHANGED <<runs, logs, notified, forgejo>>

\* Mutant: every conclusion is notified.
AfterLogAlwaysNotify(w) == "notifying"

\* Only the conclusion "failure" is notified.
AfterLog(w) == IF tasks[w].result = "failure" THEN "notifying" ELSE "reporting"

WriteLog(w) ==
  /\ tasks[w].pc = "logging"
  /\ logs' = [logs EXCEPT ![tasks[w].run] = tasks[w].attempt]
  /\ Goto(w, AfterLog(w))
  /\ UNCHANGED <<runs, notified, forgejo, faults>>

WriteLogFails(w) ==
  /\ tasks[w].pc = "logging"
  /\ Fault
  /\ Goto(w, AfterLog(w))
  /\ UNCHANGED <<runs, logs, notified, forgejo>>

Notify(w) ==
  /\ tasks[w].pc = "notifying"
  /\ notified' = [notified EXCEPT ![tasks[w].run] = @ + 1]
  /\ Goto(w, "reporting")
  /\ UNCHANGED <<runs, logs, forgejo, faults>>

NotifyFails(w) ==
  /\ tasks[w].pc = "notifying"
  /\ Fault
  /\ Goto(w, "reporting")
  /\ UNCHANGED <<runs, logs, notified, forgejo>>

\* The final status is posted whatever finish_run did with the result.
PostFinal(w) ==
  /\ tasks[w].pc = "reporting"
  /\ Post(w, tasks[w].result)
  /\ Return(w)
  /\ UNCHANGED <<runs, logs, notified, faults>>

PostFinalFails(w) ==
  /\ tasks[w].pc = "reporting"
  /\ Fault
  /\ Return(w)
  /\ UNCHANGED <<runs, logs, notified, forgejo>>

-----------------------------------------------------------------------------
(* The heartbeat task *)

\* renew_run_lease matched. It asks who holds the run, not whether the lease
\* is over: an expired lease nobody took is revived.
Renew(w) ==
  LET r == tasks[w].run IN
  /\ tasks[w].beat \in {"on", "draining"}
  /\ Holds(w)
  /\ runs[r].status = "running"
  /\ runs' = [runs EXCEPT ![r].lease = "live"]
  /\ IF tasks[w].beat = "on" THEN UNCHANGED tasks ELSE StopBeat(w)
  /\ UNCHANGED <<logs, notified, forgejo, faults>>

\* renew_run_lease matched no row: the heartbeat stops, the task goes on.
RenewLost(w) ==
  /\ tasks[w].beat \in {"on", "draining"}
  /\ ~(Holds(w) /\ runs[tasks[w].run].status = "running")
  /\ StopBeat(w)
  /\ UNCHANGED <<runs, logs, notified, forgejo, faults>>

\* A single failed renewal stops the heartbeat for good.
RenewFails(w) ==
  /\ tasks[w].beat \in {"on", "draining"}
  /\ Fault
  /\ StopBeat(w)
  /\ UNCHANGED <<runs, logs, notified, forgejo>>

-----------------------------------------------------------------------------
(* Time and failures *)

Expire(r) ==
  /\ runs[r].status = "running"
  /\ runs[r].lease = "live"
  /\ runs' = [runs EXCEPT ![r].lease = "expired"]
  /\ UNCHANGED <<logs, notified, tasks, forgejo>>

LeaseExpires(r) == HolderSilent(r) /\ Expire(r) /\ UNCHANGED faults

LeaseLapses(r) == ~HolderSilent(r) /\ Expire(r) /\ Fault

\* The call or statement the task waits for is never answered, and nothing
\* bounds the wait. The task takes no further step; its heartbeat, if it has
\* one, renews the lease of a run nobody works on. (A heartbeat whose own
\* statement hangs is RenewFails.)
Hang(w) ==
  /\ tasks[w].pc \notin {"ended", "hung"}
  /\ Fault
  /\ tasks' = [tasks EXCEPT ![w] = IF @.beat = "off" THEN Idle
                                   ELSE [@ EXCEPT !.pc = "hung"]]
  /\ UNCHANGED <<runs, logs, notified, forgejo>>

\* A replica stops and is started again: its tasks and heartbeats are gone.
Crash(g) ==
  /\ Fault
  /\ \E w \in Tasks : tasks[w].gateway = g
  /\ tasks' = [w \in Tasks |-> IF tasks[w].gateway = g THEN Idle ELSE tasks[w]]
  /\ UNCHANGED <<runs, logs, notified, forgejo>>

-----------------------------------------------------------------------------
(* The specification *)

TaskStep(w) ==
  \/ ClaimRun(w) \/ ClaimLost(w)
  \/ PostPending(w)
  \/ \E res \in Conclusion : Execute(w, res)
  \/ FinishRun(w) \/ FinishStale(w)
  \/ WriteLog(w) \/ Notify(w) \/ PostFinal(w)

TaskFault(w) ==
  \/ ClaimFails(w) \/ ClaimUnacknowledged(w) \/ PostPendingFails(w)
  \/ FinishFails(w) \/ FinishUnacknowledged(w)
  \/ WriteLogFails(w) \/ NotifyFails(w) \/ PostFinalFails(w)
  \/ Hang(w)

Heartbeat(w) == Renew(w) \/ RenewLost(w)

Next ==
  \/ \E g \in Gateways, r \in Runs, w \in Tasks :
       \/ \E c \in Commits : CreateRun(g, r, c, w)
       \/ Recover(g, r, w)
  \/ \E w \in Tasks : TaskStep(w) \/ TaskFault(w) \/ Heartbeat(w) \/ RenewFails(w)
  \/ \E r \in Runs : LeaseExpires(r) \/ LeaseLapses(r)
  \/ \E g \in Gateways : Crash(g)

Spec == Init /\ [][Next]_vars

\* The runtime keeps polling spawned tasks, and a call that does not hang
\* answers or fails: a task takes its next step unless Hang has stopped it for
\* good. A lease nobody renews runs out, and some replica polls for claimable
\* runs every five seconds. Recovery is strongly fair because only the model's
\* slots, never tokio::spawn, can block it.
Fairness ==
  /\ \A w \in Tasks : WF_vars(TaskStep(w)) /\ WF_vars(Heartbeat(w))
  /\ \A r \in Runs : /\ WF_vars(LeaseExpires(r))
                     /\ SF_vars(\E g \in Gateways, w \in Tasks : Recover(g, r, w))

FairSpec == Spec /\ Fairness

-----------------------------------------------------------------------------
(* Safety *)

\* A held row is a running row, held under a lease by the one task that made
\* its newest attempt, or by a slot whose task is gone. (claim_run,
\* update_run_leased)
LockMatchesHolder ==
  \A r \in Runs :
    LET w == runs[r].lockedBy IN
    w # None =>
      /\ runs[r].status = "running"
      /\ runs[r].lease # "null"
      /\ tasks[w].run \in {r, None}
      /\ tasks[w].run = r => tasks[w].attempt = runs[r].attempt

\* A row carries a result exactly when it is terminal, and then it is the
\* result of the newest attempt: a worker that lost its lease never gets its
\* result recorded over, or instead of, its successor's. (finish_run)
ResultIsNewestAttempts ==
  \A r \in Runs :
    IF Terminal(r) THEN runs[r].recorded = runs[r].attempt /\ runs[r].attempt > 0
                   ELSE runs[r].recorded = 0

\* The stored log is empty or the log of the very attempt whose result the run
\* shows, never of a discarded one. (finish_run's separate log upsert)
LogMatchesResult ==
  \A r \in Runs : logs[r] # 0 => Terminal(r) /\ logs[r] = runs[r].recorded

\* The owner is told of a failed run at most once, and never of a run that
\* did not end in failure, however many workers saw it fail. (finish_run)
NotifiedOnceOnFailure ==
  \A r \in Runs :
    /\ notified[r] <= 1
    /\ notified[r] = 1 => runs[r].status = "failure"

\* When nothing fails, racing dispatches of the same run do no harm: once all
\* tasks are over, the commit's status is the conclusion of the run that
\* posted it, and a finished run has its log. (run_existing)
FaultFreeOutcome ==
  faults = 0 /\ (\A w \in Tasks : tasks[w] = Idle) =>
    /\ \A c \in Commits :
         forgejo[c].state # "none" =>
           forgejo[c].state = runs[forgejo[c].run].status
    /\ \A r \in Runs :
         Terminal(r) => /\ logs[r] = runs[r].attempt
                        /\ forgejo[runs[r].commit].state \in Conclusion
                        /\ notified[r] = IF runs[r].status = "failure" THEN 1 ELSE 0

\* A finished run is final: no claim, heartbeat, late result or recovery poll
\* changes its row again. (the where clauses of claim_run, renew_run_lease and
\* update_run_leased)
FinishedIsFinal ==
  [][\A r \in Runs : Terminal(r) => runs'[r] = runs[r]]_vars

\* Action runs implement durable leased jobs: the detailed rows, leases and
\* tasks never do what LeasedJob forbids. (actions.rs as a whole)
Job == INSTANCE LeasedJob WITH
  Job <- Runs,
  Outcome <- Conclusion,
  phase <- [r \in Runs |-> IF Terminal(r) THEN "done" ELSE runs[r].status],
  epoch <- [r \in Runs |-> runs[r].attempt],
  outcome <- [r \in Runs |-> IF Terminal(r)
                              THEN [epoch |-> runs[r].recorded, result |-> runs[r].status]
                              ELSE [epoch |-> 0, result |-> "none"]]

ImplementsLeasedJob == Job!Spec

-----------------------------------------------------------------------------
(* Liveness, under FairSpec *)

\* A hung task still holds the run, and its heartbeat keeps the lease.
HeldByHung(r) ==
  \E w \in Tasks : /\ runs[r].lockedBy = w
                   /\ tasks[w].pc = "hung"
                   /\ tasks[w].beat # "off"

\* Every run that exists reaches a terminal status, across crashes, lost
\* leases and database failures, as long as there are finitely many of them.
\* One thing alone can keep it from that: a call without an answer inside the
\* task that holds the run, whose heartbeat renews the lease all the while; as
\* soon as that task loses the run or dies, the run finishes again.
\* (recover_action_runs, run_existing)
EveryRunFinishes ==
  \A r \in Runs :
    runs[r].status \in {"queued", "running"} ~> (Terminal(r) \/ HeldByHung(r))

=============================================================================
