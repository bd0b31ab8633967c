-------------------------- MODULE HubImportsProofs --------------------------
(***************************************************************************)
(* Theorems about HubImports, for every number of jobs, replicas, workers, *)
(* files and faults.                                                       *)
(*                                                                         *)
(* One inductive invariant, IInv. A row names the worker that holds it and *)
(* nothing is spawned into a slot that a row names, so that whoever passes *)
(* a fenced update runs the row's newest attempt. Landings are not fenced; *)
(* what bounds them is that attempts are (Counted): to take a job over one *)
(* needs a silenced holder or a lapsed lease, and each of these is a fault *)
(* that no other attempt of the job can have used.                         *)
(***************************************************************************)
EXTENDS HubImports, FiniteSetTheorems, TLAPS

\* A worker has a job that can be read; a heartbeat runs from the claim to the
\* worker's end.
WorkersSet ==
  \A w \in Workers :
    /\ workers[w].pc # "ended" =>
         workers[w].job \in Jobs /\ jobs[workers[w].job].readable
    /\ workers[w].pc \in {"ended", "dispatched"} => ~workers[w].beat

\* A named holder is gone, or runs the newest attempt of the row.
RowHolder ==
  \A j \in Jobs : \A w \in Workers :
    jobs[j].lockedBy = w =>
      \/ workers[w].pc = "ended"
      \/ /\ workers[w].job = j
         /\ workers[w].pc # "dispatched"
         /\ workers[w].epoch = epoch[j]

\* Lock and lease come and go together, with running rows that can be read;
\* without them a row that is not finished was never claimed.
RowLeased ==
  \A j \in Jobs :
    /\ jobs[j].lockedBy # None =>
         jobs[j].status = "running" /\ jobs[j].readable /\ jobs[j].lease # "null"
    /\ jobs[j].lockedBy = None => jobs[j].lease = "null"
    /\ jobs[j].lockedBy = None /\ ~Done(j) => epoch[j] = 0
    /\ ~jobs[j].readable => epoch[j] = 0

\* The row shows the progress of the worker that holds it; nothing before its
\* preflight.
RowProgress ==
  \A j \in Jobs :
    /\ jobs[j].imported <= jobs[j].total
    /\ \A w \in Workers : jobs[j].lockedBy = w =>
         /\ workers[w].pc = "preflight" => jobs[j].imported = 0
         /\ workers[w].pc \in {"importing", "recording", "submitting", "logging", "succeeding"}
              => /\ jobs[j].total = workers[w].total
                 /\ jobs[j].imported = workers[w].total - workers[w].left

\* Only files that are left keep a worker from committing; who passed the
\* submission landed its attempt, and who logged it left an entry.
WorkerProgress ==
  \A w \in Workers :
    /\ workers[w].left <= workers[w].total
    /\ workers[w].pc \in {"recording", "submitting", "logging", "succeeding"}
         => workers[w].left = 0
    /\ workers[w].pc \in {"logging", "succeeding"} =>
         workers[w].epoch \in landed[workers[w].job]
    /\ workers[w].pc = "succeeding" => activity[workers[w].job] >= 1

\* Attempts are numbered from 1, and only attempts land.
LandedAttempts ==
  /\ \A j \in Jobs : landed[j] \subseteq 1 .. epoch[j]
  /\ \A w \in Workers : workers[w].pc \notin {"ended", "dispatched"} =>
       workers[w].epoch \in 1 .. epoch[workers[w].job]

\* The next claim of j has its cause: the lease ran out, or nobody renews it.
Abandoned(j) ==
  /\ jobs[j].lockedBy # None
  /\ jobs[j].lease = "expired" \/ ~workers[jobs[j].lockedBy].beat

\* Each attempt after the first is paid for by a fault, and so is the next one
\* of a job that was abandoned.
Counted ==
  \A j \in Jobs : /\ epoch[j] <= 1 + faults
                  /\ Abandoned(j) => epoch[j] <= faults

IInv ==
  /\ TypeOK
  /\ WorkersSet
  /\ RowHolder
  /\ RowLeased
  /\ RowProgress
  /\ WorkerProgress
  /\ LandedAttempts
  /\ Counted
  /\ SucceededIsLanded

-----------------------------------------------------------------------------
(* Typing. One lemma per way of changing the tables. *)

\* A worker that moves to its next await point stays a worker. (spawn_job)
LEMMA GotoType ==
  ASSUME TypeOK, NEW w \in Workers, NEW label \in Label, Goto(w, label)
  PROVE  workers' \in [Workers -> Worker]
  <1>1. [workers[w] EXCEPT !.pc = label] \in Worker
    BY DEF TypeOK, Worker
  <1>2. QED
    BY <1>1 DEF Goto, TypeOK

\* A slot without a worker is well typed. (spawn_job's end)
LEMMA IdleType == Idle \in Worker
  BY BoundsAssumption DEF Idle, Worker, Label

\* A worker that returns leaves a well-typed slot. (spawn_job)
LEMMA ReturnType ==
  ASSUME TypeOK, NEW w \in Workers, Return(w)
  PROVE  workers' \in [Workers -> Worker]
  BY IdleType DEF Return, TypeOK

\* A new worker is well typed. (spawn_job's tokio::spawn)
LEMMA SpawnType ==
  ASSUME TypeOK, NEW g \in Gateways, NEW j \in Jobs, NEW w \in Workers, Spawn(g, j, w)
  PROVE  workers' \in [Workers -> Worker]
  <1>1. [Idle EXCEPT !.pc = "dispatched", !.gateway = g, !.job = j] \in Worker
    BY IdleType DEF Worker, Label
  <1>2. QED
    BY <1>1 DEF Spawn, TypeOK

\* The claiming update writes a well-typed row. (spawn_job)
LEMMA TakeRowType ==
  ASSUME TypeOK, NEW w \in Workers, workers[w].job \in Jobs, TakeRow(w)
  PROVE  jobs' \in [Jobs -> Row] /\ epoch' \in [Jobs -> Nat]
  <1>1. jobs[workers[w].job] \in Row
    BY DEF TypeOK
  <1>2. \A row \in Row : [row EXCEPT !.status = "running", !.lockedBy = w] \in Row
    BY DEF Row
  <1>a. 0 \in 0 .. MaxFiles
    BY BoundsAssumption
  <1>3. \A row \in Row : [row EXCEPT !.lease = "live", !.imported = 0] \in Row
    BY <1>a DEF Row
  <1>4. [jobs[workers[w].job] EXCEPT !.status = "running", !.lockedBy = w,
                                     !.lease = "live", !.imported = 0] \in Row
    BY <1>1, <1>2, <1>3
  <1>5. QED
    BY <1>4 DEF TakeRow, TypeOK

\* A lease that runs out changes no other column. (lease_expires_at)
LEMMA ExpireType ==
  ASSUME TypeOK, NEW j \in Jobs, Expire(j)
  PROVE  jobs' \in [Jobs -> Row]
  <1>1. [jobs[j] EXCEPT !.lease = "expired"] \in Row
    BY DEF TypeOK, Row
  <1>2. QED
    BY <1>1 DEF Expire, TypeOK

\* A heartbeat that ends leaves a well-typed slot. (spawn_job)
LEMMA StopBeatType ==
  ASSUME TypeOK, NEW w \in Workers, StopBeat(w)
  PROVE  workers' \in [Workers -> Worker]
  <1>1. [workers[w] EXCEPT !.beat = FALSE] \in Worker
    BY ZenonT(60) DEF TypeOK, Worker
  <1>2. QED
    BY <1>1, IdleType DEF StopBeat, TypeOK

\* So does a worker that hangs. (spawn_job)
LEMMA HangType ==
  ASSUME TypeOK, NEW w \in Workers, Hang(w)
  PROVE  workers' \in [Workers -> Worker]
  <1>1. [workers[w] EXCEPT !.pc = "hung"] \in Worker
    BY DEF TypeOK, Worker, Label
  <1>2. QED
    BY <1>1, IdleType DEF Hang, TypeOK

\* What lands are numbers of attempts. (vcs.commit, submit_change)
LEMMA LandType ==
  ASSUME TypeOK, NEW w \in Workers, Land(w)
  PROVE  landed' \in [Jobs -> SUBSET Nat]
  <1>1. workers[w].epoch \in Nat
    BY DEF TypeOK, Worker
  <1>2. QED
    BY <1>1 DEF Land, TypeOK

\* The count of faults stays within its bound.
LEMMA FaultType ==
  ASSUME TypeOK, Fault
  PROVE  faults' \in 0 .. MaxFaults
  BY BoundsAssumption DEF TypeOK, Fault

-----------------------------------------------------------------------------
(* The invariant *)

\* The invariant holds of rows an earlier release left, claimed by nobody.
\* (hub_import_jobs)
LEMMA InitIInv == Init => IInv
  <1> SUFFICES ASSUME Init PROVE IInv
    OBVIOUS
  <1> USE NoneAssumption, BoundsAssumption DEF Init, NewJob
  <1>1. TypeOK
    <2>1. \A st \in {"absent", "queued", "running"}, b \in BOOLEAN : NewJob(st, b) \in Row
      BY DEF Row
    <2>2. jobs \in [Jobs -> Row]
      BY <2>1
    <2>3. QED
      BY <2>2, IdleType DEF TypeOK
  <1>2. WorkersSet /\ RowHolder /\ RowLeased
    BY <1>1 DEF WorkersSet, RowHolder, RowLeased, TypeOK, Row, Idle
  <1>3. RowProgress /\ WorkerProgress /\ LandedAttempts
    BY <1>1 DEF RowProgress, WorkerProgress, LandedAttempts, TypeOK, Row, Idle
  <1>4. Counted /\ SucceededIsLanded
    BY <1>1 DEF Counted, Abandoned, SucceededIsLanded, TypeOK, Row
  <1>5. QED
    BY <1>1, <1>2, <1>3, <1>4 DEF IInv

\* Every claim, update, landing, fault and recovery poll keeps the invariant.
\* (spawn_job, perform_import, recover_hub_import_jobs)
LEMMA StepIInv == IInv /\ [Next]_vars => IInv'
  <1> SUFFICES ASSUME IInv, [Next]_vars PROVE IInv'
    OBVIOUS
  <1> USE NoneAssumption, BoundsAssumption DEF IInv
  <1>1. ASSUME NEW g \in Gateways, NEW j \in Jobs, NEW w \in Workers, CreateJob(g, j, w) PROVE IInv'
    <2>1. TypeOK'
      <3>1. workers' \in [Workers -> Worker]
        BY <1>1, SpawnType DEF CreateJob
      <3>2. NewJob("queued", TRUE) \in Row
        BY DEF NewJob, Row
      <3>3. QED
        BY <1>1, <3>1, <3>2 DEF CreateJob, TypeOK
    <2>2. WorkersSet'
      BY <1>1 DEF CreateJob, Spawn, Free, NewJob, TypeOK, Row, Worker, WorkersSet, RowLeased, Idle
    <2>3. RowHolder'
      BY <1>1 DEF CreateJob, Spawn, Free, NewJob, TypeOK, Row, Worker, WorkersSet, RowHolder,
         RowLeased, Idle
    <2>4. RowLeased'
      BY <1>1 DEF CreateJob, Spawn, Free, NewJob, TypeOK, Row, Worker, WorkersSet, RowHolder,
         RowLeased, Done, Outcome
    <2>5. RowProgress'
      BY <1>1 DEF CreateJob, Spawn, Free, NewJob, TypeOK, Row, Worker, WorkersSet, RowHolder,
         RowLeased, RowProgress, WorkerProgress, Idle
    <2>6. WorkerProgress'
      BY <1>1 DEF CreateJob, Spawn, Free, NewJob, TypeOK, Row, Worker, WorkersSet, WorkerProgress,
         Idle
    <2>7. LandedAttempts'
      BY <1>1 DEF CreateJob, Spawn, Free, NewJob, TypeOK, Row, Worker, WorkersSet, LandedAttempts,
         Idle
    <2>8. Counted'
      BY <1>1 DEF CreateJob, Spawn, Free, NewJob, TypeOK, Row, Worker, WorkersSet, RowHolder,
         RowLeased, Counted, Abandoned, Done, Outcome, Idle
    <2>9. SucceededIsLanded'
      BY <1>1 DEF CreateJob, Spawn, Free, NewJob, TypeOK, Row, Worker, WorkersSet, RowHolder,
         RowLeased, RowProgress, WorkerProgress, LandedAttempts, Outcome, Idle, SucceededIsLanded
    <2>10. QED
      BY <2>1, <2>2, <2>3, <2>4, <2>5, <2>6, <2>7, <2>8, <2>9
  <1>2. ASSUME NEW g \in Gateways, NEW j \in Jobs, NEW w \in Workers, Recover(g, j, w) PROVE IInv'
    <2>1. TypeOK'
      <3>1. workers' \in [Workers -> Worker]
        BY <1>2, SpawnType DEF Recover
      <3>2. QED
        BY <1>2, <3>1 DEF Recover, TypeOK
    <2>2. WorkersSet'
      BY <1>2 DEF Recover, Spawn, Free, Claimable, TypeOK, Row, Worker, WorkersSet, RowLeased, Idle
    <2>3. RowHolder'
      BY <1>2 DEF Recover, Spawn, Free, Claimable, TypeOK, Row, Worker, WorkersSet, RowHolder,
         RowLeased, Idle
    <2>4. RowLeased'
      BY <1>2 DEF Recover, Spawn, Free, Claimable, TypeOK, Row, Worker, WorkersSet, RowHolder,
         RowLeased, Done, Outcome
    <2>5. RowProgress'
      BY <1>2 DEF Recover, Spawn, Free, Claimable, TypeOK, Row, Worker, WorkersSet, RowHolder,
         RowLeased, RowProgress, WorkerProgress, Idle
    <2>6. WorkerProgress'
      BY <1>2 DEF Recover, Spawn, Free, Claimable, TypeOK, Row, Worker, WorkersSet,
         WorkerProgress, Idle
    <2>7. LandedAttempts'
      BY <1>2 DEF Recover, Spawn, Free, Claimable, TypeOK, Row, Worker, WorkersSet,
         LandedAttempts, Idle
    <2>8. Counted'
      BY <1>2 DEF Recover, Spawn, Free, Claimable, TypeOK, Row, Worker, WorkersSet, RowHolder,
         RowLeased, Counted, Abandoned, Done, Outcome, Idle
    <2>9. SucceededIsLanded'
      BY <1>2 DEF Recover, Spawn, Free, Claimable, TypeOK, Row, Worker, WorkersSet, RowHolder,
         RowLeased, RowProgress, WorkerProgress, LandedAttempts, Outcome, Idle, SucceededIsLanded
    <2>10. QED
      BY <2>1, <2>2, <2>3, <2>4, <2>5, <2>6, <2>7, <2>8, <2>9
  <1>3. ASSUME NEW j \in Jobs, RecoverUnreadable(j) PROVE IInv'
    <2>1. TypeOK'
      <3>1. [jobs[j] EXCEPT !.status = "failed"] \in Row
        BY DEF TypeOK, Row, Outcome
      <3>2. QED
        BY <1>3, <3>1 DEF RecoverUnreadable, TypeOK
    <2>2. WorkersSet'
      BY <1>3 DEF RecoverUnreadable, Claimable, TypeOK, Row, Worker, WorkersSet, RowLeased, Idle
    <2>3. RowHolder'
      BY <1>3 DEF RecoverUnreadable, Claimable, TypeOK, Row, Worker, WorkersSet, RowHolder,
         RowLeased, Idle
    <2>4. RowLeased'
      BY <1>3 DEF RecoverUnreadable, Claimable, TypeOK, Row, Worker, WorkersSet, RowHolder,
         RowLeased, Done, Outcome
    <2>5. RowProgress'
      BY <1>3 DEF RecoverUnreadable, Claimable, TypeOK, Row, Worker, WorkersSet, RowHolder,
         RowLeased, RowProgress, WorkerProgress, Idle
    <2>6. WorkerProgress'
      BY <1>3 DEF RecoverUnreadable, Claimable, TypeOK, Row, Worker, WorkersSet, WorkerProgress,
         Idle
    <2>7. LandedAttempts'
      BY <1>3 DEF RecoverUnreadable, Claimable, TypeOK, Row, Worker, WorkersSet, LandedAttempts,
         Idle
    <2>8. Counted'
      BY <1>3 DEF RecoverUnreadable, Claimable, TypeOK, Row, Worker, WorkersSet, RowHolder,
         RowLeased, Counted, Abandoned, Done, Outcome, Idle
    <2>9. SucceededIsLanded'
      BY <1>3 DEF RecoverUnreadable, Claimable, TypeOK, Row, Worker, WorkersSet, RowHolder,
         RowLeased, RowProgress, WorkerProgress, LandedAttempts, Outcome, Idle, SucceededIsLanded
    <2>10. QED
      BY <2>1, <2>2, <2>3, <2>4, <2>5, <2>6, <2>7, <2>8, <2>9
  <1>4. ASSUME NEW j \in Jobs, LeaseExpires(j) PROVE IInv'
    <2>1. TypeOK'
      <3>1. jobs' \in [Jobs -> Row]
        BY <1>4, ExpireType DEF LeaseExpires
      <3>2. QED
        BY <1>4, <3>1 DEF LeaseExpires, Expire, TypeOK
    <2>2. WorkersSet'
      BY <1>4 DEF LeaseExpires, HolderSilent, Expire, TypeOK, Row, Worker, WorkersSet, RowLeased,
         Idle
    <2>3. RowHolder'
      BY <1>4 DEF LeaseExpires, HolderSilent, Expire, TypeOK, Row, Worker, WorkersSet, RowHolder,
         RowLeased, Idle
    <2>4. RowLeased'
      BY <1>4 DEF LeaseExpires, HolderSilent, Expire, TypeOK, Row, Worker, WorkersSet, RowHolder,
         RowLeased, Done, Outcome
    <2>5. RowProgress'
      BY <1>4 DEF LeaseExpires, HolderSilent, Expire, TypeOK, Row, Worker, WorkersSet, RowHolder,
         RowLeased, RowProgress, WorkerProgress, Idle
    <2>6. WorkerProgress'
      BY <1>4 DEF LeaseExpires, HolderSilent, Expire, TypeOK, Row, Worker, WorkersSet,
         WorkerProgress, Idle
    <2>7. LandedAttempts'
      BY <1>4 DEF LeaseExpires, HolderSilent, Expire, TypeOK, Row, Worker, WorkersSet,
         LandedAttempts, Idle
    <2>8. Counted'
      BY <1>4 DEF LeaseExpires, HolderSilent, Expire, TypeOK, Row, Worker, WorkersSet, RowHolder,
         RowLeased, Counted, Abandoned, Done, Outcome, Idle
    <2>9. SucceededIsLanded'
      BY <1>4 DEF LeaseExpires, HolderSilent, Expire, TypeOK, Row, Worker, WorkersSet, RowHolder,
         RowLeased, RowProgress, WorkerProgress, LandedAttempts, Outcome, Idle, SucceededIsLanded
    <2>10. QED
      BY <2>1, <2>2, <2>3, <2>4, <2>5, <2>6, <2>7, <2>8, <2>9
  <1>5. ASSUME NEW j \in Jobs, LeaseLapses(j) PROVE IInv'
    <2>1. TypeOK'
      <3>1. jobs' \in [Jobs -> Row]
        BY <1>5, ExpireType DEF LeaseLapses
      <3>2. faults' \in 0 .. MaxFaults
        BY <1>5, FaultType DEF LeaseLapses
      <3>3. QED
        BY <1>5, <3>1, <3>2 DEF LeaseLapses, Expire, TypeOK
    <2>2. WorkersSet'
      BY <1>5 DEF LeaseLapses, HolderSilent, Expire, Fault, TypeOK, Row, Worker, WorkersSet,
         RowLeased, Idle
    <2>3. RowHolder'
      BY <1>5 DEF LeaseLapses, HolderSilent, Expire, Fault, TypeOK, Row, Worker, WorkersSet,
         RowHolder, RowLeased, Idle
    <2>4. RowLeased'
      BY <1>5 DEF LeaseLapses, HolderSilent, Expire, Fault, TypeOK, Row, Worker, WorkersSet,
         RowHolder, RowLeased, Done, Outcome
    <2>5. RowProgress'
      BY <1>5 DEF LeaseLapses, HolderSilent, Expire, Fault, TypeOK, Row, Worker, WorkersSet,
         RowHolder, RowLeased, RowProgress, WorkerProgress, Idle
    <2>6. WorkerProgress'
      BY <1>5 DEF LeaseLapses, HolderSilent, Expire, Fault, TypeOK, Row, Worker, WorkersSet,
         WorkerProgress, Idle
    <2>7. LandedAttempts'
      BY <1>5 DEF LeaseLapses, HolderSilent, Expire, Fault, TypeOK, Row, Worker, WorkersSet,
         LandedAttempts, Idle
    <2>8. Counted'
      BY <1>5 DEF LeaseLapses, HolderSilent, Expire, Fault, TypeOK, Row, Worker, WorkersSet,
         RowHolder, RowLeased, Counted, Abandoned, Done, Outcome, Idle
    <2>9. SucceededIsLanded'
      BY <1>5 DEF LeaseLapses, HolderSilent, Expire, Fault, TypeOK, Row, Worker, WorkersSet,
         RowHolder, RowLeased, RowProgress, WorkerProgress, LandedAttempts, Outcome, Idle,
         SucceededIsLanded
    <2>10. QED
      BY <2>1, <2>2, <2>3, <2>4, <2>5, <2>6, <2>7, <2>8, <2>9
  <1>6. ASSUME NEW w \in Workers, Claim(w) PROVE IInv'
    <2>1. TypeOK'
      <3>1. /\ workers[w].job \in Jobs /\ workers[w] \in Worker
           /\ jobs[workers[w].job] \in Row /\ epoch[workers[w].job] \in Nat
        BY <1>6 DEF Claim, WorkersSet, TypeOK
      <3>2. jobs' \in [Jobs -> Row] /\ epoch' \in [Jobs -> Nat]
        BY <1>6, <3>1, TakeRowType DEF Claim
      <3>3. epoch[workers[w].job] + 1 \in Nat
        BY <3>1
      <3>4. [workers[w] EXCEPT !.pc = "preflight", !.beat = TRUE,
                             !.epoch = epoch[workers[w].job] + 1] \in Worker
        BY <3>1, <3>3 DEF Worker, Label
      <3>5. workers' \in [Workers -> Worker]
        BY <1>6, <3>4 DEF Claim, TypeOK
      <3>6. QED
        BY <1>6, <3>2, <3>5 DEF Claim, TypeOK
    <2>2. WorkersSet'
      BY <1>6 DEF Claim, TakeRow, Claimable, TypeOK, Row, Worker, WorkersSet, RowLeased, Idle
    <2>3. RowHolder'
      BY <1>6 DEF Claim, TakeRow, Claimable, TypeOK, Row, Worker, WorkersSet, RowHolder,
         RowLeased, Idle
    <2>4. RowLeased'
      BY <1>6 DEF Claim, TakeRow, Claimable, TypeOK, Row, Worker, WorkersSet, RowHolder,
         RowLeased, Done, Outcome
    <2>5. RowProgress'
      BY <1>6 DEF Claim, TakeRow, Claimable, TypeOK, Row, Worker, WorkersSet, RowHolder,
         RowLeased, RowProgress, WorkerProgress, Idle
    <2>6. WorkerProgress'
      BY <1>6 DEF Claim, TakeRow, Claimable, TypeOK, Row, Worker, WorkersSet, WorkerProgress, Idle
    <2>7. LandedAttempts'
      BY <1>6 DEF Claim, TakeRow, Claimable, TypeOK, Row, Worker, WorkersSet, LandedAttempts, Idle
    <2>8. Counted'
      BY <1>6 DEF Claim, TakeRow, Claimable, TypeOK, Row, Worker, WorkersSet, RowHolder,
         RowLeased, Counted, Abandoned, Done, Outcome, Idle
    <2>9. SucceededIsLanded'
      BY <1>6 DEF Claim, TakeRow, Claimable, TypeOK, Row, Worker, WorkersSet, RowHolder,
         RowLeased, RowProgress, WorkerProgress, LandedAttempts, Outcome, Idle, SucceededIsLanded
    <2>10. QED
      BY <2>1, <2>2, <2>3, <2>4, <2>5, <2>6, <2>7, <2>8, <2>9
  <1>7. ASSUME NEW w \in Workers, ClaimLost(w) PROVE IInv'
    <2>1. TypeOK'
      <3>1. workers' \in [Workers -> Worker]
        BY <1>7, ReturnType DEF ClaimLost
      <3>2. QED
        BY <1>7, <3>1 DEF ClaimLost, TypeOK
    <2>2. WorkersSet'
      BY <1>7 DEF ClaimLost, Return, TypeOK, Row, Worker, WorkersSet, RowLeased, Idle
    <2>3. RowHolder'
      BY <1>7 DEF ClaimLost, Return, TypeOK, Row, Worker, WorkersSet, RowHolder, RowLeased, Idle
    <2>4. RowLeased'
      BY <1>7 DEF ClaimLost, Return, TypeOK, Row, Worker, WorkersSet, RowHolder, RowLeased, Done,
         Outcome
    <2>5. RowProgress'
      BY <1>7 DEF ClaimLost, Return, TypeOK, Row, Worker, WorkersSet, RowHolder, RowLeased,
         RowProgress, WorkerProgress, Idle
    <2>6. WorkerProgress'
      BY <1>7 DEF ClaimLost, Return, TypeOK, Row, Worker, WorkersSet, WorkerProgress, Idle
    <2>7. LandedAttempts'
      BY <1>7 DEF ClaimLost, Return, TypeOK, Row, Worker, WorkersSet, LandedAttempts, Idle
    <2>8. Counted'
      BY <1>7 DEF ClaimLost, Return, TypeOK, Row, Worker, WorkersSet, RowHolder, RowLeased,
         Counted, Abandoned, Done, Outcome, Idle
    <2>9. SucceededIsLanded'
      BY <1>7 DEF ClaimLost, Return, TypeOK, Row, Worker, WorkersSet, RowHolder, RowLeased,
         RowProgress, WorkerProgress, LandedAttempts, Outcome, Idle, SucceededIsLanded
    <2>10. QED
      BY <2>1, <2>2, <2>3, <2>4, <2>5, <2>6, <2>7, <2>8, <2>9
  <1>8. ASSUME NEW w \in Workers, ClaimFails(w) PROVE IInv'
    <2> workers' \in [Workers -> Worker] /\ workers[w].job \in Jobs
      BY <1>8, ReturnType DEF ClaimFails, WorkersSet
    <2> faults' \in 0 .. MaxFaults
      BY <1>8, FaultType DEF ClaimFails
    <2>1. CASE UNCHANGED <<jobs, epoch>>
      <3>1. TypeOK'
        BY <1>8, <2>1 DEF ClaimFails, TypeOK
      <3>2. WorkersSet'
        BY <1>8, <2>1 DEF ClaimFails, Return, Fault, TypeOK, Row, Worker, WorkersSet, RowLeased,
           Idle
      <3>3. RowHolder'
        BY <1>8, <2>1 DEF ClaimFails, Return, Fault, TypeOK, Row, Worker, WorkersSet, RowHolder,
           RowLeased, Idle
      <3>4. RowLeased'
        BY <1>8, <2>1 DEF ClaimFails, Return, Fault, TypeOK, Row, Worker, WorkersSet, RowHolder,
           RowLeased, Done, Outcome
      <3>5. RowProgress'
        BY <1>8, <2>1 DEF ClaimFails, Return, Fault, TypeOK, Row, Worker, WorkersSet, RowHolder,
           RowLeased, RowProgress, WorkerProgress, Idle
      <3>6. WorkerProgress'
        BY <1>8, <2>1 DEF ClaimFails, Return, Fault, TypeOK, Row, Worker, WorkersSet,
           WorkerProgress, Idle
      <3>7. LandedAttempts'
        BY <1>8, <2>1 DEF ClaimFails, Return, Fault, TypeOK, Row, Worker, WorkersSet,
           LandedAttempts, Idle
      <3>8. Counted'
        BY <1>8, <2>1 DEF ClaimFails, Return, Fault, TypeOK, Row, Worker, WorkersSet, RowHolder,
           RowLeased, Counted, Abandoned, Done, Outcome, Idle
      <3>9. SucceededIsLanded'
        BY <1>8, <2>1 DEF ClaimFails, Return, Fault, TypeOK, Row, Worker, WorkersSet, RowHolder,
           RowLeased, RowProgress, WorkerProgress, LandedAttempts, Outcome, Idle,
           SucceededIsLanded
      <3>10. QED
        BY <3>1, <3>2, <3>3, <3>4, <3>5, <3>6, <3>7, <3>8, <3>9
    <2>2. CASE Claimable(workers[w].job) /\ TakeRow(w)
      <3>1. TypeOK'
        BY <1>8, <2>2, TakeRowType DEF ClaimFails, TypeOK
      <3>2. WorkersSet'
        BY <1>8, <2>2 DEF ClaimFails, TakeRow, Claimable, Return, Fault, TypeOK, Row, Worker,
           WorkersSet, RowLeased, Idle
      <3>3. RowHolder'
        BY <1>8, <2>2 DEF ClaimFails, TakeRow, Claimable, Return, Fault, TypeOK, Row, Worker,
           WorkersSet, RowHolder, RowLeased, Idle
      <3>4. RowLeased'
        BY <1>8, <2>2 DEF ClaimFails, TakeRow, Claimable, Return, Fault, TypeOK, Row, Worker,
           WorkersSet, RowHolder, RowLeased, Done, Outcome
      <3>5. RowProgress'
        BY <1>8, <2>2 DEF ClaimFails, TakeRow, Claimable, Return, Fault, TypeOK, Row, Worker,
           WorkersSet, RowHolder, RowLeased, RowProgress, WorkerProgress, Idle
      <3>6. WorkerProgress'
        BY <1>8, <2>2 DEF ClaimFails, TakeRow, Claimable, Return, Fault, TypeOK, Row, Worker,
           WorkersSet, WorkerProgress, Idle
      <3>7. LandedAttempts'
        BY <1>8, <2>2 DEF ClaimFails, TakeRow, Claimable, Return, Fault, TypeOK, Row, Worker,
           WorkersSet, LandedAttempts, Idle
      <3>8. Counted'
        BY <1>8, <2>2 DEF ClaimFails, TakeRow, Claimable, Return, Fault, TypeOK, Row, Worker,
           WorkersSet, RowHolder, RowLeased, Counted, Abandoned, Done, Outcome, Idle
      <3>9. SucceededIsLanded'
        BY <1>8, <2>2 DEF ClaimFails, TakeRow, Claimable, Return, Fault, TypeOK, Row, Worker,
           WorkersSet, RowHolder, RowLeased, RowProgress, WorkerProgress, LandedAttempts, Outcome,
           Idle, SucceededIsLanded
      <3>10. QED
        BY <3>1, <3>2, <3>3, <3>4, <3>5, <3>6, <3>7, <3>8, <3>9
    <2>3. QED
      BY <1>8, <2>1, <2>2 DEF ClaimFails
  <1>9. ASSUME NEW w \in Workers, NEW n \in 1 .. MaxFiles, Preflight(w, n) PROVE IInv'
    <2>1. TypeOK'
      <3>1. /\ workers[w].job \in Jobs /\ workers[w] \in Worker
           /\ jobs[workers[w].job] \in Row /\ epoch[workers[w].job] \in Nat
        BY <1>9 DEF Preflight, WorkersSet, TypeOK
      <3>2. n \in 0 .. MaxFiles
        OBVIOUS
      <3>3. [jobs[workers[w].job] EXCEPT !.total = n] \in Row
        BY <3>1, <3>2 DEF Row
      <3>4. [workers[w] EXCEPT !.pc = "importing", !.left = n, !.total = n] \in Worker
        BY <3>1, <3>2 DEF Worker, Label
      <3>5. QED
        BY <1>9, <3>1, <3>3, <3>4 DEF Preflight, TypeOK
    <2>2. WorkersSet'
      BY <1>9 DEF Preflight, Holds, TypeOK, Row, Worker, WorkersSet, RowLeased, Idle
    <2>3. RowHolder'
      BY <1>9 DEF Preflight, Holds, TypeOK, Row, Worker, WorkersSet, RowHolder, RowLeased, Idle
    <2>4. RowLeased'
      BY <1>9 DEF Preflight, Holds, TypeOK, Row, Worker, WorkersSet, RowHolder, RowLeased, Done,
         Outcome
    <2>5. RowProgress'
      BY <1>9 DEF Preflight, Holds, TypeOK, Row, Worker, WorkersSet, RowHolder, RowLeased,
         RowProgress, WorkerProgress, Idle
    <2>6. WorkerProgress'
      BY <1>9 DEF Preflight, Holds, TypeOK, Row, Worker, WorkersSet, WorkerProgress, Idle
    <2>7. LandedAttempts'
      BY <1>9 DEF Preflight, Holds, TypeOK, Row, Worker, WorkersSet, LandedAttempts, Idle
    <2>8. Counted'
      BY <1>9 DEF Preflight, Holds, TypeOK, Row, Worker, WorkersSet, RowHolder, RowLeased,
         Counted, Abandoned, Done, Outcome, Idle
    <2>9. SucceededIsLanded'
      BY <1>9 DEF Preflight, Holds, TypeOK, Row, Worker, WorkersSet, RowHolder, RowLeased,
         RowProgress, WorkerProgress, LandedAttempts, Outcome, Idle, SucceededIsLanded
    <2>10. QED
      BY <2>1, <2>2, <2>3, <2>4, <2>5, <2>6, <2>7, <2>8, <2>9
  <1>10. ASSUME NEW w \in Workers, ImportFile(w) PROVE IInv'
    <2>1. TypeOK'
      <3>1. /\ workers[w].job \in Jobs /\ workers[w] \in Worker
           /\ jobs[workers[w].job] \in Row /\ epoch[workers[w].job] \in Nat
        BY <1>10 DEF ImportFile, WorkersSet, TypeOK
      <3>2. /\ jobs[workers[w].job].imported + 1 \in 0 .. MaxFiles
          /\ workers[w].left - 1 \in 0 .. MaxFiles
        BY <1>10, <3>1 DEF ImportFile, Holds, TypeOK, Row, Worker, RowProgress
      <3>3. [jobs[workers[w].job] EXCEPT !.imported = jobs[workers[w].job].imported + 1] \in Row
        BY <3>1, <3>2 DEF Row
      <3>4. [workers[w] EXCEPT !.left = workers[w].left - 1] \in Worker
        BY <3>1, <3>2 DEF Worker
      <3>5. QED
        BY <1>10, <3>1, <3>3, <3>4 DEF ImportFile, TypeOK
    <2>2. WorkersSet'
      BY <1>10 DEF ImportFile, Holds, TypeOK, Row, Worker, WorkersSet, RowLeased, Idle
    <2>3. RowHolder'
      BY <1>10 DEF ImportFile, Holds, TypeOK, Row, Worker, WorkersSet, RowHolder, RowLeased, Idle
    <2>4. RowLeased'
      BY <1>10 DEF ImportFile, Holds, TypeOK, Row, Worker, WorkersSet, RowHolder, RowLeased, Done,
         Outcome
    <2>5. RowProgress'
      BY <1>10 DEF ImportFile, Holds, TypeOK, Row, Worker, WorkersSet, RowHolder, RowLeased,
         RowProgress, WorkerProgress, Idle
    <2>6. WorkerProgress'
      BY <1>10 DEF ImportFile, Holds, TypeOK, Row, Worker, WorkersSet, WorkerProgress, Idle
    <2>7. LandedAttempts'
      BY <1>10 DEF ImportFile, Holds, TypeOK, Row, Worker, WorkersSet, LandedAttempts, Idle
    <2>8. Counted'
      BY <1>10 DEF ImportFile, Holds, TypeOK, Row, Worker, WorkersSet, RowHolder, RowLeased,
         Counted, Abandoned, Done, Outcome, Idle
    <2>9. SucceededIsLanded'
      BY <1>10 DEF ImportFile, Holds, TypeOK, Row, Worker, WorkersSet, RowHolder, RowLeased,
         RowProgress, WorkerProgress, LandedAttempts, Outcome, Idle, SucceededIsLanded
    <2>10. QED
      BY <2>1, <2>2, <2>3, <2>4, <2>5, <2>6, <2>7, <2>8, <2>9
  <1>11. ASSUME NEW w \in Workers, CommitFiles(w) PROVE IInv'
    <2>1. TypeOK'
      <3>1. workers' \in [Workers -> Worker]
        BY <1>11, GotoType DEF CommitFiles, Label
      <3>2. landed' \in [Jobs -> SUBSET Nat]
        BY <1>11, LandType DEF CommitFiles, TypeOK
      <3>3. QED
        BY <1>11, <3>1, <3>2 DEF CommitFiles, TypeOK
    <2>2. WorkersSet'
      BY <1>11 DEF CommitFiles, Land, Goto, TypeOK, Row, Worker, WorkersSet, RowLeased, Idle
    <2>3. RowHolder'
      BY <1>11 DEF CommitFiles, Land, Goto, TypeOK, Row, Worker, WorkersSet, RowHolder, RowLeased, Idle
    <2>4. RowLeased'
      BY <1>11 DEF CommitFiles, Land, Goto, TypeOK, Row, Worker, WorkersSet, RowHolder, RowLeased, Done,
         Outcome
    <2>5. RowProgress'
      BY <1>11 DEF CommitFiles, Land, Goto, TypeOK, Row, Worker, WorkersSet, RowHolder, RowLeased,
         RowProgress, WorkerProgress, Idle
    <2>6. WorkerProgress'
      BY <1>11 DEF CommitFiles, Land, Goto, TypeOK, Row, Worker, WorkersSet, WorkerProgress, Idle
    <2>7. LandedAttempts'
      <3>1. /\ workers[w].job \in Jobs
            /\ Land(w) => workers[w].epoch \in 1 .. epoch[workers[w].job]
        BY <1>11 DEF CommitFiles, Land, WorkersSet, LandedAttempts
      <3>2. \A j \in Jobs : landed'[j] \subseteq 1 .. epoch[j]
        BY <1>11, <3>1 DEF CommitFiles, Land, LandedAttempts, TypeOK
      <3>3. \A v \in Workers : workers'[v].pc \notin {"ended", "dispatched"} =>
              /\ workers[v].pc \notin {"ended", "dispatched"}
              /\ workers'[v].epoch = workers[v].epoch /\ workers'[v].job = workers[v].job
        BY <1>11 DEF CommitFiles, Goto, WorkersSet, TypeOK, Worker
      <3>4. UNCHANGED epoch
        BY <1>11 DEF CommitFiles
      <3>5. QED
        BY <3>2, <3>3, <3>4 DEF LandedAttempts
    <2>8. Counted'
      BY <1>11 DEF CommitFiles, Land, Goto, TypeOK, Row, Worker, WorkersSet, RowHolder, RowLeased,
         Counted, Abandoned, Done, Outcome, Idle
    <2>9. SucceededIsLanded'
      <3>1. \A j \in Jobs : landed[j] \subseteq landed'[j]
        BY <1>11 DEF CommitFiles, Land, TypeOK
      <3>2. UNCHANGED <<jobs, epoch, activity>>
        BY <1>11 DEF CommitFiles
      <3>3. QED
        BY <3>1, <3>2 DEF SucceededIsLanded
    <2>10. QED
      BY <2>1, <2>2, <2>3, <2>4, <2>5, <2>6, <2>7, <2>8, <2>9
  <1>12. ASSUME NEW w \in Workers, RecordCommit(w) PROVE IInv'
    <2>1. TypeOK'
      <3>1. /\ workers[w].job \in Jobs /\ workers[w] \in Worker
           /\ jobs[workers[w].job] \in Row /\ epoch[workers[w].job] \in Nat
        BY <1>12 DEF RecordCommit, WorkersSet, TypeOK
      <3>2. workers' \in [Workers -> Worker]
        BY <1>12, GotoType DEF RecordCommit, Label
      <3>3. [jobs[workers[w].job] EXCEPT !.commit = workers[w].epoch] \in Row
        BY <3>1 DEF Row, Worker
      <3>4. QED
        BY <1>12, <3>1, <3>2, <3>3 DEF RecordCommit, TypeOK
    <2>2. WorkersSet'
      BY <1>12 DEF RecordCommit, Holds, Goto, TypeOK, Row, Worker, WorkersSet, RowLeased, Idle
    <2>3. RowHolder'
      BY <1>12 DEF RecordCommit, Holds, Goto, TypeOK, Row, Worker, WorkersSet, RowHolder,
         RowLeased, Idle
    <2>4. RowLeased'
      BY <1>12 DEF RecordCommit, Holds, Goto, TypeOK, Row, Worker, WorkersSet, RowHolder,
         RowLeased, Done, Outcome
    <2>5. RowProgress'
      BY <1>12 DEF RecordCommit, Holds, Goto, TypeOK, Row, Worker, WorkersSet, RowHolder,
         RowLeased, RowProgress, WorkerProgress, Idle
    <2>6. WorkerProgress'
      BY <1>12 DEF RecordCommit, Holds, Goto, TypeOK, Row, Worker, WorkersSet, WorkerProgress, Idle
    <2>7. LandedAttempts'
      BY <1>12 DEF RecordCommit, Holds, Goto, TypeOK, Row, Worker, WorkersSet, LandedAttempts, Idle
    <2>8. Counted'
      BY <1>12 DEF RecordCommit, Holds, Goto, TypeOK, Row, Worker, WorkersSet, RowHolder,
         RowLeased, Counted, Abandoned, Done, Outcome, Idle
    <2>9. SucceededIsLanded'
      BY <1>12 DEF RecordCommit, Holds, Goto, TypeOK, Row, Worker, WorkersSet, RowHolder,
         RowLeased, RowProgress, WorkerProgress, LandedAttempts, Outcome, Idle, SucceededIsLanded
    <2>10. QED
      BY <2>1, <2>2, <2>3, <2>4, <2>5, <2>6, <2>7, <2>8, <2>9
  <1>13. ASSUME NEW w \in Workers, LeaseMoved(w) PROVE IInv'
    <2>1. TypeOK'
      <3>1. workers' \in [Workers -> Worker]
        BY <1>13, GotoType DEF LeaseMoved, Label
      <3>2. QED
        BY <1>13, <3>1 DEF LeaseMoved, TypeOK
    <2>2. WorkersSet'
      BY <1>13 DEF LeaseMoved, Holds, Goto, TypeOK, Row, Worker, WorkersSet, RowLeased, Idle
    <2>3. RowHolder'
      BY <1>13 DEF LeaseMoved, Holds, Goto, TypeOK, Row, Worker, WorkersSet, RowHolder, RowLeased,
         Idle
    <2>4. RowLeased'
      BY <1>13 DEF LeaseMoved, Holds, Goto, TypeOK, Row, Worker, WorkersSet, RowHolder, RowLeased,
         Done, Outcome
    <2>5. RowProgress'
      BY <1>13 DEF LeaseMoved, Holds, Goto, TypeOK, Row, Worker, WorkersSet, RowHolder, RowLeased,
         RowProgress, WorkerProgress, Idle
    <2>6. WorkerProgress'
      BY <1>13 DEF LeaseMoved, Holds, Goto, TypeOK, Row, Worker, WorkersSet, WorkerProgress, Idle
    <2>7. LandedAttempts'
      BY <1>13 DEF LeaseMoved, Holds, Goto, TypeOK, Row, Worker, WorkersSet, LandedAttempts, Idle
    <2>8. Counted'
      BY <1>13 DEF LeaseMoved, Holds, Goto, TypeOK, Row, Worker, WorkersSet, RowHolder, RowLeased,
         Counted, Abandoned, Done, Outcome, Idle
    <2>9. SucceededIsLanded'
      BY <1>13 DEF LeaseMoved, Holds, Goto, TypeOK, Row, Worker, WorkersSet, RowHolder, RowLeased,
         RowProgress, WorkerProgress, LandedAttempts, Outcome, Idle, SucceededIsLanded
    <2>10. QED
      BY <2>1, <2>2, <2>3, <2>4, <2>5, <2>6, <2>7, <2>8, <2>9
  <1>14. ASSUME NEW w \in Workers, ImportFails(w) PROVE IInv'
    <2>1. TypeOK'
      <3>1. workers' \in [Workers -> Worker]
        BY <1>14, GotoType DEF ImportFails, Label
      <3>2. QED
        BY <1>14, <3>1 DEF ImportFails, TypeOK
    <2>2. WorkersSet'
      BY <1>14 DEF ImportFails, Goto, TypeOK, Row, Worker, WorkersSet, RowLeased, Idle
    <2>3. RowHolder'
      BY <1>14 DEF ImportFails, Goto, TypeOK, Row, Worker, WorkersSet, RowHolder, RowLeased, Idle
    <2>4. RowLeased'
      BY <1>14 DEF ImportFails, Goto, TypeOK, Row, Worker, WorkersSet, RowHolder, RowLeased, Done,
         Outcome
    <2>5. RowProgress'
      BY <1>14 DEF ImportFails, Goto, TypeOK, Row, Worker, WorkersSet, RowHolder, RowLeased,
         RowProgress, WorkerProgress, Idle
    <2>6. WorkerProgress'
      BY <1>14 DEF ImportFails, Goto, TypeOK, Row, Worker, WorkersSet, WorkerProgress, Idle
    <2>7. LandedAttempts'
      BY <1>14 DEF ImportFails, Goto, TypeOK, Row, Worker, WorkersSet, LandedAttempts, Idle
    <2>8. Counted'
      BY <1>14 DEF ImportFails, Goto, TypeOK, Row, Worker, WorkersSet, RowHolder, RowLeased,
         Counted, Abandoned, Done, Outcome, Idle
    <2>9. SucceededIsLanded'
      BY <1>14 DEF ImportFails, Goto, TypeOK, Row, Worker, WorkersSet, RowHolder, RowLeased,
         RowProgress, WorkerProgress, LandedAttempts, Outcome, Idle, SucceededIsLanded
    <2>10. QED
      BY <2>1, <2>2, <2>3, <2>4, <2>5, <2>6, <2>7, <2>8, <2>9
  <1>15. ASSUME NEW w \in Workers, Submit(w) PROVE IInv'
    <2>1. TypeOK'
      <3>1. /\ workers[w].job \in Jobs /\ workers[w] \in Worker
           /\ jobs[workers[w].job] \in Row /\ epoch[workers[w].job] \in Nat
        BY <1>15 DEF Submit, WorkersSet, TypeOK
      <3>2. workers' \in [Workers -> Worker]
        BY <1>15, GotoType DEF Submit, Label
      <3>3. landed' \in [Jobs -> SUBSET Nat]
        BY <1>15, LandType DEF Submit
      <3>4. QED
        BY <1>15, <3>2, <3>3 DEF Submit, TypeOK
    <2>2. WorkersSet'
      BY <1>15 DEF Submit, Land, Goto, TypeOK, Row, Worker, WorkersSet, RowLeased, Idle
    <2>3. RowHolder'
      BY <1>15 DEF Submit, Land, Goto, TypeOK, Row, Worker, WorkersSet, RowHolder, RowLeased, Idle
    <2>4. RowLeased'
      BY <1>15 DEF Submit, Land, Goto, TypeOK, Row, Worker, WorkersSet, RowHolder, RowLeased, Done,
         Outcome
    <2>5. RowProgress'
      BY <1>15 DEF Submit, Land, Goto, TypeOK, Row, Worker, WorkersSet, RowHolder, RowLeased,
         RowProgress, WorkerProgress, Idle
    <2>6. WorkerProgress'
      BY <1>15 DEF Submit, Land, Goto, TypeOK, Row, Worker, WorkersSet, WorkerProgress, Idle
    <2>7. LandedAttempts'
      BY <1>15 DEF Submit, Land, Goto, TypeOK, Row, Worker, WorkersSet, LandedAttempts, Idle
    <2>8. Counted'
      BY <1>15 DEF Submit, Land, Goto, TypeOK, Row, Worker, WorkersSet, RowHolder, RowLeased, Counted,
         Abandoned, Done, Outcome, Idle
    <2>9. SucceededIsLanded'
      BY <1>15 DEF Submit, Land, Goto, TypeOK, Row, Worker, WorkersSet, RowHolder, RowLeased,
         RowProgress, WorkerProgress, LandedAttempts, Outcome, Idle, SucceededIsLanded
    <2>10. QED
      BY <2>1, <2>2, <2>3, <2>4, <2>5, <2>6, <2>7, <2>8, <2>9
  <1>16. ASSUME NEW w \in Workers, LandUnacknowledged(w) PROVE IInv'
    <2>1. TypeOK'
      <3>1. /\ workers[w].job \in Jobs /\ workers[w] \in Worker
           /\ jobs[workers[w].job] \in Row /\ epoch[workers[w].job] \in Nat
        BY <1>16 DEF LandUnacknowledged, Land, WorkersSet, TypeOK
      <3>2. workers' \in [Workers -> Worker]
        BY <1>16, GotoType DEF LandUnacknowledged, Label
      <3>3. landed' \in [Jobs -> SUBSET Nat]
        BY <1>16, LandType DEF LandUnacknowledged
      <3>4. faults' \in 0 .. MaxFaults
        BY <1>16, FaultType DEF LandUnacknowledged
      <3>5. QED
        BY <1>16, <3>2, <3>3, <3>4 DEF LandUnacknowledged, TypeOK
    <2>2. WorkersSet'
      BY <1>16 DEF LandUnacknowledged, Land, Goto, Fault, TypeOK, Row, Worker, WorkersSet, RowLeased,
         Idle
    <2>3. RowHolder'
      BY <1>16 DEF LandUnacknowledged, Land, Goto, Fault, TypeOK, Row, Worker, WorkersSet, RowHolder,
         RowLeased, Idle
    <2>4. RowLeased'
      BY <1>16 DEF LandUnacknowledged, Land, Goto, Fault, TypeOK, Row, Worker, WorkersSet, RowHolder,
         RowLeased, Done, Outcome
    <2>5. RowProgress'
      BY <1>16 DEF LandUnacknowledged, Land, Goto, Fault, TypeOK, Row, Worker, WorkersSet, RowHolder,
         RowLeased, RowProgress, WorkerProgress, Idle
    <2>6. WorkerProgress'
      BY <1>16 DEF LandUnacknowledged, Land, Goto, Fault, TypeOK, Row, Worker, WorkersSet,
         WorkerProgress, Idle
    <2>7. LandedAttempts'
      BY <1>16 DEF LandUnacknowledged, Land, Goto, Fault, TypeOK, Row, Worker, WorkersSet,
         LandedAttempts, Idle
    <2>8. Counted'
      BY <1>16 DEF LandUnacknowledged, Land, Goto, Fault, TypeOK, Row, Worker, WorkersSet, RowHolder,
         RowLeased, Counted, Abandoned, Done, Outcome, Idle
    <2>9. SucceededIsLanded'
      BY <1>16 DEF LandUnacknowledged, Land, Goto, Fault, TypeOK, Row, Worker, WorkersSet, RowHolder,
         RowLeased, RowProgress, WorkerProgress, LandedAttempts, Outcome, Idle, SucceededIsLanded
    <2>10. QED
      BY <2>1, <2>2, <2>3, <2>4, <2>5, <2>6, <2>7, <2>8, <2>9
  <1>17. ASSUME NEW w \in Workers, LogActivity(w) PROVE IInv'
    <2>1. TypeOK'
      <3>1. /\ workers[w].job \in Jobs /\ workers[w] \in Worker
           /\ jobs[workers[w].job] \in Row /\ epoch[workers[w].job] \in Nat
        BY <1>17 DEF LogActivity, WorkersSet, TypeOK
      <3>2. workers' \in [Workers -> Worker]
        BY <1>17, GotoType DEF LogActivity, Label
      <3>3. activity' \in [Jobs -> Nat]
        BY <1>17, <3>1 DEF LogActivity, TypeOK
      <3>4. QED
        BY <1>17, <3>2, <3>3 DEF LogActivity, TypeOK
    <2>2. WorkersSet'
      BY <1>17 DEF LogActivity, Goto, TypeOK, Row, Worker, WorkersSet, RowLeased, Idle
    <2>3. RowHolder'
      BY <1>17, SMTT(40) DEF LogActivity, Goto, TypeOK, Row, Worker, WorkersSet, RowHolder, RowLeased, Idle
    <2>4. RowLeased'
      BY <1>17 DEF LogActivity, Goto, TypeOK, Row, Worker, WorkersSet, RowHolder, RowLeased, Done,
         Outcome
    <2>5. RowProgress'
      BY <1>17 DEF LogActivity, Goto, TypeOK, Row, Worker, WorkersSet, RowHolder, RowLeased,
         RowProgress, WorkerProgress, Idle
    <2>6. WorkerProgress'
      BY <1>17 DEF LogActivity, Goto, TypeOK, Row, Worker, WorkersSet, WorkerProgress, Idle
    <2>7. LandedAttempts'
      BY <1>17 DEF LogActivity, Goto, TypeOK, Row, Worker, WorkersSet, LandedAttempts, Idle
    <2>8. Counted'
      BY <1>17 DEF LogActivity, Goto, TypeOK, Row, Worker, WorkersSet, RowHolder, RowLeased,
         Counted, Abandoned, Done, Outcome, Idle
    <2>9. SucceededIsLanded'
      BY <1>17 DEF LogActivity, Goto, TypeOK, Row, Worker, WorkersSet, RowHolder, RowLeased,
         RowProgress, WorkerProgress, LandedAttempts, Outcome, Idle, SucceededIsLanded
    <2>10. QED
      BY <2>1, <2>2, <2>3, <2>4, <2>5, <2>6, <2>7, <2>8, <2>9
  <1>18. ASSUME NEW w \in Workers, DatabaseFails(w) PROVE IInv'
    <2>1. TypeOK'
      <3>1. workers' \in [Workers -> Worker]
        BY <1>18, GotoType DEF DatabaseFails, Label
      <3>2. faults' \in 0 .. MaxFaults
        BY <1>18, FaultType DEF DatabaseFails
      <3>3. QED
        BY <1>18, <3>1, <3>2 DEF DatabaseFails, TypeOK
    <2>2. WorkersSet'
      BY <1>18 DEF DatabaseFails, Goto, Fault, TypeOK, Row, Worker, WorkersSet, RowLeased, Idle
    <2>3. RowHolder'
      BY <1>18 DEF DatabaseFails, Goto, Fault, TypeOK, Row, Worker, WorkersSet, RowHolder,
         RowLeased, Idle
    <2>4. RowLeased'
      BY <1>18 DEF DatabaseFails, Goto, Fault, TypeOK, Row, Worker, WorkersSet, RowHolder,
         RowLeased, Done, Outcome
    <2>5. RowProgress'
      BY <1>18 DEF DatabaseFails, Goto, Fault, TypeOK, Row, Worker, WorkersSet, RowHolder,
         RowLeased, RowProgress, WorkerProgress, Idle
    <2>6. WorkerProgress'
      BY <1>18 DEF DatabaseFails, Goto, Fault, TypeOK, Row, Worker, WorkersSet, WorkerProgress, Idle
    <2>7. LandedAttempts'
      BY <1>18 DEF DatabaseFails, Goto, Fault, TypeOK, Row, Worker, WorkersSet, LandedAttempts, Idle
    <2>8. Counted'
      BY <1>18 DEF DatabaseFails, Goto, Fault, TypeOK, Row, Worker, WorkersSet, RowHolder,
         RowLeased, Counted, Abandoned, Done, Outcome, Idle
    <2>9. SucceededIsLanded'
      BY <1>18 DEF DatabaseFails, Goto, Fault, TypeOK, Row, Worker, WorkersSet, RowHolder,
         RowLeased, RowProgress, WorkerProgress, LandedAttempts, Outcome, Idle, SucceededIsLanded
    <2>10. QED
      BY <2>1, <2>2, <2>3, <2>4, <2>5, <2>6, <2>7, <2>8, <2>9
  <1>19. ASSUME NEW w \in Workers, Finish(w) PROVE IInv'
    <2>1. TypeOK'
      <3>1. /\ workers[w].job \in Jobs /\ workers[w] \in Worker
           /\ jobs[workers[w].job] \in Row /\ epoch[workers[w].job] \in Nat
        BY <1>19 DEF Finish, WorkersSet, TypeOK
      <3>2. workers' \in [Workers -> Worker]
        BY <1>19, ReturnType DEF Finish
      <3>3. /\ [jobs[workers[w].job] EXCEPT !.status = "succeeded", !.imported = workers[w].total,
                                          !.commit = workers[w].epoch,
                                          !.lockedBy = None, !.lease = "null"] \in Row
          /\ [jobs[workers[w].job] EXCEPT !.status = "failed", !.lockedBy = None, !.lease = "null"] \in Row
        BY <3>1 DEF Row, Worker, Outcome
      <3>4. jobs' \in [Jobs -> Row]
        BY <1>19, <3>1, <3>3 DEF Finish, TypeOK
      <3>5. QED
        BY <1>19, <3>2, <3>4 DEF Finish, TypeOK
    <2>2. WorkersSet'
      BY <1>19 DEF Finish, Holds, Return, TypeOK, Row, Worker, WorkersSet, RowLeased, Idle
    <2>3. RowHolder'
      BY <1>19 DEF Finish, Holds, Return, TypeOK, Row, Worker, WorkersSet, RowHolder, RowLeased,
         Idle
    <2>4. RowLeased'
      BY <1>19 DEF Finish, Holds, Return, TypeOK, Row, Worker, WorkersSet, RowHolder, RowLeased,
         Done, Outcome
    <2>5. RowProgress'
      BY <1>19 DEF Finish, Holds, Return, TypeOK, Row, Worker, WorkersSet, RowHolder, RowLeased,
         RowProgress, WorkerProgress, Idle
    <2>6. WorkerProgress'
      BY <1>19 DEF Finish, Holds, Return, TypeOK, Row, Worker, WorkersSet, WorkerProgress, Idle
    <2>7. LandedAttempts'
      BY <1>19 DEF Finish, Holds, Return, TypeOK, Row, Worker, WorkersSet, LandedAttempts, Idle
    <2>8. Counted'
      BY <1>19 DEF Finish, Holds, Return, TypeOK, Row, Worker, WorkersSet, RowHolder, RowLeased,
         Counted, Abandoned, Done, Outcome, Idle
    <2>9. SucceededIsLanded'
      BY <1>19 DEF Finish, Holds, Return, TypeOK, Row, Worker, WorkersSet, RowHolder, RowLeased,
         RowProgress, WorkerProgress, LandedAttempts, Outcome, Idle, SucceededIsLanded
    <2>10. QED
      BY <2>1, <2>2, <2>3, <2>4, <2>5, <2>6, <2>7, <2>8, <2>9
  <1>20. ASSUME NEW w \in Workers, FinishStale(w) PROVE IInv'
    <2>1. TypeOK'
      <3>1. workers' \in [Workers -> Worker]
        BY <1>20, ReturnType DEF FinishStale
      <3>2. QED
        BY <1>20, <3>1 DEF FinishStale, TypeOK
    <2>2. WorkersSet'
      BY <1>20 DEF FinishStale, Holds, Return, TypeOK, Row, Worker, WorkersSet, RowLeased, Idle
    <2>3. RowHolder'
      BY <1>20 DEF FinishStale, Holds, Return, TypeOK, Row, Worker, WorkersSet, RowHolder,
         RowLeased, Idle
    <2>4. RowLeased'
      BY <1>20 DEF FinishStale, Holds, Return, TypeOK, Row, Worker, WorkersSet, RowHolder,
         RowLeased, Done, Outcome
    <2>5. RowProgress'
      BY <1>20 DEF FinishStale, Holds, Return, TypeOK, Row, Worker, WorkersSet, RowHolder,
         RowLeased, RowProgress, WorkerProgress, Idle
    <2>6. WorkerProgress'
      BY <1>20 DEF FinishStale, Holds, Return, TypeOK, Row, Worker, WorkersSet, WorkerProgress, Idle
    <2>7. LandedAttempts'
      BY <1>20 DEF FinishStale, Holds, Return, TypeOK, Row, Worker, WorkersSet, LandedAttempts, Idle
    <2>8. Counted'
      BY <1>20 DEF FinishStale, Holds, Return, TypeOK, Row, Worker, WorkersSet, RowHolder,
         RowLeased, Counted, Abandoned, Done, Outcome, Idle
    <2>9. SucceededIsLanded'
      BY <1>20 DEF FinishStale, Holds, Return, TypeOK, Row, Worker, WorkersSet, RowHolder,
         RowLeased, RowProgress, WorkerProgress, LandedAttempts, Outcome, Idle, SucceededIsLanded
    <2>10. QED
      BY <2>1, <2>2, <2>3, <2>4, <2>5, <2>6, <2>7, <2>8, <2>9
  <1>21. ASSUME NEW w \in Workers, FinishFails(w) PROVE IInv'
    <2>1. TypeOK'
      <3>1. workers' \in [Workers -> Worker]
        BY <1>21, ReturnType DEF FinishFails
      <3>2. faults' \in 0 .. MaxFaults
        BY <1>21, FaultType DEF FinishFails
      <3>3. QED
        BY <1>21, <3>1, <3>2 DEF FinishFails, TypeOK
    <2>2. WorkersSet'
      BY <1>21 DEF FinishFails, Return, Fault, TypeOK, Row, Worker, WorkersSet, RowLeased, Idle
    <2>3. RowHolder'
      BY <1>21 DEF FinishFails, Return, Fault, TypeOK, Row, Worker, WorkersSet, RowHolder,
         RowLeased, Idle
    <2>4. RowLeased'
      BY <1>21 DEF FinishFails, Return, Fault, TypeOK, Row, Worker, WorkersSet, RowHolder,
         RowLeased, Done, Outcome
    <2>5. RowProgress'
      BY <1>21 DEF FinishFails, Return, Fault, TypeOK, Row, Worker, WorkersSet, RowHolder,
         RowLeased, RowProgress, WorkerProgress, Idle
    <2>6. WorkerProgress'
      BY <1>21 DEF FinishFails, Return, Fault, TypeOK, Row, Worker, WorkersSet, WorkerProgress, Idle
    <2>7. LandedAttempts'
      BY <1>21 DEF FinishFails, Return, Fault, TypeOK, Row, Worker, WorkersSet, LandedAttempts, Idle
    <2>8. Counted'
      BY <1>21 DEF FinishFails, Return, Fault, TypeOK, Row, Worker, WorkersSet, RowHolder,
         RowLeased, Counted, Abandoned, Done, Outcome, Idle
    <2>9. SucceededIsLanded'
      BY <1>21 DEF FinishFails, Return, Fault, TypeOK, Row, Worker, WorkersSet, RowHolder,
         RowLeased, RowProgress, WorkerProgress, LandedAttempts, Outcome, Idle, SucceededIsLanded
    <2>10. QED
      BY <2>1, <2>2, <2>3, <2>4, <2>5, <2>6, <2>7, <2>8, <2>9
  <1>22. ASSUME NEW w \in Workers, Renew(w) PROVE IInv'
    <2>a. workers[w].job \in Jobs /\ workers[w].pc # "ended" /\ workers[w] \in Worker
      BY <1>22 DEF Renew, WorkersSet, TypeOK, Worker
    <2>b. jobs[workers[w].job] \in Row
      BY <2>a DEF TypeOK
    <2> USE <2>a
    <2>1. CASE Holds(w) /\ jobs[workers[w].job].status = "running"
      <3>a. jobs' = [jobs EXCEPT ![workers[w].job].lease = "live"]
        BY <1>22, <2>1 DEF Renew
      <3>b. UNCHANGED <<workers, epoch, landed, activity, faults>>
        BY <1>22, <2>1 DEF Renew
      <3>c. [jobs[workers[w].job] EXCEPT !.lease = "live"] \in Row
        BY <2>b DEF Row
      <3>1. TypeOK'
        BY <3>a, <3>b, <3>c DEF TypeOK
      <3>2. WorkersSet'
        BY <2>1, <3>a, <3>b DEF Holds, TypeOK, Row, Worker, WorkersSet, RowLeased, Idle
      <3>3. RowHolder'
        BY <2>1, <3>a, <3>b DEF Holds, TypeOK, Row, Worker, WorkersSet, RowHolder, RowLeased, Idle
      <3>4. RowLeased'
        BY <2>1, <3>a, <3>b DEF Holds, TypeOK, Row, Worker, WorkersSet, RowHolder, RowLeased,
           Done, Outcome
      <3>5. RowProgress'
        BY <2>1, <3>a, <3>b DEF Holds, TypeOK, Row, Worker, WorkersSet, RowHolder, RowLeased,
           RowProgress, WorkerProgress, Idle
      <3>6. WorkerProgress'
        BY <2>1, <3>a, <3>b DEF Holds, TypeOK, Row, Worker, WorkersSet, WorkerProgress, Idle
      <3>7. LandedAttempts'
        BY <2>1, <3>a, <3>b DEF Holds, TypeOK, Row, Worker, WorkersSet, LandedAttempts, Idle
      <3>8. Counted'
        BY <1>22, <2>1, <3>a, <3>b DEF Renew, Holds, TypeOK, Row, Worker, WorkersSet, RowHolder,
           RowLeased, Counted, Abandoned, Done, Outcome, Idle
      <3>9. SucceededIsLanded'
        BY <2>1, <3>a, <3>b DEF Holds, TypeOK, Row, Worker, WorkersSet, RowHolder, RowLeased,
           RowProgress, WorkerProgress, LandedAttempts, Outcome, Idle, SucceededIsLanded
      <3>10. QED
        BY <3>1, <3>2, <3>3, <3>4, <3>5, <3>6, <3>7, <3>8, <3>9
    <2>2. CASE ~(Holds(w) /\ jobs[workers[w].job].status = "running")
      <3>a. StopBeat(w)
        BY <1>22, <2>2 DEF Renew
      <3>b. UNCHANGED <<jobs, epoch, landed, activity, faults>>
        BY <1>22, <2>2 DEF Renew
      <3>c. workers' \in [Workers -> Worker]
        BY <3>a, StopBeatType
      <3>1. TypeOK'
        BY <3>a, <3>b, <3>c DEF TypeOK
      <3>2. WorkersSet'
        BY <2>2, <3>a, <3>b DEF StopBeat, Holds, TypeOK, Row, Worker, WorkersSet, RowLeased, Idle
      <3>3. RowHolder'
        BY <2>2, <3>a, <3>b DEF StopBeat, Holds, TypeOK, Row, Worker, WorkersSet, RowHolder, RowLeased, Idle
      <3>4. RowLeased'
        BY <2>2, <3>a, <3>b DEF StopBeat, Holds, TypeOK, Row, Worker, WorkersSet, RowHolder, RowLeased,
           Done, Outcome
      <3>5. RowProgress'
        BY <2>2, <3>a, <3>b DEF StopBeat, Holds, TypeOK, Row, Worker, WorkersSet, RowHolder, RowLeased,
           RowProgress, WorkerProgress, Idle
      <3>6. WorkerProgress'
        BY <2>2, <3>a, <3>b DEF StopBeat, Holds, TypeOK, Row, Worker, WorkersSet, WorkerProgress, Idle
      <3>7. LandedAttempts'
        BY <2>2, <3>a, <3>b DEF StopBeat, Holds, TypeOK, Row, Worker, WorkersSet, LandedAttempts, Idle
      <3>8. Counted'
        BY <2>2, <3>a, <3>b DEF StopBeat, Holds, TypeOK, Row, Worker, WorkersSet, RowHolder, RowLeased,
           Counted, Abandoned, Done, Outcome, Idle
      <3>9. SucceededIsLanded'
        BY <2>2, <3>a, <3>b DEF StopBeat, Holds, TypeOK, Row, Worker, WorkersSet, RowHolder, RowLeased,
           RowProgress, WorkerProgress, LandedAttempts, Outcome, Idle, SucceededIsLanded
      <3>10. QED
        BY <3>1, <3>2, <3>3, <3>4, <3>5, <3>6, <3>7, <3>8, <3>9
    <2>3. QED
      BY <2>1, <2>2
  <1>23. ASSUME NEW w \in Workers, RenewFails(w) PROVE IInv'
    <2>1. TypeOK'
      <3>1. workers' \in [Workers -> Worker]
        BY <1>23, StopBeatType DEF RenewFails
      <3>2. faults' \in 0 .. MaxFaults
        BY <1>23, FaultType DEF RenewFails
      <3>3. QED
        BY <1>23, <3>1, <3>2 DEF RenewFails, TypeOK
    <2>2. WorkersSet'
      BY <1>23 DEF RenewFails, StopBeat, Fault, TypeOK, Row, Worker, WorkersSet, RowLeased, Idle
    <2>3. RowHolder'
      BY <1>23 DEF RenewFails, StopBeat, Fault, TypeOK, Row, Worker, WorkersSet, RowHolder, RowLeased, Idle
    <2>4. RowLeased'
      BY <1>23 DEF RenewFails, StopBeat, Fault, TypeOK, Row, Worker, WorkersSet, RowHolder, RowLeased, Done,
         Outcome
    <2>5. RowProgress'
      BY <1>23 DEF RenewFails, StopBeat, Fault, TypeOK, Row, Worker, WorkersSet, RowHolder, RowLeased,
         RowProgress, WorkerProgress, Idle
    <2>6. WorkerProgress'
      BY <1>23 DEF RenewFails, StopBeat, Fault, TypeOK, Row, Worker, WorkersSet, WorkerProgress, Idle
    <2>7. LandedAttempts'
      BY <1>23 DEF RenewFails, StopBeat, Fault, TypeOK, Row, Worker, WorkersSet, LandedAttempts, Idle
    <2>8. Counted'
      BY <1>23 DEF RenewFails, StopBeat, Fault, TypeOK, Row, Worker, WorkersSet, RowHolder, RowLeased,
         Counted, Abandoned, Done, Outcome, Idle
    <2>9. SucceededIsLanded'
      BY <1>23 DEF RenewFails, StopBeat, Fault, TypeOK, Row, Worker, WorkersSet, RowHolder, RowLeased,
         RowProgress, WorkerProgress, LandedAttempts, Outcome, Idle, SucceededIsLanded
    <2>10. QED
      BY <2>1, <2>2, <2>3, <2>4, <2>5, <2>6, <2>7, <2>8, <2>9
  <1>24. ASSUME NEW g \in Gateways, Crash(g) PROVE IInv'
    <2>1. TypeOK'
      <3>1. workers' \in [Workers -> Worker]
        BY <1>24, IdleType DEF Crash, TypeOK
      <3>2. faults' \in 0 .. MaxFaults
        BY <1>24, FaultType DEF Crash
      <3>3. QED
        BY <1>24, <3>1, <3>2 DEF Crash, TypeOK
    <2>2. WorkersSet'
      BY <1>24 DEF Crash, Fault, TypeOK, Row, Worker, WorkersSet, RowLeased, Idle
    <2>3. RowHolder'
      BY <1>24 DEF Crash, Fault, TypeOK, Row, Worker, WorkersSet, RowHolder, RowLeased, Idle
    <2>4. RowLeased'
      BY <1>24 DEF Crash, Fault, TypeOK, Row, Worker, WorkersSet, RowHolder, RowLeased, Done,
         Outcome
    <2>5. RowProgress'
      BY <1>24 DEF Crash, Fault, TypeOK, Row, Worker, WorkersSet, RowHolder, RowLeased,
         RowProgress, WorkerProgress, Idle
    <2>6. WorkerProgress'
      BY <1>24 DEF Crash, Fault, TypeOK, Row, Worker, WorkersSet, WorkerProgress, Idle
    <2>7. LandedAttempts'
      BY <1>24 DEF Crash, Fault, TypeOK, Row, Worker, WorkersSet, LandedAttempts, Idle
    <2>8. Counted'
      BY <1>24 DEF Crash, Fault, TypeOK, Row, Worker, WorkersSet, RowHolder, RowLeased, Counted,
         Abandoned, Done, Outcome, Idle
    <2>9. SucceededIsLanded'
      BY <1>24 DEF Crash, Fault, TypeOK, Row, Worker, WorkersSet, RowHolder, RowLeased,
         RowProgress, WorkerProgress, LandedAttempts, Outcome, Idle, SucceededIsLanded
    <2>10. QED
      BY <2>1, <2>2, <2>3, <2>4, <2>5, <2>6, <2>7, <2>8, <2>9
  <1>25. ASSUME NEW w \in Workers, Hang(w) PROVE IInv'
    <2>1. TypeOK'
      <3>1. workers' \in [Workers -> Worker]
        BY <1>25, HangType DEF Hang
      <3>2. faults' \in 0 .. MaxFaults
        BY <1>25, FaultType DEF Hang
      <3>3. landed' \in [Jobs -> SUBSET Nat]
        BY <1>25, LandType DEF Hang, TypeOK
      <3>4. QED
        BY <1>25, <3>1, <3>2, <3>3 DEF Hang, TypeOK
    <2>2. WorkersSet'
      BY <1>25 DEF Hang, Land, Fault, TypeOK, Row, Worker, WorkersSet, RowLeased, Idle
    <2>3. RowHolder'
      BY <1>25 DEF Hang, Land, Fault, TypeOK, Row, Worker, WorkersSet, RowHolder,
         RowLeased, Idle
    <2>4. RowLeased'
      BY <1>25 DEF Hang, Land, Fault, TypeOK, Row, Worker, WorkersSet, RowHolder,
         RowLeased, Done, Outcome
    <2>5. RowProgress'
      BY <1>25 DEF Hang, Land, Fault, TypeOK, Row, Worker, WorkersSet, RowHolder,
         RowLeased, RowProgress, WorkerProgress, Idle
    <2>6. WorkerProgress'
      BY <1>25 DEF Hang, Land, Fault, TypeOK, Row, Worker, WorkersSet, WorkerProgress, Idle
    <2>7. LandedAttempts'
      <3>1. /\ workers[w].job \in Jobs
            /\ Land(w) => workers[w].epoch \in 1 .. epoch[workers[w].job]
        BY <1>25 DEF Hang, Land, WorkersSet, LandedAttempts
      <3>2. \A j \in Jobs : landed'[j] \subseteq 1 .. epoch[j]
        BY <1>25, <3>1 DEF Hang, Land, LandedAttempts, TypeOK
      <3>3. \A v \in Workers : workers'[v].pc \notin {"ended", "dispatched"} =>
              /\ workers[v].pc \notin {"ended", "dispatched"}
              /\ workers'[v].epoch = workers[v].epoch /\ workers'[v].job = workers[v].job
        BY <1>25 DEF Hang, Idle, WorkersSet, TypeOK, Worker
      <3>4. UNCHANGED epoch
        BY <1>25 DEF Hang
      <3>5. QED
        BY <3>2, <3>3, <3>4 DEF LandedAttempts
    <2>8. Counted'
      BY <1>25 DEF Hang, Land, Fault, TypeOK, Row, Worker, WorkersSet, RowHolder,
         RowLeased, Counted, Abandoned, Done, Outcome, Idle
    <2>9. SucceededIsLanded'
      BY <1>25 DEF Hang, Land, Fault, TypeOK, Row, Worker, WorkersSet, RowHolder,
         RowLeased, RowProgress, WorkerProgress, LandedAttempts, Outcome, Idle, SucceededIsLanded
    <2>10. QED
      BY <2>1, <2>2, <2>3, <2>4, <2>5, <2>6, <2>7, <2>8, <2>9
  <1>26. CASE UNCHANGED vars
    BY <1>26 DEF vars, TypeOK, WorkersSet, RowHolder, RowLeased, RowProgress, WorkerProgress,
       LandedAttempts, Counted, Abandoned, SucceededIsLanded, Done
  <1>27. QED
    BY <1>1, <1>2, <1>3, <1>4, <1>5, <1>6, <1>7, <1>8, <1>9, <1>10, <1>11, <1>12, <1>13, <1>14,
       <1>15, <1>16, <1>17, <1>18, <1>19, <1>20, <1>21, <1>22, <1>23, <1>24, <1>25, <1>26 DEF Next,
       WorkerStep, WorkerFault

\* Every reachable state satisfies the invariant.
LEMMA InvariantHolds == Spec => []IInv
  BY InitIInv, StepIInv, PTL DEF Spec

-----------------------------------------------------------------------------
(* What follows *)

\* One import lands at most once, and once more per fault: its landings are
\* attempts, and the attempts are counted. (spawn_job, submit_change)
LEMMA LandingsBound == IInv => LandingsAreCounted
  <1> SUFFICES ASSUME IInv, NEW j \in Jobs
               PROVE  Cardinality(landed[j]) <= 1 + faults
    BY DEF LandingsAreCounted
  <1>1. epoch[j] \in Nat /\ faults \in Nat /\ epoch[j] <= 1 + faults
    BY BoundsAssumption DEF IInv, TypeOK, Counted
  <1>2. IsFiniteSet(1 .. epoch[j]) /\ Cardinality(1 .. epoch[j]) = epoch[j]
    BY <1>1, FS_Interval
  <1>3. landed[j] \in SUBSET (1 .. epoch[j])
    BY DEF IInv, LandedAttempts
  <1>4. IsFiniteSet(landed[j]) /\ Cardinality(landed[j]) <= epoch[j]
    BY <1>2, <1>3, FS_Subset
  <1>5. Cardinality(landed[j]) \in Nat
    BY <1>4, FS_CardinalityType
  <1>6. QED
    BY <1>1, <1>4, <1>5

\* The progress a job shows is its holder's. (the claim, the fenced updates)
LEMMA ProgressBound == IInv => ProgressIsHolders
  BY DEF IInv, RowProgress, ProgressIsHolders

\* Every import is accounted for, with any number of replicas, workers and
\* faults: progress is the holder's, success means landed, and landings beyond
\* the first are the work of faults. (spawn_job, perform_import)
THEOREM AccountedTheorem == Spec => []ImportsAreAccounted
  <1>1. IInv => ImportsAreAccounted
    BY LandingsBound, ProgressBound DEF IInv, ImportsAreAccounted
  <1>2. QED
    BY <1>1, InvariantHolds, PTL

-----------------------------------------------------------------------------
(* The refinement *)

\* The step touches the status of no job but j.
OnlyJob(j) == \A q \in Jobs \ {j} : jobs'[q].status = jobs[q].status

\* What a step may do to the statuses and the attempts.
NoVerdict == UNCHANGED epoch /\ \A j \in Jobs : jobs'[j].status = jobs[j].status

Submitted(j) ==
  /\ jobs[j].status = "absent" /\ jobs'[j].status = "queued"
  /\ OnlyJob(j) /\ UNCHANGED epoch

Claimed(j) ==
  /\ jobs[j].status \in {"queued", "running"} /\ jobs'[j].status = "running"
  /\ OnlyJob(j) /\ epoch' = [epoch EXCEPT ![j] = @ + 1]

Completed(j) ==
  /\ jobs[j].status = "running" /\ jobs'[j].status \in Outcome
  /\ OnlyJob(j) /\ UNCHANGED epoch

Refused(j) ==
  /\ jobs[j].status \in {"queued", "running"} /\ jobs'[j].status \in Outcome
  /\ epoch[j] = 0
  /\ OnlyJob(j) /\ UNCHANGED epoch

\* Every step of the program does one of these to the table: only the claim
\* counts an attempt, only the holder records a verdict, and only a job that
\* was never claimed is refused. (spawn_job, recover_hub_import_jobs)
LEMMA RowSteps ==
  ASSUME IInv, [Next]_vars
  PROVE  \/ NoVerdict
         \/ \E j \in Jobs : Submitted(j) \/ Claimed(j) \/ Completed(j) \/ Refused(j)
  <1> USE DEF IInv
  <1>1. ASSUME UNCHANGED <<jobs, epoch>> PROVE NoVerdict
    BY <1>1 DEF NoVerdict
  <1>2. ASSUME NEW g \in Gateways, NEW j \in Jobs, NEW w \in Workers, CreateJob(g, j, w)
        PROVE  Submitted(j)
    BY <1>2 DEF CreateJob, NewJob, Submitted, OnlyJob, TypeOK
  <1>3. ASSUME NEW j \in Jobs, RecoverUnreadable(j) PROVE Refused(j)
    BY <1>3 DEF RecoverUnreadable, Claimable, Refused, OnlyJob, Outcome, TypeOK, Row, RowLeased
  <1>4. ASSUME NEW w \in Workers, workers[w].job \in Jobs, Claimable(workers[w].job), TakeRow(w)
        PROVE  Claimed(workers[w].job)
    BY <1>4 DEF TakeRow, Claimable, Claimed, OnlyJob, TypeOK, Row
  <1>5. ASSUME NEW w \in Workers, Finish(w)
        PROVE  workers[w].job \in Jobs /\ Completed(workers[w].job)
    <2>1. workers[w].job \in Jobs
      BY <1>5 DEF Finish, WorkersSet
    <2>2. jobs[workers[w].job].status = "running"
      BY <1>5, <2>1, NoneAssumption DEF Finish, Holds, RowLeased
    <2>3. QED
      BY <1>5, <2>1, <2>2 DEF Finish, Completed, OnlyJob, Outcome, TypeOK, Row
  <1>6. ASSUME NEW w \in Workers, NEW n \in 1 .. MaxFiles,
               Preflight(w, n) \/ ImportFile(w) \/ RecordCommit(w)
        PROVE  NoVerdict
    <2>1. workers[w].job \in Jobs
      BY <1>6 DEF Preflight, ImportFile, RecordCommit, WorkersSet
    <2>2. CASE Preflight(w, n)
      BY <2>1, <2>2 DEF Preflight, NoVerdict, TypeOK, Row
    <2>3. CASE ImportFile(w)
      BY <2>1, <2>3 DEF ImportFile, NoVerdict, TypeOK, Row
    <2>4. CASE RecordCommit(w)
      BY <2>1, <2>4 DEF RecordCommit, NoVerdict, TypeOK, Row
    <2>5. QED
      BY <1>6, <2>2, <2>3, <2>4
  <1>7. ASSUME NEW w \in Workers, Renew(w) PROVE NoVerdict
    BY <1>7 DEF Renew, NoVerdict, TypeOK, Row
  <1>8. ASSUME NEW j \in Jobs, Expire(j) PROVE NoVerdict
    BY <1>8 DEF Expire, NoVerdict, TypeOK, Row
  <1>9. ASSUME NEW w \in Workers, Claim(w) \/ ClaimFails(w)
        PROVE  \/ NoVerdict
               \/ \E j \in Jobs : Claimed(j)
    <2>1. workers[w].job \in Jobs
      BY <1>9 DEF Claim, ClaimFails, WorkersSet
    <2>2. QED
      BY <1>1, <1>4, <1>9, <2>1 DEF Claim, ClaimFails
  <1>10. ASSUME NEW w \in Workers, WorkerStep(w) \/ WorkerFault(w)
         PROVE  \/ NoVerdict
                \/ \E j \in Jobs : Claimed(j) \/ Completed(j)
    BY <1>1, <1>5, <1>6, <1>9, <1>10, BoundsAssumption
    DEF WorkerStep, WorkerFault, ClaimLost, CommitFiles, LeaseMoved, ImportFails, Submit,
        LogActivity, FinishStale, LandUnacknowledged, DatabaseFails, FinishFails, RenewFails,
        Hang
  <1>11. QED
    BY <1>1, <1>2, <1>3, <1>7, <1>8, <1>10
    DEF Next, vars, Recover, LeaseExpires, LeaseLapses, Crash

\* Imports implement durable leased jobs: each step is a Submit, a Claim, a
\* Complete, a Refuse or a stutter of LeasedJob. (hub.rs)
THEOREM RefinementTheorem == Spec => ImplementsLeasedJob
  <1> DEFINE phase == [j \in Jobs |-> IF Done(j) THEN "done" ELSE jobs[j].status]
             outcome == [j \in Jobs |-> IF Done(j)
                           THEN [epoch |-> epoch[j], result |-> jobs[j].status]
                           ELSE [epoch |-> 0, result |-> "none"]]
  <1> USE DEF Done, Outcome
  <1>1. Init => Job!Init
    BY DEF Init, NewJob, Job!Init, Job!NoOutcome
  <1>2. IInv /\ [Next]_vars => [Job!Next]_(Job!vars)
    <2> SUFFICES ASSUME IInv, [Next]_vars PROVE [Job!Next]_(Job!vars)
      OBVIOUS
    <2>1. CASE NoVerdict
      <3>1. phase' = phase /\ outcome' = outcome /\ epoch' = epoch
        BY <2>1 DEF NoVerdict
      <3>2. QED
        BY <3>1 DEF Job!vars
    <2>2. ASSUME NEW j \in Jobs, Submitted(j) PROVE Job!Submit(j)
      <3>1. phase' = [phase EXCEPT ![j] = "queued"]
        BY <2>2 DEF Submitted, OnlyJob
      <3>2. epoch' = epoch /\ outcome' = outcome
        BY <2>2 DEF Submitted, OnlyJob
      <3>3. QED
        BY <2>2, <3>1, <3>2 DEF Job!Submit, Submitted
    <2>3. ASSUME NEW j \in Jobs, Claimed(j) PROVE Job!Claim(j)
      <3>1. phase' = [phase EXCEPT ![j] = "running"]
        BY <2>3 DEF Claimed, OnlyJob
      <3>2. epoch' = [epoch EXCEPT ![j] = @ + 1] /\ outcome' = outcome
        BY <2>3 DEF Claimed, OnlyJob, IInv, TypeOK
      <3>3. QED
        BY <2>3, <3>1, <3>2 DEF Job!Claim, Claimed
    <2>4. ASSUME NEW j \in Jobs, Completed(j)
          PROVE  \E res \in Outcome : Job!Complete(j, res)
      <3> PICK res \in Outcome : res = jobs'[j].status
        BY <2>4 DEF Completed
      <3>1. phase' = [phase EXCEPT ![j] = "done"] /\ epoch' = epoch
        BY <2>4 DEF Completed, OnlyJob
      <3>2. outcome' = [outcome EXCEPT ![j] = [epoch |-> epoch[j], result |-> res]]
        BY <2>4 DEF Completed, OnlyJob
      <3>3. Job!Complete(j, res)
        BY <2>4, <3>1, <3>2 DEF Job!Complete, Completed
      <3>4. QED
        BY <3>3
    <2>5. ASSUME NEW j \in Jobs, Refused(j)
          PROVE  \E res \in Outcome : Job!Refuse(j, res)
      <3> PICK res \in Outcome : res = jobs'[j].status
        BY <2>5 DEF Refused
      <3>1. phase' = [phase EXCEPT ![j] = "done"] /\ epoch' = epoch
        BY <2>5 DEF Refused, OnlyJob
      <3>2. outcome' = [outcome EXCEPT ![j] = [epoch |-> 0, result |-> res]]
        BY <2>5 DEF Refused, OnlyJob
      <3>3. Job!Refuse(j, res)
        BY <2>5, <3>1, <3>2 DEF Job!Refuse, Refused
      <3>4. QED
        BY <3>3
    <2>6. QED
      BY <2>1, <2>2, <2>3, <2>4, <2>5, RowSteps DEF Job!Next
  <1>3. QED
    BY <1>1, <1>2, InvariantHolds, PTL DEF Spec, ImplementsLeasedJob, Job!Spec

=============================================================================
