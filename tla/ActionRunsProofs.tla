-------------------------- MODULE ActionRunsProofs --------------------------
(***************************************************************************)
(* Theorems about ActionRuns, for every number of runs, commits, replicas, *)
(* task slots and faults.                                                  *)
(*                                                                         *)
(* The argument is one inductive invariant, IInv. Its heart is that a row  *)
(* names its holder, that the holder's slot is not used for another task   *)
(* while the row names it (Free), and that only the holder writes a result *)
(* (Holds): the attempt number in the holder's locals is then the row's,   *)
(* and the tasks that are past recording find the row final.               *)
(***************************************************************************)
EXTENDS ActionRuns, TLAPS

\* Locals are set when the code that uses them runs.
LocalsSet ==
  \A w \in Tasks :
    /\ tasks[w].pc # "ended" \/ tasks[w].beat # "off" => tasks[w].run \in Runs
    /\ tasks[w].pc \in {"finishing", "logging", "notifying", "reporting"} =>
         tasks[w].result \in Conclusion
    /\ tasks[w].pc = "dispatched" => tasks[w].beat = "off"

\* The named holder of a row: its slot is empty, or it runs this row's newest
\* attempt and is past claiming. A row that was ever held counts an attempt.
RowHolder ==
  \A r \in Runs :
    LET w == runs[r].lockedBy IN
    w # None =>
      /\ runs[r].status = "running"
      /\ runs[r].lease # "null"
      /\ runs[r].attempt > 0
      /\ \/ tasks[w] = Idle
         \/ /\ tasks[w].run = r
            /\ tasks[w].attempt = runs[r].attempt
            /\ tasks[w].pc \notin {"dispatched", "logging", "notifying"}

\* A task that recorded its result finds that result in the row, and nobody
\* has notified the owner in its place; it is the only such task of the run.
Recorder ==
  \A w \in Tasks :
    tasks[w].pc \in {"logging", "notifying"} =>
      LET r == tasks[w].run IN
      /\ runs[r].status = tasks[w].result
      /\ runs[r].recorded = tasks[w].attempt
      /\ notified[r] = 0
      /\ tasks[w].pc = "notifying" => tasks[w].result = "failure"
      /\ \A v \in Tasks \ {w} :
           tasks[v].pc \in {"logging", "notifying"} => tasks[v].run # r

\* A run nobody claimed has no attempt.
Unclaimed ==
  \A r \in Runs : runs[r].status \in {"absent", "queued"} => runs[r].attempt = 0

IInv ==
  /\ TypeOK
  /\ Unclaimed
  /\ LocalsSet
  /\ RowHolder
  /\ Recorder
  /\ ResultIsNewestAttempts
  /\ LogMatchesResult
  /\ NotifiedOnceOnFailure

-----------------------------------------------------------------------------

(* Typing. One lemma per way of changing the task and the run tables. *)

\* A task that moves to its next await point stays a task. (run_existing)
LEMMA GotoType ==
  ASSUME TypeOK, NEW w \in Tasks, NEW label \in Label, Goto(w, label)
  PROVE  tasks' \in [Tasks -> Task]
  <1>1. [tasks[w] EXCEPT !.pc = label] \in Task
    BY DEF TypeOK, Task
  <1>2. QED
    BY <1>1 DEF Goto, TypeOK

\* A slot without a task is well typed. (run_existing's end)
LEMMA IdleType == Idle \in Task
  BY DEF Idle, Task, Label

\* A task that returns leaves a well-typed slot, whether or not its
\* heartbeat outlives it. (run_existing)
LEMMA ReturnType ==
  ASSUME TypeOK, NEW w \in Tasks, Return(w)
  PROVE  tasks' \in [Tasks -> Task]
  <1>1. [tasks[w] EXCEPT !.pc = "ended"] \in Task
    BY DEF TypeOK, Task, Label
  <1>2. QED
    BY <1>1, IdleType DEF Return, TypeOK

\* A heartbeat that stops leaves a well-typed slot. (run_existing)
LEMMA StopBeatType ==
  ASSUME TypeOK, NEW w \in Tasks, StopBeat(w)
  PROVE  tasks' \in [Tasks -> Task]
  <1>1. [tasks[w] EXCEPT !.beat = "off"] \in Task
    BY DEF TypeOK, Task
  <1>2. QED
    BY <1>1, IdleType DEF StopBeat, TypeOK

\* A task that hangs leaves a well-typed slot. (run_existing)
LEMMA HangType ==
  ASSUME TypeOK, NEW w \in Tasks, Hang(w)
  PROVE  tasks' \in [Tasks -> Task]
  <1>1. [tasks[w] EXCEPT !.pc = "hung"] \in Task
    BY DEF TypeOK, Task, Label
  <1>2. QED
    BY <1>1, IdleType DEF Hang, TypeOK

\* A lease that runs out changes no other column. (lease_expires_at)
LEMMA ExpireType ==
  ASSUME TypeOK, NEW r \in Runs, Expire(r)
  PROVE  runs' \in [Runs -> Row]
  <1>1. [runs[r] EXCEPT !.lease = "expired"] \in Row
    BY DEF TypeOK, Row
  <1>2. QED
    BY <1>1 DEF Expire, TypeOK

\* The count of faults stays within its bound.
LEMMA FaultType ==
  ASSUME TypeOK, Fault
  PROVE  faults' \in 0 .. MaxFaults
  BY MaxFaultsAssumption DEF TypeOK, Fault

\* Posting a commit status keeps the statuses well typed.
\* (ForgejoClient::set_commit_status)
LEMMA PostType ==
  ASSUME TypeOK, LocalsSet, NEW w \in Tasks, tasks[w].pc # "ended",
         NEW st \in {"none", "pending"} \cup Conclusion, Post(w, st)
  PROVE  forgejo' \in [Commits -> Status]
  <1>1. tasks[w].run \in Runs /\ tasks[w].attempt \in Nat
    BY DEF TypeOK, LocalsSet, Task
  <1>2. runs[tasks[w].run].commit \in Commits
    BY <1>1 DEF TypeOK, Row
  <1>3. [state |-> st, run |-> tasks[w].run, attempt |-> tasks[w].attempt] \in Status
    BY <1>1 DEF Status
  <1>4. QED
    BY <1>2, <1>3 DEF Post, TypeOK

-----------------------------------------------------------------------------
(* The invariant *)

\* The invariant holds of an empty table and of rows that predate the lease
\* columns. (migration 1015)
LEMMA InitIInv == Init => IInv
  <1> SUFFICES ASSUME Init PROVE IInv
    OBVIOUS
  <1> USE NoneAssumption, MaxFaultsAssumption DEF Init, Idle, NewRow
  <1>1. TypeOK
    BY DEF TypeOK, Row, Task, Label, Status, RunStatus, Conclusion
  <1>2. LocalsSet /\ RowHolder /\ Recorder
    BY <1>1 DEF LocalsSet, RowHolder, Recorder, TypeOK, Row
  <1>3. ResultIsNewestAttempts /\ LogMatchesResult /\ NotifiedOnceOnFailure /\ Unclaimed
    BY DEF Unclaimed, ResultIsNewestAttempts, LogMatchesResult, NotifiedOnceOnFailure,
           Terminal, Conclusion
  <1>4. QED
    BY <1>1, <1>2, <1>3 DEF IInv

\* Every claim, heartbeat, result, fault and recovery poll keeps the
\* invariant. (actions.rs, ci.rs)
LEMMA StepIInv == IInv /\ [Next]_vars => IInv'
  <1> SUFFICES ASSUME IInv, [Next]_vars PROVE IInv'
    OBVIOUS
  <1> USE NoneAssumption, MaxFaultsAssumption
  <1>1. ASSUME NEW g \in Gateways, NEW r \in Runs, NEW c \in Commits, NEW w \in Tasks, CreateRun(g, r, c, w)
        PROVE  IInv'
    <2>1. TypeOK'
      BY <1>1, IdleType DEF CreateRun, Spawn, Free, NewRow, IInv, TypeOK, Row, Task, Label, Status, RunStatus, Idle
    <2>2. LocalsSet'
      BY <1>1 DEF CreateRun, Spawn, Free, NewRow, IInv, TypeOK, Task, LocalsSet, Idle
    <2>3. RowHolder'
      BY <1>1 DEF CreateRun, Spawn, Free, NewRow, IInv, TypeOK, Row, Task, LocalsSet, RowHolder, Recorder, Idle
    <2>4. Recorder'
      BY <1>1 DEF CreateRun, Spawn, Free, NewRow, IInv, TypeOK, Row, Task, LocalsSet, RowHolder, Recorder,
                  Idle, Conclusion, NotifiedOnceOnFailure
    <2>5. (ResultIsNewestAttempts /\ LogMatchesResult /\ NotifiedOnceOnFailure)'
      BY <1>1 DEF CreateRun, Spawn, Free, NewRow, IInv, TypeOK, Row, Task, LocalsSet, RowHolder, Recorder,
                  Idle, Terminal, Conclusion, ResultIsNewestAttempts,
                  LogMatchesResult, NotifiedOnceOnFailure
    <2>6. Unclaimed'
      BY <1>1 DEF CreateRun, Spawn, Free, NewRow, IInv, TypeOK, Row, Unclaimed, RowHolder, LocalsSet, Conclusion
    <2>7. QED
      BY <2>1, <2>2, <2>3, <2>4, <2>5, <2>6 DEF IInv
  <1>2. ASSUME NEW g \in Gateways, NEW r \in Runs, NEW w \in Tasks, Recover(g, r, w)
        PROVE  IInv'
    <2>1. TypeOK'
      BY <1>2, IdleType DEF Recover, Spawn, Free, IInv, TypeOK, Row, Task, Label, Status, RunStatus, Idle
    <2>2. LocalsSet'
      BY <1>2 DEF Recover, Spawn, Free, IInv, TypeOK, Task, LocalsSet, Idle
    <2>3. RowHolder'
      BY <1>2 DEF Recover, Spawn, Free, IInv, TypeOK, Row, Task, LocalsSet, RowHolder, Recorder, Idle
    <2>4. Recorder'
      BY <1>2 DEF Recover, Spawn, Free, IInv, TypeOK, Row, Task, LocalsSet, RowHolder, Recorder,
                  Idle, Conclusion, NotifiedOnceOnFailure
    <2>5. (ResultIsNewestAttempts /\ LogMatchesResult /\ NotifiedOnceOnFailure)'
      BY <1>2 DEF Recover, Spawn, Free, IInv, TypeOK, Row, Task, LocalsSet, RowHolder, Recorder,
                  Idle, Terminal, Conclusion, ResultIsNewestAttempts,
                  LogMatchesResult, NotifiedOnceOnFailure
    <2>6. Unclaimed'
      BY <1>2 DEF Recover, Spawn, Free, IInv, TypeOK, Row, Unclaimed, RowHolder, LocalsSet, Conclusion
    <2>7. QED
      BY <2>1, <2>2, <2>3, <2>4, <2>5, <2>6 DEF IInv
  <1>3. ASSUME NEW w \in Tasks, ClaimRun(w)
        PROVE  IInv'
    <2>1. TypeOK'
      <3>1. tasks[w].run \in Runs /\ tasks[w] \in Task
        BY <1>3 DEF IInv, TypeOK, LocalsSet, ClaimRun, TakeRow
      <3>2. runs[tasks[w].run] \in Row /\ runs[tasks[w].run].attempt + 1 \in Nat
        BY <3>1 DEF IInv, TypeOK, Row
      <3>3. [tasks[w] EXCEPT !.pc = "pending", !.beat = "on", !.attempt = runs[tasks[w].run].attempt + 1]
             \in Task
        BY <3>1, <3>2 DEF Task, Label
      <3>4. tasks' \in [Tasks -> Task]
        BY <1>3, <3>3 DEF ClaimRun, TakeRow, IInv, TypeOK
      <3>5. [runs[tasks[w].run] EXCEPT !.status = "running", !.lockedBy = w, !.lease = "live",
               !.attempt = runs[tasks[w].run].attempt + 1]
             \in Row
        BY <3>1, <3>2 DEF Row, RunStatus
      <3>6. runs' \in [Runs -> Row]
        BY <1>3, <3>1, <3>5 DEF ClaimRun, TakeRow, IInv, TypeOK
      <3>7. QED
        BY <1>3, <3>1, <3>2, <3>3, <3>4, <3>5, <3>6 DEF ClaimRun, TakeRow, IInv, TypeOK
    <2>2. LocalsSet'
      BY <1>3 DEF ClaimRun, TakeRow, Claimable, IInv, TypeOK, Task, LocalsSet, Idle
    <2>3. RowHolder'
      <3>1. \A q \in Runs : runs[q].lockedBy # w
        BY <1>3 DEF ClaimRun, TakeRow, Claimable, IInv, RowHolder, Idle
      <3>2. \A v \in Tasks \ {w} : tasks'[v] = tasks[v]
        BY <1>3 DEF ClaimRun, TakeRow, Claimable, IInv, TypeOK
      <3>3. \A q \in Runs \ {tasks[w].run} : runs'[q] = runs[q]
        BY <1>3 DEF ClaimRun, TakeRow, Claimable, IInv, TypeOK
      <3>4. tasks[w].run \in Runs /\ runs[tasks[w].run].attempt \in Nat
        BY <1>3 DEF ClaimRun, TakeRow, Claimable, IInv, TypeOK, Row, LocalsSet
      <3>5. /\ runs'[tasks[w].run].lockedBy = w
            /\ runs'[tasks[w].run].status = "running"
            /\ runs'[tasks[w].run].lease = "live"
            /\ runs'[tasks[w].run].attempt = runs[tasks[w].run].attempt + 1
        BY <1>3, <3>4 DEF ClaimRun, TakeRow, Claimable, IInv, TypeOK, Row
      <3>6. /\ tasks'[w].run = tasks[w].run
            /\ tasks'[w].pc = "pending"
            /\ tasks'[w].attempt = runs[tasks[w].run].attempt + 1
        BY <1>3 DEF ClaimRun, TakeRow, Claimable, IInv, TypeOK, Task
      <3>7. QED
        BY <3>1, <3>2, <3>3, <3>4, <3>5, <3>6 DEF IInv, TypeOK, Row, RowHolder
    <2>4. Recorder'
      BY <1>3 DEF ClaimRun, TakeRow, Claimable, IInv, TypeOK, Row, Task, LocalsSet, RowHolder, Recorder,
                  Idle, Conclusion, NotifiedOnceOnFailure
    <2>5. (ResultIsNewestAttempts /\ LogMatchesResult /\ NotifiedOnceOnFailure)'
      BY <1>3, SMTT(40) DEF ClaimRun, TakeRow, Claimable, IInv, TypeOK, Row, Task, LocalsSet, RowHolder, Recorder,
                  Idle, Terminal, Conclusion, ResultIsNewestAttempts,
                  LogMatchesResult, NotifiedOnceOnFailure
    <2>6. Unclaimed'
      BY <1>3 DEF ClaimRun, TakeRow, Claimable, IInv, TypeOK, Row, Unclaimed, RowHolder, LocalsSet, Conclusion
    <2>7. QED
      BY <2>1, <2>2, <2>3, <2>4, <2>5, <2>6 DEF IInv
  <1>4. ASSUME NEW w \in Tasks, ClaimLost(w)
        PROVE  IInv'
    <2>1. TypeOK'
      <3>1. tasks' \in [Tasks -> Task]
        BY <1>4, ReturnType DEF ClaimLost, IInv
      <3>2. QED
        BY <1>4, <3>1 DEF ClaimLost, IInv, TypeOK
    <2>2. LocalsSet'
      BY <1>4 DEF ClaimLost, Return, IInv, TypeOK, Task, LocalsSet, Idle
    <2>3. RowHolder'
      <3>1. \A q \in Runs : runs[q].lockedBy # w
        BY <1>4 DEF ClaimLost, Return, IInv, RowHolder, Idle
      <3>2. \A v \in Tasks \ {w} : tasks'[v] = tasks[v]
        BY <1>4 DEF ClaimLost, Return, IInv, TypeOK
      <3>3. UNCHANGED runs
        BY <1>4 DEF ClaimLost, Return
      <3>4. QED
        BY <3>1, <3>2, <3>3 DEF IInv, TypeOK, Row, RowHolder
    <2>4. Recorder'
      BY <1>4 DEF ClaimLost, Return, IInv, TypeOK, Row, Task, LocalsSet, RowHolder, Recorder,
                  Idle, Conclusion, NotifiedOnceOnFailure
    <2>5. (ResultIsNewestAttempts /\ LogMatchesResult /\ NotifiedOnceOnFailure)'
      BY <1>4 DEF ClaimLost, Return, IInv, TypeOK, Row, Task, LocalsSet, RowHolder, Recorder,
                  Idle, Terminal, Conclusion, ResultIsNewestAttempts,
                  LogMatchesResult, NotifiedOnceOnFailure
    <2>6. Unclaimed'
      BY <1>4 DEF ClaimLost, Return, IInv, TypeOK, Row, Unclaimed, RowHolder, LocalsSet, Conclusion
    <2>7. QED
      BY <2>1, <2>2, <2>3, <2>4, <2>5, <2>6 DEF IInv
  <1>5. ASSUME NEW w \in Tasks, ClaimFails(w)
        PROVE  IInv'
    <2>1. TypeOK'
      <3>1. tasks' \in [Tasks -> Task]
        BY <1>5, ReturnType DEF ClaimFails, IInv
      <3>2. faults' \in 0 .. MaxFaults
        BY <1>5, FaultType DEF ClaimFails, IInv
      <3>3. QED
        BY <1>5, <3>1, <3>2 DEF ClaimFails, IInv, TypeOK
    <2>2. LocalsSet'
      BY <1>5 DEF ClaimFails, Return, Fault, IInv, TypeOK, Task, LocalsSet, Idle
    <2>3. RowHolder'
      <3>1. \A q \in Runs : runs[q].lockedBy # w
        BY <1>5 DEF ClaimFails, Return, Fault, IInv, RowHolder, Idle
      <3>2. \A v \in Tasks \ {w} : tasks'[v] = tasks[v]
        BY <1>5 DEF ClaimFails, Return, Fault, IInv, TypeOK
      <3>3. UNCHANGED runs
        BY <1>5 DEF ClaimFails, Return, Fault
      <3>4. QED
        BY <3>1, <3>2, <3>3 DEF IInv, TypeOK, Row, RowHolder
    <2>4. Recorder'
      BY <1>5 DEF ClaimFails, Return, Fault, IInv, TypeOK, Row, Task, LocalsSet, RowHolder, Recorder,
                  Idle, Conclusion, NotifiedOnceOnFailure
    <2>5. (ResultIsNewestAttempts /\ LogMatchesResult /\ NotifiedOnceOnFailure)'
      BY <1>5 DEF ClaimFails, Return, Fault, IInv, TypeOK, Row, Task, LocalsSet, RowHolder, Recorder,
                  Idle, Terminal, Conclusion, ResultIsNewestAttempts,
                  LogMatchesResult, NotifiedOnceOnFailure
    <2>6. Unclaimed'
      BY <1>5 DEF ClaimFails, Return, Fault, IInv, TypeOK, Row, Unclaimed, RowHolder, LocalsSet, Conclusion
    <2>7. QED
      BY <2>1, <2>2, <2>3, <2>4, <2>5, <2>6 DEF IInv
  <1>6. ASSUME NEW w \in Tasks, PostPending(w)
        PROVE  IInv'
    <2>1. TypeOK'
      <3>1. tasks' \in [Tasks -> Task]
        BY <1>6, GotoType DEF PostPending, IInv, Label
      <3>2. forgejo' \in [Commits -> Status]
        BY <1>6, PostType DEF PostPending, IInv, Conclusion
      <3>3. QED
        BY <1>6, <3>1, <3>2 DEF PostPending, IInv, TypeOK
    <2>2. LocalsSet'
      BY <1>6 DEF PostPending, Goto, IInv, TypeOK, Task, LocalsSet, Idle
    <2>3. RowHolder'
      BY <1>6 DEF PostPending, Goto, IInv, TypeOK, Row, Task, LocalsSet, RowHolder, Recorder, Idle
    <2>4. Recorder'
      BY <1>6 DEF PostPending, Goto, IInv, TypeOK, Row, Task, LocalsSet, RowHolder, Recorder,
                  Idle, Conclusion, NotifiedOnceOnFailure
    <2>5. (ResultIsNewestAttempts /\ LogMatchesResult /\ NotifiedOnceOnFailure)'
      BY <1>6 DEF PostPending, Goto, IInv, TypeOK, Row, Task, LocalsSet, RowHolder, Recorder,
                  Idle, Terminal, Conclusion, ResultIsNewestAttempts,
                  LogMatchesResult, NotifiedOnceOnFailure
    <2>6. Unclaimed'
      BY <1>6 DEF PostPending, Goto, IInv, TypeOK, Row, Unclaimed, RowHolder, LocalsSet, Conclusion
    <2>7. QED
      BY <2>1, <2>2, <2>3, <2>4, <2>5, <2>6 DEF IInv
  <1>7. ASSUME NEW w \in Tasks, PostPendingFails(w)
        PROVE  IInv'
    <2>1. TypeOK'
      <3>1. tasks' \in [Tasks -> Task]
        BY <1>7, GotoType DEF PostPendingFails, IInv, Label
      <3>2. faults' \in 0 .. MaxFaults
        BY <1>7, FaultType DEF PostPendingFails, IInv
      <3>3. QED
        BY <1>7, <3>1, <3>2 DEF PostPendingFails, IInv, TypeOK
    <2>2. LocalsSet'
      BY <1>7 DEF PostPendingFails, Goto, Fault, IInv, TypeOK, Task, LocalsSet, Idle
    <2>3. RowHolder'
      BY <1>7 DEF PostPendingFails, Goto, Fault, IInv, TypeOK, Row, Task, LocalsSet, RowHolder, Recorder, Idle
    <2>4. Recorder'
      BY <1>7 DEF PostPendingFails, Goto, Fault, IInv, TypeOK, Row, Task, LocalsSet, RowHolder, Recorder,
                  Idle, Conclusion, NotifiedOnceOnFailure
    <2>5. (ResultIsNewestAttempts /\ LogMatchesResult /\ NotifiedOnceOnFailure)'
      BY <1>7 DEF PostPendingFails, Goto, Fault, IInv, TypeOK, Row, Task, LocalsSet, RowHolder, Recorder,
                  Idle, Terminal, Conclusion, ResultIsNewestAttempts,
                  LogMatchesResult, NotifiedOnceOnFailure
    <2>6. Unclaimed'
      BY <1>7 DEF PostPendingFails, Goto, Fault, IInv, TypeOK, Row, Unclaimed, RowHolder, LocalsSet, Conclusion
    <2>7. QED
      BY <2>1, <2>2, <2>3, <2>4, <2>5, <2>6 DEF IInv
  <1>8. ASSUME NEW w \in Tasks, NEW res \in Conclusion, Execute(w, res)
        PROVE  IInv'
    <2>1. TypeOK'
      <3>1. tasks[w] \in Task
        BY DEF IInv, TypeOK
      <3>2. \A b \in {"off", "draining"} :
             [tasks[w] EXCEPT !.pc = "finishing", !.result = res, !.beat = b] \in Task
        BY <3>1 DEF Task, Label
      <3>3. tasks' \in [Tasks -> Task]
        BY <1>8, <3>2 DEF Execute, IInv, TypeOK
      <3>4. QED
        BY <1>8, <3>1, <3>2, <3>3 DEF Execute, IInv, TypeOK
    <2>2. LocalsSet'
      BY <1>8 DEF Execute, IInv, TypeOK, Task, LocalsSet, Idle
    <2>3. RowHolder'
      BY <1>8, SMTT(40) DEF Execute, IInv, TypeOK, Row, Task, LocalsSet, RowHolder, Recorder, Idle
    <2>4. Recorder'
      BY <1>8 DEF Execute, IInv, TypeOK, Row, Task, LocalsSet, RowHolder, Recorder,
                  Idle, Conclusion, NotifiedOnceOnFailure
    <2>5. (ResultIsNewestAttempts /\ LogMatchesResult /\ NotifiedOnceOnFailure)'
      BY <1>8 DEF Execute, IInv, TypeOK, Row, Task, LocalsSet, RowHolder, Recorder,
                  Idle, Terminal, Conclusion, ResultIsNewestAttempts,
                  LogMatchesResult, NotifiedOnceOnFailure
    <2>6. Unclaimed'
      BY <1>8 DEF Execute, IInv, TypeOK, Row, Unclaimed, RowHolder, LocalsSet, Conclusion
    <2>7. QED
      BY <2>1, <2>2, <2>3, <2>4, <2>5, <2>6 DEF IInv
  <1>9. ASSUME NEW w \in Tasks, FinishRun(w)
        PROVE  IInv'
    <2>1. TypeOK'
      <3>1. tasks' \in [Tasks -> Task]
        BY <1>9, GotoType DEF FinishRun, RecordRow, IInv, Label
      <3>2. tasks[w].run \in Runs /\ tasks[w].result \in Conclusion /\ tasks[w].attempt \in Nat
        BY <1>9 DEF IInv, TypeOK, LocalsSet, Task, FinishRun, RecordRow
      <3>3. runs[tasks[w].run] \in Row
        BY <3>2 DEF IInv, TypeOK
      <3>4. runs' \in [Runs -> Row]
        BY <1>9, <3>2, <3>3 DEF FinishRun, RecordRow, IInv, TypeOK, Row, RunStatus
      <3>5. QED
        BY <1>9, <3>1, <3>2, <3>3, <3>4 DEF FinishRun, RecordRow, IInv, TypeOK
    <2>2. LocalsSet'
      BY <1>9 DEF FinishRun, RecordRow, Holds, Goto, IInv, TypeOK, Task, LocalsSet, Idle
    <2>3. RowHolder'
      BY <1>9 DEF FinishRun, RecordRow, Holds, Goto, IInv, TypeOK, Row, Task, LocalsSet, RowHolder, Recorder, Idle
    <2>4. Recorder'
      <3>1. tasks[w].run \in Runs /\ tasks[w].result \in Conclusion
        BY <1>9 DEF FinishRun, RecordRow, Holds, Goto, IInv, LocalsSet
      <3>a. runs[tasks[w].run].status = "running"
        BY <1>9, <3>1 DEF FinishRun, RecordRow, Holds, IInv, RowHolder
      <3>2. /\ runs[tasks[w].run].status = "running"
            /\ notified[tasks[w].run] = 0
        BY <3>1, <3>a DEF IInv, TypeOK, NotifiedOnceOnFailure
      <3>3. \A v \in Tasks : tasks[v].pc \in {"logging", "notifying"} =>
              tasks[v].run # tasks[w].run
        BY <3>1, <3>2 DEF IInv, Recorder, LocalsSet, Conclusion
      <3>4. \A v \in Tasks \ {w} : tasks'[v] = tasks[v]
        BY <1>9 DEF FinishRun, RecordRow, Holds, Goto, IInv, TypeOK
      <3>5. \A q \in Runs \ {tasks[w].run} : runs'[q] = runs[q]
        BY <1>9 DEF FinishRun, RecordRow, Holds, Goto, IInv, TypeOK
      <3>6. /\ runs'[tasks[w].run].status = tasks[w].result
            /\ runs'[tasks[w].run].recorded = tasks[w].attempt
        BY <1>9, <3>1 DEF FinishRun, RecordRow, Holds, Goto, IInv, TypeOK, Row
      <3>7. /\ tasks'[w].run = tasks[w].run
            /\ tasks'[w].pc = "logging"
            /\ tasks'[w].attempt = tasks[w].attempt
            /\ tasks'[w].result = tasks[w].result
        BY <1>9 DEF FinishRun, RecordRow, Holds, Goto, IInv, TypeOK, Task
      <3>8. UNCHANGED notified
        BY <1>9 DEF FinishRun, RecordRow, Holds, Goto
      <3>9. QED
        BY <3>1, <3>2, <3>3, <3>4, <3>5, <3>6, <3>7, <3>8
        DEF IInv, Recorder, LocalsSet
    <2>5. (ResultIsNewestAttempts /\ LogMatchesResult /\ NotifiedOnceOnFailure)'
      BY <1>9 DEF FinishRun, RecordRow, Holds, Goto, IInv, TypeOK, Row, Task, LocalsSet, RowHolder, Recorder,
                  Idle, Terminal, Conclusion, ResultIsNewestAttempts,
                  LogMatchesResult, NotifiedOnceOnFailure
    <2>6. Unclaimed'
      BY <1>9 DEF FinishRun, RecordRow, Holds, Goto, IInv, TypeOK, Row, Unclaimed, RowHolder, LocalsSet, Conclusion
    <2>7. QED
      BY <2>1, <2>2, <2>3, <2>4, <2>5, <2>6 DEF IInv
  <1>10. ASSUME NEW w \in Tasks, FinishStale(w)
        PROVE  IInv'
    <2>1. TypeOK'
      <3>1. tasks' \in [Tasks -> Task]
        BY <1>10, GotoType DEF FinishStale, IInv, Label
      <3>2. QED
        BY <1>10, <3>1 DEF FinishStale, IInv, TypeOK
    <2>2. LocalsSet'
      BY <1>10 DEF FinishStale, Goto, IInv, TypeOK, Task, LocalsSet, Idle
    <2>3. RowHolder'
      BY <1>10 DEF FinishStale, Goto, IInv, TypeOK, Row, Task, LocalsSet, RowHolder, Recorder, Idle
    <2>4. Recorder'
      BY <1>10 DEF FinishStale, Goto, IInv, TypeOK, Row, Task, LocalsSet, RowHolder, Recorder,
                  Idle, Conclusion, NotifiedOnceOnFailure
    <2>5. (ResultIsNewestAttempts /\ LogMatchesResult /\ NotifiedOnceOnFailure)'
      BY <1>10 DEF FinishStale, Goto, IInv, TypeOK, Row, Task, LocalsSet, RowHolder, Recorder,
                  Idle, Terminal, Conclusion, ResultIsNewestAttempts,
                  LogMatchesResult, NotifiedOnceOnFailure
    <2>6. Unclaimed'
      BY <1>10 DEF FinishStale, Goto, IInv, TypeOK, Row, Unclaimed, RowHolder, LocalsSet, Conclusion
    <2>7. QED
      BY <2>1, <2>2, <2>3, <2>4, <2>5, <2>6 DEF IInv
  <1>11. ASSUME NEW w \in Tasks, FinishFails(w)
        PROVE  IInv'
    <2>1. TypeOK'
      <3>1. tasks' \in [Tasks -> Task]
        BY <1>11, GotoType DEF FinishFails, IInv, Label
      <3>2. faults' \in 0 .. MaxFaults
        BY <1>11, FaultType DEF FinishFails, IInv
      <3>3. QED
        BY <1>11, <3>1, <3>2 DEF FinishFails, IInv, TypeOK
    <2>2. LocalsSet'
      BY <1>11 DEF FinishFails, Goto, Fault, IInv, TypeOK, Task, LocalsSet, Idle
    <2>3. RowHolder'
      BY <1>11 DEF FinishFails, Goto, Fault, IInv, TypeOK, Row, Task, LocalsSet, RowHolder, Recorder, Idle
    <2>4. Recorder'
      BY <1>11 DEF FinishFails, Goto, Fault, IInv, TypeOK, Row, Task, LocalsSet, RowHolder, Recorder,
                  Idle, Conclusion, NotifiedOnceOnFailure
    <2>5. (ResultIsNewestAttempts /\ LogMatchesResult /\ NotifiedOnceOnFailure)'
      BY <1>11 DEF FinishFails, Goto, Fault, IInv, TypeOK, Row, Task, LocalsSet, RowHolder, Recorder,
                  Idle, Terminal, Conclusion, ResultIsNewestAttempts,
                  LogMatchesResult, NotifiedOnceOnFailure
    <2>6. Unclaimed'
      BY <1>11 DEF FinishFails, Goto, Fault, IInv, TypeOK, Row, Unclaimed, RowHolder, LocalsSet, Conclusion
    <2>7. QED
      BY <2>1, <2>2, <2>3, <2>4, <2>5, <2>6 DEF IInv
  <1>12. ASSUME NEW w \in Tasks, WriteLog(w)
        PROVE  IInv'
    <2>1. TypeOK'
      <3>1. AfterLog(w) \in Label
        BY DEF AfterLog, Label
      <3>2. tasks' \in [Tasks -> Task]
        BY <1>12, <3>1, GotoType DEF WriteLog, IInv
      <3>3. logs' \in [Runs -> Nat]
        BY <1>12 DEF WriteLog, IInv, TypeOK, Task
      <3>4. QED
        BY <1>12, <3>1, <3>2, <3>3 DEF WriteLog, IInv, TypeOK
    <2>2. LocalsSet'
      BY <1>12 DEF WriteLog, AfterLog, Goto, IInv, TypeOK, Task, LocalsSet, Idle
    <2>3. RowHolder'
      <3>1. \A q \in Runs : runs[q].lockedBy # w
        BY <1>12 DEF WriteLog, IInv, RowHolder, Idle
      <3>2. \A v \in Tasks \ {w} : tasks'[v] = tasks[v]
        BY <1>12 DEF WriteLog, Goto, IInv, TypeOK
      <3>3. UNCHANGED runs
        BY <1>12 DEF WriteLog
      <3>4. QED
        BY <3>1, <3>2, <3>3 DEF IInv, TypeOK, Row, RowHolder
    <2>4. Recorder'
      BY <1>12 DEF WriteLog, AfterLog, Goto, IInv, TypeOK, Row, Task, LocalsSet, RowHolder, Recorder,
                  Idle, Conclusion, NotifiedOnceOnFailure
    <2>5. (ResultIsNewestAttempts /\ LogMatchesResult /\ NotifiedOnceOnFailure)'
      BY <1>12 DEF WriteLog, AfterLog, Goto, IInv, TypeOK, Row, Task, LocalsSet, RowHolder, Recorder,
                  Idle, Terminal, Conclusion, ResultIsNewestAttempts,
                  LogMatchesResult, NotifiedOnceOnFailure
    <2>6. Unclaimed'
      BY <1>12 DEF WriteLog, AfterLog, Goto, IInv, TypeOK, Row, Unclaimed, RowHolder, LocalsSet, Conclusion
    <2>7. QED
      BY <2>1, <2>2, <2>3, <2>4, <2>5, <2>6 DEF IInv
  <1>13. ASSUME NEW w \in Tasks, WriteLogFails(w)
        PROVE  IInv'
    <2>1. TypeOK'
      <3>1. AfterLog(w) \in Label
        BY DEF AfterLog, Label
      <3>2. tasks' \in [Tasks -> Task]
        BY <1>13, <3>1, GotoType DEF WriteLogFails, IInv
      <3>3. faults' \in 0 .. MaxFaults
        BY <1>13, FaultType DEF WriteLogFails, IInv
      <3>4. QED
        BY <1>13, <3>1, <3>2, <3>3 DEF WriteLogFails, IInv, TypeOK
    <2>2. LocalsSet'
      BY <1>13 DEF WriteLogFails, AfterLog, Goto, Fault, IInv, TypeOK, Task, LocalsSet, Idle
    <2>3. RowHolder'
      <3>1. \A q \in Runs : runs[q].lockedBy # w
        BY <1>13 DEF WriteLogFails, IInv, RowHolder, Idle
      <3>2. \A v \in Tasks \ {w} : tasks'[v] = tasks[v]
        BY <1>13 DEF WriteLogFails, Goto, IInv, TypeOK
      <3>3. UNCHANGED runs
        BY <1>13 DEF WriteLogFails
      <3>4. QED
        BY <3>1, <3>2, <3>3 DEF IInv, TypeOK, Row, RowHolder
    <2>4. Recorder'
      BY <1>13 DEF WriteLogFails, AfterLog, Goto, Fault, IInv, TypeOK, Row, Task, LocalsSet, RowHolder, Recorder,
                  Idle, Conclusion, NotifiedOnceOnFailure
    <2>5. (ResultIsNewestAttempts /\ LogMatchesResult /\ NotifiedOnceOnFailure)'
      BY <1>13 DEF WriteLogFails, AfterLog, Goto, Fault, IInv, TypeOK, Row, Task, LocalsSet, RowHolder, Recorder,
                  Idle, Terminal, Conclusion, ResultIsNewestAttempts,
                  LogMatchesResult, NotifiedOnceOnFailure
    <2>6. Unclaimed'
      BY <1>13 DEF WriteLogFails, AfterLog, Goto, Fault, IInv, TypeOK, Row, Unclaimed, RowHolder, LocalsSet, Conclusion
    <2>7. QED
      BY <2>1, <2>2, <2>3, <2>4, <2>5, <2>6 DEF IInv
  <1>14. ASSUME NEW w \in Tasks, Notify(w)
        PROVE  IInv'
    <2>1. TypeOK'
      <3>1. tasks' \in [Tasks -> Task]
        BY <1>14, GotoType DEF Notify, IInv, Label
      <3>2. tasks[w].run \in Runs
        BY <1>14 DEF Notify, IInv, LocalsSet
      <3>3. notified[tasks[w].run] + 1 \in Nat
        BY <3>2 DEF IInv, TypeOK
      <3>4. notified' \in [Runs -> Nat]
        BY <1>14, <3>2, <3>3 DEF Notify, IInv, TypeOK
      <3>5. QED
        BY <1>14, <3>1, <3>2, <3>3, <3>4 DEF Notify, IInv, TypeOK
    <2>2. LocalsSet'
      BY <1>14 DEF Notify, Goto, IInv, TypeOK, Task, LocalsSet, Idle
    <2>3. RowHolder'
      BY <1>14 DEF Notify, Goto, IInv, TypeOK, Row, Task, LocalsSet, RowHolder, Recorder, Idle
    <2>4. Recorder'
      BY <1>14 DEF Notify, Goto, IInv, TypeOK, Row, Task, LocalsSet, RowHolder, Recorder,
                  Idle, Conclusion, NotifiedOnceOnFailure
    <2>5. (ResultIsNewestAttempts /\ LogMatchesResult /\ NotifiedOnceOnFailure)'
      BY <1>14 DEF Notify, Goto, IInv, TypeOK, Row, Task, LocalsSet, RowHolder, Recorder,
                  Idle, Terminal, Conclusion, ResultIsNewestAttempts,
                  LogMatchesResult, NotifiedOnceOnFailure
    <2>6. Unclaimed'
      BY <1>14 DEF Notify, Goto, IInv, TypeOK, Row, Unclaimed, RowHolder, LocalsSet, Conclusion
    <2>7. QED
      BY <2>1, <2>2, <2>3, <2>4, <2>5, <2>6 DEF IInv
  <1>15. ASSUME NEW w \in Tasks, NotifyFails(w)
        PROVE  IInv'
    <2>1. TypeOK'
      <3>1. tasks' \in [Tasks -> Task]
        BY <1>15, GotoType DEF NotifyFails, IInv, Label
      <3>2. faults' \in 0 .. MaxFaults
        BY <1>15, FaultType DEF NotifyFails, IInv
      <3>3. QED
        BY <1>15, <3>1, <3>2 DEF NotifyFails, IInv, TypeOK
    <2>2. LocalsSet'
      BY <1>15 DEF NotifyFails, Goto, Fault, IInv, TypeOK, Task, LocalsSet, Idle
    <2>3. RowHolder'
      BY <1>15 DEF NotifyFails, Goto, Fault, IInv, TypeOK, Row, Task, LocalsSet, RowHolder, Recorder, Idle
    <2>4. Recorder'
      BY <1>15 DEF NotifyFails, Goto, Fault, IInv, TypeOK, Row, Task, LocalsSet, RowHolder, Recorder,
                  Idle, Conclusion, NotifiedOnceOnFailure
    <2>5. (ResultIsNewestAttempts /\ LogMatchesResult /\ NotifiedOnceOnFailure)'
      BY <1>15 DEF NotifyFails, Goto, Fault, IInv, TypeOK, Row, Task, LocalsSet, RowHolder, Recorder,
                  Idle, Terminal, Conclusion, ResultIsNewestAttempts,
                  LogMatchesResult, NotifiedOnceOnFailure
    <2>6. Unclaimed'
      BY <1>15 DEF NotifyFails, Goto, Fault, IInv, TypeOK, Row, Unclaimed, RowHolder, LocalsSet, Conclusion
    <2>7. QED
      BY <2>1, <2>2, <2>3, <2>4, <2>5, <2>6 DEF IInv
  <1>16. ASSUME NEW w \in Tasks, PostFinal(w)
        PROVE  IInv'
    <2>1. TypeOK'
      <3>1. tasks' \in [Tasks -> Task]
        BY <1>16, ReturnType DEF PostFinal, IInv
      <3>2. tasks[w].result \in Conclusion
        BY <1>16 DEF PostFinal, IInv, LocalsSet
      <3>3. forgejo' \in [Commits -> Status]
        BY <1>16, <3>2, PostType DEF PostFinal, IInv
      <3>4. QED
        BY <1>16, <3>1, <3>2, <3>3 DEF PostFinal, IInv, TypeOK
    <2>2. LocalsSet'
      BY <1>16 DEF PostFinal, Return, IInv, TypeOK, Task, LocalsSet, Idle
    <2>3. RowHolder'
      BY <1>16 DEF PostFinal, Return, IInv, TypeOK, Row, Task, LocalsSet, RowHolder, Recorder, Idle
    <2>4. Recorder'
      BY <1>16 DEF PostFinal, Return, IInv, TypeOK, Row, Task, LocalsSet, RowHolder, Recorder,
                  Idle, Conclusion, NotifiedOnceOnFailure
    <2>5. (ResultIsNewestAttempts /\ LogMatchesResult /\ NotifiedOnceOnFailure)'
      BY <1>16 DEF PostFinal, Return, IInv, TypeOK, Row, Task, LocalsSet, RowHolder, Recorder,
                  Idle, Terminal, Conclusion, ResultIsNewestAttempts,
                  LogMatchesResult, NotifiedOnceOnFailure
    <2>6. Unclaimed'
      BY <1>16 DEF PostFinal, Return, IInv, TypeOK, Row, Unclaimed, RowHolder, LocalsSet, Conclusion
    <2>7. QED
      BY <2>1, <2>2, <2>3, <2>4, <2>5, <2>6 DEF IInv
  <1>17. ASSUME NEW w \in Tasks, PostFinalFails(w)
        PROVE  IInv'
    <2>1. TypeOK'
      <3>1. tasks' \in [Tasks -> Task]
        BY <1>17, ReturnType DEF PostFinalFails, IInv
      <3>2. faults' \in 0 .. MaxFaults
        BY <1>17, FaultType DEF PostFinalFails, IInv
      <3>3. QED
        BY <1>17, <3>1, <3>2 DEF PostFinalFails, IInv, TypeOK
    <2>2. LocalsSet'
      BY <1>17 DEF PostFinalFails, Return, Fault, IInv, TypeOK, Task, LocalsSet, Idle
    <2>3. RowHolder'
      BY <1>17 DEF PostFinalFails, Return, Fault, IInv, TypeOK, Row, Task, LocalsSet, RowHolder, Recorder, Idle
    <2>4. Recorder'
      BY <1>17 DEF PostFinalFails, Return, Fault, IInv, TypeOK, Row, Task, LocalsSet, RowHolder, Recorder,
                  Idle, Conclusion, NotifiedOnceOnFailure
    <2>5. (ResultIsNewestAttempts /\ LogMatchesResult /\ NotifiedOnceOnFailure)'
      BY <1>17 DEF PostFinalFails, Return, Fault, IInv, TypeOK, Row, Task, LocalsSet, RowHolder, Recorder,
                  Idle, Terminal, Conclusion, ResultIsNewestAttempts,
                  LogMatchesResult, NotifiedOnceOnFailure
    <2>6. Unclaimed'
      BY <1>17 DEF PostFinalFails, Return, Fault, IInv, TypeOK, Row, Unclaimed, RowHolder, LocalsSet, Conclusion
    <2>7. QED
      BY <2>1, <2>2, <2>3, <2>4, <2>5, <2>6 DEF IInv
  <1>18. ASSUME NEW w \in Tasks, Renew(w)
        PROVE  IInv'
    <2>1. TypeOK'
      <3>1. tasks' \in [Tasks -> Task]
        BY <1>18, StopBeatType DEF Renew, IInv, TypeOK
      <3>2. tasks[w].run \in Runs
        BY <1>18 DEF Renew, IInv, LocalsSet
      <3>3. [runs[tasks[w].run] EXCEPT !.lease = "live"] \in Row
        BY <3>2 DEF IInv, TypeOK, Row
      <3>4. runs' \in [Runs -> Row]
        BY <1>18, <3>2, <3>3 DEF Renew, IInv, TypeOK
      <3>5. QED
        BY <1>18, <3>1, <3>2, <3>3, <3>4 DEF Renew, IInv, TypeOK
    <2>2. LocalsSet'
      BY <1>18, SMTT(40) DEF Renew, Holds, StopBeat, IInv, TypeOK, Task, LocalsSet, Idle
    <2>3. RowHolder'
      <3>1. tasks[w].run \in Runs
        BY <1>18 DEF Renew, Holds, StopBeat, IInv, LocalsSet
      <3>2. \A q \in Runs : /\ runs'[q].status = runs[q].status
                            /\ runs'[q].attempt = runs[q].attempt
                            /\ runs'[q].lockedBy = runs[q].lockedBy
                            /\ runs'[q].lease = runs[q].lease \/ runs'[q].lease = "live"
                            /\ runs[q].lockedBy \in Tasks \cup {None}
        BY <1>18, <3>1 DEF Renew, Holds, StopBeat, IInv, TypeOK, Row
      <3>3. \A v \in Tasks :
              \/ tasks'[v] = Idle
              \/ /\ tasks'[v].run = tasks[v].run
                 /\ tasks'[v].attempt = tasks[v].attempt
                 /\ tasks'[v].pc = tasks[v].pc
                 /\ tasks[v] # Idle
        BY <1>18 DEF Renew, Holds, StopBeat, IInv, TypeOK, Task, Idle
      <3>4. RowHolder
        BY DEF IInv
      <3>5. ASSUME NEW q \in Runs, runs'[q].lockedBy # None
            PROVE  /\ runs'[q].status = "running" /\ runs'[q].lease # "null" /\ runs'[q].attempt > 0
                   /\ \/ tasks'[runs'[q].lockedBy] = Idle
                      \/ /\ tasks'[runs'[q].lockedBy].run = q
                         /\ tasks'[runs'[q].lockedBy].attempt = runs'[q].attempt
                         /\ tasks'[runs'[q].lockedBy].pc \notin {"dispatched", "logging", "notifying"}
        <4>1. runs[q].lockedBy \in Tasks /\ runs'[q].lockedBy = runs[q].lockedBy
          BY <3>2, <3>5
        <4>2. QED
          BY <3>2, <3>3, <3>4, <4>1 DEF RowHolder
      <3>6. QED
        BY <3>5 DEF RowHolder
    <2>4. Recorder'
      <3>1. tasks[w].run \in Runs
        BY <1>18 DEF Renew, Holds, StopBeat, IInv, LocalsSet
      <3>2. \A q \in Runs : /\ runs'[q].status = runs[q].status
                           /\ runs'[q].recorded = runs[q].recorded
        BY <1>18, <3>1 DEF Renew, Holds, StopBeat, IInv, TypeOK, Row
      <3>3. \A v \in Tasks : tasks'[v].pc \in {"logging", "notifying"} =>
              /\ tasks'[v].pc = tasks[v].pc
              /\ tasks'[v].run = tasks[v].run
              /\ tasks'[v].attempt = tasks[v].attempt
              /\ tasks'[v].result = tasks[v].result
        BY <1>18 DEF Renew, Holds, StopBeat, IInv, TypeOK, Task, Idle
      <3>4. UNCHANGED notified
        BY <1>18 DEF Renew, Holds, StopBeat
      <3>5. QED
        BY <3>2, <3>3, <3>4 DEF IInv, Recorder, LocalsSet
    <2>5. (ResultIsNewestAttempts /\ LogMatchesResult /\ NotifiedOnceOnFailure)'
      BY <1>18 DEF Renew, Holds, StopBeat, IInv, TypeOK, Row, Task, LocalsSet, RowHolder, Recorder,
                  Idle, Terminal, Conclusion, ResultIsNewestAttempts,
                  LogMatchesResult, NotifiedOnceOnFailure
    <2>6. Unclaimed'
      BY <1>18 DEF Renew, Holds, StopBeat, IInv, TypeOK, Row, Unclaimed, RowHolder, LocalsSet, Conclusion
    <2>7. QED
      BY <2>1, <2>2, <2>3, <2>4, <2>5, <2>6 DEF IInv
  <1>19. ASSUME NEW w \in Tasks, RenewLost(w)
        PROVE  IInv'
    <2>1. TypeOK'
      <3>1. tasks' \in [Tasks -> Task]
        BY <1>19, StopBeatType DEF RenewLost, IInv
      <3>2. QED
        BY <1>19, <3>1 DEF RenewLost, IInv, TypeOK
    <2>2. LocalsSet'
      BY <1>19 DEF RenewLost, StopBeat, IInv, TypeOK, Task, LocalsSet, Idle
    <2>3. RowHolder'
      BY <1>19 DEF RenewLost, StopBeat, IInv, TypeOK, Row, Task, LocalsSet, RowHolder, Recorder, Idle
    <2>4. Recorder'
      BY <1>19 DEF RenewLost, StopBeat, IInv, TypeOK, Row, Task, LocalsSet, RowHolder, Recorder,
                  Idle, Conclusion, NotifiedOnceOnFailure
    <2>5. (ResultIsNewestAttempts /\ LogMatchesResult /\ NotifiedOnceOnFailure)'
      BY <1>19 DEF RenewLost, StopBeat, IInv, TypeOK, Row, Task, LocalsSet, RowHolder, Recorder,
                  Idle, Terminal, Conclusion, ResultIsNewestAttempts,
                  LogMatchesResult, NotifiedOnceOnFailure
    <2>6. Unclaimed'
      BY <1>19 DEF RenewLost, StopBeat, IInv, TypeOK, Row, Unclaimed, RowHolder, LocalsSet, Conclusion
    <2>7. QED
      BY <2>1, <2>2, <2>3, <2>4, <2>5, <2>6 DEF IInv
  <1>20. ASSUME NEW w \in Tasks, RenewFails(w)
        PROVE  IInv'
    <2>1. TypeOK'
      <3>1. tasks' \in [Tasks -> Task]
        BY <1>20, StopBeatType DEF RenewFails, IInv
      <3>2. faults' \in 0 .. MaxFaults
        BY <1>20, FaultType DEF RenewFails, IInv
      <3>3. QED
        BY <1>20, <3>1, <3>2 DEF RenewFails, IInv, TypeOK
    <2>2. LocalsSet'
      BY <1>20 DEF RenewFails, StopBeat, Fault, IInv, TypeOK, Task, LocalsSet, Idle
    <2>3. RowHolder'
      BY <1>20 DEF RenewFails, StopBeat, Fault, IInv, TypeOK, Row, Task, LocalsSet, RowHolder, Recorder, Idle
    <2>4. Recorder'
      BY <1>20 DEF RenewFails, StopBeat, Fault, IInv, TypeOK, Row, Task, LocalsSet, RowHolder, Recorder,
                  Idle, Conclusion, NotifiedOnceOnFailure
    <2>5. (ResultIsNewestAttempts /\ LogMatchesResult /\ NotifiedOnceOnFailure)'
      BY <1>20 DEF RenewFails, StopBeat, Fault, IInv, TypeOK, Row, Task, LocalsSet, RowHolder, Recorder,
                  Idle, Terminal, Conclusion, ResultIsNewestAttempts,
                  LogMatchesResult, NotifiedOnceOnFailure
    <2>6. Unclaimed'
      BY <1>20 DEF RenewFails, StopBeat, Fault, IInv, TypeOK, Row, Unclaimed, RowHolder, LocalsSet, Conclusion
    <2>7. QED
      BY <2>1, <2>2, <2>3, <2>4, <2>5, <2>6 DEF IInv
  <1>21. ASSUME NEW r \in Runs, LeaseExpires(r)
        PROVE  IInv'
    <2>1. TypeOK'
      <3>1. runs' \in [Runs -> Row]
        BY <1>21, ExpireType DEF LeaseExpires, IInv
      <3>2. QED
        BY <1>21, <3>1 DEF LeaseExpires, Expire, IInv, TypeOK
    <2>2. LocalsSet'
      BY <1>21 DEF LeaseExpires, Expire, IInv, TypeOK, Task, LocalsSet, Idle
    <2>3. RowHolder'
      BY <1>21 DEF LeaseExpires, Expire, IInv, TypeOK, Row, Task, LocalsSet, RowHolder, Recorder, Idle
    <2>4. Recorder'
      BY <1>21 DEF LeaseExpires, Expire, IInv, TypeOK, Row, Task, LocalsSet, RowHolder, Recorder,
                  Idle, Conclusion, NotifiedOnceOnFailure
    <2>5. (ResultIsNewestAttempts /\ LogMatchesResult /\ NotifiedOnceOnFailure)'
      BY <1>21 DEF LeaseExpires, Expire, IInv, TypeOK, Row, Task, LocalsSet, RowHolder, Recorder,
                  Idle, Terminal, Conclusion, ResultIsNewestAttempts,
                  LogMatchesResult, NotifiedOnceOnFailure
    <2>6. Unclaimed'
      BY <1>21 DEF LeaseExpires, Expire, IInv, TypeOK, Row, Unclaimed, RowHolder, LocalsSet, Conclusion
    <2>7. QED
      BY <2>1, <2>2, <2>3, <2>4, <2>5, <2>6 DEF IInv
  <1>22. ASSUME NEW r \in Runs, LeaseLapses(r)
        PROVE  IInv'
    <2>1. TypeOK'
      <3>1. runs' \in [Runs -> Row]
        BY <1>22, ExpireType DEF LeaseLapses, IInv
      <3>2. faults' \in 0 .. MaxFaults
        BY <1>22, FaultType DEF LeaseLapses, IInv
      <3>3. QED
        BY <1>22, <3>1, <3>2 DEF LeaseLapses, Expire, IInv, TypeOK
    <2>2. LocalsSet'
      BY <1>22 DEF LeaseLapses, Expire, Fault, IInv, TypeOK, Task, LocalsSet, Idle
    <2>3. RowHolder'
      BY <1>22 DEF LeaseLapses, Expire, Fault, IInv, TypeOK, Row, Task, LocalsSet, RowHolder, Recorder, Idle
    <2>4. Recorder'
      BY <1>22 DEF LeaseLapses, Expire, Fault, IInv, TypeOK, Row, Task, LocalsSet, RowHolder, Recorder,
                  Idle, Conclusion, NotifiedOnceOnFailure
    <2>5. (ResultIsNewestAttempts /\ LogMatchesResult /\ NotifiedOnceOnFailure)'
      BY <1>22 DEF LeaseLapses, Expire, Fault, IInv, TypeOK, Row, Task, LocalsSet, RowHolder, Recorder,
                  Idle, Terminal, Conclusion, ResultIsNewestAttempts,
                  LogMatchesResult, NotifiedOnceOnFailure
    <2>6. Unclaimed'
      BY <1>22 DEF LeaseLapses, Expire, Fault, IInv, TypeOK, Row, Unclaimed, RowHolder, LocalsSet, Conclusion
    <2>7. QED
      BY <2>1, <2>2, <2>3, <2>4, <2>5, <2>6 DEF IInv
  <1>23. ASSUME NEW g \in Gateways, Crash(g)
        PROVE  IInv'
    <2>1. TypeOK'
      BY <1>23, IdleType DEF Crash, Fault, IInv, TypeOK, Row, Task, Label, Status, RunStatus, Idle
    <2>2. LocalsSet'
      BY <1>23 DEF Crash, Fault, IInv, TypeOK, Task, LocalsSet, Idle
    <2>3. RowHolder'
      BY <1>23 DEF Crash, Fault, IInv, TypeOK, Row, Task, LocalsSet, RowHolder, Recorder, Idle
    <2>4. Recorder'
      BY <1>23 DEF Crash, Fault, IInv, TypeOK, Row, Task, LocalsSet, RowHolder, Recorder,
                  Idle, Conclusion, NotifiedOnceOnFailure
    <2>5. (ResultIsNewestAttempts /\ LogMatchesResult /\ NotifiedOnceOnFailure)'
      BY <1>23 DEF Crash, Fault, IInv, TypeOK, Row, Task, LocalsSet, RowHolder, Recorder,
                  Idle, Terminal, Conclusion, ResultIsNewestAttempts,
                  LogMatchesResult, NotifiedOnceOnFailure
    <2>6. Unclaimed'
      BY <1>23 DEF Crash, Fault, IInv, TypeOK, Row, Unclaimed, RowHolder, LocalsSet, Conclusion
    <2>7. QED
      BY <2>1, <2>2, <2>3, <2>4, <2>5, <2>6 DEF IInv
  <1>24. ASSUME NEW w \in Tasks, ClaimUnacknowledged(w)
        PROVE  IInv'
    <2>1. TypeOK'
      <3>1. tasks[w].run \in Runs /\ tasks[w] \in Task
        BY <1>24 DEF IInv, TypeOK, LocalsSet, ClaimUnacknowledged, TakeRow, Fault, Return
      <3>2. runs[tasks[w].run] \in Row /\ runs[tasks[w].run].attempt + 1 \in Nat
        BY <3>1 DEF IInv, TypeOK, Row
      <3>4. tasks' \in [Tasks -> Task]
        BY <1>24, ReturnType DEF ClaimUnacknowledged, IInv
      <3>3. faults' \in 0 .. MaxFaults
        BY <1>24, FaultType DEF ClaimUnacknowledged, IInv
      <3>5. [runs[tasks[w].run] EXCEPT !.status = "running", !.lockedBy = w, !.lease = "live",
               !.attempt = runs[tasks[w].run].attempt + 1]
             \in Row
        BY <3>1, <3>2 DEF Row, RunStatus
      <3>6. runs' \in [Runs -> Row]
        BY <1>24, <3>1, <3>5 DEF ClaimUnacknowledged, TakeRow, Fault, Return, IInv, TypeOK
      <3>7. QED
        BY <1>24, <3>1, <3>2, <3>3, <3>4, <3>5, <3>6 DEF ClaimUnacknowledged, TakeRow, Fault, Return, IInv, TypeOK
    <2>2. LocalsSet'
      BY <1>24 DEF ClaimUnacknowledged, TakeRow, Fault, Return, Claimable, IInv, TypeOK, Task, LocalsSet, Idle
    <2>3. RowHolder'
      <3>1. \A q \in Runs : runs[q].lockedBy # w
        BY <1>24 DEF ClaimUnacknowledged, TakeRow, Fault, Return, Claimable, IInv, RowHolder, Idle
      <3>2. \A v \in Tasks \ {w} : tasks'[v] = tasks[v]
        BY <1>24 DEF ClaimUnacknowledged, TakeRow, Fault, Return, Claimable, IInv, TypeOK
      <3>3. \A q \in Runs \ {tasks[w].run} : runs'[q] = runs[q]
        BY <1>24 DEF ClaimUnacknowledged, TakeRow, Fault, Return, Claimable, IInv, TypeOK
      <3>4. tasks[w].run \in Runs /\ runs[tasks[w].run].attempt \in Nat
        BY <1>24 DEF ClaimUnacknowledged, TakeRow, Fault, Return, Claimable, IInv, TypeOK, Row, LocalsSet
      <3>5. /\ runs'[tasks[w].run].lockedBy = w
            /\ runs'[tasks[w].run].status = "running"
            /\ runs'[tasks[w].run].lease = "live"
            /\ runs'[tasks[w].run].attempt = runs[tasks[w].run].attempt + 1
        BY <1>24, <3>4 DEF ClaimUnacknowledged, TakeRow, Fault, Return, Claimable, IInv, TypeOK, Row
      <3>6. tasks'[w] = Idle
        BY <1>24 DEF ClaimUnacknowledged, TakeRow, Return, IInv, TypeOK, LocalsSet
      <3>7. QED
        BY <3>1, <3>2, <3>3, <3>4, <3>5, <3>6 DEF IInv, TypeOK, Row, RowHolder
    <2>4. Recorder'
      BY <1>24 DEF ClaimUnacknowledged, TakeRow, Fault, Return, Claimable, IInv, TypeOK, Row, Task, LocalsSet, RowHolder, Recorder,
                  Idle, Conclusion, NotifiedOnceOnFailure
    <2>5. (ResultIsNewestAttempts /\ LogMatchesResult /\ NotifiedOnceOnFailure)'
      BY <1>24 DEF ClaimUnacknowledged, TakeRow, Fault, Return, Claimable, IInv, TypeOK, Row, Task, LocalsSet, RowHolder, Recorder,
                  Idle, Terminal, Conclusion, ResultIsNewestAttempts,
                  LogMatchesResult, NotifiedOnceOnFailure
    <2>6. Unclaimed'
      BY <1>24 DEF ClaimUnacknowledged, TakeRow, Fault, Return, Claimable, IInv, TypeOK, Row, Unclaimed, RowHolder, LocalsSet, Conclusion
    <2>7. QED
      BY <2>1, <2>2, <2>3, <2>4, <2>5, <2>6 DEF IInv
  <1>25. ASSUME NEW w \in Tasks, FinishUnacknowledged(w)
        PROVE  IInv'
    <2>1. TypeOK'
      <3>1. tasks' \in [Tasks -> Task]
        BY <1>25, GotoType DEF FinishUnacknowledged, RecordRow, Fault, IInv, Label
      <3>2. tasks[w].run \in Runs /\ tasks[w].result \in Conclusion /\ tasks[w].attempt \in Nat
        BY <1>25 DEF IInv, TypeOK, LocalsSet, Task, FinishUnacknowledged, RecordRow, Fault
      <3>3. runs[tasks[w].run] \in Row
        BY <3>2 DEF IInv, TypeOK
      <3>4. runs' \in [Runs -> Row]
        BY <1>25, <3>2, <3>3 DEF FinishUnacknowledged, RecordRow, Fault, IInv, TypeOK, Row, RunStatus
      <3>0. faults' \in 0 .. MaxFaults
        BY <1>25, FaultType DEF FinishUnacknowledged, IInv
      <3>5. QED
        BY <1>25, <3>0, <3>1, <3>2, <3>3, <3>4 DEF FinishUnacknowledged, RecordRow, Fault, IInv, TypeOK
    <2>2. LocalsSet'
      BY <1>25 DEF FinishUnacknowledged, RecordRow, Fault, Holds, Goto, IInv, TypeOK, Task, LocalsSet, Idle
    <2>3. RowHolder'
      BY <1>25 DEF FinishUnacknowledged, RecordRow, Fault, Holds, Goto, IInv, TypeOK, Row, Task, LocalsSet, RowHolder, Recorder, Idle
    <2>4. Recorder'
      <3>1. tasks[w].run \in Runs /\ tasks[w].result \in Conclusion
        BY <1>25 DEF FinishUnacknowledged, RecordRow, Fault, Holds, Goto, IInv, LocalsSet
      <3>a. runs[tasks[w].run].status = "running"
        BY <1>25, <3>1 DEF FinishUnacknowledged, RecordRow, Fault, Holds, IInv, RowHolder
      <3>2. /\ runs[tasks[w].run].status = "running"
            /\ notified[tasks[w].run] = 0
        BY <3>1, <3>a DEF IInv, TypeOK, NotifiedOnceOnFailure
      <3>3. \A v \in Tasks : tasks[v].pc \in {"logging", "notifying"} =>
              tasks[v].run # tasks[w].run
        BY <3>1, <3>2 DEF IInv, Recorder, LocalsSet, Conclusion
      <3>4. \A v \in Tasks \ {w} : tasks'[v] = tasks[v]
        BY <1>25 DEF FinishUnacknowledged, RecordRow, Fault, Holds, Goto, IInv, TypeOK
      <3>5. \A q \in Runs \ {tasks[w].run} : runs'[q] = runs[q]
        BY <1>25 DEF FinishUnacknowledged, RecordRow, Fault, Holds, Goto, IInv, TypeOK
      <3>6. /\ runs'[tasks[w].run].status = tasks[w].result
            /\ runs'[tasks[w].run].recorded = tasks[w].attempt
        BY <1>25, <3>1 DEF FinishUnacknowledged, RecordRow, Fault, Holds, Goto, IInv, TypeOK, Row
      <3>7. /\ tasks'[w].run = tasks[w].run
            /\ tasks'[w].pc = "reporting"
            /\ tasks'[w].attempt = tasks[w].attempt
            /\ tasks'[w].result = tasks[w].result
        BY <1>25 DEF FinishUnacknowledged, RecordRow, Fault, Holds, Goto, IInv, TypeOK, Task
      <3>8. UNCHANGED notified
        BY <1>25 DEF FinishUnacknowledged, RecordRow, Fault, Holds, Goto
      <3>9. QED
        BY <3>1, <3>2, <3>3, <3>4, <3>5, <3>6, <3>7, <3>8
        DEF IInv, Recorder, LocalsSet
    <2>5. (ResultIsNewestAttempts /\ LogMatchesResult /\ NotifiedOnceOnFailure)'
      BY <1>25 DEF FinishUnacknowledged, RecordRow, Fault, Holds, Goto, IInv, TypeOK, Row, Task, LocalsSet, RowHolder, Recorder,
                  Idle, Terminal, Conclusion, ResultIsNewestAttempts,
                  LogMatchesResult, NotifiedOnceOnFailure
    <2>6. Unclaimed'
      BY <1>25 DEF FinishUnacknowledged, RecordRow, Fault, Holds, Goto, IInv, TypeOK, Row, Unclaimed, RowHolder, LocalsSet, Conclusion
    <2>7. QED
      BY <2>1, <2>2, <2>3, <2>4, <2>5, <2>6 DEF IInv
  <1>26. ASSUME NEW w \in Tasks, Hang(w)
        PROVE  IInv'
    <2>1. TypeOK'
      <3>1. tasks' \in [Tasks -> Task]
        BY <1>26, HangType DEF Hang, IInv
      <3>2. faults' \in 0 .. MaxFaults
        BY <1>26, FaultType DEF Hang, IInv
      <3>3. QED
        BY <1>26, <3>1, <3>2 DEF Hang, IInv, TypeOK
    <2>2. LocalsSet'
      BY <1>26 DEF Hang, Fault, IInv, TypeOK, Task, LocalsSet, Idle
    <2>3. RowHolder'
      BY <1>26 DEF Hang, Fault, IInv, TypeOK, Row, Task, LocalsSet, RowHolder, Recorder, Idle
    <2>4. Recorder'
      BY <1>26 DEF Hang, Fault, IInv, TypeOK, Row, Task, LocalsSet, RowHolder, Recorder,
                  Idle, Conclusion, NotifiedOnceOnFailure
    <2>5. (ResultIsNewestAttempts /\ LogMatchesResult /\ NotifiedOnceOnFailure)'
      BY <1>26 DEF Hang, Fault, IInv, TypeOK, Row, Task, LocalsSet, RowHolder, Recorder,
                  Idle, Terminal, Conclusion, ResultIsNewestAttempts,
                  LogMatchesResult, NotifiedOnceOnFailure
    <2>6. Unclaimed'
      BY <1>26 DEF Hang, Fault, IInv, TypeOK, Row, Unclaimed, RowHolder, LocalsSet, Conclusion
    <2>7. QED
      BY <2>1, <2>2, <2>3, <2>4, <2>5, <2>6 DEF IInv
  <1>27. CASE UNCHANGED vars
    BY <1>27 DEF vars, IInv, TypeOK, Unclaimed, LocalsSet, RowHolder, Recorder, Terminal,
               ResultIsNewestAttempts, LogMatchesResult, NotifiedOnceOnFailure
  <1>28. QED
    BY <1>1, <1>2, <1>3, <1>4, <1>5, <1>6, <1>7, <1>8, <1>9, <1>10, <1>11, <1>12,
       <1>13, <1>14, <1>15, <1>16, <1>17, <1>18, <1>19, <1>20, <1>21, <1>22, <1>23, <1>24,
       <1>25, <1>26, <1>27
    DEF Next, TaskStep, TaskFault, Heartbeat

\* The inductive invariant holds throughout.
THEOREM InvariantHolds == Spec => []IInv
  BY InitIInv, StepIInv, PTL DEF Spec

-----------------------------------------------------------------------------
(* The properties the runs check *)

\* Every column and every local keeps its type. (actions.rs, ci.rs)
THEOREM TypeCorrect == Spec => []TypeOK
  <1>1. IInv => TypeOK
    BY DEF IInv
  <1>2. QED
    BY <1>1, InvariantHolds, PTL

\* A held row is running, leased, and held by its newest attempt. (claim_run)
THEOREM HolderTheorem == Spec => []LockMatchesHolder
  <1>1. IInv => LockMatchesHolder
    BY NoneAssumption DEF IInv, RowHolder, LockMatchesHolder, Idle
  <1>2. QED
    BY <1>1, InvariantHolds, PTL

\* A recorded result is the newest attempt's. (update_run_leased)
THEOREM ResultTheorem == Spec => []ResultIsNewestAttempts
  <1>1. IInv => ResultIsNewestAttempts
    BY DEF IInv
  <1>2. QED
    BY <1>1, InvariantHolds, PTL

\* A stored log belongs to the recorded result. (finish_run)
THEOREM LogTheorem == Spec => []LogMatchesResult
  <1>1. IInv => LogMatchesResult
    BY DEF IInv
  <1>2. QED
    BY <1>1, InvariantHolds, PTL

\* One notification at most, and only of a failure. (finish_run)
THEOREM NotificationTheorem == Spec => []NotifiedOnceOnFailure
  <1>1. IInv => NotifiedOnceOnFailure
    BY DEF IInv
  <1>2. QED
    BY <1>1, InvariantHolds, PTL

-----------------------------------------------------------------------------
(* Runs in which nothing fails. As long as there was no fault a lease is    *)
(* live while its row is held, so that a run is claimed once: the task that *)
(* claimed it is its holder, then its only recorder, then its reporter.     *)

Working == {"pending", "executing", "finishing"}
Recording == {"logging", "notifying"}
Watching == {"executing", "finishing", "logging", "notifying", "reporting"}

\* A task at work holds its run, and a held run has its task at work.
OneHolder ==
  /\ \A w \in Tasks :
       tasks[w].pc \in Working =>
         /\ runs[tasks[w].run].lockedBy = w
         /\ tasks[w].pc # "finishing" => tasks[w].beat = "on"
  /\ \A r \in Runs :
       runs[r].lockedBy # None =>
         /\ tasks[runs[r].lockedBy].run = r
         /\ tasks[runs[r].lockedBy].pc \in Working
         /\ runs[r].lease = "live"

\* What a terminal row still lacks is about to be written by its recorder, and
\* a task that is about to report says what the row says.
Settled ==
  /\ \A w \in Tasks :
       tasks[w].pc = "reporting" => runs[tasks[w].run].status = tasks[w].result
  /\ \A r \in Runs :
       Terminal(r) =>
         /\ \/ logs[r] = runs[r].attempt
            \/ \E w \in Tasks : tasks[w].pc = "logging" /\ tasks[w].run = r
         /\ runs[r].status = "failure" =>
              \/ notified[r] = 1
              \/ \E w \in Tasks : tasks[w].pc \in Recording /\ tasks[w].run = r

\* A commit has a status once a run of it is executed; "pending" is the status
\* of a task that will report, any other that of the run it names.
Posted ==
  /\ \A w \in Tasks :
       tasks[w].pc \in Watching => forgejo[runs[tasks[w].run].commit].state # "none"
  /\ \A r \in Runs : Terminal(r) => forgejo[runs[r].commit].state # "none"
  /\ \A c \in Commits :
       /\ forgejo[c].state = "pending" =>
            \E w \in Tasks : tasks[w].pc \in Watching /\ runs[tasks[w].run].commit = c
       /\ forgejo[c].state \in Conclusion =>
            forgejo[c].run \in Runs /\ forgejo[c].state = runs[forgejo[c].run].status

Undisturbed == faults = 0 => OneHolder /\ Settled /\ Posted

\* Statuses stay true in a step that posts nothing, ends no run and moves no
\* task across its posts. (run_existing)
LEMMA PostedKept ==
  ASSUME Posted, UNCHANGED forgejo,
         \A r \in Runs : /\ runs'[r].commit = runs[r].commit
                         /\ Terminal(r)' <=> Terminal(r)
                         /\ Terminal(r) => runs'[r].status = runs[r].status,
         \A v \in Tasks : /\ tasks'[v].pc \in Watching <=> tasks[v].pc \in Watching
                          /\ tasks[v].pc \in Watching => tasks'[v].run = tasks[v].run /\ tasks[v].run \in Runs
  PROVE  Posted'
  <1>1. \A w \in Tasks : tasks'[w].pc \in Watching => forgejo'[runs'[tasks'[w].run].commit].state # "none"
    BY DEF Posted
  <1>2. \A r \in Runs : Terminal(r)' => forgejo'[runs'[r].commit].state # "none"
    BY DEF Posted
  <1>3. ASSUME NEW c \in Commits, forgejo'[c].state = "pending"
        PROVE  \E w \in Tasks : tasks'[w].pc \in Watching /\ runs'[tasks'[w].run].commit = c
    BY <1>3 DEF Posted
  <1>4. \A c \in Commits : forgejo'[c].state \in Conclusion =>
          forgejo'[c].run \in Runs /\ forgejo'[c].state = runs'[forgejo'[c].run].status
    BY DEF Posted, Terminal
  <1>5. QED
    BY <1>1, <1>2, <1>3, <1>4 DEF Posted

\* It holds of rows nobody has held since they were written. (migration 1015)
LEMMA InitUndisturbed == Init => Undisturbed
  BY NoneAssumption DEF Init, Undisturbed, OneHolder, Settled, Posted, Working, Recording, Watching,
                        Idle, NewRow, Terminal, Conclusion

\* Without a fault every step keeps it; with one there is nothing to keep.
\* (run_existing, recover_action_runs)
LEMMA StepUndisturbed == IInv /\ Undisturbed /\ [Next]_vars => Undisturbed'
  <1> SUFFICES ASSUME IInv, Undisturbed, [Next]_vars, faults' = 0
               PROVE  (OneHolder /\ Settled /\ Posted)'
    BY DEF Undisturbed
  <1> USE NoneAssumption
  <1>1. ~Fault
    BY MaxFaultsAssumption DEF Fault, IInv, TypeOK
  <1>2. faults = 0
    BY <1>1 DEF Next, TaskStep, TaskFault, Heartbeat, vars, CreateRun, Recover, ClaimRun, ClaimLost,
                ClaimFails, ClaimUnacknowledged, PostPending, PostPendingFails, Execute, FinishRun,
                FinishUnacknowledged, FinishStale, FinishFails, WriteLog, WriteLogFails, Notify,
                NotifyFails, PostFinal, PostFinalFails, Renew, RenewLost, RenewFails, LeaseExpires,
                LeaseLapses, Hang, Crash
  <1>3. OneHolder /\ Settled /\ Posted
    BY <1>2 DEF Undisturbed
  <1>4. \A w \in Tasks : /\ tasks[w] \in Task
                         /\ tasks[w].pc # "ended" => tasks[w].run \in Runs
                         /\ tasks[w].pc = "finishing" => tasks[w].result \in Conclusion
    BY DEF IInv, TypeOK, LocalsSet
  <1>5. \A r \in Runs : /\ runs[r] \in Row
                        /\ runs[r].lockedBy \in Tasks \cup {None}
                        /\ runs[r].commit \in Commits
    BY DEF IInv, TypeOK, Row
  \* The run of a task past claiming exists, and is at work or terminal.
  <1>6. \A w \in Tasks : /\ tasks[w].pc \in Working => runs[tasks[w].run].status = "running"
                         /\ tasks[w].pc \in Recording \cup {"reporting"} => Terminal(tasks[w].run)
    BY <1>3, <1>4 DEF OneHolder, Settled, IInv, RowHolder, Recorder, LocalsSet, Working, Recording, Terminal
  <1>7. ASSUME NEW g \in Gateways, NEW r \in Runs, NEW c \in Commits, NEW w \in Tasks, CreateRun(g, r, c, w)
        PROVE  (OneHolder /\ Settled /\ Posted)'
    <2>1. /\ \A v \in Tasks \ {w} : tasks'[v] = tasks[v]
          /\ \A q \in Runs \ {r} : runs'[q] = runs[q]
          /\ tasks[w].pc = "ended" /\ tasks'[w].pc = "dispatched"
          /\ runs[r].status = "absent" /\ runs'[r].status = "queued" /\ runs'[r].lockedBy = None
          /\ UNCHANGED <<logs, notified, forgejo>>
      BY <1>7 DEF CreateRun, Spawn, Free, NewRow, Idle, IInv, TypeOK
    <2>2. OneHolder'
      BY <1>3, <1>4, <1>5, <1>6, <2>1, SMTT(40) DEF OneHolder, Working
    <2>3. Settled'
      BY <1>3, <1>4, <1>5, <1>6, <2>1, SMTT(40) DEF Settled, Terminal, Recording, Working, Conclusion
    <2>4. Posted'
      BY <1>3, <1>4, <1>5, <1>6, <2>1, SMTT(40) DEF Posted, Watching, Terminal, Recording, Working, Conclusion
    <2>5. QED
      BY <2>2, <2>3, <2>4
  <1>8. ASSUME NEW g \in Gateways, NEW r \in Runs, NEW w \in Tasks, Recover(g, r, w)
        PROVE  (OneHolder /\ Settled /\ Posted)'
    <2>1. /\ \A v \in Tasks \ {w} : tasks'[v] = tasks[v]
          /\ tasks[w].pc = "ended" /\ tasks'[w].pc = "dispatched"
          /\ UNCHANGED <<runs, logs, notified, forgejo>>
      BY <1>8 DEF Recover, Spawn, Free, Idle, IInv, TypeOK
    <2>2. OneHolder'
      BY <1>3, <1>4, <1>5, <1>6, <2>1, SMTT(40) DEF OneHolder, Working
    <2>3. Settled'
      BY <1>3, <1>4, <1>5, <1>6, <2>1, SMTT(40) DEF Settled, Terminal, Recording, Working, Conclusion
    <2>4. Posted'
      <3>1. \A q \in Runs : /\ runs'[q].commit = runs[q].commit
                            /\ Terminal(q)' <=> Terminal(q)
                            /\ Terminal(q) => runs'[q].status = runs[q].status
        BY <2>1 DEF Terminal, Conclusion
      <3>2. \A v \in Tasks : /\ tasks'[v].pc \in Watching <=> tasks[v].pc \in Watching
                             /\ tasks[v].pc \in Watching =>
                                  tasks'[v].run = tasks[v].run /\ tasks[v].run \in Runs
        BY <1>4, <2>1 DEF Watching, Working
      <3>3. UNCHANGED forgejo
        BY <2>1
      <3>4. QED
        BY <1>3, <3>1, <3>2, <3>3, PostedKept
    <2>5. QED
      BY <2>2, <2>3, <2>4
  <1>9. ASSUME NEW w \in Tasks, ClaimRun(w) PROVE (OneHolder /\ Settled /\ Posted)'
    <2>1. /\ \A v \in Tasks \ {w} : tasks'[v] = tasks[v]
          /\ \A q \in Runs \ {tasks[w].run} : runs'[q] = runs[q]
          /\ tasks[w].pc = "dispatched"
          /\ tasks'[w].pc = "pending" /\ tasks'[w].beat = "on"
          /\ tasks'[w].run = tasks[w].run
          /\ runs[tasks[w].run].status \in {"queued", "running"}
          /\ runs[tasks[w].run].status = "queued" \/ runs[tasks[w].run].lease # "live"
          /\ runs'[tasks[w].run].status = "running" /\ runs'[tasks[w].run].lockedBy = w
          /\ runs'[tasks[w].run].lease = "live" /\ runs'[tasks[w].run].commit = runs[tasks[w].run].commit
          /\ UNCHANGED <<logs, notified, forgejo>>
      BY <1>9, <1>4, <1>5 DEF ClaimRun, TakeRow, Claimable, IInv, TypeOK, Task, Row
    <2>2. OneHolder'
      BY <1>3, <1>4, <1>5, <1>6, <2>1, SMTT(40) DEF OneHolder, Working, IInv, RowHolder
    <2>3. Settled'
      BY <1>3, <1>4, <1>5, <1>6, <2>1, SMTT(40) DEF Settled, Terminal, Recording, Working, Conclusion
    <2>4. Posted'
      <3>1. \A r \in Runs : /\ runs'[r].commit = runs[r].commit
                            /\ Terminal(r)' <=> Terminal(r)
                            /\ Terminal(r) => runs'[r].status = runs[r].status
        BY <2>1 DEF Terminal, Conclusion
      <3>2. \A v \in Tasks : /\ tasks'[v].pc \in Watching <=> tasks[v].pc \in Watching
                             /\ tasks[v].pc \in Watching =>
                                  tasks'[v].run = tasks[v].run /\ tasks[v].run \in Runs
        BY <1>4, <2>1 DEF Watching, Working
      <3>3. UNCHANGED forgejo
        BY <2>1
      <3>4. QED
        BY <1>3, <3>1, <3>2, <3>3, PostedKept
    <2>5. QED
      BY <2>2, <2>3, <2>4
  <1>10. ASSUME NEW w \in Tasks, ClaimLost(w) PROVE (OneHolder /\ Settled /\ Posted)'
    <2>1. /\ \A v \in Tasks \ {w} : tasks'[v] = tasks[v]
          /\ tasks[w].pc = "dispatched" /\ tasks'[w].pc = "ended"
          /\ UNCHANGED <<runs, logs, notified, forgejo>>
      BY <1>10, <1>4 DEF ClaimLost, Return, Idle, IInv, TypeOK, Task
    <2>2. OneHolder'
      BY <1>3, <1>4, <1>5, <1>6, <2>1, SMTT(40) DEF OneHolder, Working
    <2>3. Settled'
      BY <1>3, <1>4, <1>5, <1>6, <2>1, SMTT(40) DEF Settled, Terminal, Recording, Working, Conclusion
    <2>4. Posted'
      <3>1. \A r \in Runs : /\ runs'[r].commit = runs[r].commit
                            /\ Terminal(r)' <=> Terminal(r)
                            /\ Terminal(r) => runs'[r].status = runs[r].status
        BY <2>1 DEF Terminal, Conclusion
      <3>2. \A v \in Tasks : /\ tasks'[v].pc \in Watching <=> tasks[v].pc \in Watching
                             /\ tasks[v].pc \in Watching =>
                                  tasks'[v].run = tasks[v].run /\ tasks[v].run \in Runs
        BY <1>4, <2>1 DEF Watching, Working
      <3>3. UNCHANGED forgejo
        BY <2>1
      <3>4. QED
        BY <1>3, <3>1, <3>2, <3>3, PostedKept
    <2>5. QED
      BY <2>2, <2>3, <2>4
  <1>11. ASSUME NEW w \in Tasks, PostPending(w) PROVE (OneHolder /\ Settled /\ Posted)'
    <2>1. /\ \A v \in Tasks \ {w} : tasks'[v] = tasks[v]
          /\ tasks[w].pc = "pending" /\ tasks'[w].pc = "executing"
          /\ tasks'[w].run = tasks[w].run /\ tasks'[w].beat = tasks[w].beat
          /\ \A c \in Commits \ {runs[tasks[w].run].commit} : forgejo'[c] = forgejo[c]
          /\ forgejo'[runs[tasks[w].run].commit].state = "pending"
          /\ UNCHANGED <<runs, logs, notified>>
      BY <1>11, <1>4, <1>5 DEF PostPending, Post, Goto, IInv, TypeOK, Task, Row
    <2>2. OneHolder'
      BY <1>3, <1>4, <1>5, <1>6, <2>1, SMTT(40) DEF OneHolder, Working
    <2>3. Settled'
      BY <1>3, <1>4, <1>5, <1>6, <2>1, SMTT(40) DEF Settled, Terminal, Recording, Working, Conclusion
    <2>4. Posted'
      BY <1>3, <1>4, <1>5, <1>6, <2>1, SMTT(40) DEF Posted, Watching, Terminal, Recording, Working, Conclusion
    <2>5. QED
      BY <2>2, <2>3, <2>4
  <1>12. ASSUME NEW w \in Tasks, NEW res \in Conclusion, Execute(w, res)
        PROVE  (OneHolder /\ Settled /\ Posted)'
    <2>1. /\ \A v \in Tasks \ {w} : tasks'[v] = tasks[v]
          /\ tasks[w].pc = "executing" /\ tasks'[w].pc = "finishing"
          /\ tasks'[w].run = tasks[w].run
          /\ UNCHANGED <<runs, logs, notified, forgejo>>
      BY <1>12, <1>4 DEF Execute, IInv, TypeOK, Task
    <2>2. OneHolder'
      BY <1>3, <1>4, <1>5, <1>6, <2>1, SMTT(40) DEF OneHolder, Working
    <2>3. Settled'
      BY <1>3, <1>4, <1>5, <1>6, <2>1, SMTT(40) DEF Settled, Terminal, Recording, Working, Conclusion
    <2>4. Posted'
      <3>1. \A r \in Runs : /\ runs'[r].commit = runs[r].commit
                            /\ Terminal(r)' <=> Terminal(r)
                            /\ Terminal(r) => runs'[r].status = runs[r].status
        BY <2>1 DEF Terminal, Conclusion
      <3>2. \A v \in Tasks : /\ tasks'[v].pc \in Watching <=> tasks[v].pc \in Watching
                             /\ tasks[v].pc \in Watching =>
                                  tasks'[v].run = tasks[v].run /\ tasks[v].run \in Runs
        BY <1>4, <2>1 DEF Watching, Working
      <3>3. UNCHANGED forgejo
        BY <2>1
      <3>4. QED
        BY <1>3, <3>1, <3>2, <3>3, PostedKept
    <2>5. QED
      BY <2>2, <2>3, <2>4
  <1>13. ASSUME NEW w \in Tasks, FinishRun(w) PROVE (OneHolder /\ Settled /\ Posted)'
    <2>1. /\ \A v \in Tasks \ {w} : tasks'[v] = tasks[v]
          /\ \A q \in Runs \ {tasks[w].run} : runs'[q] = runs[q]
          /\ tasks[w].pc = "finishing" /\ tasks'[w].pc = "logging"
          /\ tasks'[w].run = tasks[w].run
          /\ runs[tasks[w].run].lockedBy = w
          /\ runs'[tasks[w].run].status \in Conclusion /\ runs'[tasks[w].run].lockedBy = None
          /\ runs'[tasks[w].run].commit = runs[tasks[w].run].commit
          /\ UNCHANGED <<logs, notified, forgejo>>
      BY <1>13, <1>4, <1>5 DEF FinishRun, RecordRow, Holds, Goto, IInv, TypeOK, Task, Row
    <2>2. OneHolder'
      BY <1>3, <1>4, <1>5, <1>6, <2>1, SMTT(40) DEF OneHolder, Working
    <2>3. Settled'
      BY <1>3, <1>4, <1>5, <1>6, <2>1, SMTT(40) DEF Settled, Terminal, Recording, Working, Conclusion
    <2>4. Posted'
      <3>1. \A r \in Runs : runs'[r].commit = runs[r].commit
        BY <2>1
      <3>2. \A v \in Tasks : /\ tasks'[v].pc \in Watching <=> tasks[v].pc \in Watching
                             /\ tasks[v].pc \in Watching =>
                                  tasks'[v].run = tasks[v].run /\ tasks[v].run \in Runs
        BY <1>4, <2>1 DEF Watching
      <3>3. forgejo' = forgejo
        BY <2>1
      <3>4. \A v \in Tasks : tasks'[v].pc \in Watching => forgejo'[runs'[tasks'[v].run].commit].state # "none"
        BY <1>3, <3>1, <3>2, <3>3 DEF Posted
      <3>5. ASSUME NEW r \in Runs, Terminal(r)' PROVE forgejo'[runs'[r].commit].state # "none"
        <4>1. CASE r = tasks[w].run
          BY <2>1, <3>2, <3>4, <4>1 DEF Watching
        <4>2. CASE r # tasks[w].run
          <5>1. runs'[r] = runs[r]
            BY <2>1, <4>2
          <5>2. QED
            BY <1>3, <3>3, <3>5, <5>1 DEF Posted, Terminal
        <4>3. QED
          BY <4>1, <4>2
      <3>6. ASSUME NEW c \in Commits, forgejo'[c].state = "pending"
            PROVE  \E v \in Tasks : tasks'[v].pc \in Watching /\ runs'[tasks'[v].run].commit = c
        BY <1>3, <3>1, <3>2, <3>3, <3>6 DEF Posted
      <3>7. ASSUME NEW c \in Commits, forgejo'[c].state \in Conclusion
            PROVE  forgejo'[c].run \in Runs /\ forgejo'[c].state = runs'[forgejo'[c].run].status
        <4>1. forgejo[c].run \in Runs /\ forgejo[c].state = runs[forgejo[c].run].status
          BY <1>3, <3>3, <3>7 DEF Posted
        <4>2. runs[tasks[w].run].status = "running"
          BY <1>6, <2>1 DEF Working
        <4>3. forgejo[c].run # tasks[w].run
          BY <3>3, <3>7, <4>1, <4>2 DEF Conclusion
        <4>4. runs'[forgejo[c].run] = runs[forgejo[c].run]
          BY <2>1, <4>1, <4>3
        <4>5. QED
          BY <3>3, <4>1, <4>4
      <3>8. QED
        BY <3>4, <3>5, <3>6, <3>7 DEF Posted
    <2>5. QED
      BY <2>2, <2>3, <2>4
  <1>14. ASSUME NEW w \in Tasks, FinishStale(w) PROVE FALSE
    BY <1>14, <1>3 DEF FinishStale, Holds, OneHolder, Working
  <1>15. ASSUME NEW w \in Tasks, WriteLog(w) PROVE (OneHolder /\ Settled /\ Posted)'
    <2>1. /\ \A v \in Tasks \ {w} : tasks'[v] = tasks[v]
          /\ tasks[w].pc = "logging"
          /\ tasks'[w].pc = IF tasks[w].result = "failure" THEN "notifying" ELSE "reporting"
          /\ tasks'[w].run = tasks[w].run /\ tasks'[w].result = tasks[w].result
          /\ \A q \in Runs \ {tasks[w].run} : logs'[q] = logs[q]
          /\ logs'[tasks[w].run] = runs[tasks[w].run].attempt
          /\ runs[tasks[w].run].status = tasks[w].result
          /\ UNCHANGED <<runs, notified, forgejo>>
      BY <1>15, <1>4, <1>6 DEF WriteLog, AfterLog, Goto, IInv, TypeOK, Task, Recorder, Recording, ResultIsNewestAttempts
    <2>2. OneHolder'
      BY <1>3, <1>4, <1>5, <1>6, <2>1, SMTT(40) DEF OneHolder, Working
    <2>3. Settled'
      BY <1>3, <1>4, <1>5, <1>6, <2>1, SMTT(40) DEF Settled, Terminal, Recording, Working, Conclusion
    <2>4. Posted'
      <3>1. \A r \in Runs : /\ runs'[r].commit = runs[r].commit
                            /\ Terminal(r)' <=> Terminal(r)
                            /\ Terminal(r) => runs'[r].status = runs[r].status
        BY <2>1 DEF Terminal, Conclusion
      <3>2. \A v \in Tasks : /\ tasks'[v].pc \in Watching <=> tasks[v].pc \in Watching
                             /\ tasks[v].pc \in Watching =>
                                  tasks'[v].run = tasks[v].run /\ tasks[v].run \in Runs
        BY <1>4, <2>1 DEF Watching, Working
      <3>3. UNCHANGED forgejo
        BY <2>1
      <3>4. QED
        BY <1>3, <3>1, <3>2, <3>3, PostedKept
    <2>5. QED
      BY <2>2, <2>3, <2>4
  <1>16. ASSUME NEW w \in Tasks, Notify(w) PROVE (OneHolder /\ Settled /\ Posted)'
    <2>1. /\ \A v \in Tasks \ {w} : tasks'[v] = tasks[v]
          /\ tasks[w].pc = "notifying" /\ tasks'[w].pc = "reporting"
          /\ tasks'[w].run = tasks[w].run /\ tasks'[w].result = tasks[w].result
          /\ \A q \in Runs \ {tasks[w].run} : notified'[q] = notified[q]
          /\ notified'[tasks[w].run] = 1
          /\ runs[tasks[w].run].status = tasks[w].result
          /\ UNCHANGED <<runs, logs, forgejo>>
      BY <1>16, <1>4, SMTT(40) DEF Notify, Goto, IInv, TypeOK, Task, Recorder
    <2>2. OneHolder'
      BY <1>3, <1>4, <1>5, <1>6, <2>1, SMTT(40) DEF OneHolder, Working
    <2>3. Settled'
      BY <1>3, <1>4, <1>5, <1>6, <2>1, SMTT(40) DEF Settled, Terminal, Recording, Working, Conclusion
    <2>4. Posted'
      <3>1. \A r \in Runs : /\ runs'[r].commit = runs[r].commit
                            /\ Terminal(r)' <=> Terminal(r)
                            /\ Terminal(r) => runs'[r].status = runs[r].status
        BY <2>1 DEF Terminal, Conclusion
      <3>2. \A v \in Tasks : /\ tasks'[v].pc \in Watching <=> tasks[v].pc \in Watching
                             /\ tasks[v].pc \in Watching =>
                                  tasks'[v].run = tasks[v].run /\ tasks[v].run \in Runs
        BY <1>4, <2>1 DEF Watching, Working
      <3>3. UNCHANGED forgejo
        BY <2>1
      <3>4. QED
        BY <1>3, <3>1, <3>2, <3>3, PostedKept
    <2>5. QED
      BY <2>2, <2>3, <2>4
  <1>17. ASSUME NEW w \in Tasks, PostFinal(w) PROVE (OneHolder /\ Settled /\ Posted)'
    <2>1. /\ \A v \in Tasks \ {w} : tasks'[v] = tasks[v]
          /\ tasks[w].pc = "reporting" /\ tasks'[w].pc = "ended"
          /\ \A c \in Commits \ {runs[tasks[w].run].commit} : forgejo'[c] = forgejo[c]
          /\ forgejo'[runs[tasks[w].run].commit].state = tasks[w].result
          /\ forgejo'[runs[tasks[w].run].commit].run = tasks[w].run
          /\ tasks[w].result \in Conclusion
          /\ runs[tasks[w].run].status = tasks[w].result
          /\ UNCHANGED <<runs, logs, notified>>
      BY <1>17, <1>3, <1>4, <1>5 DEF PostFinal, Post, Return, Idle, Settled, IInv, TypeOK, LocalsSet, Task, Row
    <2>2. OneHolder'
      <3>1. \A r \in Runs : runs[r].lockedBy # w
        BY <1>3, <2>1 DEF OneHolder, Working
      <3>2. \A r \in Runs : runs[r].lockedBy # None => tasks'[runs[r].lockedBy] = tasks[runs[r].lockedBy]
        BY <1>5, <2>1, <3>1
      <3>3. \A v \in Tasks : tasks'[v].pc \in Working => tasks'[v] = tasks[v]
        BY <2>1 DEF Working
      <3>4. runs' = runs
        BY <2>1
      <3>5. QED
        BY <1>3, <3>2, <3>3, <3>4 DEF OneHolder
    <2>3. Settled'
      <3>1. UNCHANGED <<runs, logs, notified>>
        BY <2>1
      <3>2. \A v \in Tasks : tasks'[v].pc = "reporting" => tasks'[v] = tasks[v]
        BY <2>1
      <3>3. \A v \in Tasks : tasks[v].pc \in Recording => tasks'[v] = tasks[v]
        BY <2>1 DEF Recording
      <3>4. \A v \in Tasks : tasks'[v].pc = "reporting" => runs'[tasks'[v].run].status = tasks'[v].result
        BY <1>3, <3>1, <3>2 DEF Settled
      <3>5. ASSUME NEW r \in Runs, Terminal(r)'
            PROVE  logs'[r] = runs'[r].attempt \/ \E v \in Tasks : tasks'[v].pc = "logging" /\ tasks'[v].run = r
        BY <1>3, <3>1, <3>3, <3>5 DEF Settled, Terminal, Recording
      <3>6. ASSUME NEW r \in Runs, Terminal(r)', runs'[r].status = "failure"
            PROVE  \/ notified'[r] = 1
                   \/ \E v \in Tasks : tasks'[v].pc \in Recording /\ tasks'[v].run = r
        BY <1>3, <3>1, <3>3, <3>6 DEF Settled, Terminal
      <3>7. QED
        BY <3>4, <3>5, <3>6 DEF Settled
    <2>4. Posted'
      <3> DEFINE sha == runs[tasks[w].run].commit
      <3>1. tasks[w].run \in Runs /\ sha \in Commits
        BY <1>4, <1>5, <2>1
      <3>2. \A c \in Commits : forgejo[c].state # "none" => forgejo'[c].state # "none"
        BY <2>1 DEF Conclusion
      <3>3. \A v \in Tasks : tasks'[v].pc \in Watching => tasks'[v] = tasks[v] /\ tasks[v].run \in Runs
        BY <1>4, <2>1 DEF Watching
      <3>4. \A v \in Tasks : tasks'[v].pc \in Watching => forgejo'[runs'[tasks'[v].run].commit].state # "none"
        BY <1>3, <1>5, <2>1, <3>2, <3>3 DEF Posted
      <3>5. \A r \in Runs : Terminal(r)' => forgejo'[runs'[r].commit].state # "none"
        BY <1>3, <1>5, <2>1, <3>2 DEF Posted, Terminal
      <3>6. ASSUME NEW c \in Commits, c # sha, forgejo'[c].state = "pending"
            PROVE  \E v \in Tasks : tasks'[v].pc \in Watching /\ runs'[tasks'[v].run].commit = c
        <4>1. forgejo[c].state = "pending"
          BY <2>1, <3>6
        <4>2. PICK v \in Tasks : tasks[v].pc \in Watching /\ runs[tasks[v].run].commit = c
          BY <1>3, <4>1 DEF Posted
        <4>3. v # w
          BY <3>6, <4>2
        <4>4. tasks'[v] = tasks[v] /\ runs' = runs
          BY <2>1, <4>3
        <4>5. QED
          BY <4>2, <4>4
      <3>7. \A c \in Commits \ {sha} : forgejo'[c].state \in Conclusion =>
              forgejo'[c].run \in Runs /\ forgejo'[c].state = runs'[forgejo'[c].run].status
        BY <1>3, <2>1 DEF Posted
      <3>8. /\ forgejo'[sha].state # "pending" /\ forgejo'[sha].run \in Runs
            /\ forgejo'[sha].state = runs'[forgejo'[sha].run].status
        BY <2>1, <3>1 DEF Conclusion
      <3>9. QED
        BY <3>4, <3>5, <3>6, <3>7, <3>8 DEF Posted
    <2>5. QED
      BY <2>2, <2>3, <2>4
  <1>18. ASSUME NEW w \in Tasks, Renew(w) PROVE (OneHolder /\ Settled /\ Posted)'
    <2>1. /\ \A v \in Tasks \ {w} : tasks'[v] = tasks[v]
          /\ \A q \in Runs \ {tasks[w].run} : runs'[q] = runs[q]
          /\ tasks[w].run \in Runs
          /\ \/ /\ tasks'[w].pc = tasks[w].pc
                /\ tasks[w].pc # "ended" =>
                     tasks'[w].run = tasks[w].run /\ tasks'[w].result = tasks[w].result
             \/ tasks[w].pc = "hung" /\ tasks'[w].pc = "ended"
          /\ tasks[w].beat = "on" => tasks'[w].beat = "on"
          /\ runs[tasks[w].run].status = "running" /\ runs'[tasks[w].run].status = "running"
          /\ runs'[tasks[w].run].lockedBy = runs[tasks[w].run].lockedBy
          /\ runs'[tasks[w].run].lease = "live"
          /\ runs'[tasks[w].run].commit = runs[tasks[w].run].commit
          /\ UNCHANGED <<logs, notified, forgejo>>
      BY <1>18, <1>4, <1>5 DEF Renew, StopBeat, Idle, IInv, TypeOK, LocalsSet, Task, Row
    <2>2. OneHolder'
      BY <1>3, <1>4, <1>5, <1>6, <2>1, SMTT(40) DEF OneHolder, Working
    <2>3. Settled'
      BY <1>3, <1>4, <1>5, <1>6, <2>1, SMTT(40) DEF Settled, Terminal, Recording, Working, Conclusion
    <2>4. Posted'
      <3>1. \A r \in Runs : /\ runs'[r].commit = runs[r].commit
                            /\ Terminal(r)' <=> Terminal(r)
                            /\ Terminal(r) => runs'[r].status = runs[r].status
        BY <2>1 DEF Terminal, Conclusion
      <3>2. \A v \in Tasks : /\ tasks'[v].pc \in Watching <=> tasks[v].pc \in Watching
                             /\ tasks[v].pc \in Watching =>
                                  tasks'[v].run = tasks[v].run /\ tasks[v].run \in Runs
        BY <1>4, <2>1 DEF Watching, Working
      <3>3. UNCHANGED forgejo
        BY <2>1
      <3>4. QED
        BY <1>3, <3>1, <3>2, <3>3, PostedKept
    <2>5. QED
      BY <2>2, <2>3, <2>4
  <1>19. ASSUME NEW w \in Tasks, RenewLost(w) PROVE (OneHolder /\ Settled /\ Posted)'
    <2>1. /\ \A v \in Tasks \ {w} : tasks'[v] = tasks[v]
          /\ tasks[w].pc \notin Working
          /\ \/ /\ tasks'[w].pc = tasks[w].pc
                /\ tasks[w].pc # "ended" =>
                     tasks'[w].run = tasks[w].run /\ tasks'[w].result = tasks[w].result
             \/ tasks[w].pc = "hung" /\ tasks'[w].pc = "ended"
          /\ UNCHANGED <<runs, logs, notified, forgejo>>
      BY <1>19, <1>3, <1>4, <1>6 DEF RenewLost, StopBeat, Holds, OneHolder, Idle, IInv, TypeOK, LocalsSet, Task
    <2>2. OneHolder'
      BY <1>3, <1>4, <1>5, <1>6, <2>1, SMTT(40) DEF OneHolder, Working
    <2>3. Settled'
      BY <1>3, <1>4, <1>5, <1>6, <2>1, SMTT(40) DEF Settled, Terminal, Recording, Working, Conclusion
    <2>4. Posted'
      <3>1. \A r \in Runs : /\ runs'[r].commit = runs[r].commit
                            /\ Terminal(r)' <=> Terminal(r)
                            /\ Terminal(r) => runs'[r].status = runs[r].status
        BY <2>1 DEF Terminal, Conclusion
      <3>2. \A v \in Tasks : /\ tasks'[v].pc \in Watching <=> tasks[v].pc \in Watching
                             /\ tasks[v].pc \in Watching =>
                                  tasks'[v].run = tasks[v].run /\ tasks[v].run \in Runs
        BY <1>4, <2>1 DEF Watching, Working
      <3>3. UNCHANGED forgejo
        BY <2>1
      <3>4. QED
        BY <1>3, <3>1, <3>2, <3>3, PostedKept
    <2>5. QED
      BY <2>2, <2>3, <2>4
  <1>20. ASSUME NEW r \in Runs, LeaseExpires(r) PROVE FALSE
    BY <1>20, <1>3 DEF LeaseExpires, HolderSilent, OneHolder, Working, IInv, TypeOK, Row
  <1>21. CASE UNCHANGED vars
    <2>1. UNCHANGED <<runs, logs, notified, tasks, forgejo>>
      BY <1>21 DEF vars
    <2>2. OneHolder'
      BY <1>3, <2>1 DEF OneHolder
    <2>3. Settled'
      BY <1>3, <2>1 DEF Settled, Terminal
    <2>4. Posted'
      BY <1>3, <2>1 DEF Posted, Terminal
    <2>5. QED
      BY <2>2, <2>3, <2>4
  <1>22. QED
    BY <1>1, <1>7, <1>8, <1>9, <1>10, <1>11, <1>12, <1>13, <1>14, <1>15, <1>16, <1>17, <1>18, <1>19,
       <1>20, <1>21
    DEF Next, TaskStep, TaskFault, Heartbeat, ClaimFails, ClaimUnacknowledged, PostPendingFails,
        FinishUnacknowledged, FinishFails, WriteLogFails, NotifyFails, PostFinalFails, RenewFails,
        LeaseLapses, Hang, Crash

\* When nothing fails, racing dispatches of a run do no harm. (run_existing)
THEOREM OutcomeTheorem == Spec => []FaultFreeOutcome
  <1>1. IInv /\ Undisturbed => FaultFreeOutcome
    <2> SUFFICES ASSUME IInv, Undisturbed, faults = 0, \A w \in Tasks : tasks[w] = Idle
                 PROVE  FaultFreeOutcome
      BY DEF FaultFreeOutcome
    <2>1. Settled /\ Posted
      BY DEF Undisturbed
    <2>2. \A w \in Tasks : tasks[w].pc = "ended"
      BY DEF Idle
    <2>3. \A c \in Commits : forgejo[c].state \in {"none", "pending"} \cup Conclusion
      BY DEF IInv, TypeOK, Status
    <2>4. \A c \in Commits : forgejo[c].state # "none" =>
            forgejo[c].state \in Conclusion /\ forgejo[c].state = runs[forgejo[c].run].status
      BY <2>1, <2>2, <2>3 DEF Posted, Watching
    <2>5. \A r \in Runs : Terminal(r) => logs[r] = runs[r].attempt
      BY <2>1, <2>2 DEF Settled
    <2>6. \A r \in Runs : runs[r].commit \in Commits
      BY DEF IInv, TypeOK, Row
    <2>7. \A r \in Runs : Terminal(r) => forgejo[runs[r].commit].state \in Conclusion
      BY <2>1, <2>4, <2>6 DEF Posted
    <2>8. \A r \in Runs : Terminal(r) => notified[r] = IF runs[r].status = "failure" THEN 1 ELSE 0
      <3> SUFFICES ASSUME NEW r \in Runs, Terminal(r)
                   PROVE  notified[r] = IF runs[r].status = "failure" THEN 1 ELSE 0
        OBVIOUS
      <3>1. CASE runs[r].status = "failure"
        BY <3>1, <2>1, <2>2 DEF Settled, Recording
      <3>2. CASE runs[r].status # "failure"
        BY <3>2 DEF IInv, NotifiedOnceOnFailure, TypeOK
      <3>3. QED
        BY <3>1, <3>2
    <2>9. QED
      BY <2>4, <2>5, <2>7, <2>8 DEF FaultFreeOutcome
  <1>2. QED
    BY <1>1, InitUndisturbed, StepUndisturbed, InvariantHolds, PTL DEF Spec

-----------------------------------------------------------------------------
(* Steps of the run table. Every action changes at most one row, in one of *)
(* four ways; the action property and the refinement both follow.          *)

\* No row changes but in its lease.
OnlyLeases ==
  \A r \in Runs : /\ runs'[r].status = runs[r].status
                  /\ runs'[r].attempt = runs[r].attempt
                  /\ runs'[r].recorded = runs[r].recorded
                  /\ Terminal(r) => runs'[r] = runs[r]

\* Row r changes and no other.
OnlyRow(r) == \A q \in Runs \ {r} : runs'[q] = runs[q]

Submitted(r) ==
  /\ OnlyRow(r)
  /\ runs[r].status = "absent"
  /\ runs'[r].status = "queued"
  /\ runs'[r].attempt = runs[r].attempt

Claimed(r) ==
  /\ OnlyRow(r)
  /\ runs[r].status \in {"queued", "running"}
  /\ runs'[r].status = "running"
  /\ runs'[r].attempt = runs[r].attempt + 1

Completed(r) ==
  /\ OnlyRow(r)
  /\ runs[r].status = "running"
  /\ runs'[r].status \in Conclusion
  /\ runs'[r].attempt = runs[r].attempt
  /\ runs'[r].recorded = runs[r].attempt

\* All that a step may do to a row: nothing that LeasedJob sees, create it,
\* claim it, or record the holder's result. (the updates of actions.rs)
LEMMA RowSteps ==
  ASSUME IInv, [Next]_vars
  PROVE  \/ OnlyLeases
         \/ \E r \in Runs : Submitted(r) \/ Claimed(r) \/ Completed(r)
  <1>1. ASSUME UNCHANGED runs PROVE OnlyLeases
    BY <1>1 DEF OnlyLeases
  <1>2. ASSUME NEW g \in Gateways, NEW r \in Runs, NEW c \in Commits, NEW w \in Tasks,
               CreateRun(g, r, c, w)
        PROVE  Submitted(r)
    BY <1>2 DEF CreateRun, NewRow, Submitted, OnlyRow, IInv, TypeOK, Unclaimed
  <1>3. ASSUME NEW w \in Tasks, TakeRow(w)
        PROVE  tasks[w].run \in Runs /\ Claimed(tasks[w].run)
    <2>1. tasks[w].run \in Runs
      BY <1>3 DEF TakeRow, IInv, LocalsSet
    <2>2. runs[tasks[w].run] \in Row
      BY <2>1 DEF IInv, TypeOK
    <2>3. runs'[tasks[w].run] = [runs[tasks[w].run] EXCEPT
                                   !.status = "running", !.lockedBy = w, !.lease = "live",
                                   !.attempt = runs[tasks[w].run].attempt + 1]
      BY <1>3, <2>1 DEF TakeRow, IInv, TypeOK
    <2>4. OnlyRow(tasks[w].run)
      BY <1>3 DEF TakeRow, OnlyRow, IInv, TypeOK
    <2>5. runs[tasks[w].run].status \in {"queued", "running"}
      BY <1>3 DEF TakeRow, Claimable
    <2>6. /\ runs'[tasks[w].run].status = "running"
          /\ runs'[tasks[w].run].attempt = runs[tasks[w].run].attempt + 1
      BY <2>2, <2>3 DEF Row
    <2>7. QED
      BY <2>1, <2>4, <2>5, <2>6 DEF Claimed
  <1>4. ASSUME NEW w \in Tasks, RecordRow(w)
        PROVE  tasks[w].run \in Runs /\ Completed(tasks[w].run)
    <2>1. tasks[w].run \in Runs /\ tasks[w].result \in Conclusion
      BY <1>4 DEF RecordRow, IInv, LocalsSet
    <2>2. /\ runs[tasks[w].run].status = "running"
          /\ tasks[w].attempt = runs[tasks[w].run].attempt
      BY <1>4, <2>1, NoneAssumption DEF RecordRow, Holds, IInv, RowHolder, Idle
    <2>3. runs[tasks[w].run] \in Row
      BY <2>1 DEF IInv, TypeOK
    <2>4. runs'[tasks[w].run] = [runs[tasks[w].run] EXCEPT
                                   !.status = tasks[w].result, !.lockedBy = None,
                                   !.lease = "null", !.recorded = tasks[w].attempt]
      BY <1>4, <2>1 DEF RecordRow, IInv, TypeOK
    <2>5. OnlyRow(tasks[w].run)
      BY <1>4 DEF RecordRow, OnlyRow, IInv, TypeOK
    <2>6. QED
      BY <2>1, <2>2, <2>3, <2>4, <2>5 DEF Completed, Row
  <1>5. ASSUME NEW w \in Tasks, Renew(w) PROVE OnlyLeases
    <2>1. tasks[w].run \in Runs
      BY <1>5 DEF Renew, IInv, LocalsSet
    <2>2. runs' = [runs EXCEPT ![tasks[w].run] = [@ EXCEPT !.lease = "live"]]
      BY <1>5 DEF Renew
    <2>3. runs[tasks[w].run].status = "running"
      BY <1>5 DEF Renew
    <2>4. QED
      BY <2>1, <2>2, <2>3 DEF OnlyLeases, Terminal, Conclusion, IInv, TypeOK, Row
  <1>6. ASSUME NEW r \in Runs, Expire(r) PROVE OnlyLeases
    BY <1>6 DEF Expire, OnlyLeases, Terminal, Conclusion, IInv, TypeOK, Row
  <1>7. QED
    BY <1>1, <1>2, <1>3, <1>4, <1>5, <1>6
    DEF Next, TaskStep, TaskFault, Heartbeat, vars, Recover, ClaimRun, ClaimLost, ClaimFails,
        ClaimUnacknowledged, FinishRun, FinishUnacknowledged,
        PostPending, PostPendingFails, Execute, FinishStale, FinishFails, WriteLog,
        WriteLogFails, Notify, NotifyFails, PostFinal, PostFinalFails, RenewLost,
        RenewFails, LeaseExpires, LeaseLapses, Hang, Crash

\* A finished run never changes again. (claim_run, renew_run_lease,
\* update_run_leased)
THEOREM FinalTheorem == Spec => FinishedIsFinal
  <1>1. IInv /\ [Next]_vars => [\A r \in Runs : Terminal(r) => runs'[r] = runs[r]]_vars
    <2> SUFFICES ASSUME IInv, [Next]_vars, NEW r \in Runs, Terminal(r)
                 PROVE  runs'[r] = runs[r]
      OBVIOUS
    <2>1. CASE OnlyLeases
      BY <2>1 DEF OnlyLeases
    <2>2. ASSUME NEW q \in Runs, Submitted(q) \/ Claimed(q) \/ Completed(q)
          PROVE  runs'[r] = runs[r]
      BY <2>2 DEF Submitted, Claimed, Completed, OnlyRow, Terminal, Conclusion
    <2>3. QED
      BY <2>1, <2>2, RowSteps
  <1>2. QED
    BY <1>1, InvariantHolds, PTL DEF Spec, FinishedIsFinal

\* The lease protocol implements durable leased jobs: each step of the run
\* table is a Submit, a Claim, a Complete or a stutter of LeasedJob.
THEOREM RefinementTheorem == Spec => ImplementsLeasedJob
  <1> DEFINE phase == [r \in Runs |-> IF Terminal(r) THEN "done" ELSE runs[r].status]
             epoch == [r \in Runs |-> runs[r].attempt]
             outcome == [r \in Runs |-> IF Terminal(r)
                           THEN [epoch |-> runs[r].recorded, result |-> runs[r].status]
                           ELSE [epoch |-> 0, result |-> "none"]]
  <1>1. Init => Job!Init
    BY DEF Init, NewRow, Job!Init, Job!NoOutcome, Terminal, Conclusion
  <1>2. IInv /\ [Next]_vars => [Job!Next]_(Job!vars)
    <2> SUFFICES ASSUME IInv, [Next]_vars PROVE [Job!Next]_(Job!vars)
      OBVIOUS
    <2>1. CASE OnlyLeases
      BY <2>1 DEF OnlyLeases, Job!vars, Terminal
    <2>2. ASSUME NEW r \in Runs, Submitted(r) PROVE Job!Submit(r)
      <3>1. phase' = [phase EXCEPT ![r] = "queued"]
        BY <2>2 DEF Submitted, OnlyRow, Terminal, Conclusion
      <3>2. epoch' = epoch /\ outcome' = outcome
        BY <2>2 DEF Submitted, OnlyRow, Terminal, Conclusion
      <3>3. QED
        BY <2>2, <3>1, <3>2 DEF Job!Submit, Submitted, Terminal, Conclusion
    <2>3. ASSUME NEW r \in Runs, Claimed(r) PROVE Job!Claim(r)
      <3>1. phase' = [phase EXCEPT ![r] = "running"]
        BY <2>3 DEF Claimed, OnlyRow, Terminal, Conclusion
      <3>2. epoch' = [epoch EXCEPT ![r] = @ + 1] /\ outcome' = outcome
        BY <2>3 DEF Claimed, OnlyRow, Terminal, Conclusion
      <3>3. QED
        BY <2>3, <3>1, <3>2 DEF Job!Claim, Claimed, Terminal, Conclusion
    <2>4. ASSUME NEW r \in Runs, Completed(r)
          PROVE  \E res \in Conclusion : Job!Complete(r, res)
      <3> PICK res \in Conclusion : res = runs'[r].status
        BY <2>4 DEF Completed
      <3>1. phase' = [phase EXCEPT ![r] = "done"] /\ epoch' = epoch
        BY <2>4 DEF Completed, OnlyRow, Terminal, Conclusion
      <3>2. outcome' = [outcome EXCEPT ![r] = [epoch |-> epoch[r], result |-> res]]
        BY <2>4 DEF Completed, OnlyRow, Terminal, Conclusion
      <3>3. Job!Complete(r, res)
        BY <2>4, <3>1, <3>2 DEF Job!Complete, Completed, Terminal, Conclusion
      <3>4. QED
        BY <3>3
    <2>5. QED
      BY <2>1, <2>2, <2>3, <2>4, RowSteps DEF Job!Next
  <1>3. QED
    BY <1>1, <1>2, InvariantHolds, PTL DEF Spec, ImplementsLeasedJob, Job!Spec

=============================================================================
