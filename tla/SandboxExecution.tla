-------------------------- MODULE SandboxExecution --------------------------
(***************************************************************************)
(* Running a job in a provider's sandbox with credentials kept as Clotho   *)
(* secrets.  Requests write the secrets (secrets.rs): create, rotate and   *)
(* delete one name, connect and disconnect a provider.  A job (ci.rs       *)
(* execute) resolves its provider's credentials name by name, the registry *)
(* of clotho-compute picks the provider, and the provider creates a        *)
(* sandbox, copies files, runs the commands and tears the sandbox down.    *)
(*                                                                         *)
(* Every statement on the secrets table and every call to a provider is an *)
(* await point; no statement of secrets.rs shares a transaction with       *)
(* another.  A secret's value is the request that stored it.               *)
(***************************************************************************)
EXTENDS Integers, Sequences, FiniteSets, SequencesExt

CONSTANTS Requests,     \* requests that write secrets
          Singles,      \* keys they may name one at a time
          Registered,   \* the registry's providers, in its order
          Default,      \* the registry's default provider
          Bridge,       \* the provider that is an HTTP bridge (computesdk)
          Names,        \* secret names of each provider, in catalog order
          Upstreams,    \* the sets of names that the bridge's upstreams require
          Old, Boot,    \* values stored before, and by the bootstrap organisation
          Env,          \* the key of the compute process's environment
          None,         \* no row, no provider, no answer
          Files, Commands,  \* how many files and commands a job has
          MaxFaults,    \* bound on failing calls
          MaxMoves      \* bound on changes of the bridge

VARIABLES secrets,   \* the rows of table secrets: [key -> value or None]
          reqs,      \* the requests that write them
          job,       \* the job
          sandbox,   \* the sandbox of a direct provider
          bridge,    \* the bridge: "down", "bare" (no upstream keys) or "ready"
          health,    \* last_health: what the last probe of the bridge found
          faults,    \* failing calls so far
          moves      \* changes of the bridge so far

vars == <<secrets, reqs, job, sandbox, bridge, health, faults, moves>>

Providers == Range(Registered)
AllNames == UNION {Range(Names[p]) : p \in Providers}
Keys == {"repo", "org", "bootstrap"} \X AllNames
Values == Requests \cup {Old, Boot}
OrgKeys(names) == {<<"org", n>> : n \in names}

\* A connect stores what its request carries: the names its upstream requires,
\* and any others with them.  (Names that no provider reads are left out.)
Connectable == {names \in (SUBSET AllNames) \ {{}} : \E u \in Upstreams : u \subseteq names}

ASSUME RegistryAssumption ==
  /\ Registered \in Seq(Providers) /\ Default \in Providers /\ Bridge \in Providers
  /\ DOMAIN Names = Providers
  /\ \A p \in Providers : Names[p] \in Seq(AllNames) \ {<<>>}
  /\ Singles \subseteq {k \in Keys : k[1] # "bootstrap"}
ASSUME UpstreamsAssumption == \A u \in Upstreams : u \subseteq AllNames
ASSUME NoneAssumption == None \notin Values \cup Providers /\ Env \notin Values \cup {None}
\* Jobs without a command are refused.
ASSUME BoundsAssumption ==
  Files \in Nat /\ Commands \in Nat \ {0} /\ MaxFaults \in Nat /\ MaxMoves \in Nat

Writers == {"create", "rotate", "connect"}
Erasers == {"delete", "disconnect"}
ReqRest == [pc |-> "idle", kind |-> "none", todo |-> <<>>, id |-> None, hit |-> FALSE,
            keys |-> {}, beside |-> {}, answer |-> "none"]

\* could: the values each key had since the job began.  lost: the calls of the
\* job that failed.  strays: the names for which its repository was not found.
JobRest == [pc |-> "idle", provider |-> None, todo |-> <<>>, creds |-> <<>>,
            could |-> <<>>, target |-> None, key |-> None, lost |-> {}, strays |-> {},
            step |-> 0, result |-> "none"]

NoSandbox == [state |-> "none", files |-> 0, exits |-> <<>>]

Init ==
  /\ \E org \in {{}, AllNames}, repo \in {{}, {Names[Default][1]}} :
       secrets = [k \in Keys |-> CASE k[1] = "org" /\ k[2] \in org -> Old
                                   [] k[1] = "repo" /\ k[2] \in repo -> Old
                                   [] k[1] = "bootstrap" -> Boot
                                   [] OTHER -> None]
  /\ reqs = [q \in Requests |-> ReqRest]
  /\ job = JobRest
  /\ sandbox = NoSandbox
  /\ bridge = "bare"
  /\ health = None
  /\ faults = 0
  /\ moves = 0

---------------------------------------------------------------------------
(* Writing secrets. *)

Active(q) == reqs[q].pc \notin {"idle", "done"}

\* The requests r overlaps with, on both sides: only the properties read it.
Meet(rs, q) ==
  LET others == {r \in Requests \ {q} : Active(r)}
  IN  [r \in Requests |-> IF r = q THEN [rs[q] EXCEPT !.beside = others]
                          ELSE IF r \in others THEN [rs[r] EXCEPT !.beside = @ \cup {q}]
                          ELSE rs[r]]

\* A request is let in: it names one key, or what a connect stores, in the
\* arbitrary order of a hash map, or a provider, all of whose names a disconnect
\* erases.
StartSecret(q) ==
  /\ reqs[q].pc = "idle"
  /\ \E kind \in {"create", "rotate", "describe", "delete", "connect", "disconnect"} :
     \E todo \in CASE kind = "connect" ->
                        UNION {SetToSeqs(OrgKeys(names)) : names \in Connectable}
                   [] kind = "disconnect" ->
                        {[i \in DOMAIN Names[p] |-> <<"org", Names[p][i]>>] : p \in Providers}
                   [] OTHER -> {<<k>> : k \in Singles} :
        reqs' = Meet([reqs EXCEPT ![q] =
                   [ReqRest EXCEPT !.kind = kind, !.todo = todo, !.keys = Range(todo),
                      !.pc = CASE kind = "create" -> "check"
                               [] kind \in {"rotate", "describe"} -> "read"
                               [] kind = "connect" -> "clear"
                               [] OTHER -> "erase"]], q)
  /\ UNCHANGED <<secrets, job, sandbox, bridge, health, faults, moves>>

Answer(q, a) ==
  reqs' = [reqs EXCEPT ![q] = [@ EXCEPT !.pc = "done", !.answer = a, !.todo = <<>>,
                                        !.id = None, !.hit = FALSE]]
ReqGoes(q, pc) == reqs' = [reqs EXCEPT ![q].pc = pc]
Row(q) == secrets[Head(reqs[q].todo)]

\* Every write of a row is also noted in the job's could while it resolves.
Store(k, v) ==
  /\ secrets' = [secrets EXCEPT ![k] = v]
  /\ job' = IF job.pc \in {"repo", "org", "bootstrap"} /\ k \in DOMAIN job.could
            THEN [job EXCEPT !.could[k] = @ \cup {v}]
            ELSE job
  /\ UNCHANGED <<sandbox, bridge, health, faults, moves>>

\* create_only: refuse when a row of that name exists.
CheckAbsent(q) ==
  /\ reqs[q].pc = "check"
  /\ IF Row(q) # None THEN Answer(q, "conflict") ELSE ReqGoes(q, "clear")
  /\ UNCHANGED <<secrets, job, sandbox, bridge, health, faults, moves>>

\* A patch starts from the existing row; without a new value it only changes
\* the description.
ReadExisting(q) ==
  /\ reqs[q].pc = "read"
  /\ IF Row(q) = None THEN Answer(q, "not_found")
     ELSE reqs' = [reqs EXCEPT ![q].pc = IF reqs[q].kind = "rotate" THEN "clear" ELSE "describe",
                               ![q].id = Row(q)]
  /\ UNCHANGED <<secrets, job, sandbox, bridge, health, faults, moves>>

\* update_description addresses the row by id and reloads it: an error when
\* the row was replaced or deleted meanwhile.
UpdateDescription(q) ==
  /\ reqs[q].pc = "describe"
  /\ IF Row(q) = reqs[q].id THEN ReqGoes(q, "log") ELSE Answer(q, "error")
  /\ UNCHANGED <<secrets, job, sandbox, bridge, health, faults, moves>>

\* An upsert deletes the row and inserts another in two statements.
DeleteRow(q) ==
  /\ reqs[q].pc = "clear"
  /\ Store(Head(reqs[q].todo), None)
  /\ ReqGoes(q, "insert")

\* The partial unique index refuses a second row of the name.
InsertRow(q) ==
  /\ reqs[q].pc = "insert"
  /\ IF Row(q) # None
     THEN Answer(q, "error") /\ UNCHANGED <<secrets, job, sandbox, bridge, health, faults, moves>>
     ELSE Store(Head(reqs[q].todo), q) /\ ReqGoes(q, "reload")

\* Mutant: a connect ends with its first name.
ReloadLast(q) ==
  /\ reqs[q].pc = "reload"
  /\ IF Row(q) = None THEN Answer(q, "error") ELSE ReqGoes(q, "log")
  /\ UNCHANGED <<secrets, job, sandbox, bridge, health, faults, moves>>

\* The row is read back; a connect goes on with its next name.
Reload(q) ==
  /\ reqs[q].pc = "reload"
  /\ IF Row(q) = None THEN Answer(q, "error")
     ELSE IF Len(reqs[q].todo) = 1 THEN ReqGoes(q, "log")
     ELSE reqs' = [reqs EXCEPT ![q].pc = "clear", ![q].todo = Tail(@)]
  /\ UNCHANGED <<secrets, job, sandbox, bridge, health, faults, moves>>

\* delete_by_org_name, delete_by_repo_name: one name, or each of a provider's.
EraseRow(q) ==
  /\ reqs[q].pc = "erase"
  /\ LET hit == reqs[q].hit \/ Row(q) # None
     IN  /\ Store(Head(reqs[q].todo), None)
         /\ IF Len(reqs[q].todo) > 1
            THEN reqs' = [reqs EXCEPT ![q].todo = Tail(@), ![q].hit = hit]
            ELSE IF hit THEN ReqGoes(q, "log") ELSE Answer(q, "not_found")

LogActivity(q) ==
  /\ reqs[q].pc = "log"
  /\ Answer(q, "ok")
  /\ UNCHANGED <<secrets, job, sandbox, bridge, health, faults, moves>>

\* A statement fails, or the process stops: what was done before stays done.
SecretFails(q) ==
  /\ Active(q) /\ faults < MaxFaults
  /\ faults' = faults + 1
  /\ Answer(q, "error")
  /\ UNCHANGED <<secrets, job, sandbox, bridge, health, moves>>

---------------------------------------------------------------------------
(* Resolving the job's credentials. *)

JobUnchanged == UNCHANGED <<secrets, reqs, sandbox, bridge, health, faults, moves>>
Fault == /\ faults < MaxFaults
         /\ faults' = faults + 1
         /\ UNCHANGED <<secrets, reqs, bridge, health, moves>>

JobKeys(p) == IF p = None THEN {} ELSE {"repo", "org", "bootstrap"} \X Range(Names[p])

\* A job names its provider, or leaves the choice to the registry: then no
\* secret is read.
StartJob ==
  /\ job.pc = "idle"
  /\ \E p \in Providers \cup {None} :
       job' = [job EXCEPT !.provider = p, !.todo = IF p = None THEN <<>> ELSE Names[p],
                          !.pc = IF p = None THEN "dispatch" ELSE "repo",
                          !.could = [k \in JobKeys(p) |-> {secrets[k]}]]
  /\ JobUnchanged

\* The job after one name is settled with value v.
Settled(v) ==
  [job EXCEPT !.creds = Append(@, v), !.todo = Tail(@),
              !.pc = IF Len(job.todo) = 1 THEN "dispatch" ELSE "repo"]

\* Mutant: the organisation's secret goes first.
ReadOrgFirst ==
  /\ job.pc = "repo"
  /\ LET v == secrets[<<"org", Head(job.todo)>>]
     IN  job' = IF v # None THEN Settled(v) ELSE Settled(secrets[<<"repo", Head(job.todo)>>])
  /\ JobUnchanged

\* resolve_named_secret: the repository's secret, then its organisation's.
ReadRepoSecret ==
  /\ job.pc = "repo"
  /\ LET v == secrets[<<"repo", Head(job.todo)>>]
     IN  job' = IF v # None THEN Settled(v) ELSE [job EXCEPT !.pc = "org"]
  /\ JobUnchanged

\* The repository is looked up by its bare name: deleted meanwhile, or of a name
\* that another organisation has too, it is not found.
FindNoRepo ==
  /\ job.pc = "repo"
  /\ job' = [job EXCEPT !.pc = "bootstrap", !.strays = @ \cup {Head(job.todo)}]
  /\ JobUnchanged

\* ... its own organisation's, or the bootstrap organisation's.
ReadOrgSecret ==
  /\ job.pc \in {"org", "bootstrap"}
  /\ job' = Settled(secrets[<<job.pc, Head(job.todo)>>])
  /\ JobUnchanged

\* A failing query reads as no row: of the repository itself (then the
\* bootstrap organisation is asked), of its secret, of the organisation's.  A
\* value that does not open ends the resolution without credentials.
ResolveFails ==
  /\ job.pc \in {"repo", "org", "bootstrap"}
  /\ \/ /\ job.pc = "repo"
        /\ \E pc \in {"org", "bootstrap"} : job' = [job EXCEPT !.pc = pc, !.lost = @ \cup {"db"}]
     \/ /\ job.pc # "repo"
        /\ job' = [Settled(None) EXCEPT !.lost = @ \cup {"db"}]
     \/ /\ secrets[<<job.pc, Head(job.todo)>>] # None
        /\ job' = [job EXCEPT !.pc = "dispatch", !.lost = @ \cup {"db"},
                              !.creds = [i \in DOMAIN Names[job.provider] |-> None]]
  /\ Fault /\ UNCHANGED sandbox

---------------------------------------------------------------------------
(* clotho-compute: the registry and the providers. *)

HasCreds == \E i \in DOMAIN job.creds : job.creds[i] # None

\* descriptor().configured: a key in the environment, or a good last probe.
\* env: the direct providers with a key in the environment of the process.
Configured(p, env) == IF p = Bridge THEN health = "ready" ELSE p \in env

Resolve(p, env) ==
  LET ready == {i \in DOMAIN Registered : Configured(Registered[i], env)}
  IN  IF p # None THEN p
      ELSE IF ready = {} \/ Configured(Default, env) THEN Default
      ELSE Registered[Min(ready)]

Finish(r) == [job EXCEPT !.pc = "done", !.result = r]

\* RunJob: materialising the files may fail before it.  A direct provider takes
\* the job's key before the environment's, and is disabled without either.
Dispatch ==
  /\ job.pc = "dispatch"
  /\ \E env \in SUBSET (Providers \ {Bridge}) :
     LET target == Resolve(job.provider, env)
         key == IF HasCreds THEN job.creds[1] ELSE IF target \in env THEN Env ELSE None
         sent == [job EXCEPT !.target = target, !.could = <<>>]
     IN  job' = IF target = Bridge THEN [sent EXCEPT !.pc = "probe"]
                ELSE IF key = None THEN [sent EXCEPT !.pc = "done", !.result = "disabled"]
                ELSE [sent EXCEPT !.key = key, !.pc = "create"]
  /\ JobUnchanged

DispatchFails ==
  /\ job.pc = "dispatch"
  /\ job' = Finish("error")
  /\ Fault /\ UNCHANGED sandbox

\* The sandbox may exist although the answer never came.
CreateSandbox ==
  /\ job.pc = "create"
  /\ \/ /\ sandbox' = [sandbox EXCEPT !.state = "alive"]
        /\ job' = [job EXCEPT !.pc = "wait"]
        /\ UNCHANGED <<secrets, reqs, bridge, health, faults, moves>>
     \/ /\ \E s \in {"none", "alive"} : sandbox' = [sandbox EXCEPT !.state = s]
        /\ job' = [Finish("error") EXCEPT !.lost = @ \cup {"create"}]
        /\ Fault

\* run_on_sandbox: wait for it, copy each file, run each command up to the
\* first that fails.  Its result is kept until the sandbox is torn down.
RunOn(next, box) ==
  /\ job' = next
  /\ sandbox' = box
  /\ UNCHANGED <<secrets, reqs, bridge, health, faults, moves>>

WaitStarted ==
  /\ job.pc = "wait"
  /\ RunOn([job EXCEPT !.pc = IF Files = 0 THEN "execute" ELSE "upload", !.step = 1], sandbox)

UploadFile ==
  /\ job.pc = "upload"
  /\ RunOn(IF job.step < Files THEN [job EXCEPT !.step = @ + 1]
           ELSE [job EXCEPT !.pc = "execute", !.step = 1],
           [sandbox EXCEPT !.files = @ + 1])

AfterCommand(code) ==
  IF code # 0 \/ job.step = Commands
  THEN [job EXCEPT !.pc = "delete", !.result = IF code = 0 THEN "ok" ELSE "failed"]
  ELSE [job EXCEPT !.step = @ + 1]

Execute ==
  /\ job.pc = "execute"
  /\ \E code \in {0, 1} :
       RunOn(AfterCommand(code), [sandbox EXCEPT !.exits = Append(@, code)])

\* Mutant: a failing call skips the tear-down.
AbandonAtOnce(call) == [Finish("error") EXCEPT !.lost = @ \cup {call}]

\* The sandbox does not start in time or a call to it fails; a command whose
\* answer is lost has run all the same.
Abandon(call) == [job EXCEPT !.pc = "delete", !.result = "error", !.lost = @ \cup {call}]

SandboxFails ==
  /\ job.pc \in {"wait", "upload", "execute"}
  /\ job' = Abandon(job.pc)
  /\ sandbox' \in {sandbox} \cup
       (IF job.pc = "execute" THEN {[sandbox EXCEPT !.exits = Append(@, 0)]} ELSE {})
  /\ Fault

\* delete_sandbox: a failure is only logged.
DeleteSandbox ==
  /\ job.pc = "delete"
  /\ \/ /\ RunOn([job EXCEPT !.pc = "done"], [sandbox EXCEPT !.state = "gone"])
     \/ /\ job' = [job EXCEPT !.pc = "done", !.lost = @ \cup {"delete"}]
        /\ UNCHANGED sandbox
        /\ Fault

\* The bridge provider probes the bridge first and remembers what it found.
ProbeHealth ==
  /\ job.pc = "probe"
  /\ health' = IF bridge = "down" THEN health ELSE bridge
  /\ job' = IF bridge = "ready" \/ HasCreds THEN [job EXCEPT !.pc = "post"]
            ELSE Finish("disabled")
  /\ UNCHANGED <<secrets, reqs, sandbox, bridge, faults, moves>>

\* POST /jobs: the bridge runs the job with the credentials of the request or
\* its own, or answers 503.
PostJob ==
  /\ job.pc = "post"
  /\ \E r \in CASE bridge = "down" -> {"error"}
                [] bridge # "down" /\ (bridge = "ready" \/ HasCreds) -> {"ok", "failed", "error"}
                [] OTHER -> {"disabled"} :
       job' = [Finish(r) EXCEPT !.key = IF HasCreds THEN job.creds[1] ELSE Env]
  /\ JobUnchanged

\* The compute service stops, or the gateway does and its call is dropped with
\* the connection: nothing more is done.
Cancel ==
  /\ job.pc \in {"create", "wait", "upload", "execute", "delete", "probe", "post"}
  /\ faults < MaxFaults
  /\ faults' = faults + 1
  /\ job' = Finish("cancelled")
  /\ sandbox' \in {sandbox} \cup
       (IF job.pc = "create" THEN {[sandbox EXCEPT !.state = "alive"]} ELSE {})
  /\ UNCHANGED <<secrets, reqs, bridge, health, moves>>

\* list_providers probes too; the bridge comes, goes and is given keys.
ListProviders ==
  /\ health' = IF bridge = "down" THEN "bare" ELSE bridge
  /\ UNCHANGED <<secrets, reqs, job, sandbox, bridge, faults, moves>>

BridgeChanges ==
  /\ moves < MaxMoves
  /\ moves' = moves + 1
  /\ bridge' \in {"down", "bare", "ready"} \ {bridge}
  /\ UNCHANGED <<secrets, reqs, job, sandbox, health, faults>>

Next ==
  \/ \E q \in Requests :
       \/ StartSecret(q) \/ CheckAbsent(q) \/ ReadExisting(q) \/ UpdateDescription(q)
       \/ DeleteRow(q) \/ InsertRow(q) \/ Reload(q) \/ EraseRow(q) \/ LogActivity(q)
       \/ SecretFails(q)
  \/ StartJob \/ ReadRepoSecret \/ FindNoRepo \/ ReadOrgSecret \/ ResolveFails
  \/ Dispatch \/ DispatchFails \/ CreateSandbox \/ WaitStarted \/ UploadFile \/ Execute
  \/ SandboxFails \/ DeleteSandbox \/ ProbeHealth \/ PostJob \/ Cancel
  \/ ListProviders \/ BridgeChanges

Spec == Init /\ [][Next]_vars

---------------------------------------------------------------------------
(* Properties. *)

\* The state has its type.
TypeOK ==
  /\ secrets \in [Keys -> Values \cup {None}]
  /\ \A q \in Requests : /\ reqs[q].pc \in {"idle", "check", "read", "describe", "clear", "insert",
                                            "reload", "erase", "log", "done"}
                         /\ reqs[q].keys \subseteq Keys
                         /\ reqs[q].answer \in {"none", "ok", "conflict", "not_found", "error"}
  /\ job.provider \in Providers \cup {None}
  /\ job.target \in Providers \cup {None}
  /\ job.pc \in {"dispatch", "create", "probe"} =>
       Len(job.creds) = (IF job.provider = None THEN 0 ELSE Len(Names[job.provider]))
  /\ job.key \in Values \cup {None, Env}
  /\ job.result \in {"none", "ok", "failed", "error", "disabled", "cancelled"}
  /\ sandbox.state \in {"none", "alive", "gone"}
  /\ sandbox.files \in 0 .. Files /\ Len(sandbox.exits) <= Commands
  /\ health \in {None, "bare", "ready"}

\* A secret that was stored is there until somebody asks for its removal: a
\* row is missing only after a request erased or is replacing that very key,
\* or one failed between the two statements of replacing it.
Removes(q, k) ==
  /\ k \in reqs[q].keys
  /\ \/ reqs[q].kind \in Erasers
     \/ reqs[q].pc \in {"insert", "reload"}
     \/ reqs[q].answer = "error"

SecretsVanishOnlyOnRequest ==
  \A k \in Keys : \A q \in Requests :
    (secrets[k] = None /\ reqs[q].kind \in Writers /\ reqs[q].answer = "ok" /\ k \in reqs[q].keys)
      => \E r \in Requests : Removes(r, k)

\* A request that may have taken a row of the names away under the creations q
\* and r: an erasure, a failure, or a writer that ran beside one of them.
Disturbs(d, q, r) ==
  /\ d \notin {q, r} /\ reqs[d].keys \cap reqs[q].keys # {}
  /\ \/ reqs[d].kind \in Erasers
     \/ reqs[d].answer = "error"
     \/ reqs[d].kind \in Writers /\ {q, r} \cap reqs[d].beside # {}

\* create promises "already exists; use rotate instead": of two creations of
\* one key that both succeeded, each ran beside the other, unless a third
\* request took the row away.
CreationsExclude ==
  \A q, r \in Requests :
    (/\ q # r /\ reqs[q].keys = reqs[r].keys
     /\ reqs[q].kind = "create" /\ reqs[q].answer = "ok"
     /\ reqs[r].kind = "create" /\ reqs[r].answer = "ok")
      => \/ r \in reqs[q].beside /\ q \in reqs[r].beside
         \/ \E d \in Requests : Disturbs(d, q, r)

\* Names that go together hold values of one connect: when every request was a
\* connect or disconnect that ran to its end alone, two names of an organisation
\* differ only if a request named one and not the other, as a connect may that
\* carries fewer names than an earlier one.
Whole(q) == \/ reqs[q].pc = "idle"
            \/ /\ reqs[q].pc = "done" /\ reqs[q].beside = {}
               /\ reqs[q].kind \in {"connect", "disconnect"}
               /\ reqs[q].answer \in {"ok", "not_found"}

NamedTogether(m, n) ==
  \A q \in Requests : <<"org", m>> \in reqs[q].keys <=> <<"org", n>> \in reqs[q].keys

CredentialsAreWhole ==
  (\A q \in Requests : Whole(q))
    => \A m, n \in AllNames : NamedTogether(m, n) => secrets[<<"org", m>>] = secrets[<<"org", n>>]

\* Stored secrets are kept: the state is typed, none vanishes unasked, creation
\* excludes creation unless they overlap, and names that go together come from
\* one connect. (secrets.rs: create, rotate, delete, connect, disconnect)
SecretsAreKept ==
  TypeOK /\ SecretsVanishOnlyOnRequest /\ CreationsExclude /\ CredentialsAreWhole

\* A job runs with a credential that was stored for it while it resolved, the
\* repository's before the organisation's; it does without only if each was
\* missing at some moment, or a query failed.  The bootstrap organisation's goes
\* to it only for a name for which the repository was not found.
JobUsesStoredKeys ==
  (job.pc = "dispatch" /\ job.provider # None /\ "db" \notin job.lost) =>
    \A i \in DOMAIN Names[job.provider] :
      LET n == Names[job.provider][i]
          own == job.could[<<"repo", n>>]
          orgs == job.could[<<"org", n>>]
      IN  \/ job.creds[i] \in own \ {None}
          \/ None \in own /\ job.creds[i] \in orgs
          \/ n \in job.strays /\ job.creds[i] \in job.could[<<"bootstrap", n>>]

\* Credentials resolved for one provider's job are never handed to another
\* provider, and the environment's key pays only for jobs that found none.
KeysStayWithTheirProvider ==
  /\ (job.target # None /\ HasCreds) => job.target = job.provider
  /\ job.key = Env => ~HasCreds

\* A job gets the keys stored for it and its provider no others.
\* (resolve_computesdk_credentials, ComputeRegistry::resolve)
KeysReachTheirJob == JobUsesStoredKeys /\ KeysStayWithTheirProvider

\* "From here on always tear the sandbox down": a sandbox outlives its job only
\* if the call that creates or deletes it failed or the job was cut off.
SandboxesAreTornDown ==
  (job.pc = "done" /\ sandbox.state = "alive")
    => job.result = "cancelled" \/ {"create", "delete"} \cap job.lost # {}

\* A verdict is earned: a job that succeeded or failed had every file copied
\* before its commands, and its exit code is that of the last command that ran,
\* with every one before it at 0.
VerdictsAreEarned ==
  (job.pc = "done" /\ job.result \in {"ok", "failed"} /\ job.target # Bridge) =>
    /\ sandbox.files = Files
    /\ sandbox.exits # <<>>
    /\ \A i \in 1 .. Len(sandbox.exits) - 1 : sandbox.exits[i] = 0
    /\ (job.result = "ok") = (Last(sandbox.exits) = 0)
    /\ job.result = "ok" => Len(sandbox.exits) = Commands

\* A sandbox ends as it should: torn down, with a verdict its commands earned.
\* (the providers' run_job)
SandboxesEndWell == SandboxesAreTornDown /\ VerdictsAreEarned
=============================================================================
