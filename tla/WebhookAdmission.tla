-------------------------- MODULE WebhookAdmission --------------------------
(***************************************************************************)
(* POST /api/v1/webhooks/forgejo: the handler webhooks::forgejo, the       *)
(* transaction reserve_delivery, the table webhook_deliveries, and the     *)
(* detached task (ci::run) whose first act is to persist the Action run.   *)
(*                                                                         *)
(* A call is one POST: the provider's delivery, its retries and anybody    *)
(* else's request are all calls. A payload stands for the exact body bytes *)
(* (and so for its hash and commit); a signature is the body it was made   *)
(* for, or None. The table repos is reduced to the repositories that carry *)
(* the one provider name the payloads mention.                             *)
(*                                                                         *)
(* The handler runs inside its connection: when the caller hangs up, as    *)
(* the provider does after its delivery timeout, the server drops it at    *)
(* the await it is at, and nothing it would have done next is done.        *)
(*                                                                         *)
(* now() is the start of the transaction: what counts as expired is fixed  *)
(* when it begins, what conflicts is decided when it inserts.              *)
(***************************************************************************)
EXTENDS Naturals, FiniteSets

CONSTANTS Calls,       \* POSTs to the endpoint
          Ids,         \* delivery ids
          Payloads,    \* request bodies
          Deletions,   \* the bodies that report a branch deletion
          Repos,       \* repository ids that may own the provider name
          Gateways,    \* gateway replicas
          None,        \* nothing
          MaxEnded,    \* bound on reservations of an id that end
          MaxFaults    \* bound on crashes and database failures

ASSUME DeletionsAssumption == Deletions \subseteq Payloads
ASSUME NoneAssumption == None \notin Calls \cup Payloads \cup Repos \cup Gateways
ASSUME BoundsAssumption == MaxEnded \in Nat /\ MaxFaults \in Nat

VARIABLES deliveries,  \* table webhook_deliveries
          repos,       \* table repos: which repositories carry the name
          calls,       \* the handlers and their answers
          ci,          \* the detached task of each call: none, spawned, created, lost
          ended,       \* ended[d]: reservations of d that expired or were cascaded away
          faults       \* faults so far

vars == <<deliveries, repos, calls, ci, ended, faults>>

-----------------------------------------------------------------------------

Delivery == [payload : Payloads, repo : Repos, by : Calls, expired : BOOLEAN]

\* No row is null.
ASSUME DeliveryAssumption == None \notin Delivery

\* dead: the reservation of the id that had expired when the transaction began.
\* won: a history of whose insert reserved the id. answer: "dropped" if the
\* caller hung up before there was one.
Call == [pc : {"unsent", "resolve", "begin", "reserve", "compare", "schedule",
               "replay", "answered"},
         gateway : Gateways \cup {None}, id : Ids \cup {None},
         payload : Payloads \cup {None}, signature : Payloads \cup {None},
         event : {"none", "push", "other", "malformed"}, repo : Repos \cup {None},
         dead : Calls \cup {None}, won : BOOLEAN,
         answer : {"none", "accepted", "replayed", "ignored", "conflict",
                   "unauthorized", "invalid", "not_found", "error", "dropped"}]

Unsent == [pc |-> "unsent", gateway |-> None, id |-> None, payload |-> None,
           signature |-> None, event |-> "none", repo |-> None, dead |-> None,
           won |-> FALSE, answer |-> "none"]

TypeOK ==
  /\ deliveries \in [Ids -> Delivery \cup {None}]
  /\ repos \in [Repos -> {"absent", "present", "deleted"}]
  /\ calls \in [Calls -> Call]
  /\ ci \in [Calls -> {"none", "spawned", "created", "lost"}]
  /\ ended \in [Ids -> 0 .. MaxEnded]
  /\ faults \in 0 .. MaxFaults

Init ==
  /\ deliveries = [d \in Ids |-> None]
  /\ repos \in [Repos -> {"absent", "present"}]
  /\ calls = [c \in Calls |-> Unsent]
  /\ ci = [c \in Calls |-> "none"]
  /\ ended = [d \in Ids |-> 0]
  /\ faults = 0

-----------------------------------------------------------------------------
(* Helpers *)

At(c, label) == calls[c].pc = label

Goto(c, label) == calls' = [calls EXCEPT ![c].pc = label]

Answer(c, kind) ==
  calls' = [calls EXCEPT ![c] = [@ EXCEPT !.pc = "answered", !.answer = kind,
                                          !.dead = None]]

Fault == faults < MaxFaults /\ faults' = faults + 1

Owners == {r \in Repos : repos[r] = "present"}

Expired(d) == deliveries[d] # None /\ deliveries[d].expired

\* require_signature and verify: the HMAC covers the exact bytes.
Verified(s, p) == s = p

-----------------------------------------------------------------------------
(* The handler *)

\* A POST arrives and everything up to the first await happens: the signature,
\* then the delivery id and event headers, then the body. A "malformed" call is
\* one whose headers, body, repository name or commit sha are refused.
Receive(c, g, d, p, s, e) ==
  /\ At(c, "unsent")
  /\ calls' = [calls EXCEPT ![c] =
       LET call == [@ EXCEPT !.gateway = g, !.id = d, !.payload = p, !.signature = s,
                             !.event = e]
           done(kind) == [call EXCEPT !.pc = "answered", !.answer = kind]
       IN  CASE ~Verified(s, p) -> done("unauthorized")
             [] Verified(s, p) /\ e = "malformed" -> done("invalid")
             [] Verified(s, p) /\ e = "other" -> done("ignored")
             [] OTHER -> [call EXCEPT !.pc = "resolve"]]
  /\ UNCHANGED <<deliveries, repos, ci, ended, faults>>

\* get_repo_with_org: a missing and an ambiguous name are both not found.
Resolve(c) ==
  /\ At(c, "resolve")
  /\ IF Cardinality(Owners) = 1
       THEN calls' = [calls EXCEPT ![c] = [@ EXCEPT !.pc = "begin",
                                           !.repo = CHOOSE r \in Owners : TRUE]]
       ELSE Answer(c, "not_found")
  /\ UNCHANGED <<deliveries, repos, ci, ended, faults>>

\* reserve_delivery begins its transaction.
Begin(c) ==
  LET d == calls[c].id IN
  /\ At(c, "begin")
  /\ calls' = [calls EXCEPT ![c] =
                 [@ EXCEPT !.pc = "reserve",
                           !.dead = IF Expired(d) THEN deliveries[d].by ELSE None]]
  /\ UNCHANGED <<deliveries, repos, ci, ended, faults>>

\* Mutant: on conflict do update.
IdIsTakenIgnored(c) == FALSE

\* After the delete of what was expired at the start, the insert conflicts.
IdIsTaken(c) ==
  LET del == deliveries[calls[c].id] IN del # None /\ del.by # calls[c].dead

\* The insert reserves the id; its foreign key needs the repository row.
Insert(c) ==
  /\ At(c, "reserve")
  /\ ~IdIsTaken(c)
  /\ calls[c].repo \in Owners
  /\ deliveries' = [deliveries EXCEPT ![calls[c].id] =
                      [payload |-> calls[c].payload, repo |-> calls[c].repo, by |-> c,
                       expired |-> FALSE]]

ReserveNew(c) ==
  /\ Insert(c)
  /\ calls' = [calls EXCEPT ![c] = [@ EXCEPT !.pc = "schedule", !.won = TRUE, !.dead = None]]
  /\ UNCHANGED <<repos, ci, ended, faults>>

\* The transaction commits, and the handler is told that it did not.
ReserveNewUnacknowledged(c) ==
  /\ Insert(c)
  /\ Fault
  /\ calls' = [calls EXCEPT ![c] = [@ EXCEPT !.pc = "answered", !.won = TRUE, !.dead = None,
                                             !.answer = "error"]]
  /\ UNCHANGED <<repos, ci, ended>>

\* The repository was deleted since it was resolved: the foreign key refuses.
ReserveOrphan(c) ==
  /\ At(c, "reserve")
  /\ ~IdIsTaken(c)
  /\ calls[c].repo \notin Owners
  /\ Answer(c, "error")
  /\ UNCHANGED <<deliveries, repos, ci, ended, faults>>

\* Mutant: a used id is always taken for a retry.
SameDeliveryById(c) == TRUE

\* The stored row and the call are the same delivery.
SameDelivery(c) ==
  LET del == deliveries[calls[c].id] IN
  del.payload = calls[c].payload /\ del.repo = calls[c].repo

\* The insert did nothing: the stored row is selected next.
ReserveTaken(c) ==
  /\ At(c, "reserve")
  /\ IdIsTaken(c)
  /\ Goto(c, "compare")
  /\ UNCHANGED <<deliveries, repos, ci, ended, faults>>

\* An exact retry is a replay, anything else a conflict; a row that ended since
\* the insert is an internal error ("webhook reservation disappeared").
Compare(c) ==
  /\ At(c, "compare")
  /\ CASE deliveries[calls[c].id] = None -> Answer(c, "error")
       [] deliveries[calls[c].id] # None /\ SameDelivery(c) -> Goto(c, "replay")
       [] OTHER -> Answer(c, "conflict")
  /\ UNCHANGED <<deliveries, repos, ci, ended, faults>>

\* cleanup_expired removes every expired row, or fails and is only logged.
CleanupExpired ==
  \/ /\ deliveries' = [d \in Ids |-> IF Expired(d) THEN None ELSE deliveries[d]]
     /\ UNCHANGED faults
  \/ Fault /\ UNCHANGED deliveries

\* Mutant: the task is never spawned.
ScheduleNothing(c) ==
  /\ At(c, "schedule")
  /\ CleanupExpired
  /\ Answer(c, "accepted")
  /\ UNCHANGED <<repos, ci, ended>>

\* Only the winner schedules CI, and a branch deletion has nothing to check.
Schedule(c) ==
  /\ At(c, "schedule")
  /\ CleanupExpired
  /\ IF calls[c].payload \in Deletions
       THEN Answer(c, "ignored") /\ UNCHANGED ci
       ELSE Answer(c, "accepted") /\ ci' = [ci EXCEPT ![c] = "spawned"]
  /\ UNCHANGED <<repos, ended>>

AcknowledgeReplay(c) ==
  /\ At(c, "replay")
  /\ CleanupExpired
  /\ Answer(c, "replayed")
  /\ UNCHANGED <<repos, ci, ended>>

\* The database fails before the reservation commits.
Fail(c) ==
  /\ calls[c].pc \in {"resolve", "begin", "reserve", "compare"}
  /\ Fault
  /\ Answer(c, "error")
  /\ UNCHANGED <<deliveries, repos, ci, ended>>

\* The caller hangs up. A transaction under way is rolled back ...
Drop(c) ==
  /\ calls[c].pc \in {"resolve", "begin", "reserve", "compare", "schedule", "replay"}
  /\ Answer(c, "dropped")
  /\ UNCHANGED <<deliveries, repos, ci, ended, faults>>

\* ... unless its commit was sent already; the reservation then stands, as it
\* does when the handler is dropped while it waits for the cleanup (Drop).
DropCommitted(c) ==
  /\ Insert(c)
  /\ calls' = [calls EXCEPT ![c] = [@ EXCEPT !.pc = "answered", !.won = TRUE, !.dead = None,
                                             !.answer = "dropped"]]
  /\ UNCHANGED <<repos, ci, ended, faults>>

\* A cleanup that was sent is done whether or not anybody waits for it.
DropCleaned(c) ==
  /\ calls[c].pc \in {"schedule", "replay"}
  /\ CleanupExpired
  /\ Answer(c, "dropped")
  /\ UNCHANGED <<repos, ci, ended, faults>>

-----------------------------------------------------------------------------
(* The detached task: ci::run up to the durable run; then see ActionRuns *)

CreateRun(c) ==
  /\ ci[c] = "spawned"
  /\ ci' = [ci EXCEPT ![c] = "created"]
  /\ UNCHANGED <<deliveries, repos, calls, ended, faults>>

\* "failed to persist push-triggered Action": logged, and the task returns.
CreateRunFails(c) ==
  /\ ci[c] = "spawned"
  /\ Fault
  /\ ci' = [ci EXCEPT ![c] = "lost"]
  /\ UNCHANGED <<deliveries, repos, calls, ended>>

-----------------------------------------------------------------------------
(* Replicas, time and repositories *)

\* A replica stops: its callers get no answer and its tasks are gone.
Crash(g) ==
  /\ Fault
  /\ calls' = [c \in Calls |->
       IF calls[c].gateway = g /\ calls[c].pc # "answered"
         THEN [calls[c] EXCEPT !.pc = "answered", !.answer = "error", !.dead = None]
         ELSE calls[c]]
  /\ ci' = [c \in Calls |->
       IF calls[c].gateway = g /\ ci[c] = "spawned" THEN "lost" ELSE ci[c]]
  /\ <<calls', ci'>> # <<calls, ci>>
  /\ UNCHANGED <<deliveries, repos, ended>>

\* 24 hours have passed.
Expire(d) ==
  /\ deliveries[d] # None
  /\ ~deliveries[d].expired
  /\ ended[d] < MaxEnded
  /\ deliveries' = [deliveries EXCEPT ![d].expired = TRUE]
  /\ ended' = [ended EXCEPT ![d] = @ + 1]
  /\ UNCHANGED <<repos, calls, ci, faults>>

\* A repository is created under the name (two creations may race: the check
\* for a free name is not part of the insert), or deleted, and its reservations
\* go with it. Repository ids are never used again.
AddRepo(r) ==
  /\ repos[r] = "absent"
  /\ repos' = [repos EXCEPT ![r] = "present"]
  /\ UNCHANGED <<deliveries, calls, ci, ended, faults>>

DeleteRepo(r) ==
  LET gone == {d \in Ids : deliveries[d] # None /\ deliveries[d].repo = r}
      live == {d \in gone : ~Expired(d)}
  IN
  /\ repos[r] = "present"
  /\ \A d \in live : ended[d] < MaxEnded
  /\ repos' = [repos EXCEPT ![r] = "deleted"]
  /\ deliveries' = [d \in Ids |-> IF d \in gone THEN None ELSE deliveries[d]]
  /\ ended' = [d \in Ids |-> IF d \in live THEN ended[d] + 1 ELSE ended[d]]
  /\ UNCHANGED <<calls, ci, faults>>

-----------------------------------------------------------------------------

CallStep(c) ==
  \/ Resolve(c) \/ Begin(c) \/ ReserveNew(c) \/ ReserveOrphan(c) \/ ReserveTaken(c)
  \/ Compare(c) \/ Schedule(c) \/ AcknowledgeReplay(c)
  \/ Drop(c) \/ DropCommitted(c) \/ DropCleaned(c)

Next ==
  \/ \E c \in Calls :
       \/ \E g \in Gateways, d \in Ids, p \in Payloads, s \in Payloads \cup {None},
             e \in {"push", "other", "malformed"} : Receive(c, g, d, p, s, e)
       \/ CallStep(c) \/ ReserveNewUnacknowledged(c) \/ Fail(c)
       \/ CreateRun(c) \/ CreateRunFails(c)
  \/ \E g \in Gateways : Crash(g)
  \/ \E d \in Ids : Expire(d)
  \/ \E r \in Repos : AddRepo(r) \/ DeleteRepo(r)

Spec == Init /\ [][Next]_vars

-----------------------------------------------------------------------------
(* Safety *)

Started(d) == {c \in Calls : ci[c] # "none" /\ calls[c].id = d}

\* One reservation of a delivery id starts at most one CI task, however its
\* deliveries race, repeat, fail or come back after 24 hours. (reserve_delivery,
\* "Only the transaction winner schedules CI")
OneStartPerReservation ==
  \A d \in Ids : Cardinality(Started(d)) <= ended[d] + 1

\* CI starts only for a push whose exact body was signed and that won the
\* reservation of its id, and never for a branch deletion. (forgejo)
StartedIsAdmitted ==
  \A c \in Calls :
    ci[c] # "none" =>
      /\ calls[c].won
      /\ calls[c].event = "push"
      /\ calls[c].signature = calls[c].payload
      /\ calls[c].payload \notin Deletions

\* A push starts CI once: the state is typed, a reservation starts at most one
\* task, and only an admitted push starts any. (forgejo, reserve_delivery)
PushesStartOnce == TypeOK /\ OneStartPerReservation /\ StartedIsAdmitted

\* "Exact retries are harmless and changed payloads under one id conflict": a
\* replayed call has a winner with the same body, a refused one a winner with
\* another body or another repository. (the row comparison)
RetriesAreJudgedByContent ==
  \A c \in Calls :
    LET won == {p \in Calls : calls[p].won /\ calls[p].id = calls[c].id}
        same == {p \in won : calls[p].payload = calls[c].payload
                             /\ calls[p].repo = calls[c].repo}
    IN /\ calls[c].answer = "replayed" => same # {}
       /\ calls[c].answer = "conflict" => won \ same # {}

\* c reserved its id and its task never made a run: it failed, or its replica
\* stopped, between the reservation and the run.
FailedAfterReserving(c) ==
  /\ calls[c].won
  /\ ci[c] = "lost" \/ calls[c].answer = "error"
  /\ faults # 0

\* "The first request returns 202 accepted and schedules one CI run": a push
\* that was acknowledged, at the first try or as a retry, has its task or its
\* run, or its winner is about to spawn it. If not, that very winner failed
\* between the reservation and the run, or its caller hung up there; nothing
\* else can make an acknowledged push go without its run. (forgejo, ci::run)
LostRunsHaveACause ==
  \A c \in Calls :
    calls[c].answer \in {"accepted", "replayed"} /\ calls[c].payload \notin Deletions =>
      \E p \in Calls :
        /\ calls[p].won
        /\ calls[p].id = calls[c].id
        /\ calls[p].payload = calls[c].payload
        /\ calls[p].repo = calls[c].repo
        /\ \/ ci[p] \in {"spawned", "created"} \/ At(p, "schedule")
           \/ FailedAfterReserving(p)
           \/ calls[p].answer = "dropped"

=============================================================================
