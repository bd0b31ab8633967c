-------------------------- MODULE IdempotentStart --------------------------
(***************************************************************************)
(* POST /repos/{name}/actions/runs with an Idempotency-Key: the handler    *)
(* actions::create_run, the transaction create_run_idempotent and the      *)
(* table idempotency_records.                                              *)
(*                                                                         *)
(* A key stands for (organization, principal, key hash). An intent is what *)
(* the request fingerprint covers: the repository and the commit, branch,  *)
(* actor, workflow and release as asked for. Every request that reaches    *)
(* the transaction draws a run id of its own from the sequence, so a run   *)
(* is named after the request that drew its id. Requests of one client and *)
(* of many, first tries and retries, are all just requests.                *)
(*                                                                         *)
(* now() is the start of a transaction: what counts as expired is fixed    *)
(* when it begins, what conflicts is decided when it inserts.              *)
(*                                                                         *)
(* AdmissionProofs extends this module and WebhookAdmission: what both     *)
(* have carries a name of its own here.                                    *)
(***************************************************************************)
EXTENDS Naturals, FiniteSets

CONSTANTS Reqs,        \* requests
          Keys,        \* idempotency keys
          Intents,     \* request contents
          Commits,     \* where the branch may point
          Null,        \* no key, no record
          MaxExpiries, \* bound on records that outlive their 24 hours
          MaxConfig    \* bound on changes of branch head and configuration

ASSUME NullAssumption == Null \notin Keys \cup Reqs \cup Intents \cup Commits
ASSUME StartBoundsAssumption == MaxExpiries \in Nat /\ MaxConfig \in Nat

VARIABLES records,     \* table idempotency_records
          runs,        \* table action_runs: the commit of each run created
          reqs,        \* the handlers under way and their answers
          enabled,     \* actions_configs.enabled of the repository
          head,        \* the commit an unpinned request resolves to
          expiries,    \* expiries[k]: records of k that expired so far
          changes      \* configuration changes so far

startVars == <<records, runs, reqs, enabled, head, expiries, changes>>

-----------------------------------------------------------------------------

\* run and commit stand for the stored response body.
Record == [fingerprint : Intents, run : Reqs, commit : Commits, expired : BOOLEAN]

\* No row is null.
ASSUME RecordAssumption == Null \notin Record

\* dead: the record of its key that had expired when the transaction began.
\* run, commit: what the answer says; before that, what the request resolved.
Request == [pc : {"unsent", "fingerprint", "lookup", "validate", "begin", "commit",
                  "answered"},
            key : Keys \cup {Null}, intent : Intents \cup {Null},
            fingerprint : Intents \cup {Null}, commit : Commits \cup {Null},
            dead : Reqs \cup {Null},
            answer : {"none", "accepted", "replayed", "conflict", "rejected", "error"},
            run : Reqs \cup {Null}]

UnsentRequest ==
  [pc |-> "unsent", key |-> Null, intent |-> Null, fingerprint |-> Null,
   commit |-> Null, dead |-> Null, answer |-> "none", run |-> Null]

StartTypeOK ==
  /\ records \in [Keys -> Record \cup {Null}]
  /\ runs \in [Reqs -> Commits \cup {Null}]
  /\ reqs \in [Reqs -> Request]
  /\ enabled \in BOOLEAN
  /\ head \in Commits
  /\ expiries \in [Keys -> 0 .. MaxExpiries]
  /\ changes \in 0 .. MaxConfig

StartInit ==
  /\ records = [k \in Keys |-> Null]
  /\ runs = [q \in Reqs |-> Null]
  /\ reqs = [q \in Reqs |-> UnsentRequest]
  /\ enabled = TRUE
  /\ head \in Commits
  /\ expiries = [k \in Keys |-> 0]
  /\ changes = 0

-----------------------------------------------------------------------------
(* The handler *)

RequestAt(q, label) == reqs[q].pc = label

RequestGoto(q, label) == reqs' = [reqs EXCEPT ![q].pc = label]

\* The handler returns; its locals are gone.
AnswerRequest(q, kind, r, c) ==
  reqs' = [reqs EXCEPT ![q] = [@ EXCEPT !.pc = "answered", !.answer = kind, !.run = r,
                                        !.commit = c, !.fingerprint = Null,
                                        !.dead = Null]]

\* A live record is one a select with "expires_at > now()" returns.
LiveRecord(k) == records[k] # Null /\ ~records[k].expired

\* Mutant: a stored response is returned without require_match.
AnswerUnmatched(q) ==
  AnswerRequest(q, "replayed", records[reqs[q].key].run, records[reqs[q].key].commit)

\* require_match, then the stored response.
AnswerFromRecord(q) ==
  LET rec == records[reqs[q].key] IN
  IF rec.fingerprint = reqs[q].fingerprint
    THEN AnswerRequest(q, "replayed", rec.run, rec.commit)
    ELSE AnswerRequest(q, "conflict", Null, Null)

\* A request arrives with a key, or without one.
Send(q, k, i) ==
  /\ RequestAt(q, "unsent")
  /\ reqs' = [reqs EXCEPT ![q] = [@ EXCEPT !.pc = "fingerprint", !.key = k, !.intent = i]]
  /\ UNCHANGED <<records, runs, enabled, head, expiries, changes>>

\* The fingerprint covers the request as sent, not what it resolves to.
FingerprintOf(q) == reqs[q].intent

\* extract_key and fingerprint; without a key there is nothing to look up.
Prepare(q) ==
  /\ RequestAt(q, "fingerprint")
  /\ reqs' = [reqs EXCEPT ![q] =
                [@ EXCEPT !.pc = IF reqs[q].key = Null THEN "validate" ELSE "lookup",
                          !.fingerprint = FingerprintOf(q)]]
  /\ UNCHANGED <<records, runs, enabled, head, expiries, changes>>

\* idempotency::lookup: a live record answers at once, before any validation.
Lookup(q) ==
  /\ RequestAt(q, "lookup")
  /\ IF LiveRecord(reqs[q].key) THEN AnswerFromRecord(q) ELSE RequestGoto(q, "validate")
  /\ UNCHANGED <<records, runs, enabled, head, expiries, changes>>

\* Networking, configuration, release and commit checks; the commit of an
\* unpinned request is resolved here.
Validate(q) ==
  /\ RequestAt(q, "validate")
  /\ \/ /\ enabled
        /\ reqs' = [reqs EXCEPT ![q] = [@ EXCEPT !.pc = "begin", !.commit = head]]
     \/ /\ ~enabled
        /\ AnswerRequest(q, "rejected", Null, Null)
  /\ UNCHANGED <<records, runs, enabled, head, expiries, changes>>

\* Without a key: create_run inserts the run.
CreatePlain(q) ==
  /\ RequestAt(q, "begin")
  /\ reqs[q].key = Null
  /\ runs' = [runs EXCEPT ![q] = reqs[q].commit]
  /\ AnswerRequest(q, "accepted", q, reqs[q].commit)
  /\ UNCHANGED <<records, enabled, head, expiries, changes>>

\* build_run has drawn the run id; the transaction begins.
BeginRun(q) ==
  LET rec == records[reqs[q].key] IN
  /\ RequestAt(q, "begin")
  /\ reqs[q].key # Null
  /\ reqs' = [reqs EXCEPT ![q] =
                [@ EXCEPT !.pc = "commit",
                          !.dead = IF rec # Null /\ rec.expired THEN rec.run ELSE Null]]
  /\ UNCHANGED <<records, runs, enabled, head, expiries, changes>>

\* Mutant: the conflicting insert is not noticed.
KeyIsTakenIgnored(q) == FALSE

\* After the delete of records expired at the start, the insert conflicts.
KeyIsTaken(q) ==
  LET rec == records[reqs[q].key] IN rec # Null /\ rec.run # reqs[q].dead

\* The key is free: record, response, run and log are inserted together.
InsertRecord(q) ==
  /\ RequestAt(q, "commit")
  /\ ~KeyIsTaken(q)
  /\ records' = [records EXCEPT ![reqs[q].key] =
                   [fingerprint |-> reqs[q].fingerprint, run |-> q,
                    commit |-> reqs[q].commit, expired |-> FALSE]]
  /\ runs' = [runs EXCEPT ![q] = reqs[q].commit]
  /\ UNCHANGED <<enabled, head, expiries, changes>>

CommitInsert(q) == InsertRecord(q) /\ AnswerRequest(q, "accepted", q, reqs[q].commit)

\* The transaction commits but the answer never reaches the client.
CommitInsertLost(q) == InsertRecord(q) /\ AnswerRequest(q, "error", Null, Null)

\* The key is taken: replay or refuse.
CommitReplay(q) ==
  /\ RequestAt(q, "commit")
  /\ KeyIsTaken(q)
  /\ AnswerFromRecord(q)
  /\ UNCHANGED <<records, runs, enabled, head, expiries, changes>>

\* The request fails without effect: a database error, a record the cleanup
\* removed between the insert and the select, a gateway that stops.
FailRequest(q) ==
  /\ reqs[q].pc \in {"fingerprint", "lookup", "validate", "begin", "commit"}
  /\ AnswerRequest(q, "error", Null, Null)
  /\ UNCHANGED <<records, runs, enabled, head, expiries, changes>>

-----------------------------------------------------------------------------
(* Time and configuration *)

ExpireRecord(k) ==
  /\ LiveRecord(k)
  /\ expiries[k] < MaxExpiries
  /\ records' = [records EXCEPT ![k].expired = TRUE]
  /\ expiries' = [expiries EXCEPT ![k] = @ + 1]
  /\ UNCHANGED <<runs, reqs, enabled, head, changes>>

\* cleanup_expired, hourly.
Cleanup(k) ==
  /\ records[k] # Null
  /\ records[k].expired
  /\ records' = [records EXCEPT ![k] = Null]
  /\ UNCHANGED <<runs, reqs, enabled, head, expiries, changes>>

\* An administrator enables or disables Actions, or the branch moves.
Reconfigure ==
  /\ changes < MaxConfig
  /\ changes' = changes + 1
  /\ \/ enabled' = ~enabled /\ head' = head
     \/ enabled' = enabled /\ head' \in Commits \ {head}
  /\ UNCHANGED <<records, runs, reqs, expiries>>

StartNext ==
  \/ \E q \in Reqs :
       \/ \E k \in Keys \cup {Null}, i \in Intents : Send(q, k, i)
       \/ Prepare(q) \/ Lookup(q) \/ Validate(q)
       \/ CreatePlain(q) \/ BeginRun(q)
       \/ CommitInsert(q) \/ CommitInsertLost(q) \/ CommitReplay(q)
       \/ FailRequest(q)
  \/ \E k \in Keys : ExpireRecord(k) \/ Cleanup(k)
  \/ Reconfigure

StartSpec == StartInit /\ [][StartNext]_startVars

-----------------------------------------------------------------------------
(* Safety *)

RunsOf(k) == {q \in Reqs : runs[q] # Null /\ reqs[q].key = k}

\* A key starts at most one run per retention window, however its requests
\* race, retry, fail or lose their answers. (create_run_idempotent)
OneRunPerWindow ==
  \A k \in Keys : Cardinality(RunsOf(k)) <= expiries[k] + 1

\* A request that got a run got one that exists, was started under its key,
\* does what the request asked for, and is reported at the commit it was
\* pinned to, wherever the branch is by now. (create_run, require_match)
AnswersAreTrue ==
  \A q \in Reqs :
    reqs[q].answer \in {"accepted", "replayed"} =>
      /\ reqs[q].run # Null
      /\ reqs[q].commit # Null
      /\ runs[reqs[q].run] = reqs[q].commit
      /\ reqs[reqs[q].run].key = reqs[q].key
      /\ reqs[reqs[q].run].intent = reqs[q].intent

\* A retry of the same request is never refused as a conflict, not even when
\* the branch has moved: a conflict means another intent took the key first.
\* (the fingerprint covers the requested commit, not the resolved one)
ConflictMeansOtherIntent ==
  \A q \in Reqs :
    reqs[q].answer = "conflict" =>
      \E p \in RunsOf(reqs[q].key) : reqs[p].intent # reqs[q].intent

\* A key is honoured: the state is typed, the key starts at most one run per
\* window, and no retry of the same request is told it conflicts.
\* (create_run_idempotent)
KeysAreHonoured == StartTypeOK /\ OneRunPerWindow /\ ConflictMeansOtherIntent

=============================================================================
