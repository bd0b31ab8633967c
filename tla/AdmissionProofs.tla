-------------------------- MODULE AdmissionProofs --------------------------
(***************************************************************************)
(* Theorems about the two ways a run is admitted: IdempotentStart, a       *)
(* Manual start under an idempotency key, and WebhookAdmission, a push     *)
(* under a delivery id. They share no state; each theorem is about one of  *)
(* the specifications, for every value of its constants. Both guard a      *)
(* start by a row that expires, in a transaction whose now() is its        *)
(* beginning, and both proofs turn on what it took for expired by then.    *)
(*                                                                         *)
(* IdempotentStart: its inductive invariant, StartIInv, has a part about   *)
(* each request (SoundRequest), one about each record (RecordsAreTrue) and *)
(* a count (KeysCounted): a key has started no more runs than records of   *)
(* it expired, and one more while a live record keeps others out. The      *)
(* count is inductive because a transaction deletes only the record it saw *)
(* expired when it began: `dead' never names a live record, as a record is *)
(* named after a request that is answered from then on and inserts no      *)
(* second one.                                                             *)
(*                                                                         *)
(* WebhookAdmission: its inductive invariant, IInv, has a part about each  *)
(* call (Sound), one about each row (RowsAreTrue) and a count (Counted):   *)
(* an id was won no more often than reservations of it ended, and once     *)
(* more while a live row keeps others out, for the same reason: rows are   *)
(* named after their winners, and nobody wins twice.                       *)
(***************************************************************************)
EXTENDS IdempotentStart, WebhookAdmission, FiniteSetTheorems, TLAPS

-----------------------------------------------------------------------------
(* IdempotentStart: requests, records and the runs of a key *)

\* What is known of a request that is being handled. An answered one is done.
RequestUnderway(q) ==
  /\ reqs[q].pc # "answered" => reqs[q].answer = "none" /\ runs[q] = Null
  /\ reqs[q].pc \in {"fingerprint", "lookup", "validate", "begin", "commit"} =>
       reqs[q].intent \in Intents
  /\ reqs[q].pc \in {"lookup", "validate", "begin", "commit"} =>
       reqs[q].fingerprint = reqs[q].intent
  /\ reqs[q].pc \in {"lookup", "commit"} => reqs[q].key \in Keys
  /\ reqs[q].pc \in {"begin", "commit"} => reqs[q].commit \in Commits

\* A record that had expired when the transaction began has not come back.
DeadRecordIsExpired(q) ==
  reqs[q].pc = "commit" /\ reqs[q].dead # Null =>
    /\ reqs[reqs[q].dead].pc = "answered"
    /\ records[reqs[q].key] # Null /\ records[reqs[q].key].run = reqs[q].dead =>
         records[reqs[q].key].expired

\* An answer that names a run tells the truth about it.
ToldTruth(q) ==
  reqs[q].answer \in {"accepted", "replayed"} =>
    /\ reqs[q].run \in Reqs
    /\ reqs[reqs[q].run].pc = "answered"
    /\ reqs[q].commit \in Commits
    /\ runs[reqs[q].run] = reqs[q].commit
    /\ reqs[reqs[q].run].key = reqs[q].key
    /\ reqs[reqs[q].run].intent = reqs[q].intent

\* A conflict has another intent's run as its reason.
RefusedRightly(q) ==
  reqs[q].answer = "conflict" =>
    \E p \in Reqs : /\ reqs[p].pc = "answered" /\ runs[p] # Null
                    /\ reqs[p].key = reqs[q].key
                    /\ reqs[p].intent # reqs[q].intent

SoundRequest(q) ==
  RequestUnderway(q) /\ DeadRecordIsExpired(q) /\ ToldTruth(q) /\ RefusedRightly(q)

\* A record describes the run of the request that inserted it.
RecordsAreTrue ==
  \A k \in Keys : records[k] # Null =>
    /\ reqs[records[k].run].pc = "answered"
    /\ reqs[records[k].run].key = k
    /\ reqs[records[k].run].intent = records[k].fingerprint
    /\ runs[records[k].run] = records[k].commit

\* Runs of a key, against records of it that expired and the live one.
KeyCountedFor(k) ==
  /\ IsFiniteSet(RunsOf(k))
  /\ Cardinality(RunsOf(k)) <= expiries[k] + (IF LiveRecord(k) THEN 1 ELSE 0)

KeysCounted == \A k \in Keys : KeyCountedFor(k)

StartIInv ==
  /\ StartTypeOK
  /\ \A q \in Reqs : SoundRequest(q)
  /\ RecordsAreTrue
  /\ KeysCounted

-----------------------------------------------------------------------------
(* Frames: what a step leaves alone *)

\* The step is q's: q is not answered yet, and no other request changes.
RequestStepOf(q) ==
  /\ reqs[q].pc # "answered"
  /\ \A p \in Reqs \ {q} : reqs'[p] = reqs[p] /\ runs'[p] = runs[p]

\* Such a step that touches none of the tables.
Quiet(q) == RequestStepOf(q) /\ UNCHANGED <<records, runs, expiries>>

\* A request that does not change itself stays sound, as long as answered
\* requests keep what they have and records only age, go, or are inserted by a
\* request that is still under way. (the table and its cleanup)
LEMMA RequestFrame ==
  ASSUME StartIInv, NEW p \in Reqs, reqs'[p] = reqs[p], runs'[p] = runs[p],
         \A r \in Reqs : reqs[r].pc = "answered" => reqs'[r] = reqs[r]
             /\ runs'[r] = runs[r],
         \A k \in Keys : records'[k] # Null =>
           \/ reqs[records'[k].run].pc # "answered"
           \/ /\ records[k] # Null
              /\ records'[k].run = records[k].run
              /\ records[k].expired => records'[k].expired
  PROVE  SoundRequest(p)'
  <1>1. SoundRequest(p) /\ reqs[p] \in Request
    BY DEF StartIInv, StartTypeOK
  <1>2. RequestUnderway(p)'
    BY <1>1 DEF SoundRequest, RequestUnderway
  <1>3. DeadRecordIsExpired(p)'
    BY <1>1 DEF SoundRequest, RequestUnderway, DeadRecordIsExpired, Request
  <1>4. ToldTruth(p)'
    BY <1>1 DEF SoundRequest, ToldTruth
  <1>5. RefusedRightly(p)'
    BY <1>1 DEF SoundRequest, RefusedRightly
  <1>6. QED
    BY <1>2, <1>3, <1>4, <1>5 DEF SoundRequest

\* Records that do not change stay true while answered requests do not.
LEMMA RecordFrame ==
  ASSUME StartIInv, NEW k \in Keys, records'[k] = records[k],
         \A r \in Reqs : reqs[r].pc = "answered" => reqs'[r] = reqs[r] /\ runs'[r] = runs[r]
  PROVE  records'[k] # Null =>
           /\ reqs'[records'[k].run].pc = "answered"
           /\ reqs'[records'[k].run].key = k
           /\ reqs'[records'[k].run].intent = records'[k].fingerprint
           /\ runs'[records'[k].run] = records'[k].commit
  <1>1. records[k] # Null => records[k].run \in Reqs
    BY DEF StartIInv, StartTypeOK, Record
  <1>2. QED
    BY <1>1 DEF StartIInv, RecordsAreTrue

\* A key that gains no run keeps its count while its live record stays.
LEMMA KeyCountFrame ==
  ASSUME StartIInv, NEW k \in Keys, RunsOf(k)' = RunsOf(k),
         LiveRecord(k) => LiveRecord(k)', expiries'[k] = expiries[k]
  PROVE  KeyCountedFor(k)'
  <1>1. KeyCountedFor(k) /\ expiries[k] \in Nat
    BY StartBoundsAssumption DEF StartIInv, KeysCounted, StartTypeOK
  <1>2. Cardinality(RunsOf(k)) \in Nat
    BY <1>1, FS_CardinalityType DEF KeyCountedFor
  <1>3. QED
    BY <1>1, <1>2 DEF KeyCountedFor

\* A quiet step keeps the invariant if it keeps its own request sound.
LEMMA QuietStep ==
  ASSUME StartIInv, NEW q \in Reqs, Quiet(q), StartTypeOK', SoundRequest(q)'
  PROVE  StartIInv'
  <1>1. \A r \in Reqs : reqs[r].pc = "answered" => reqs'[r] = reqs[r] /\ runs'[r] = runs[r]
    BY DEF Quiet, RequestStepOf
  <1>2. ASSUME NEW p \in Reqs \ {q} PROVE SoundRequest(p)'
    <2>1. reqs'[p] = reqs[p] /\ runs'[p] = runs[p] /\ records' = records
      BY DEF Quiet, RequestStepOf
    <2>2. QED
      BY <1>1, <2>1, RequestFrame
  <1>3. RecordsAreTrue'
    BY <1>1, RecordFrame DEF Quiet, RecordsAreTrue
  <1>4. ASSUME NEW k \in Keys PROVE KeyCountedFor(k)'
    <2>1. \A p \in Reqs : runs[p] # Null => reqs'[p] = reqs[p]
      BY DEF Quiet, RequestStepOf, StartIInv, SoundRequest, RequestUnderway
    <2>2. RunsOf(k)' = RunsOf(k)
      BY <2>1 DEF RunsOf, Quiet
    <2>3. LiveRecord(k)' = LiveRecord(k) /\ expiries'[k] = expiries[k]
      BY DEF LiveRecord, Quiet
    <2>4. QED
      BY <2>2, <2>3, KeyCountFrame
  <1>5. QED
    BY <1>2, <1>3, <1>4 DEF StartIInv, KeysCounted

\* What answering does. (the handler's return)
LEMMA AnswerRequestEffect ==
  ASSUME StartTypeOK, NEW q \in Reqs, NEW r \in Reqs \cup {Null},
         NEW c \in Commits \cup {Null},
         NEW kind \in {"accepted", "replayed", "conflict", "rejected", "error"},
         AnswerRequest(q, kind, r, c)
  PROVE  /\ reqs' \in [Reqs -> Request]
         /\ \A p \in Reqs \ {q} : reqs'[p] = reqs[p]
         /\ reqs'[q].pc = "answered" /\ reqs'[q].answer = kind
         /\ reqs'[q].run = r /\ reqs'[q].commit = c
         /\ reqs'[q].key = reqs[q].key /\ reqs'[q].intent = reqs[q].intent
  <1>1. reqs[q] \in Request
    BY DEF StartTypeOK
  <1>2. reqs'[q] = [pc |-> "answered", key |-> reqs[q].key, intent |-> reqs[q].intent,
                    fingerprint |-> Null, commit |-> c, dead |-> Null, answer |-> kind,
                    run |-> r]
    BY <1>1 DEF AnswerRequest, StartTypeOK, Request
  <1>3. reqs'[q] \in Request
    BY <1>1, <1>2 DEF Request
  <1>4. QED
    BY <1>2, <1>3 DEF AnswerRequest, StartTypeOK

\* A request that is told of no run and no conflict has nothing to be true.
\* (the handler's early returns)
LEMMA PlainAnswerToRequest ==
  ASSUME StartIInv, NEW q \in Reqs, reqs[q].pc # "answered", NEW kind \in {"rejected",
         "error"},
         AnswerRequest(q, kind, Null, Null), UNCHANGED <<records, runs, enabled, head,
         expiries, changes>>
  PROVE  StartIInv'
  <1>1. StartTypeOK
    BY DEF StartIInv
  <1>2. /\ reqs' \in [Reqs -> Request] /\ \A p \in Reqs \ {q} : reqs'[p] = reqs[p]
        /\ reqs'[q].pc = "answered" /\ reqs'[q].answer = kind
    BY <1>1, AnswerRequestEffect
  <1>3. StartTypeOK'
    BY <1>1, <1>2 DEF StartTypeOK
  <1>4. Quiet(q)
    BY <1>2 DEF Quiet, RequestStepOf
  <1>5. SoundRequest(q)'
    BY <1>2
      DEF SoundRequest, RequestUnderway, DeadRecordIsExpired, ToldTruth, RefusedRightly
  <1>6. QED
    BY <1>3, <1>4, <1>5, QuietStep

\* Answering from the stored record keeps the invariant: a replay repeats what
\* the record says of the same intent's run, a conflict has that run as its
\* reason. (require_match)
LEMMA RecordAnswer ==
  ASSUME StartIInv, NEW q \in Reqs, reqs[q].pc \in {"lookup", "commit"},
         records[reqs[q].key] # Null, AnswerFromRecord(q),
         UNCHANGED <<records, runs, enabled, head, expiries, changes>>
  PROVE  StartIInv'
  <1> DEFINE rec == records[reqs[q].key]
  <1>1. StartTypeOK /\ reqs[q].key \in Keys /\ reqs[q].fingerprint = reqs[q].intent
    BY DEF StartIInv, SoundRequest, RequestUnderway
  <1>2. rec \in Record
    BY <1>1 DEF StartTypeOK
  <1>3. rec.run \in Reqs /\ rec.commit \in Commits
    BY <1>2 DEF Record
  <1>4. /\ reqs[rec.run].pc = "answered" /\ reqs[rec.run].key = reqs[q].key
        /\ reqs[rec.run].intent = rec.fingerprint /\ runs[rec.run] = rec.commit
    BY <1>1 DEF StartIInv, RecordsAreTrue
  <1>5. rec.run # q
    BY <1>4
  <1>6. CASE rec.fingerprint = reqs[q].fingerprint
    <2>1. AnswerRequest(q, "replayed", rec.run, rec.commit)
      BY <1>6 DEF AnswerFromRecord
    <2>2. /\ reqs' \in [Reqs -> Request] /\ \A p \in Reqs \ {q} : reqs'[p] = reqs[p]
          /\ reqs'[q].pc = "answered" /\ reqs'[q].answer = "replayed"
          /\ reqs'[q].run = rec.run /\ reqs'[q].commit = rec.commit
          /\ reqs'[q].key = reqs[q].key /\ reqs'[q].intent = reqs[q].intent
      BY <1>1, <1>3, <2>1, AnswerRequestEffect
    <2>3. StartTypeOK' /\ Quiet(q)
      BY <1>1, <2>2 DEF StartTypeOK, Quiet, RequestStepOf
    <2>4. ToldTruth(q)'
      BY <1>1, <1>3, <1>4, <1>5, <1>6, <2>2 DEF ToldTruth
    <2>5. SoundRequest(q)'
      BY <2>2, <2>4 DEF SoundRequest, RequestUnderway, DeadRecordIsExpired, RefusedRightly
    <2>6. QED
      BY <2>3, <2>5, QuietStep
  <1>7. CASE rec.fingerprint # reqs[q].fingerprint
    <2>1. AnswerRequest(q, "conflict", Null, Null)
      BY <1>7 DEF AnswerFromRecord
    <2>2. /\ reqs' \in [Reqs -> Request] /\ \A p \in Reqs \ {q} : reqs'[p] = reqs[p]
          /\ reqs'[q].pc = "answered" /\ reqs'[q].answer = "conflict"
          /\ reqs'[q].key = reqs[q].key /\ reqs'[q].intent = reqs[q].intent
      BY <1>1, <2>1, AnswerRequestEffect
    <2>3. StartTypeOK' /\ Quiet(q)
      BY <1>1, <2>2 DEF StartTypeOK, Quiet, RequestStepOf
    <2>4. runs[rec.run] # Null
      BY <1>3, <1>4, NullAssumption
    <2>5. RefusedRightly(q)'
      BY <1>1, <1>3, <1>4, <1>5, <1>7, <2>2, <2>4 DEF RefusedRightly
    <2>6. SoundRequest(q)'
      BY <2>2, <2>5 DEF SoundRequest, RequestUnderway, DeadRecordIsExpired, ToldTruth
    <2>7. QED
      BY <2>3, <2>6, QuietStep
  <1>8. QED
    BY <1>6, <1>7

-----------------------------------------------------------------------------
(* The invariant *)

\* The invariant holds of empty tables. (idempotency_records)
LEMMA InitStartIInv == StartInit => StartIInv
  <1> SUFFICES ASSUME StartInit PROVE StartIInv
    OBVIOUS
  <1>1. UnsentRequest \in Request
    BY DEF UnsentRequest, Request
  <1>2. StartTypeOK
    BY <1>1, StartBoundsAssumption DEF StartInit, StartTypeOK
  <1>3. \A q \in Reqs : SoundRequest(q)
    BY DEF StartInit, UnsentRequest, SoundRequest, RequestUnderway, DeadRecordIsExpired,
         ToldTruth, RefusedRightly
  <1>4. RecordsAreTrue
    BY DEF StartInit, RecordsAreTrue
  <1>5. ASSUME NEW k \in Keys PROVE KeyCountedFor(k)
    <2>1. RunsOf(k) = {}
      BY DEF StartInit, RunsOf
    <2>2. QED
      BY <2>1, FS_EmptySet DEF KeyCountedFor, StartInit, LiveRecord
  <1>6. QED
    BY <1>2, <1>3, <1>4, <1>5 DEF StartIInv, KeysCounted

\* A request that inserts record, response, run and log in one transaction, and
\* answers what it started or nothing at all. (create_run_idempotent)
LEMMA InsertStep ==
  ASSUME StartIInv, NEW q \in Reqs, CommitInsert(q) \/ CommitInsertLost(q)
  PROVE  StartIInv'
  <1> DEFINE key == reqs[q].key
  <1>1. /\ StartTypeOK /\ reqs[q].pc = "commit" /\ key \in Keys
        /\ reqs[q].commit \in Commits /\ reqs[q].intent \in Intents
        /\ reqs[q].fingerprint = reqs[q].intent /\ runs[q] = Null
    BY DEF CommitInsert, CommitInsertLost, InsertRecord, RequestAt, StartIInv,
         SoundRequest, RequestUnderway
  <1>2. /\ records' = [records EXCEPT ![key] =
                         [fingerprint |-> reqs[q].fingerprint, run |-> q,
                          commit |-> reqs[q].commit, expired |-> FALSE]]
        /\ runs' = [runs EXCEPT ![q] = reqs[q].commit]
        /\ UNCHANGED <<enabled, head, expiries, changes>>
    BY DEF CommitInsert, CommitInsertLost, InsertRecord
  <1>3. /\ reqs' \in [Reqs -> Request] /\ \A p \in Reqs \ {q} : reqs'[p] = reqs[p]
        /\ reqs'[q].pc = "answered"
        /\ reqs'[q].key = key /\ reqs'[q].intent = reqs[q].intent
        /\ \/ /\ reqs'[q].answer = "accepted" /\ reqs'[q].run = q
              /\ reqs'[q].commit = reqs[q].commit
           \/ reqs'[q].answer = "error"
    <2>1. CASE CommitInsert(q)
      <3>1. AnswerRequest(q, "accepted", q, reqs[q].commit)
        BY <2>1 DEF CommitInsert
      <3>2. QED
        BY <1>1, <3>1, AnswerRequestEffect
    <2>2. CASE CommitInsertLost(q)
      <3>1. AnswerRequest(q, "error", Null, Null)
        BY <2>2 DEF CommitInsertLost
      <3>2. QED
        BY <1>1, <3>1, AnswerRequestEffect
    <2>3. QED
      BY <2>1, <2>2
  <1>4. /\ records'[key] = [fingerprint |-> reqs[q].fingerprint, run |-> q,
                            commit |-> reqs[q].commit, expired |-> FALSE]
        /\ records'[key] \in Record /\ records'[key] # Null
        /\ \A k \in Keys \ {key} : records'[k] = records[k]
    <2>1. /\ records'[key] = [fingerprint |-> reqs[q].fingerprint, run |-> q,
                              commit |-> reqs[q].commit, expired |-> FALSE]
          /\ \A k \in Keys \ {key} : records'[k] = records[k]
      BY <1>1, <1>2 DEF StartTypeOK
    <2>2. records'[key] \in Record
      BY <1>1, <2>1 DEF Record
    <2>3. QED
      BY <2>1, <2>2, RecordAssumption
  <1>5. /\ runs'[q] = reqs[q].commit /\ runs'[q] # Null
        /\ \A p \in Reqs \ {q} : runs'[p] = runs[p]
    BY <1>1, <1>2, NullAssumption DEF StartTypeOK
  <1>6. StartTypeOK'
    BY <1>1, <1>2, <1>3, <1>4 DEF StartTypeOK
  <1>7. \A r \in Reqs : reqs[r].pc = "answered" => reqs'[r] = reqs[r] /\ runs'[r] = runs[r]
    BY <1>1, <1>3, <1>5
  <1>8. ASSUME NEW p \in Reqs PROVE SoundRequest(p)'
    <2>1. CASE p = q
      BY <1>1, <1>3, <1>5, <2>1
      DEF SoundRequest, RequestUnderway, DeadRecordIsExpired, ToldTruth, RefusedRightly
    <2>2. CASE p # q
      <3>1. reqs'[p] = reqs[p] /\ runs'[p] = runs[p]
        BY <1>3, <1>5, <2>2
      <3>2. \A k \in Keys : records'[k] # Null =>
              reqs[records'[k].run].pc # "answered" \/ records'[k] = records[k]
        BY <1>1, <1>4
      <3>3. QED
        BY <1>7, <3>1, <3>2, RequestFrame
    <2>3. QED
      BY <2>1, <2>2
  <1>9. RecordsAreTrue'
    <2>1. ASSUME NEW k \in Keys, k # key, records'[k] # Null
          PROVE  /\ reqs'[records'[k].run].pc = "answered"
                 /\ reqs'[records'[k].run].key = k
                 /\ reqs'[records'[k].run].intent = records'[k].fingerprint
                 /\ runs'[records'[k].run] = records'[k].commit
      BY <1>4, <1>7, <2>1, RecordFrame
    <2>2. /\ reqs'[records'[key].run].pc = "answered"
          /\ reqs'[records'[key].run].key = key
          /\ reqs'[records'[key].run].intent = records'[key].fingerprint
          /\ runs'[records'[key].run] = records'[key].commit
      BY <1>1, <1>3, <1>4, <1>5
    <2>3. QED
      BY <2>1, <2>2 DEF RecordsAreTrue
  <1>10. ASSUME NEW k \in Keys PROVE KeyCountedFor(k)'
    <2>1. CASE k # key
      <3>1. RunsOf(k)' = RunsOf(k)
        BY <1>1, <1>3, <1>5, <2>1 DEF RunsOf
      <3>2. LiveRecord(k)' = LiveRecord(k) /\ expiries'[k] = expiries[k]
        BY <1>2, <1>4, <2>1 DEF LiveRecord
      <3>3. QED
        BY <3>1, <3>2, KeyCountFrame
    <2>2. CASE k = key
      <3>1. ~LiveRecord(k)
        <4>1. ~KeyIsTaken(q) /\ SoundRequest(q) /\ RecordsAreTrue
          BY DEF CommitInsert, CommitInsertLost, InsertRecord, StartIInv
        <4>2. CASE records[k] = Null
          BY <4>2 DEF LiveRecord
        <4>3. CASE records[k] # Null
          <5>1. records[k].run = reqs[q].dead
            BY <2>2, <4>1, <4>3 DEF KeyIsTaken
          <5>2. reqs[q].dead # Null
            BY <1>1, <2>2, <4>3, <5>1, NullAssumption DEF StartTypeOK, Record
          <5>3. QED
            BY <1>1, <2>2, <4>1, <4>3, <5>1, <5>2
              DEF SoundRequest, DeadRecordIsExpired, LiveRecord
        <4>4. QED
          BY <4>2, <4>3
      <3>2. RunsOf(k)' = RunsOf(k) \cup {q} /\ q \notin RunsOf(k)
        BY <1>1, <1>3, <1>5, <2>2 DEF RunsOf
      <3>3. /\ IsFiniteSet(RunsOf(k)) /\ Cardinality(RunsOf(k)) <= expiries[k]
            /\ expiries[k] \in Nat
        BY <1>1, <3>1, StartBoundsAssumption
          DEF StartIInv, KeysCounted, KeyCountedFor, StartTypeOK
      <3>4. Cardinality(RunsOf(k)) \in Nat
        BY <3>3, FS_CardinalityType
      <3>5. /\ IsFiniteSet(RunsOf(k)')
            /\ Cardinality(RunsOf(k)') = Cardinality(RunsOf(k)) + 1
        BY <3>2, <3>3, FS_AddElement
      <3>6. LiveRecord(k)' /\ expiries' = expiries
        BY <1>2, <1>4, <2>2 DEF LiveRecord
      <3>7. QED
        BY <3>3, <3>4, <3>5, <3>6 DEF KeyCountedFor
    <2>3. QED
      BY <2>1, <2>2
  <1>11. QED
    BY <1>6, <1>8, <1>9, <1>10 DEF StartIInv, KeysCounted

\* A request without a key starts its run, which counts for no key. (create_run)
LEMMA PlainStep ==
  ASSUME StartIInv, NEW q \in Reqs, CreatePlain(q)
  PROVE  StartIInv'
  <1>1. /\ StartTypeOK /\ reqs[q].pc = "begin" /\ reqs[q].key = Null
        /\ reqs[q].commit \in Commits /\ runs[q] = Null
    BY DEF CreatePlain, RequestAt, StartIInv, SoundRequest, RequestUnderway
  <1>2. /\ runs' = [runs EXCEPT ![q] = reqs[q].commit]
        /\ UNCHANGED <<records, enabled, head, expiries, changes>>
        /\ AnswerRequest(q, "accepted", q, reqs[q].commit)
    BY DEF CreatePlain
  <1>3. /\ reqs' \in [Reqs -> Request] /\ \A p \in Reqs \ {q} : reqs'[p] = reqs[p]
        /\ reqs'[q].pc = "answered" /\ reqs'[q].answer = "accepted"
        /\ reqs'[q].run = q /\ reqs'[q].commit = reqs[q].commit
        /\ reqs'[q].key = reqs[q].key /\ reqs'[q].intent = reqs[q].intent
    BY <1>1, <1>2, AnswerRequestEffect
  <1>4. runs'[q] = reqs[q].commit /\ \A p \in Reqs \ {q} : runs'[p] = runs[p]
    BY <1>1, <1>2 DEF StartTypeOK
  <1>5. StartTypeOK'
    BY <1>1, <1>2, <1>3 DEF StartTypeOK
  <1>6. \A r \in Reqs : reqs[r].pc = "answered" => reqs'[r] = reqs[r] /\ runs'[r] = runs[r]
    BY <1>1, <1>3, <1>4
  <1>7. ASSUME NEW p \in Reqs PROVE SoundRequest(p)'
    <2>1. CASE p = q
      BY <1>1, <1>3, <1>4, <2>1
      DEF SoundRequest, RequestUnderway, DeadRecordIsExpired, ToldTruth, RefusedRightly
    <2>2. CASE p # q
      <3>1. reqs'[p] = reqs[p] /\ runs'[p] = runs[p] /\ records' = records
        BY <1>2, <1>3, <1>4, <2>2
      <3>2. QED
        BY <1>6, <3>1, RequestFrame
    <2>3. QED
      BY <2>1, <2>2
  <1>8. RecordsAreTrue'
    BY <1>2, <1>6, RecordFrame DEF RecordsAreTrue
  <1>9. ASSUME NEW k \in Keys PROVE KeyCountedFor(k)'
    <2>1. RunsOf(k)' = RunsOf(k)
      BY <1>1, <1>3, <1>4, NullAssumption DEF RunsOf
    <2>2. LiveRecord(k)' = LiveRecord(k) /\ expiries'[k] = expiries[k]
      BY <1>2 DEF LiveRecord
    <2>3. QED
      BY <2>1, <2>2, KeyCountFrame
  <1>10. QED
    BY <1>5, <1>7, <1>8, <1>9 DEF StartIInv, KeysCounted

\* Records expire and are cleaned up: a key may then start one more run, which
\* is what the expiry counts. (expires_at, cleanup_expired)
LEMMA AgingStep ==
  ASSUME StartIInv, NEW k \in Keys, ExpireRecord(k) \/ Cleanup(k)
  PROVE  StartIInv'
  <1>1. StartTypeOK /\ UNCHANGED <<runs, reqs, enabled, head, changes>>
    BY DEF StartIInv, ExpireRecord, Cleanup
  <1>2. \A j \in Keys \ {k} : records'[j] = records[j] /\ expiries'[j] = expiries[j]
    BY <1>1 DEF ExpireRecord, Cleanup, StartTypeOK
  <1>3. records[k] # Null /\ records[k] \in Record
    BY <1>1 DEF ExpireRecord, Cleanup, LiveRecord, StartTypeOK
  <1>4. records'[k] # Null =>
          /\ ExpireRecord(k) /\ records'[k] = [records[k] EXCEPT !.expired = TRUE]
          /\ records'[k] \in Record /\ records'[k].expired
          /\ records'[k].run = records[k].run /\ records'[k].commit = records[k].commit
          /\ records'[k].fingerprint = records[k].fingerprint
    <2>1. CASE ExpireRecord(k)
      <3>1. records'[k] = [records[k] EXCEPT !.expired = TRUE]
        BY <1>1, <2>1 DEF ExpireRecord, StartTypeOK
      <3>2. QED
        BY <1>3, <2>1, <3>1 DEF Record
    <2>2. CASE Cleanup(k)
      BY <1>1, <2>2 DEF Cleanup, StartTypeOK
    <2>3. QED
      BY <2>1, <2>2
  <1>5. StartTypeOK'
    <2>1. records' \in [Keys -> Record \cup {Null}]
      BY <1>1, <1>2, <1>4 DEF StartTypeOK, ExpireRecord, Cleanup
    <2>2. expiries' \in [Keys -> 0 .. MaxExpiries]
      BY <1>1, StartBoundsAssumption DEF StartTypeOK, ExpireRecord, Cleanup
    <2>3. QED
      BY <1>1, <2>1, <2>2 DEF StartTypeOK
  <1>6. \A p \in Reqs : SoundRequest(p)'
    BY <1>1, <1>2, <1>3, <1>4, RequestFrame
  <1>7. RecordsAreTrue'
    BY <1>1, <1>2, <1>3, <1>4 DEF StartIInv, RecordsAreTrue
  <1>8. ASSUME NEW j \in Keys PROVE KeyCountedFor(j)'
    <2>1. RunsOf(j)' = RunsOf(j)
      BY <1>1 DEF RunsOf
    <2>2. CASE j # k
      BY <1>2, <2>1, <2>2, KeyCountFrame DEF LiveRecord
    <2>3. CASE j = k /\ Cleanup(k)
      BY <2>1, <2>3, KeyCountFrame DEF LiveRecord, Cleanup
    <2>4. CASE j = k /\ ExpireRecord(k)
      <3>1. LiveRecord(k) /\ ~LiveRecord(k)' /\ expiries'[k] = expiries[k] + 1
        BY <1>1, <1>4, <2>4 DEF ExpireRecord, LiveRecord, StartTypeOK
      <3>2. /\ IsFiniteSet(RunsOf(k)) /\ Cardinality(RunsOf(k)) <= expiries[k] + 1
            /\ expiries[k] \in Nat
        BY <1>1, <3>1, StartBoundsAssumption
          DEF StartIInv, KeysCounted, KeyCountedFor, StartTypeOK
      <3>3. QED
        BY <2>1, <2>4, <3>1, <3>2, FS_CardinalityType DEF KeyCountedFor
    <2>5. QED
      BY <2>2, <2>3, <2>4
  <1>9. QED
    BY <1>5, <1>6, <1>7, <1>8 DEF StartIInv, KeysCounted

\* Every step of the handler, of time and of configuration keeps the invariant.
\* (actions::create_run, create_run_idempotent, cleanup_expired)
LEMMA StepStartIInv == StartIInv /\ [StartNext]_startVars => StartIInv'
  <1> SUFFICES ASSUME StartIInv, [StartNext]_startVars PROVE StartIInv'
    OBVIOUS
  <1>t. StartTypeOK /\ \A q \in Reqs : reqs[q] \in Request /\ SoundRequest(q)
    BY DEF StartIInv, StartTypeOK
  <1>1. ASSUME NEW q \in Reqs, NEW k \in Keys \cup {Null}, NEW i \in Intents, Send(q, k, i)
        PROVE  StartIInv'
    <2>1. /\ reqs'[q] = [reqs[q] EXCEPT !.pc = "fingerprint", !.key = k, !.intent = i]
          /\ \A p \in Reqs \ {q} : reqs'[p] = reqs[p]
      BY <1>t, <1>1 DEF Send, StartTypeOK
    <2>2. /\ reqs'[q] \in Request
          /\ reqs'[q].pc = "fingerprint" /\ reqs'[q].intent = i
          /\ reqs'[q].answer = reqs[q].answer
      BY <1>t, <2>1 DEF Request
    <2>3. StartTypeOK' /\ Quiet(q)
      BY <1>t, <1>1, <2>1, <2>2 DEF Send, RequestAt, StartTypeOK, Quiet, RequestStepOf
    <2>4. SoundRequest(q)'
      BY <1>t, <1>1, <2>2
      DEF Send, RequestAt, SoundRequest, RequestUnderway, DeadRecordIsExpired, ToldTruth,
          RefusedRightly
    <2>5. QED
      BY <2>3, <2>4, QuietStep
  <1>2. ASSUME NEW q \in Reqs, Prepare(q) PROVE StartIInv'
    <2> DEFINE next == IF reqs[q].key = Null THEN "validate" ELSE "lookup"
    <2>1. /\ reqs'[q] = [reqs[q] EXCEPT !.pc = next, !.fingerprint = reqs[q].intent]
          /\ \A p \in Reqs \ {q} : reqs'[p] = reqs[p]
      BY <1>t, <1>2 DEF Prepare, FingerprintOf, StartTypeOK
    <2>2. /\ reqs'[q] \in Request
          /\ reqs'[q].pc = next /\ reqs'[q].key = reqs[q].key
          /\ reqs'[q].intent = reqs[q].intent /\ reqs'[q].fingerprint = reqs[q].intent
          /\ reqs'[q].answer = reqs[q].answer
      BY <1>t, <2>1 DEF Request
    <2>3. StartTypeOK' /\ Quiet(q)
      BY <1>t, <1>2, <2>1, <2>2 DEF Prepare, RequestAt, StartTypeOK, Quiet, RequestStepOf
    <2>4. SoundRequest(q)'
      BY <1>t, <1>2, <2>2
      DEF Prepare, RequestAt, SoundRequest, RequestUnderway, DeadRecordIsExpired,
          ToldTruth, RefusedRightly, Request
    <2>5. QED
      BY <2>3, <2>4, QuietStep
  <1>3. ASSUME NEW q \in Reqs, Lookup(q) PROVE StartIInv'
    <2>1. CASE LiveRecord(reqs[q].key)
      BY <1>3, <2>1, RecordAnswer DEF Lookup, RequestAt, LiveRecord
    <2>2. CASE ~LiveRecord(reqs[q].key)
      <3>1. /\ reqs'[q] = [reqs[q] EXCEPT !.pc = "validate"]
            /\ \A p \in Reqs \ {q} : reqs'[p] = reqs[p]
        BY <1>t, <1>3, <2>2 DEF Lookup, RequestGoto, StartTypeOK
      <3>2. /\ reqs'[q] \in Request
            /\ reqs'[q].pc = "validate" /\ reqs'[q].intent = reqs[q].intent
            /\ reqs'[q].fingerprint = reqs[q].fingerprint
                /\ reqs'[q].answer = reqs[q].answer
        BY <1>t, <3>1 DEF Request
      <3>3. StartTypeOK' /\ Quiet(q)
        BY <1>t, <1>3, <2>2, <3>1, <3>2
          DEF Lookup, RequestGoto, RequestAt, StartTypeOK, Quiet, RequestStepOf
      <3>4. SoundRequest(q)'
        BY <1>t, <1>3, <3>2
        DEF Lookup, RequestAt, SoundRequest, RequestUnderway, DeadRecordIsExpired,
            ToldTruth, RefusedRightly
      <3>5. QED
        BY <3>3, <3>4, QuietStep
    <2>3. QED
      BY <2>1, <2>2
  <1>4. ASSUME NEW q \in Reqs, Validate(q) PROVE StartIInv'
    <2>1. CASE enabled
      <3>1. /\ reqs'[q] = [reqs[q] EXCEPT !.pc = "begin", !.commit = head]
            /\ \A p \in Reqs \ {q} : reqs'[p] = reqs[p]
        BY <1>t, <1>4, <2>1 DEF Validate, StartTypeOK
      <3>2. head \in Commits
        BY <1>t DEF StartTypeOK
      <3>3. /\ reqs'[q] \in Request
            /\ reqs'[q].pc = "begin" /\ reqs'[q].commit = head
            /\ reqs'[q].intent = reqs[q].intent
            /\ reqs'[q].fingerprint = reqs[q].fingerprint
                /\ reqs'[q].answer = reqs[q].answer
        BY <1>t, <3>1, <3>2 DEF Request
      <3>4. StartTypeOK' /\ Quiet(q)
        BY <1>t, <1>4, <2>1, <3>1, <3>3
          DEF Validate, RequestAt, StartTypeOK, Quiet, RequestStepOf
      <3>5. SoundRequest(q)'
        BY <1>t, <1>4, <3>2, <3>3
        DEF Validate, RequestAt, SoundRequest, RequestUnderway, DeadRecordIsExpired,
            ToldTruth, RefusedRightly
      <3>6. QED
        BY <3>4, <3>5, QuietStep
    <2>2. CASE ~enabled
      BY <1>4, <2>2, PlainAnswerToRequest DEF Validate, RequestAt
    <2>3. QED
      BY <2>1, <2>2
  <1>5. ASSUME NEW q \in Reqs, CreatePlain(q) PROVE StartIInv'
    BY <1>5, PlainStep
  <1>6. ASSUME NEW q \in Reqs, BeginRun(q) PROVE StartIInv'
    <2> DEFINE rec == records[reqs[q].key]
               dead == IF rec # Null /\ rec.expired THEN rec.run ELSE Null
    <2>1. /\ reqs'[q] = [reqs[q] EXCEPT !.pc = "commit", !.dead = dead]
          /\ \A p \in Reqs \ {q} : reqs'[p] = reqs[p]
      BY <1>t, <1>6 DEF BeginRun, StartTypeOK
    <2>2. reqs[q].key \in Keys /\ dead \in Reqs \cup {Null}
      BY <1>t, <1>6 DEF BeginRun, Request, StartTypeOK, Record
    <2>3. /\ reqs'[q] \in Request
          /\ reqs'[q].pc = "commit" /\ reqs'[q].dead = dead /\ reqs'[q].key = reqs[q].key
          /\ reqs'[q].intent = reqs[q].intent /\ reqs'[q].commit = reqs[q].commit
          /\ reqs'[q].fingerprint = reqs[q].fingerprint /\ reqs'[q].answer = reqs[q].answer
      BY <1>t, <2>1, <2>2 DEF Request
    <2>4. StartTypeOK' /\ Quiet(q)
      BY <1>t, <1>6, <2>1, <2>3 DEF BeginRun, RequestAt, StartTypeOK, Quiet, RequestStepOf
    <2>5. dead # Null => reqs[dead].pc = "answered" /\ dead # q
      BY <1>6, <2>2 DEF StartIInv, RecordsAreTrue, BeginRun, RequestAt
    <2>6. DeadRecordIsExpired(q)'
      BY <2>2, <2>3, <2>4, <2>5 DEF DeadRecordIsExpired, Quiet, RequestStepOf
    <2>7. SoundRequest(q)'
      BY <1>t, <1>6, <2>2, <2>3, <2>6, SMTT(40)
      DEF BeginRun, RequestAt, SoundRequest, RequestUnderway, ToldTruth, RefusedRightly
    <2>8. QED
      BY <2>4, <2>7, QuietStep
  <1>7. ASSUME NEW q \in Reqs, CommitInsert(q) \/ CommitInsertLost(q) PROVE StartIInv'
    BY <1>7, InsertStep
  <1>8. ASSUME NEW q \in Reqs, CommitReplay(q) PROVE StartIInv'
    BY <1>8, RecordAnswer DEF CommitReplay, RequestAt, KeyIsTaken
  <1>9. ASSUME NEW q \in Reqs, FailRequest(q) PROVE StartIInv'
    BY <1>9, PlainAnswerToRequest DEF FailRequest
  <1>10. ASSUME NEW k \in Keys, ExpireRecord(k) \/ Cleanup(k) PROVE StartIInv'
    BY <1>10, AgingStep
  <1>11. CASE Reconfigure \/ UNCHANGED startVars
    <2>1. UNCHANGED <<records, runs, reqs, expiries>>
      BY <1>11 DEF Reconfigure, startVars
    <2>2. StartTypeOK'
      <3>1. CASE Reconfigure
        <4>1. changes' \in 0 .. MaxConfig
          BY <1>t, <3>1, StartBoundsAssumption DEF Reconfigure, StartTypeOK
        <4>2. head' \in Commits
          BY <1>t, <3>1 DEF Reconfigure, StartTypeOK
        <4>3. enabled' = enabled \/ enabled' = ~enabled
          BY <3>1, Zenon DEF Reconfigure
        <4>4. enabled' \in BOOLEAN
          BY <1>t, <4>3, Zenon DEF StartTypeOK
        <4>5. QED
          BY <1>t, <2>1, <4>1, <4>2, <4>4 DEF StartTypeOK
      <3>2. CASE UNCHANGED startVars
        BY <1>t, <3>2 DEF startVars, StartTypeOK
      <3>3. QED
        BY <1>11, <3>1, <3>2
    <2>3. \A q \in Reqs : SoundRequest(q)'
      BY <1>t, <2>1
        DEF SoundRequest, RequestUnderway, DeadRecordIsExpired, ToldTruth, RefusedRightly
    <2>4. RecordsAreTrue' /\ KeysCounted'
      BY <2>1 DEF StartIInv, RecordsAreTrue, KeysCounted, KeyCountedFor, RunsOf, LiveRecord
    <2>5. QED
      BY <2>2, <2>3, <2>4 DEF StartIInv
  <1>12. QED
    BY <1>1, <1>2, <1>3, <1>4, <1>5, <1>6, <1>7, <1>8, <1>9, <1>10, <1>11 DEF StartNext

\* Every reachable state satisfies the invariant.
LEMMA StartInvariantHolds == StartSpec => []StartIInv
  BY InitStartIInv, StepStartIInv, PTL DEF StartSpec

-----------------------------------------------------------------------------
(* What follows *)

\* A key is honoured, however many requests race, retry, fail or lose their
\* answers: at most one run per retention window, and no retry of the same
\* request is told it conflicts. (create_run_idempotent)
THEOREM HonouredTheorem == StartSpec => []KeysAreHonoured
  <1>1. StartIInv => OneRunPerWindow
    <2> SUFFICES ASSUME StartIInv, NEW k \in Keys
                 PROVE  Cardinality(RunsOf(k)) <= expiries[k] + 1
      BY DEF OneRunPerWindow
    <2>1. KeyCountedFor(k) /\ expiries[k] \in Nat
      BY StartBoundsAssumption DEF StartIInv, KeysCounted, StartTypeOK
    <2>2. Cardinality(RunsOf(k)) \in Nat
      BY <2>1, FS_CardinalityType DEF KeyCountedFor
    <2>3. QED
      BY <2>1, <2>2 DEF KeyCountedFor
  <1>2. StartIInv => ConflictMeansOtherIntent
    BY DEF StartIInv, SoundRequest, RefusedRightly, ConflictMeansOtherIntent, RunsOf
  <1>3. StartIInv => KeysAreHonoured
    BY <1>1, <1>2 DEF StartIInv, KeysAreHonoured
  <1>4. QED
    BY <1>3, StartInvariantHolds, PTL

\* Whoever is given a run is given one that exists, was started under the same
\* key for the same intent, and is reported at the commit it was pinned to.
\* (create_run, require_match)
THEOREM TruthTheorem == StartSpec => []AnswersAreTrue
  <1>1. StartIInv => AnswersAreTrue
    BY NullAssumption DEF StartIInv, SoundRequest, ToldTruth, AnswersAreTrue
  <1>2. QED
    BY <1>1, StartInvariantHolds, PTL

-----------------------------------------------------------------------------
(* WebhookAdmission: calls, rows and the winners of an id *)

\* What is known of a call that is being handled: a push with its signature,
\* until it reserved the id not the winner.
Underway(c) ==
  /\ calls[c].pc # "answered" => calls[c].answer = "none" /\ ci[c] = "none"
  /\ calls[c].pc \in {"resolve", "begin", "reserve", "compare", "schedule", "replay"} =>
       /\ calls[c].event = "push" /\ calls[c].signature = calls[c].payload
       /\ calls[c].payload \in Payloads /\ calls[c].id \in Ids
  /\ calls[c].pc \in {"begin", "reserve", "compare", "schedule", "replay"} =>
       calls[c].repo \in Repos
  /\ calls[c].pc = "schedule" => calls[c].won

\* A winner's task is about to be spawned, has been spawned, or has nothing to
\* check; it was lost only if something failed or the caller hung up.
WinnerSchedules(c) ==
  /\ calls[c].won => /\ calls[c].pc \in {"schedule", "answered"}
                     /\ calls[c].event = "push"
                     /\ calls[c].signature = calls[c].payload
                     /\ calls[c].payload \notin Deletions =>
                          \/ ci[c] \in {"spawned", "created"} \/ calls[c].pc = "schedule"
                          \/ FailedAfterReserving(c)
                          \/ calls[c].answer = "dropped"
  /\ ci[c] # "none" => calls[c].won /\ calls[c].payload \notin Deletions
  /\ calls[c].answer = "accepted" => calls[c].won

\* A row that had expired when the transaction began has not come back.
DeadIsExpired(c) ==
  calls[c].pc = "reserve" /\ calls[c].dead # None =>
    /\ calls[calls[c].dead].won
    /\ deliveries[calls[c].id] # None /\ deliveries[calls[c].id].by = calls[c].dead =>
         deliveries[calls[c].id].expired

\* A retry has a winner like itself, a conflict a different one.
JudgedRightly(c) ==
  /\ calls[c].pc = "replay" \/ calls[c].answer = "replayed" =>
       \E p \in Calls : /\ calls[p].won /\ calls[p].id = calls[c].id
                        /\ calls[p].payload = calls[c].payload
                        /\ calls[p].repo = calls[c].repo
  /\ calls[c].answer = "conflict" =>
       \E p \in Calls : /\ calls[p].won /\ calls[p].id = calls[c].id
                        /\ \/ calls[p].payload # calls[c].payload
                           \/ calls[p].repo # calls[c].repo

Sound(c) == Underway(c) /\ WinnerSchedules(c) /\ DeadIsExpired(c) /\ JudgedRightly(c)

\* A row describes the call that inserted it.
RowsAreTrue ==
  \A d \in Ids : deliveries[d] # None =>
    /\ calls[deliveries[d].by].won
    /\ calls[deliveries[d].by].id = d
    /\ calls[deliveries[d].by].payload = deliveries[d].payload
    /\ calls[deliveries[d].by].repo = deliveries[d].repo

\* Calls that won an id, against reservations of it that ended and the live one.
Winners(d) == {c \in Calls : calls[c].won /\ calls[c].id = d}

Live(d) == deliveries[d] # None /\ ~deliveries[d].expired

CountedFor(d) ==
  /\ IsFiniteSet(Winners(d))
  /\ Cardinality(Winners(d)) <= ended[d] + (IF Live(d) THEN 1 ELSE 0)

Counted == \A d \in Ids : CountedFor(d)

IInv ==
  /\ TypeOK
  /\ \A c \in Calls : Sound(c)
  /\ RowsAreTrue
  /\ Counted

-----------------------------------------------------------------------------
(* Frames: what a step leaves alone *)

\* Winners stay winners of the same delivery.
WinnersStay ==
  \A p \in Calls : calls[p].won =>
    /\ calls'[p].won /\ calls'[p].id = calls[p].id
    /\ calls'[p].payload = calls[p].payload /\ calls'[p].repo = calls[p].repo

\* Faults are never undone.
FaultsStay == faults' = 0 => faults = 0

\* A row that is there after the step was there before, and no younger, or was
\* inserted by a call that had not won.
RowsAge ==
  \A d \in Ids : deliveries'[d] # None =>
    \/ ~calls[deliveries'[d].by].won
    \/ /\ deliveries[d] # None
       /\ deliveries'[d].by = deliveries[d].by
       /\ deliveries[d].expired => deliveries'[d].expired

\* Only c and its task change.
StepOf(c) == \A p \in Calls \ {c} : calls'[p] = calls[p] /\ ci'[p] = ci[p]

\* Rows stay, or go once they have expired. (cleanup_expired)
RowsCleaned ==
  /\ UNCHANGED ended
  /\ \A d \in Ids : deliveries'[d] # deliveries[d] => deliveries'[d] = None /\ Expired(d)

\* A call that does not change stays sound, whatever others do.
LEMMA SoundFrame ==
  ASSUME IInv, NEW c \in Calls, calls'[c] = calls[c], ci'[c] = ci[c],
         WinnersStay, FaultsStay, RowsAge
  PROVE  Sound(c)'
  <1>1. Sound(c) /\ calls[c] \in Call
    BY DEF IInv, TypeOK
  <1>2. Underway(c)' /\ WinnerSchedules(c)'
    BY <1>1 DEF Sound, Underway, WinnerSchedules, FailedAfterReserving, FaultsStay
  <1>3. DeadIsExpired(c)'
    <2> SUFFICES ASSUME calls[c].pc = "reserve", calls[c].dead # None
                 PROVE  /\ calls'[calls[c].dead].won
                        /\ deliveries'[calls[c].id] # None
                             /\ deliveries'[calls[c].id].by = calls[c].dead =>
                               deliveries'[calls[c].id].expired
      BY DEF DeadIsExpired
    <2>1. calls[c].dead \in Calls /\ calls[c].id \in Ids
      BY <1>1 DEF Sound, Underway, Call
    <2>2. QED
      BY <1>1, <2>1 DEF Sound, DeadIsExpired, WinnersStay, RowsAge
  <1>4. JudgedRightly(c)'
    BY <1>1 DEF Sound, JudgedRightly, WinnersStay
  <1>5. QED
    BY <1>2, <1>3, <1>4 DEF Sound

\* Rows that stay keep describing their winners.
LEMMA RowFrame ==
  ASSUME IInv, WinnersStay, NEW d \in Ids, deliveries[d] # None, deliveries'[d] # None,
         deliveries'[d].by = deliveries[d].by,
         deliveries'[d].payload = deliveries[d].payload,
         deliveries'[d].repo = deliveries[d].repo
  PROVE  /\ calls'[deliveries'[d].by].won
         /\ calls'[deliveries'[d].by].id = d
         /\ calls'[deliveries'[d].by].payload = deliveries'[d].payload
         /\ calls'[deliveries'[d].by].repo = deliveries'[d].repo
  <1>1. deliveries[d].by \in Calls
    BY DEF IInv, TypeOK, Delivery
  <1>2. QED
    BY <1>1 DEF IInv, RowsAreTrue, WinnersStay

\* An id that gains no winner keeps its count while its live row stays.
LEMMA CountFrame ==
  ASSUME IInv, NEW d \in Ids, Winners(d)' = Winners(d),
         Live(d) => Live(d)', ended'[d] = ended[d]
  PROVE  CountedFor(d)'
  <1>1. CountedFor(d) /\ ended[d] \in Nat
    BY BoundsAssumption DEF IInv, Counted, TypeOK
  <1>2. Cardinality(Winners(d)) \in Nat
    BY <1>1, FS_CardinalityType DEF CountedFor
  <1>3. QED
    BY <1>1, <1>2 DEF CountedFor

\* A step of one call that reserves nothing keeps the invariant if it keeps that
\* call sound.
LEMMA CallStepKeeps ==
  ASSUME IInv, NEW c \in Calls, StepOf(c), RowsCleaned, FaultsStay, TypeOK', Sound(c)',
         calls'[c].won = calls[c].won,
         calls[c].won => /\ calls'[c].id = calls[c].id
                         /\ calls'[c].payload = calls[c].payload
                         /\ calls'[c].repo = calls[c].repo
  PROVE  IInv'
  <1>1. WinnersStay
    BY DEF WinnersStay, StepOf
  <1>2. RowsAge
    BY DEF RowsAge, RowsCleaned
  <1>3. ASSUME NEW p \in Calls \ {c} PROVE Sound(p)'
    BY <1>1, <1>2, SoundFrame DEF StepOf
  <1>4. RowsAreTrue'
    <2>1. ASSUME NEW d \in Ids, deliveries'[d] # None
          PROVE  deliveries[d] # None /\ deliveries'[d] = deliveries[d]
      BY <2>1 DEF RowsCleaned
    <2>2. QED
      BY <1>1, <2>1, RowFrame DEF RowsAreTrue
  <1>5. ASSUME NEW d \in Ids PROVE CountedFor(d)'
    <2>1. Winners(d)' = Winners(d)
      BY DEF Winners, StepOf
    <2>2. ended'[d] = ended[d] /\ (Live(d) => Live(d)')
      BY DEF RowsCleaned, Live, Expired
    <2>3. QED
      BY <2>1, <2>2, CountFrame
  <1>6. QED
    BY <1>3, <1>4, <1>5 DEF IInv, Counted

\* What answering does. (the handler's return)
LEMMA AnswerEffect ==
  ASSUME TypeOK, NEW c \in Calls,
         NEW kind \in {"accepted", "replayed", "ignored", "conflict", "not_found", "error",
                   "dropped"},
         Answer(c, kind)
  PROVE  /\ calls' \in [Calls -> Call]
         /\ \A p \in Calls \ {c} : calls'[p] = calls[p]
         /\ calls'[c].pc = "answered" /\ calls'[c].answer = kind
         /\ calls'[c].id = calls[c].id /\ calls'[c].payload = calls[c].payload
         /\ calls'[c].repo = calls[c].repo /\ calls'[c].won = calls[c].won
         /\ calls'[c].event = calls[c].event /\ calls'[c].signature = calls[c].signature
  <1>1. calls[c] \in Call
    BY DEF TypeOK
  <1>2. calls'[c] = [pc |-> "answered", gateway |-> calls[c].gateway, id |-> calls[c].id,
                     payload |-> calls[c].payload, signature |-> calls[c].signature,
                     event |-> calls[c].event, repo |-> calls[c].repo, dead |-> None,
                     won |-> calls[c].won, answer |-> kind]
    BY <1>1 DEF Answer, TypeOK, Call
  <1>3. calls'[c] \in Call
    BY <1>1, <1>2 DEF Call
  <1>4. QED
    BY <1>1, <1>2, <1>3 DEF Answer, TypeOK, Call

\* What moving on does. (the handler's next await)
LEMMA GotoEffect ==
  ASSUME TypeOK, NEW c \in Calls, NEW label \in {"compare", "replay"}, Goto(c, label)
  PROVE  /\ calls' \in [Calls -> Call]
         /\ \A p \in Calls \ {c} : calls'[p] = calls[p]
         /\ calls'[c].pc = label /\ calls'[c].answer = calls[c].answer
         /\ calls'[c].id = calls[c].id /\ calls'[c].payload = calls[c].payload
         /\ calls'[c].repo = calls[c].repo /\ calls'[c].won = calls[c].won
         /\ calls'[c].event = calls[c].event /\ calls'[c].signature = calls[c].signature
  <1>1. calls[c] \in Call
    BY DEF TypeOK
  <1>2. calls'[c] = [calls[c] EXCEPT !.pc = label]
    BY DEF Goto, TypeOK
  <1>3. calls'[c] \in Call
    BY <1>1, <1>2 DEF Call
  <1>4. QED
    BY <1>1, <1>2, <1>3 DEF Goto, TypeOK, Call

\* The count of faults stays within its bound and never returns to zero.
LEMMA FaultEffect ==
  ASSUME TypeOK, Fault
  PROVE  faults' \in 0 .. MaxFaults /\ faults' # 0
  BY BoundsAssumption DEF TypeOK, Fault

\* A call that is turned down before it won anything has nothing to be true.
\* (the handler's early returns)
LEMMA PlainAnswer ==
  ASSUME IInv, NEW c \in Calls, calls[c].pc \in {"resolve", "begin", "reserve", "compare"},
         NEW kind \in {"not_found", "error", "dropped"}, Answer(c, kind),
         UNCHANGED <<deliveries, repos, ci, ended>>,
         faults' \in 0 .. MaxFaults, FaultsStay
  PROVE  IInv'
  <1>1. TypeOK /\ Sound(c)
    BY DEF IInv
  <1>2. /\ calls' \in [Calls -> Call]
        /\ \A p \in Calls \ {c} : calls'[p] = calls[p]
        /\ calls'[c].pc = "answered" /\ calls'[c].answer = kind
        /\ calls'[c].won = calls[c].won
    BY <1>1, AnswerEffect
  <1>3. ~calls[c].won /\ ci[c] = "none"
    BY <1>1 DEF Sound, Underway, WinnerSchedules, FailedAfterReserving
  <1>4. TypeOK' /\ StepOf(c) /\ RowsCleaned
    BY <1>1, <1>2 DEF TypeOK, StepOf, RowsCleaned
  <1>5. Sound(c)'
    BY <1>2, <1>3 DEF Sound, Underway, WinnerSchedules, FailedAfterReserving, DeadIsExpired, JudgedRightly
  <1>6. QED
    BY <1>2, <1>3, <1>4, <1>5, CallStepKeeps

\* The cleanup removes expired rows only, or fails and is only logged.
\* (cleanup_expired)
LEMMA CleanupEffect ==
  ASSUME TypeOK, CleanupExpired, UNCHANGED ended
  PROVE  /\ RowsCleaned /\ FaultsStay
         /\ deliveries' \in [Ids -> Delivery \cup {None}] /\ faults' \in 0 .. MaxFaults
  <1>1. CASE deliveries' = [d \in Ids |-> IF Expired(d) THEN None ELSE deliveries[d]]
              /\ UNCHANGED faults
    BY <1>1 DEF RowsCleaned, FaultsStay, TypeOK
  <1>2. CASE Fault /\ UNCHANGED deliveries
    BY <1>2, FaultEffect DEF RowsCleaned, FaultsStay, TypeOK
  <1>3. QED
    BY <1>1, <1>2 DEF CleanupExpired

-----------------------------------------------------------------------------
(* The invariant *)

\* The invariant holds of empty tables. (webhook_deliveries)
LEMMA InitIInv == Init => IInv
  <1> SUFFICES ASSUME Init PROVE IInv
    OBVIOUS
  <1>1. Unsent \in Call
    BY DEF Unsent, Call
  <1>2. TypeOK
    BY <1>1, BoundsAssumption DEF Init, TypeOK
  <1>3. \A c \in Calls : Sound(c)
    BY DEF Init, Unsent, Sound, Underway, WinnerSchedules, FailedAfterReserving, DeadIsExpired, JudgedRightly
  <1>4. RowsAreTrue
    BY DEF Init, RowsAreTrue
  <1>5. ASSUME NEW d \in Ids PROVE CountedFor(d)
    <2>1. Winners(d) = {}
      BY DEF Init, Unsent, Winners
    <2>2. QED
      BY <2>1, FS_EmptySet DEF CountedFor, Init, Live
  <1>6. QED
    BY <1>2, <1>3, <1>4, <1>5 DEF IInv, Counted

\* The insert reserves the id for its call, whether or not the handler learns
\* of it, and whether or not anybody waits for it. (reserve_delivery)
LEMMA ReserveStep ==
  ASSUME IInv, NEW c \in Calls, ReserveNew(c) \/ ReserveNewUnacknowledged(c) \/ DropCommitted(c)
  PROVE  IInv'
  <1> DEFINE id == calls[c].id
  <1>1. /\ TypeOK /\ calls[c] \in Call /\ Sound(c) /\ calls[c].pc = "reserve"
        /\ id \in Ids /\ calls[c].payload \in Payloads /\ calls[c].repo \in Repos
        /\ calls[c].event = "push" /\ calls[c].signature = calls[c].payload
        /\ ~calls[c].won /\ ci[c] = "none"
    BY DEF ReserveNew, ReserveNewUnacknowledged, DropCommitted, Insert, At, IInv, TypeOK, Sound, Underway,
           WinnerSchedules, FailedAfterReserving
  <1>2. /\ deliveries' = [deliveries EXCEPT ![id] =
                            [payload |-> calls[c].payload, repo |-> calls[c].repo, by |-> c,
                             expired |-> FALSE]]
        /\ UNCHANGED <<repos, ci, ended>>
    BY DEF ReserveNew, ReserveNewUnacknowledged, DropCommitted, Insert
  <1>3. /\ calls' \in [Calls -> Call] /\ \A p \in Calls \ {c} : calls'[p] = calls[p]
        /\ calls'[c].won /\ calls'[c].id = id /\ calls'[c].payload = calls[c].payload
        /\ calls'[c].repo = calls[c].repo
        /\ calls'[c].event = "push" /\ calls'[c].signature = calls[c].payload
        /\ \/ calls'[c].pc = "schedule" /\ calls'[c].answer = "none"
           \/ calls'[c].pc = "answered" /\ calls'[c].answer = "error" /\ faults' # 0
           \/ calls'[c].pc = "answered" /\ calls'[c].answer = "dropped"
        /\ faults' \in 0 .. MaxFaults /\ FaultsStay
    <2>1. CASE ReserveNew(c)
      <3>1. /\ calls'[c] = [calls[c] EXCEPT !.pc = "schedule", !.won = TRUE, !.dead = None]
            /\ \A p \in Calls \ {c} : calls'[p] = calls[p]
        BY <1>1, <2>1 DEF ReserveNew, TypeOK
      <3>2. calls'[c] \in Call /\ calls'[c].answer = calls[c].answer
        BY <1>1, <3>1 DEF Call
      <3>3. calls[c].answer = "none"
        BY <1>1 DEF Sound, Underway
      <3>4. QED
        BY <1>1, <2>1, <3>1, <3>2, <3>3 DEF ReserveNew, TypeOK, Call, FaultsStay
    <2>2. CASE ReserveNewUnacknowledged(c)
      <3>1. /\ calls'[c] = [pc |-> "answered", gateway |-> calls[c].gateway, id |-> id,
                            payload |-> calls[c].payload, signature |-> calls[c].signature,
                            event |-> calls[c].event, repo |-> calls[c].repo,
                            dead |-> None, won |-> TRUE, answer |-> "error"]
            /\ \A p \in Calls \ {c} : calls'[p] = calls[p]
        BY <1>1, <2>2 DEF ReserveNewUnacknowledged, TypeOK, Call
      <3>2. calls'[c] \in Call
        BY <1>1, <3>1 DEF Call
      <3>3. faults' \in 0 .. MaxFaults /\ faults' # 0
        BY <1>1, <2>2, FaultEffect DEF ReserveNewUnacknowledged
      <3>4. QED
        BY <1>1, <2>2, <3>1, <3>2, <3>3 DEF ReserveNewUnacknowledged, TypeOK, FaultsStay
    <2>3. CASE DropCommitted(c)
      <3>1. /\ calls'[c] = [pc |-> "answered", gateway |-> calls[c].gateway, id |-> id,
                            payload |-> calls[c].payload, signature |-> calls[c].signature,
                            event |-> calls[c].event, repo |-> calls[c].repo,
                            dead |-> None, won |-> TRUE, answer |-> "dropped"]
            /\ \A p \in Calls \ {c} : calls'[p] = calls[p]
        BY <1>1, <2>3 DEF DropCommitted, TypeOK, Call
      <3>2. calls'[c] \in Call
        BY <1>1, <3>1 DEF Call
      <3>3. QED
        BY <1>1, <2>3, <3>1, <3>2 DEF DropCommitted, TypeOK, FaultsStay
    <2>4. QED
      BY <2>1, <2>2, <2>3
  <1>4. /\ deliveries'[id] = [payload |-> calls[c].payload, repo |-> calls[c].repo,
                              by |-> c, expired |-> FALSE]
        /\ deliveries'[id] \in Delivery /\ deliveries'[id] # None
        /\ \A d \in Ids \ {id} : deliveries'[d] = deliveries[d]
    <2>1. /\ deliveries'[id] = [payload |-> calls[c].payload, repo |-> calls[c].repo,
                                by |-> c, expired |-> FALSE]
          /\ \A d \in Ids \ {id} : deliveries'[d] = deliveries[d]
      BY <1>1, <1>2 DEF TypeOK
    <2>2. deliveries'[id] \in Delivery
      BY <1>1, <2>1 DEF Delivery
    <2>3. QED
      BY <2>1, <2>2, DeliveryAssumption
  <1>5. TypeOK'
    BY <1>1, <1>2, <1>3, <1>4 DEF TypeOK
  <1>6. WinnersStay /\ RowsAge
    BY <1>1, <1>3, <1>4 DEF WinnersStay, RowsAge
  <1>7. ASSUME NEW p \in Calls PROVE Sound(p)'
    <2>1. CASE p = c
      BY <1>1, <1>2, <1>3, <2>1
      DEF Sound, Underway, WinnerSchedules, FailedAfterReserving, DeadIsExpired, JudgedRightly
    <2>2. CASE p # c
      BY <1>2, <1>3, <1>6, <2>2, SoundFrame
    <2>3. QED
      BY <2>1, <2>2
  <1>8. RowsAreTrue'
    <2>1. ASSUME NEW d \in Ids, d # id, deliveries'[d] # None
          PROVE  /\ calls'[deliveries'[d].by].won
                 /\ calls'[deliveries'[d].by].id = d
                 /\ calls'[deliveries'[d].by].payload = deliveries'[d].payload
                 /\ calls'[deliveries'[d].by].repo = deliveries'[d].repo
      BY <1>4, <1>6, <2>1, RowFrame
    <2>2. /\ calls'[deliveries'[id].by].won
          /\ calls'[deliveries'[id].by].id = id
          /\ calls'[deliveries'[id].by].payload = deliveries'[id].payload
          /\ calls'[deliveries'[id].by].repo = deliveries'[id].repo
      BY <1>3, <1>4
    <2>3. QED
      BY <2>1, <2>2 DEF RowsAreTrue
  <1>9. ASSUME NEW d \in Ids PROVE CountedFor(d)'
    <2>1. CASE d # id
      <3>1. Winners(d)' = Winners(d)
        BY <1>1, <1>3, <2>1 DEF Winners
      <3>2. Live(d)' = Live(d) /\ ended'[d] = ended[d]
        BY <1>2, <1>4, <2>1 DEF Live
      <3>3. QED
        BY <3>1, <3>2, CountFrame
    <2>2. CASE d = id
      <3>1. ~Live(d)
        <4>1. ~IdIsTaken(c)
          BY DEF ReserveNew, ReserveNewUnacknowledged, DropCommitted, Insert
        <4>2. CASE deliveries[d] = None
          BY <4>2 DEF Live
        <4>3. CASE deliveries[d] # None
          <5>1. deliveries[d].by = calls[c].dead
            BY <2>2, <4>1, <4>3 DEF IdIsTaken
          <5>2. calls[c].dead # None
            BY <1>1, <4>3, <5>1, NoneAssumption DEF TypeOK, Delivery
          <5>3. QED
            BY <1>1, <2>2, <4>3, <5>1, <5>2 DEF Sound, DeadIsExpired, Live
        <4>4. QED
          BY <4>2, <4>3
      <3>2. Winners(d)' = Winners(d) \cup {c} /\ c \notin Winners(d)
        BY <1>1, <1>3, <2>2 DEF Winners
      <3>3. /\ IsFiniteSet(Winners(d)) /\ Cardinality(Winners(d)) <= ended[d]
            /\ ended[d] \in Nat
        BY <1>1, <3>1, BoundsAssumption DEF IInv, Counted, CountedFor, TypeOK
      <3>4. Cardinality(Winners(d)) \in Nat
        BY <3>3, FS_CardinalityType
      <3>5. /\ IsFiniteSet(Winners(d)')
            /\ Cardinality(Winners(d)') = Cardinality(Winners(d)) + 1
        BY <3>2, <3>3, FS_AddElement
      <3>6. Live(d)' /\ ended' = ended
        BY <1>2, <1>4, <2>2 DEF Live
      <3>7. QED
        BY <3>3, <3>4, <3>5, <3>6 DEF CountedFor
    <2>3. QED
      BY <2>1, <2>2
  <1>10. QED
    BY <1>5, <1>7, <1>8, <1>9 DEF IInv, Counted

\* A reservation ends: it expires, or its repository is deleted. The id may then
\* be won once more, which is what the end counts. (expires_at, on delete cascade)
LEMMA EndingStep ==
  ASSUME IInv, UNCHANGED <<calls, ci, faults>>, TypeOK',
         \A d \in Ids :
           /\ deliveries'[d] # None =>
                /\ deliveries[d] # None
                /\ deliveries'[d].by = deliveries[d].by
                /\ deliveries'[d].payload = deliveries[d].payload
                /\ deliveries'[d].repo = deliveries[d].repo
                /\ deliveries[d].expired => deliveries'[d].expired
           /\ ended'[d] = IF Live(d) /\ ~Live(d)' THEN ended[d] + 1 ELSE ended[d]
  PROVE  IInv'
  <1>1. WinnersStay /\ FaultsStay /\ RowsAge
    BY DEF WinnersStay, FaultsStay, RowsAge
  <1>2. \A c \in Calls : Sound(c)'
    BY <1>1, SoundFrame
  <1>3. RowsAreTrue'
    BY <1>1, RowFrame DEF RowsAreTrue
  <1>4. ASSUME NEW d \in Ids PROVE CountedFor(d)'
    <2>1. Winners(d)' = Winners(d)
      BY DEF Winners
    <2>2. CASE ~(Live(d) /\ ~Live(d)')
      BY <2>1, <2>2, CountFrame
    <2>3. CASE Live(d) /\ ~Live(d)'
      <3>1. /\ IsFiniteSet(Winners(d)) /\ Cardinality(Winners(d)) <= ended[d] + 1
            /\ ended[d] \in Nat
        BY <2>3, BoundsAssumption DEF IInv, Counted, CountedFor, TypeOK
      <3>2. QED
        BY <2>1, <2>3, <3>1, FS_CardinalityType DEF CountedFor
    <2>4. QED
      BY <2>2, <2>3
  <1>5. QED
    BY <1>2, <1>3, <1>4 DEF IInv, Counted

\* A replica that stops answers nobody and loses the tasks it had not started,
\* but takes no winner's reservation away. (the process)
LEMMA CrashStep ==
  ASSUME IInv, NEW g \in Gateways, Crash(g)
  PROVE  IInv'
  <1>1. /\ TypeOK /\ UNCHANGED <<deliveries, repos, ended>>
        /\ faults' \in 0 .. MaxFaults /\ faults' # 0
    BY FaultEffect DEF IInv, Crash
  <1>2. ASSUME NEW c \in Calls
        PROVE  /\ calls'[c] \in Call
               /\ calls'[c].won = calls[c].won /\ calls'[c].id = calls[c].id
               /\ calls'[c].payload = calls[c].payload /\ calls'[c].repo = calls[c].repo
               /\ calls'[c].event = calls[c].event
               /\ calls'[c].signature = calls[c].signature
               /\ \/ calls'[c] = calls[c]
                  \/ calls'[c].pc = "answered" /\ calls'[c].answer = "error"
               /\ ci'[c] = ci[c] \/ (ci[c] # "none" /\ ci'[c] = "lost")
    <2>1. calls[c] \in Call
      BY <1>1 DEF TypeOK
    <2>a. ci'[c] = ci[c] \/ (ci[c] # "none" /\ ci'[c] = "lost")
      <3>1. ci' = [b \in Calls |-> IF calls[b].gateway = g /\ ci[b] = "spawned"
                                     THEN "lost" ELSE ci[b]]
        BY DEF Crash
      <3>2. ci'[c] = IF calls[c].gateway = g /\ ci[c] = "spawned" THEN "lost" ELSE ci[c]
        BY <3>1, Zenon
      <3>3. QED
        BY <3>2
    <2>2. CASE calls[c].gateway = g /\ calls[c].pc # "answered"
      <3>1. calls'[c] = [calls[c] EXCEPT !.pc = "answered", !.answer = "error",
      !.dead = None]
        BY <2>2 DEF Crash
      <3>2. calls'[c] = [pc |-> "answered", gateway |-> calls[c].gateway,
      id |-> calls[c].id,
                         payload |-> calls[c].payload, signature |-> calls[c].signature,
                         event |-> calls[c].event, repo |-> calls[c].repo, dead |-> None,
                         won |-> calls[c].won, answer |-> "error"]
        BY <2>1, <3>1 DEF Call
      <3>3. calls'[c] \in Call
        BY <2>1, <3>2 DEF Call
      <3>4. QED
        BY <2>a, <3>2, <3>3
    <2>3. CASE ~(calls[c].gateway = g /\ calls[c].pc # "answered")
      <3>1. calls'[c] = calls[c]
        BY <2>3 DEF Crash
      <3>2. QED
        BY <2>1, <2>a, <3>1
    <2>4. QED
      BY <2>2, <2>3
  <1>3. TypeOK'
    <2>1. calls' \in [Calls -> Call]
      BY <1>2 DEF Crash
    <2>2. ci' \in [Calls -> {"none", "spawned", "created", "lost"}]
      BY <1>1 DEF Crash, TypeOK
    <2>3. QED
      BY <1>1, <2>1, <2>2 DEF TypeOK
  <1>4. WinnersStay /\ FaultsStay /\ RowsAge
    BY <1>1, <1>2 DEF WinnersStay, FaultsStay, RowsAge
  <1>5. ASSUME NEW c \in Calls PROVE Sound(c)'
    <2>1. Sound(c)
      BY DEF IInv
    <2>2. CASE calls'[c] = calls[c] /\ ci'[c] = ci[c]
      BY <1>4, <2>2, SoundFrame
    <2>3. CASE calls'[c] = calls[c] /\ ci'[c] # ci[c]
      <3>1. (DeadIsExpired(c) /\ JudgedRightly(c))'
        BY <1>2, <2>1, <2>3 DEF Sound, Underway, DeadIsExpired, JudgedRightly
      <3>2. (Underway(c) /\ WinnerSchedules(c))'
        BY <1>1, <1>2, <2>1, <2>3 DEF Sound, Underway, WinnerSchedules, FailedAfterReserving
      <3>3. QED
        BY <3>1, <3>2 DEF Sound
    <2>4. CASE calls'[c] # calls[c]
      BY <1>1, <1>2, <2>1, <2>4
      DEF Sound, Underway, WinnerSchedules, FailedAfterReserving, DeadIsExpired, JudgedRightly
    <2>5. QED
      BY <2>2, <2>3, <2>4
  <1>6. RowsAreTrue'
    BY <1>1, <1>4, RowFrame DEF RowsAreTrue
  <1>7. ASSUME NEW d \in Ids PROVE CountedFor(d)'
    <2>1. Winners(d)' = Winners(d)
      BY <1>2 DEF Winners
    <2>2. Live(d)' = Live(d) /\ ended'[d] = ended[d]
      BY <1>1 DEF Live
    <2>3. QED
      BY <2>1, <2>2, CountFrame
  <1>8. QED
    BY <1>3, <1>5, <1>6, <1>7 DEF IInv, Counted

\* Every step of the handler, of the detached task, of time and of the
\* repositories keeps the invariant. (webhooks::forgejo, ci::run)
LEMMA StepIInv == IInv /\ [Next]_vars => IInv'
  <1> SUFFICES ASSUME IInv, [Next]_vars PROVE IInv'
    OBVIOUS
  <1>t. TypeOK /\ \A c \in Calls : calls[c] \in Call /\ Sound(c)
    BY DEF IInv, TypeOK
  <1>f. UNCHANGED faults => FaultsStay
    BY DEF FaultsStay
  <1>1. ASSUME NEW c \in Calls, NEW g \in Gateways, NEW d \in Ids, NEW p \in Payloads,
               NEW s \in Payloads \cup {None}, NEW e \in {"push", "other", "malformed"},
               Receive(c, g, d, p, s, e)
        PROVE  IInv'
    <2>1. /\ calls[c].pc = "unsent" /\ ~calls[c].won
          /\ calls[c].answer = "none" /\ ci[c] = "none"
      BY <1>t, <1>1 DEF Receive, At, Sound, Underway, WinnerSchedules, FailedAfterReserving
    <2>2. /\ calls'[c] \in Call /\ calls'[c].won = calls[c].won
          /\ calls'[c].id = d /\ calls'[c].payload = p /\ calls'[c].signature = s
          /\ calls'[c].event = e
          /\ \/ calls'[c].pc = "resolve" /\ calls'[c].answer = "none" /\ s = p /\ e = "push"
             \/ /\ calls'[c].pc = "answered"
                /\ calls'[c].answer \in {"unauthorized", "invalid", "ignored"}
          /\ \A q \in Calls \ {c} : calls'[q] = calls[q]
      <3> DEFINE sent == [calls[c] EXCEPT !.gateway = g, !.id = d, !.payload = p,
                                          !.signature = s, !.event = e]
                 call(pc, answer) ==
            [pc |-> pc, gateway |-> g, id |-> d, payload |-> p, signature |-> s,
            event |-> e,
             repo |-> calls[c].repo, dead |-> calls[c].dead, won |-> calls[c].won,
             answer |-> answer]
      <3>1. \A q \in Calls \ {c} : calls'[q] = calls[q]
        BY <1>t, <1>1 DEF Receive, TypeOK
      <3>2. CASE ~Verified(s, p)
        <4>1. calls'[c] = [sent EXCEPT !.pc = "answered", !.answer = "unauthorized"]
          BY <1>t, <1>1, <3>2 DEF Receive, TypeOK
        <4>2. calls'[c] = call("answered", "unauthorized")
          BY <1>t, <2>1, <4>1 DEF Call
        <4>3. QED
          BY <1>t, <2>1, <3>1, <4>2 DEF Call
      <3>3. CASE Verified(s, p) /\ e = "malformed"
        <4>1. calls'[c] = [sent EXCEPT !.pc = "answered", !.answer = "invalid"]
          BY <1>t, <1>1, <3>3 DEF Receive, TypeOK
        <4>2. calls'[c] = call("answered", "invalid")
          BY <1>t, <2>1, <4>1 DEF Call
        <4>3. QED
          BY <1>t, <2>1, <3>1, <4>2 DEF Call
      <3>4. CASE Verified(s, p) /\ e = "other"
        <4>1. calls'[c] = [sent EXCEPT !.pc = "answered", !.answer = "ignored"]
          BY <1>t, <1>1, <3>4 DEF Receive, TypeOK
        <4>2. calls'[c] = call("answered", "ignored")
          BY <1>t, <2>1, <4>1 DEF Call
        <4>3. QED
          BY <1>t, <2>1, <3>1, <4>2 DEF Call
      <3>5. CASE Verified(s, p) /\ e = "push"
        <4>1. calls'[c] = [sent EXCEPT !.pc = "resolve"]
          BY <1>t, <1>1, <3>5 DEF Receive, TypeOK
        <4>2. calls'[c] = call("resolve", "none")
          BY <1>t, <2>1, <4>1 DEF Call
        <4>3. QED
          BY <1>t, <2>1, <3>1, <3>5, <4>2 DEF Call, Verified
      <3>6. QED
        BY <3>2, <3>3, <3>4, <3>5
    <2>3. TypeOK' /\ StepOf(c) /\ RowsCleaned /\ FaultsStay
      BY <1>t, <1>f, <1>1, <2>2 DEF Receive, TypeOK, StepOf, RowsCleaned
    <2>4. Sound(c)'
      BY <1>1, <2>1, <2>2
      DEF Receive, Sound, Underway, WinnerSchedules, FailedAfterReserving, DeadIsExpired, JudgedRightly
    <2>5. QED
      BY <2>1, <2>2, <2>3, <2>4, CallStepKeeps
  <1>2. ASSUME NEW c \in Calls, Resolve(c) PROVE IInv'
    <2>1. CASE Cardinality(Owners) = 1
      <3> DEFINE repo == CHOOSE r \in Owners : TRUE
      <3>1. repo \in Repos
        <4>1. Owners # {}
          BY <2>1, FS_EmptySet
        <4>2. QED
          BY <4>1 DEF Owners
      <3>2. /\ calls'[c] = [calls[c] EXCEPT !.pc = "begin", !.repo = repo]
            /\ \A p \in Calls \ {c} : calls'[p] = calls[p]
            /\ calls' = [calls EXCEPT ![c] = calls'[c]]
            /\ UNCHANGED <<deliveries, repos, ci, ended, faults>>
        BY <1>t, <1>2, <2>1 DEF Resolve, TypeOK
      <3> HIDE DEF repo
      <3>3. /\ calls'[c] \in Call /\ calls'[c].pc = "begin" /\ calls'[c].repo = repo
            /\ calls'[c].answer = calls[c].answer /\ calls'[c].won = calls[c].won
            /\ calls'[c].id = calls[c].id /\ calls'[c].payload = calls[c].payload
            /\ calls'[c].event = calls[c].event /\ calls'[c].signature = calls[c].signature
        BY <1>t, <3>1, <3>2, ZenonT(60) DEF Call
      <3>4. TypeOK' /\ StepOf(c) /\ RowsCleaned /\ FaultsStay
        BY <1>t, <1>f, <3>2, <3>3 DEF TypeOK, StepOf, RowsCleaned
      <3>5. calls[c].pc = "resolve" /\ ~calls[c].won
        BY <1>t, <1>2 DEF Resolve, At, Sound, WinnerSchedules, FailedAfterReserving
      <3>6. Sound(c)'
        BY <1>t, <1>2, <3>1, <3>3, <3>5
        DEF Resolve, Sound, Underway, WinnerSchedules, FailedAfterReserving, DeadIsExpired, JudgedRightly
      <3>7. QED
        BY <3>3, <3>4, <3>5, <3>6, CallStepKeeps
    <2>2. CASE Cardinality(Owners) # 1
      BY <1>t, <1>f, <1>2, <2>2, PlainAnswer DEF Resolve, At, TypeOK
    <2>3. QED
      BY <2>1, <2>2
  <1>3. ASSUME NEW c \in Calls, Begin(c) PROVE IInv'
    <2> DEFINE row == deliveries[calls[c].id]
               dead == IF Expired(calls[c].id) THEN row.by ELSE None
    <2>1. calls[c].pc = "begin" /\ ~calls[c].won /\ calls[c].id \in Ids
      BY <1>t, <1>3 DEF Begin, At, Sound, Underway, WinnerSchedules, FailedAfterReserving
    <2>2. dead \in Calls \cup {None}
      BY <1>t, <2>1 DEF TypeOK, Delivery, Expired
    <2>3. /\ calls'[c] = [calls[c] EXCEPT !.pc = "reserve", !.dead = dead]
          /\ \A p \in Calls \ {c} : calls'[p] = calls[p]
      BY <1>t, <1>3 DEF Begin, TypeOK
    <2>4. dead # None => /\ calls[dead].won
                         /\ row # None /\ row.by = dead => row.expired
      BY <2>1 DEF IInv, RowsAreTrue, Expired
    <2>5. UNCHANGED <<deliveries, repos, ci, ended, faults>>
      BY <1>3 DEF Begin
    <2> HIDE DEF dead
    <2>6. /\ calls'[c] \in Call /\ calls'[c].pc = "reserve" /\ calls'[c].dead = dead
          /\ calls'[c].answer = calls[c].answer /\ calls'[c].won = calls[c].won
          /\ calls'[c].id = calls[c].id /\ calls'[c].payload = calls[c].payload
          /\ calls'[c].repo = calls[c].repo
          /\ calls'[c].event = calls[c].event /\ calls'[c].signature = calls[c].signature
      BY <1>t, <2>2, <2>3, ZenonT(60) DEF Call
    <2>7. TypeOK' /\ StepOf(c) /\ RowsCleaned /\ FaultsStay
      <3>1. calls' = [calls EXCEPT ![c] = calls'[c]]
        BY <1>t, <1>3 DEF Begin, TypeOK
      <3>2. QED
        BY <1>t, <1>f, <2>3, <2>5, <2>6, <3>1 DEF TypeOK, StepOf, RowsCleaned
    <2>8. DeadIsExpired(c)'
      BY <2>1, <2>2, <2>3, <2>4, <2>5, <2>6 DEF DeadIsExpired
    <2>9. Sound(c)'
      BY <1>t, <2>1, <2>5, <2>6, <2>8 DEF Sound, Underway, WinnerSchedules, FailedAfterReserving, JudgedRightly
    <2>10. QED
      BY <2>6, <2>7, <2>9, CallStepKeeps
  <1>4. ASSUME NEW c \in Calls, ReserveNew(c) \/ ReserveNewUnacknowledged(c) \/ DropCommitted(c) PROVE IInv'
    BY <1>4, ReserveStep
  <1>5. ASSUME NEW c \in Calls, ReserveOrphan(c) PROVE IInv'
    BY <1>t, <1>f, <1>5, PlainAnswer DEF ReserveOrphan, At, TypeOK
  <1>6. ASSUME NEW c \in Calls, ReserveTaken(c) PROVE IInv'
    <2>1. /\ calls[c].pc = "reserve" /\ Goto(c, "compare")
          /\ UNCHANGED <<deliveries, repos, ci, ended, faults>>
      BY <1>6 DEF ReserveTaken, At
    <2>2. /\ calls' \in [Calls -> Call] /\ \A p \in Calls \ {c} : calls'[p] = calls[p]
          /\ calls'[c].pc = "compare" /\ calls'[c].answer = calls[c].answer
          /\ calls'[c].id = calls[c].id /\ calls'[c].payload = calls[c].payload
          /\ calls'[c].repo = calls[c].repo /\ calls'[c].won = calls[c].won
          /\ calls'[c].event = calls[c].event /\ calls'[c].signature = calls[c].signature
      BY <1>t, <2>1, GotoEffect
    <2>3. TypeOK' /\ StepOf(c) /\ RowsCleaned /\ FaultsStay
      BY <1>t, <1>f, <2>1, <2>2 DEF TypeOK, StepOf, RowsCleaned
    <2>4. Sound(c)'
      BY <1>t, <2>1, <2>2
      DEF Sound, Underway, WinnerSchedules, FailedAfterReserving, DeadIsExpired, JudgedRightly
    <2>5. QED
      BY <2>2, <2>3, <2>4, CallStepKeeps
  <1>7. ASSUME NEW c \in Calls, Compare(c) PROVE IInv'
    <2> DEFINE row == deliveries[calls[c].id]
    <2>1. /\ calls[c].pc = "compare" /\ calls[c].id \in Ids /\ ~calls[c].won
          /\ ci[c] = "none" /\ calls[c].answer = "none"
          /\ UNCHANGED <<deliveries, repos, ci, ended, faults>>
      BY <1>t, <1>7 DEF Compare, At, Sound, Underway, WinnerSchedules, FailedAfterReserving
    <2>2. CASE row = None
      BY <1>t, <1>f, <1>7, <2>1, <2>2, PlainAnswer DEF Compare, TypeOK
    <2>3. ASSUME row # None
          PROVE  /\ row.by \in Calls /\ calls[row.by].won /\ calls[row.by].id = calls[c].id
                 /\ calls[row.by].payload = row.payload /\ calls[row.by].repo = row.repo
                 /\ row.by # c
      BY <1>t, <2>1, <2>3 DEF IInv, RowsAreTrue, TypeOK, Delivery
    <2>4. CASE row # None /\ SameDelivery(c)
      <3>1. Goto(c, "replay")
        BY <1>7, <2>4 DEF Compare
      <3>2. /\ calls' \in [Calls -> Call] /\ \A p \in Calls \ {c} : calls'[p] = calls[p]
            /\ calls'[c].pc = "replay" /\ calls'[c].answer = calls[c].answer
            /\ calls'[c].id = calls[c].id /\ calls'[c].payload = calls[c].payload
            /\ calls'[c].repo = calls[c].repo /\ calls'[c].won = calls[c].won
            /\ calls'[c].event = calls[c].event /\ calls'[c].signature = calls[c].signature
        BY <1>t, <3>1, GotoEffect
      <3>3. TypeOK' /\ StepOf(c) /\ RowsCleaned /\ FaultsStay
        BY <1>t, <1>f, <2>1, <3>2 DEF TypeOK, StepOf, RowsCleaned
      <3>4. JudgedRightly(c)'
        BY <2>1, <2>3, <2>4, <3>2 DEF SameDelivery, JudgedRightly
      <3>5. Sound(c)'
        BY <1>t, <2>1, <3>2, <3>4 DEF Sound, Underway, WinnerSchedules, FailedAfterReserving, DeadIsExpired
      <3>6. QED
        BY <3>2, <3>3, <3>5, CallStepKeeps
    <2>5. CASE row # None /\ ~SameDelivery(c)
      <3>1. Answer(c, "conflict")
        BY <1>7, <2>5 DEF Compare
      <3>2. /\ calls' \in [Calls -> Call] /\ \A p \in Calls \ {c} : calls'[p] = calls[p]
            /\ calls'[c].pc = "answered" /\ calls'[c].answer = "conflict"
            /\ calls'[c].id = calls[c].id /\ calls'[c].payload = calls[c].payload
            /\ calls'[c].repo = calls[c].repo /\ calls'[c].won = calls[c].won
        BY <1>t, <3>1, AnswerEffect
      <3>3. TypeOK' /\ StepOf(c) /\ RowsCleaned /\ FaultsStay
        BY <1>t, <1>f, <2>1, <3>2 DEF TypeOK, StepOf, RowsCleaned
      <3>4. JudgedRightly(c)'
        BY <2>1, <2>3, <2>5, <3>2 DEF SameDelivery, JudgedRightly
      <3>5. Sound(c)'
        BY <2>1, <3>2, <3>4 DEF Sound, Underway, WinnerSchedules, FailedAfterReserving, DeadIsExpired
      <3>6. QED
        BY <3>2, <3>3, <3>5, CallStepKeeps
    <2>6. QED
      BY <2>2, <2>4, <2>5
  <1>8. ASSUME NEW c \in Calls, Schedule(c) PROVE IInv'
    <2>1. /\ calls[c].pc = "schedule" /\ calls[c].won /\ ci[c] = "none"
          /\ calls[c].event = "push" /\ calls[c].signature = calls[c].payload
          /\ UNCHANGED <<repos, ended>>
      BY <1>t, <1>8 DEF Schedule, At, Sound, Underway
    <2>2. /\ RowsCleaned /\ FaultsStay
          /\ deliveries' \in [Ids -> Delivery \cup {None}] /\ faults' \in 0 .. MaxFaults
      BY <1>t, <1>8, <2>1, CleanupEffect DEF Schedule
    <2>3. PICK kind \in {"accepted", "ignored"} :
            /\ Answer(c, kind)
            /\ \A p \in Calls \ {c} : ci'[p] = ci[p]
            /\ ci' \in [Calls -> {"none", "spawned", "created", "lost"}]
            /\ \/ calls[c].payload \in Deletions /\ ci'[c] = "none"
               \/ calls[c].payload \notin Deletions /\ ci'[c] = "spawned"
      BY <1>t, <1>8, <2>1 DEF Schedule, TypeOK
    <2>4. /\ calls' \in [Calls -> Call] /\ \A p \in Calls \ {c} : calls'[p] = calls[p]
          /\ calls'[c].pc = "answered" /\ calls'[c].answer = kind
          /\ calls'[c].id = calls[c].id /\ calls'[c].payload = calls[c].payload
          /\ calls'[c].repo = calls[c].repo /\ calls'[c].won = calls[c].won
          /\ calls'[c].event = calls[c].event /\ calls'[c].signature = calls[c].signature
      BY <1>t, <2>3, AnswerEffect
    <2>5. TypeOK' /\ StepOf(c)
      BY <1>t, <2>1, <2>2, <2>3, <2>4 DEF TypeOK, StepOf
    <2>6. Sound(c)'
      BY <2>1, <2>3, <2>4 DEF Sound, Underway, WinnerSchedules, FailedAfterReserving, DeadIsExpired, JudgedRightly
    <2>7. QED
      BY <2>2, <2>4, <2>5, <2>6, CallStepKeeps
  <1>9. ASSUME NEW c \in Calls, AcknowledgeReplay(c) PROVE IInv'
    <2>1. /\ calls[c].pc = "replay" /\ ~calls[c].won /\ ci[c] = "none"
          /\ UNCHANGED <<repos, ci, ended>>
      BY <1>t, <1>9 DEF AcknowledgeReplay, At, Sound, Underway, WinnerSchedules, FailedAfterReserving
    <2>2. /\ RowsCleaned /\ FaultsStay
          /\ deliveries' \in [Ids -> Delivery \cup {None}] /\ faults' \in 0 .. MaxFaults
      BY <1>t, <1>9, <2>1, CleanupEffect DEF AcknowledgeReplay
    <2>3. Answer(c, "replayed")
      BY <1>9 DEF AcknowledgeReplay
    <2>4. /\ calls' \in [Calls -> Call] /\ \A p \in Calls \ {c} : calls'[p] = calls[p]
          /\ calls'[c].pc = "answered" /\ calls'[c].answer = "replayed"
          /\ calls'[c].id = calls[c].id /\ calls'[c].payload = calls[c].payload
          /\ calls'[c].repo = calls[c].repo /\ calls'[c].won = calls[c].won
      BY <1>t, <2>3, AnswerEffect
    <2>5. TypeOK' /\ StepOf(c)
      BY <1>t, <2>1, <2>2, <2>4 DEF TypeOK, StepOf
    <2>6. PICK p \in Calls : /\ calls[p].won /\ calls[p].id = calls[c].id
                             /\ calls[p].payload = calls[c].payload
                             /\ calls[p].repo = calls[c].repo
      BY <1>t, <2>1 DEF Sound, JudgedRightly
    <2>7. JudgedRightly(c)'
      BY <2>1, <2>4, <2>6 DEF JudgedRightly
    <2>8. Sound(c)'
      BY <2>1, <2>4, <2>7 DEF Sound, Underway, WinnerSchedules, FailedAfterReserving, DeadIsExpired
    <2>9. QED
      BY <2>2, <2>4, <2>5, <2>8, CallStepKeeps
  <1>10. ASSUME NEW c \in Calls, Fail(c) PROVE IInv'
    BY <1>t, <1>10, FaultEffect, PlainAnswer DEF Fail, FaultsStay
  <1>11. ASSUME NEW c \in Calls, CreateRun(c) \/ CreateRunFails(c) PROVE IInv'
    <2>1. /\ ci[c] = "spawned" /\ UNCHANGED <<deliveries, repos, calls, ended>>
          /\ \A p \in Calls \ {c} : ci'[p] = ci[p]
          /\ ci' \in [Calls -> {"none", "spawned", "created", "lost"}]
          /\ faults' \in 0 .. MaxFaults /\ FaultsStay
          /\ ci'[c] = "created" \/ (ci'[c] = "lost" /\ faults' # 0)
      <3>1. CASE CreateRun(c)
        <4>1. ci' = [ci EXCEPT ![c] = "created"] /\ ci[c] = "spawned"
              /\ UNCHANGED <<deliveries, repos, calls, ended, faults>>
          BY <3>1 DEF CreateRun
        <4>2. ci' \in [Calls -> {"none", "spawned", "created", "lost"}]
          BY <1>t, <4>1 DEF TypeOK
        <4>3. ci'[c] = "created" /\ \A p \in Calls \ {c} : ci'[p] = ci[p]
          BY <1>t, <4>1 DEF TypeOK
        <4>4. faults' \in 0 .. MaxFaults
          BY <1>t, <4>1 DEF TypeOK
        <4>5. QED
          BY <1>f, <4>1, <4>2, <4>3, <4>4
      <3>2. CASE CreateRunFails(c)
        BY <1>t, <3>2, FaultEffect DEF CreateRunFails, TypeOK, FaultsStay
      <3>3. QED
        BY <1>11, <3>1, <3>2
    <2>2. TypeOK' /\ StepOf(c) /\ RowsCleaned
      BY <1>t, <2>1 DEF TypeOK, StepOf, RowsCleaned
    <2>3. Sound(c)'
      <3>1. (DeadIsExpired(c) /\ JudgedRightly(c))'
        BY <1>t, <2>1 DEF Sound, DeadIsExpired, JudgedRightly
      <3>2. (Underway(c) /\ WinnerSchedules(c))'
        BY <1>t, <2>1 DEF Sound, Underway, WinnerSchedules, FailedAfterReserving, FaultsStay
      <3>3. QED
        BY <3>1, <3>2 DEF Sound
    <2>4. QED
      BY <2>1, <2>2, <2>3, CallStepKeeps
  <1>12. ASSUME NEW g \in Gateways, Crash(g) PROVE IInv'
    BY <1>12, CrashStep
  <1>13. ASSUME NEW d \in Ids, Expire(d) PROVE IInv'
    <2>1. /\ deliveries[d] \in Delivery /\ Live(d) /\ ended[d] + 1 \in 0 .. MaxEnded
          /\ UNCHANGED <<repos, calls, ci, faults>>
      BY <1>t, <1>13, BoundsAssumption DEF Expire, Live, TypeOK
    <2>2. /\ deliveries'[d] = [deliveries[d] EXCEPT !.expired = TRUE]
          /\ \A b \in Ids \ {d} : deliveries'[b] = deliveries[b] /\ ended'[b] = ended[b]
          /\ ended'[d] = ended[d] + 1
      BY <1>t, <1>13 DEF Expire, TypeOK
    <2>3. /\ deliveries'[d] \in Delivery /\ deliveries'[d].expired
          /\ deliveries'[d].by = deliveries[d].by
          /\ deliveries'[d].payload = deliveries[d].payload
          /\ deliveries'[d].repo = deliveries[d].repo
      BY <2>1, <2>2 DEF Delivery
    <2>4. TypeOK'
      BY <1>t, <1>13, <2>1, <2>2, <2>3 DEF TypeOK, Expire
    <2>5. ~Live(d)' /\ \A b \in Ids \ {d} : Live(b)' = Live(b)
      BY <2>2, <2>3 DEF Live
    <2>6. QED
      BY <2>1, <2>2, <2>3, <2>4, <2>5, EndingStep DEF Live
  <1>14. ASSUME NEW r \in Repos, AddRepo(r) PROVE IInv'
    <2>1. TypeOK' /\ UNCHANGED <<deliveries, calls, ci, ended, faults>>
      BY <1>t, <1>14 DEF AddRepo, TypeOK
    <2>2. \A d \in Ids : Live(d)' = Live(d)
      BY <2>1 DEF Live
    <2>3. QED
      BY <2>1, <2>2, EndingStep
  <1>15. ASSUME NEW r \in Repos, DeleteRepo(r) PROVE IInv'
    <2> DEFINE gone == {d \in Ids : deliveries[d] # None /\ deliveries[d].repo = r}
               live == {d \in gone : ~Expired(d)}
    <2>1. /\ UNCHANGED <<calls, ci, faults>>
          /\ repos' \in [Repos -> {"absent", "present", "deleted"}]
          /\ \A d \in live : ended[d] < MaxEnded
          /\ deliveries' = [d \in Ids |-> IF d \in gone THEN None ELSE deliveries[d]]
          /\ ended' = [d \in Ids |-> IF d \in live THEN ended[d] + 1 ELSE ended[d]]
      BY <1>t, <1>15 DEF DeleteRepo, TypeOK
    <2>2. deliveries' \in [Ids -> Delivery \cup {None}]
      BY <1>t, <2>1 DEF TypeOK
    <2>3. ended' \in [Ids -> 0 .. MaxEnded]
      BY <1>t, <2>1, BoundsAssumption DEF TypeOK
    <2>4. TypeOK'
      BY <1>t, <2>1, <2>2, <2>3 DEF TypeOK
    <2>5. \A d \in Ids : d \in live <=> Live(d) /\ ~Live(d)'
      BY <2>1 DEF Live, Expired
    <2>6. \A d \in Ids : deliveries'[d] # None => deliveries'[d] = deliveries[d]
      BY <2>1
    <2>7. \A d \in Ids : ended'[d] = IF Live(d) /\ ~Live(d)' THEN ended[d] + 1 ELSE ended[d]
      BY <2>1, <2>5
    <2>8. QED
      BY <2>1, <2>4, <2>6, <2>7, EndingStep
  <1>16. ASSUME NEW c \in Calls, Drop(c) \/ DropCleaned(c) PROVE IInv'
    <2>1. /\ Answer(c, "dropped") /\ UNCHANGED <<repos, ci, ended, faults>>
          /\ calls[c].pc \in {"resolve", "begin", "reserve", "compare", "schedule", "replay"}
          /\ ci[c] = "none"
      BY <1>t, <1>16 DEF Drop, DropCleaned, Sound, Underway
    <2>2. /\ RowsCleaned /\ FaultsStay
          /\ deliveries' \in [Ids -> Delivery \cup {None}] /\ faults' \in 0 .. MaxFaults
      <3>1. CASE Drop(c)
        BY <1>t, <1>f, <2>1, <3>1 DEF Drop, RowsCleaned, TypeOK
      <3>2. CASE DropCleaned(c)
        BY <1>t, <2>1, <3>2, CleanupEffect DEF DropCleaned
      <3>3. QED
        BY <1>16, <3>1, <3>2
    <2>3. /\ calls' \in [Calls -> Call] /\ \A p \in Calls \ {c} : calls'[p] = calls[p]
          /\ calls'[c].pc = "answered" /\ calls'[c].answer = "dropped"
          /\ calls'[c].id = calls[c].id /\ calls'[c].payload = calls[c].payload
          /\ calls'[c].repo = calls[c].repo /\ calls'[c].won = calls[c].won
          /\ calls'[c].event = calls[c].event /\ calls'[c].signature = calls[c].signature
      BY <1>t, <2>1, AnswerEffect
    <2>4. TypeOK' /\ StepOf(c)
      BY <1>t, <2>1, <2>2, <2>3 DEF TypeOK, StepOf
    <2>5. Sound(c)'
      BY <1>t, <2>1, <2>3
      DEF Sound, Underway, WinnerSchedules, FailedAfterReserving, DeadIsExpired, JudgedRightly
    <2>6. QED
      BY <2>2, <2>3, <2>4, <2>5, CallStepKeeps
  <1>17. CASE UNCHANGED vars
    <2>1. TypeOK' /\ UNCHANGED <<calls, ci, faults, deliveries, ended>>
      BY <1>t, <1>17 DEF vars, TypeOK
    <2>2. \A d \in Ids : Live(d)' = Live(d)
      BY <2>1 DEF Live
    <2>3. QED
      BY <2>1, <2>2, EndingStep
  <1>18. QED
    BY <1>1, <1>2, <1>3, <1>4, <1>5, <1>6, <1>7, <1>8, <1>9, <1>10, <1>11, <1>12, <1>13,
       <1>14, <1>15, <1>16, <1>17 DEF Next, CallStep

\* Every reachable state satisfies the invariant.
LEMMA InvariantHolds == Spec => []IInv
  BY InitIInv, StepIInv, PTL DEF Spec

-----------------------------------------------------------------------------
(* What follows *)

\* A push starts CI once per reservation of its delivery id, and only a signed
\* push that won the reservation and deletes no branch starts any.
\* (reserve_delivery, "Only the transaction winner schedules CI")
THEOREM StartOnceTheorem == Spec => []PushesStartOnce
  <1>1. IInv => StartedIsAdmitted
    BY DEF IInv, Sound, WinnerSchedules, FailedAfterReserving, StartedIsAdmitted
  <1>2. IInv => OneStartPerReservation
    <2> SUFFICES ASSUME IInv, NEW d \in Ids
                 PROVE  Cardinality(Started(d)) <= ended[d] + 1
      BY DEF OneStartPerReservation
    <2>1. CountedFor(d) /\ ended[d] \in Nat
      BY BoundsAssumption DEF IInv, Counted, TypeOK
    <2>2. Started(d) \in SUBSET Winners(d)
      BY DEF IInv, Sound, WinnerSchedules, FailedAfterReserving, Started, Winners
    <2>3. /\ IsFiniteSet(Started(d))
          /\ Cardinality(Started(d)) <= Cardinality(Winners(d))
      BY <2>1, <2>2, FS_Subset DEF CountedFor
    <2>4. Cardinality(Started(d)) \in Nat /\ Cardinality(Winners(d)) \in Nat
      BY <2>1, <2>3, FS_CardinalityType DEF CountedFor
    <2>5. QED
      BY <2>1, <2>3, <2>4 DEF CountedFor
  <1>3. IInv => PushesStartOnce
    BY <1>1, <1>2 DEF IInv, PushesStartOnce
  <1>4. QED
    BY <1>3, InvariantHolds, PTL

\* "Exact retries are harmless and changed payloads under one id conflict".
\* (the row comparison)
THEOREM JudgedTheorem == Spec => []RetriesAreJudgedByContent
  <1>1. IInv => RetriesAreJudgedByContent
    BY DEF IInv, Sound, JudgedRightly, RetriesAreJudgedByContent
  <1>2. QED
    BY <1>1, InvariantHolds, PTL

\* An acknowledged push has its task or its run, unless the winner of its id
\* failed between the reservation and the run or its caller hung up there.
\* (forgejo, ci::run)
THEOREM NothingLostTheorem == Spec => []LostRunsHaveACause
  <1>1. ASSUME IInv, NEW c \in Calls,
               calls[c].answer \in {"accepted", "replayed"},
               calls[c].payload \notin Deletions
        PROVE  \E p \in Calls :
                 /\ calls[p].won
                 /\ calls[p].id = calls[c].id
                 /\ calls[p].payload = calls[c].payload
                 /\ calls[p].repo = calls[c].repo
                 /\ \/ ci[p] \in {"spawned", "created"} \/ At(p, "schedule")
                    \/ FailedAfterReserving(p)
                    \/ calls[p].answer = "dropped"
    <2>1. \A p \in Calls : Sound(p)
      BY <1>1 DEF IInv
    <2>2. PICK p \in Calls : /\ calls[p].won /\ calls[p].id = calls[c].id
                             /\ calls[p].payload = calls[c].payload
                             /\ calls[p].repo = calls[c].repo
      BY <1>1, <2>1 DEF Sound, WinnerSchedules, JudgedRightly
    <2>3. QED
      BY <1>1, <2>1, <2>2 DEF Sound, WinnerSchedules, At
  <1>2. IInv => LostRunsHaveACause
    BY <1>1 DEF LostRunsHaveACause
  <1>3. QED
    BY <1>2, InvariantHolds, PTL

=============================================================================
