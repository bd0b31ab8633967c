----------------------- MODULE SandboxExecutionProofs -----------------------
(***************************************************************************)
(* Theorems about SandboxExecution, for every number of requests, every    *)
(* catalog of providers and names, any number of files, commands, failing  *)
(* calls and changes of the bridge.                                        *)
(*                                                                         *)
(* The inductive invariant, IInv, has a part about each request            *)
(* (ReqSound), parts that relate the requests to each other and to the     *)
(* rows they write (BesideSound, Vanish, Exclude, Together), and parts     *)
(* about the job while it resolves its credentials and after (Resolves,    *)
(* Handed, Box).  The rows' parts speak of what a request has written or   *)
(* taken away so far, key by key: the promises are kept by every statement *)
(* of every request and not only at the end of one.                        *)
(***************************************************************************)
EXTENDS SandboxExecution, FiniteSetTheorems, WellFoundedInduction, TLAPS

ReqLabel == {"idle", "check", "read", "describe", "clear", "insert", "reload", "erase",
             "log", "done"}

Req == [pc : ReqLabel,
        kind : {"none", "create", "rotate", "describe", "delete", "connect", "disconnect"},
        todo : Seq(Keys), id : Values \cup {None}, hit : BOOLEAN, keys : SUBSET Keys,
        beside : SUBSET Requests,
        answer : {"none", "ok", "conflict", "not_found", "error"}]

Could == UNION {[S -> SUBSET (Values \cup {None})] : S \in SUBSET Keys}

Job == [pc : {"idle", "repo", "org", "bootstrap", "dispatch", "create", "probe", "post",
              "wait", "upload", "execute", "delete", "done"},
        provider : Providers \cup {None}, todo : Seq(AllNames),
        creds : Seq(Values \cup {None}), could : Could, target : Providers \cup {None},
        key : Values \cup {None, Env},
        lost : SUBSET {"db", "create", "wait", "upload", "execute", "delete"},
        strays : SUBSET AllNames, step : Nat,
        result : {"none", "ok", "failed", "error", "disabled", "cancelled"}]

Sandbox == [state : {"none", "alive", "gone"}, files : Nat, exits : Seq({0, 1})]

Typed ==
  /\ secrets \in [Keys -> Values \cup {None}]
  /\ reqs \in [Requests -> Req]
  /\ job \in Job
  /\ sandbox \in Sandbox
  /\ health \in {None, "bare", "ready"} /\ bridge \in {"down", "bare", "ready"}

-----------------------------------------------------------------------------
(* Requests *)

\* What a request's kind and label say of its keys.
ReqSound(q) ==
  /\ reqs[q].pc = "idle" => reqs[q] = ReqRest
  /\ Active(q) => /\ reqs[q].todo # <<>> /\ Range(reqs[q].todo) \subseteq reqs[q].keys
                  /\ reqs[q].answer = "none"
  /\ reqs[q].pc = "done" => reqs[q].answer # "none"
  /\ reqs[q].pc # "idle" => reqs[q].kind # "none"
  /\ reqs[q].pc = "check" => reqs[q].kind = "create"
  /\ reqs[q].pc = "read" => reqs[q].kind \in {"rotate", "describe"}
  /\ reqs[q].pc = "describe" => reqs[q].kind = "describe"
  /\ reqs[q].pc \in {"clear", "insert", "reload"} => reqs[q].kind \in Writers
  /\ reqs[q].pc = "erase" => reqs[q].kind \in Erasers
  /\ reqs[q].kind \in {"create", "rotate", "describe"} => \E k \in Keys : reqs[q].keys = {k}

\* A writer is past the insertion of a key; an eraser past its deletion.
Written(q, k) ==
  /\ k \in reqs[q].keys /\ reqs[q].kind \in Writers
  /\ \/ reqs[q].answer = "ok" \/ reqs[q].pc = "log"
     \/ reqs[q].pc \in {"clear", "insert", "reload"} /\ k \notin Range(reqs[q].todo)
     \/ reqs[q].pc = "reload" /\ k = Head(reqs[q].todo)

Erased(q, k) ==
  /\ k \in reqs[q].keys /\ reqs[q].kind = "disconnect"
  /\ \/ reqs[q].pc = "log"
     \/ reqs[q].pc = "erase" /\ k \notin Range(reqs[q].todo)

\* A request that may have left a key without its row.
Gone(r, k) ==
  /\ k \in reqs[r].keys
  /\ \/ reqs[r].kind \in Erasers
     \/ reqs[r].pc = "insert" /\ Head(reqs[r].todo) = k
     \/ reqs[r].answer = "error"

\* A creation that has found no row, or is over with success.
Past(q) ==
  /\ reqs[q].kind = "create"
  /\ reqs[q].pc \in {"clear", "insert", "reload", "log"} \/ reqs[q].answer = "ok"

\* A request that Whole holds of, or may yet hold of.
WholeSoFar(q) ==
  \/ reqs[q].pc = "idle"
  \/ /\ reqs[q].beside = {}
     /\ reqs[q].kind \in {"connect", "disconnect"}
     /\ reqs[q].answer \in {"none", "ok", "not_found"}

\* Overlapping is mutual, and requests under way overlap.
BesideSound ==
  \A q, r \in Requests : q # r =>
    /\ r \in reqs[q].beside <=> q \in reqs[r].beside
    /\ Active(q) /\ Active(r) => r \in reqs[q].beside

\* A key that was written has its row, or a request took it.
Vanish ==
  \A k \in Keys, q \in Requests :
    Written(q, k) /\ secrets[k] = None => \E r \in Requests : Gone(r, k)

\* Two creations that found no row overlap, or a third request took the row.
Exclude ==
  \A q, r \in Requests :
    q # r /\ Past(q) /\ Past(r) /\ reqs[q].keys = reqs[r].keys /\ r \notin reqs[q].beside
      => \E d \in Requests : Disturbs(d, q, r)

Alike(m, n) == secrets[<<"org", m>>] = secrets[<<"org", n>>]

\* Connects and disconnects that run alone keep names alike that they name
\* together, but for the one under way, which has its own rows right.
Together ==
  (\A q \in Requests : WholeSoFar(q)) =>
    /\ \A q \in Requests : Active(q) =>
         \A k \in reqs[q].keys : /\ Written(q, k) => secrets[k] = q
                                 /\ Erased(q, k) => secrets[k] = None
    /\ \A m, n \in AllNames : NamedTogether(m, n) =>
         Alike(m, n) \/ \E q \in Requests : Active(q) /\ <<"org", m>> \in reqs[q].keys

-----------------------------------------------------------------------------
(* The job *)

Resolving == {"repo", "org", "bootstrap"}

\* The i-th credential is one that was stored meanwhile, the repository's first.
Earned(i) ==
  LET n == Names[job.provider][i]
      own == job.could[<<"repo", n>>]
      orgs == job.could[<<"org", n>>]
  IN  \/ job.creds[i] \in own \ {None}
      \/ None \in own /\ job.creds[i] \in orgs
      \/ n \in job.strays /\ job.creds[i] \in job.could[<<"bootstrap", n>>]

\* While it resolves, the job goes through the names of its provider, and
\* could holds what each key has now.
Resolves ==
  /\ job.pc \in Resolving =>
       /\ job.provider \in Providers /\ job.todo # <<>>
       /\ Len(job.creds) + Len(job.todo) = Len(Names[job.provider])
       /\ \A i \in 1 .. Len(job.todo) : job.todo[i] = Names[job.provider][Len(job.creds) + i]
       /\ \A k \in JobKeys(job.provider) : secrets[k] \in job.could[k]
       /\ job.pc = "org" /\ "db" \notin job.lost =>
            None \in job.could[<<"repo", Head(job.todo)>>]
       /\ job.pc = "bootstrap" => "db" \in job.lost \/ Head(job.todo) \in job.strays
  /\ job.pc \in Resolving \cup {"dispatch"} =>
       /\ DOMAIN job.could = JobKeys(job.provider)
       /\ job.target = None /\ job.key = None
       /\ job.provider # None /\ "db" \notin job.lost =>
            \A i \in 1 .. Len(job.creds) : Earned(i)
  /\ job.pc = "idle" => job = JobRest

\* What is handed over: credentials of the job's provider to no other.
Handed ==
  /\ job.provider = None => job.creds = <<>>
  /\ job.pc \in {"dispatch", "create", "probe"} =>
       Len(job.creds) = (IF job.provider = None THEN 0 ELSE Len(Names[job.provider]))
  /\ job.target # None /\ job.provider # None => job.target = job.provider
  /\ job.pc \in {"create", "wait", "upload", "execute", "delete"} =>
       job.target \in Providers \ {Bridge}
  /\ job.pc \in {"probe", "post"} => job.target = Bridge
  /\ job.key = Env => ~HasCreds

\* The sandbox at each step of the job, and the verdict it is left with.
Box ==
  /\ job.pc \in Resolving \cup {"idle", "dispatch", "create", "probe", "post"} =>
       sandbox = NoSandbox
  /\ job.pc \in {"wait", "upload", "execute", "delete"} => sandbox.state = "alive"
  /\ job.pc \notin {"delete", "done"} => job.result = "none"
  /\ job.pc = "wait" => sandbox.files = 0 /\ sandbox.exits = <<>>
  /\ job.pc = "upload" => /\ job.step \in 1 .. Files /\ sandbox.files = job.step - 1
                          /\ sandbox.exits = <<>>
  /\ job.pc = "execute" => /\ job.step \in 1 .. Commands /\ sandbox.files = Files
                           /\ Len(sandbox.exits) = job.step - 1
                           /\ \A i \in 1 .. Len(sandbox.exits) : sandbox.exits[i] = 0
  /\ sandbox.files \in 0 .. Files /\ Len(sandbox.exits) <= Commands
  /\ job.result \in {"ok", "failed"} /\ job.target # Bridge =>
       /\ sandbox.files = Files /\ sandbox.exits # <<>>
       /\ \A i \in 1 .. Len(sandbox.exits) - 1 : sandbox.exits[i] = 0
       /\ (job.result = "ok") = (Last(sandbox.exits) = 0)
       /\ job.result = "ok" => Len(sandbox.exits) = Commands
  /\ job.pc = "done" /\ sandbox.state = "alive" =>
       job.result = "cancelled" \/ {"create", "delete"} \cap job.lost # {}

Rows == /\ \A q \in Requests : ReqSound(q)
        /\ BesideSound /\ Vanish /\ Exclude /\ Together

IInv == Typed /\ Rows /\ Resolves /\ Handed /\ Box

-----------------------------------------------------------------------------
(* Sets and sequences *)

LEMMA InRange ==
  ASSUME NEW s, NEW S, s \in Seq(S), s # <<>>
  PROVE  /\ Head(s) \in S /\ Head(s) \in Range(s) /\ Tail(s) \in Seq(S)
         /\ Range(Tail(s)) \subseteq Range(s)
         /\ \A x \in Range(s) : x = Head(s) \/ x \in Range(Tail(s))
         /\ Len(s) > 1 => Tail(s) # <<>>
         /\ Len(s) = 1 => Range(s) = {Head(s)}
         /\ Len(s) = 1 \/ Len(s) > 1
         /\ Range(s) \subseteq S
  <1>1. /\ Len(s) \in Nat \ {0} /\ DOMAIN s = 1 .. Len(s)
        /\ \A i \in 1 .. Len(s) : s[i] \in S
        /\ Head(s) = s[1]
    OBVIOUS
  <1>2. /\ Tail(s) \in Seq(S) /\ Len(Tail(s)) = Len(s) - 1 /\ DOMAIN Tail(s) = 1 .. (Len(s) - 1)
        /\ \A i \in 1 .. (Len(s) - 1) : Tail(s)[i] = s[i + 1]
    OBVIOUS
  <1>3. ASSUME NEW x \in Range(s), x # Head(s) PROVE x \in Range(Tail(s))
    <2>1. PICK i \in 1 .. Len(s) : x = s[i]
      BY <1>1 DEF Range
    <2>2. i - 1 \in 1 .. (Len(s) - 1) /\ Tail(s)[i - 1] = x
      BY <1>1, <1>2, <1>3, <2>1
    <2>3. QED
      BY <1>2, <2>2 DEF Range
  <1>4. Range(Tail(s)) \subseteq Range(s)
    BY <1>1, <1>2 DEF Range
  <1>5. Len(s) = 1 => Range(s) = {Head(s)}
    BY <1>1 DEF Range
  <1>6. Range(s) \subseteq S /\ Head(s) \in Range(s) /\ Head(s) \in S
    BY <1>1 DEF Range
  <1>7. Len(s) > 1 => Tail(s) # <<>>
    <2>1. Len(s) > 1 => Len(Tail(s)) # 0
      <3>1. \A n, m \in Int : n > 1 /\ m = n - 1 => m # 0
        OBVIOUS
      <3>2. Len(s) \in Int /\ Len(Tail(s)) \in Int /\ Len(Tail(s)) = Len(s) - 1
        BY <1>1, <1>2
      <3>3. QED
        BY <3>1, <3>2, Zenon
    <2>2. Len(<<>>) = 0
      OBVIOUS
    <2>3. QED
      BY <2>1, <2>2, Zenon
  <1>8. Len(s) = 1 \/ Len(s) > 1
    <2>1. \A n \in Nat \ {0} : n = 1 \/ n > 1
      OBVIOUS
    <2>2. QED
      BY <1>1, <2>1, Zenon
  <1>9. QED
    BY <1>2, <1>3, <1>4, <1>5, <1>6, <1>7, <1>8

\* A non-empty set of numbers has a least.
LEMMA MinIsIn == ASSUME NEW S, S \subseteq Nat, S # {} PROVE Min(S) \in S
  <1>1. IsWellFoundedOn(OpToRel(<, Nat), Nat)
    BY NatLessThanWellFounded
  <1>2. PICK x \in S : \A y \in S : ~(<<y, x>> \in OpToRel(<, Nat))
    BY <1>1, WFMin
  <1>3. \A y \in S : ~(y < x)
    BY <1>2 DEF OpToRel
  <1>4. \A y \in S : x <= y
    BY <1>3
  <1>5. QED
    BY <1>4 DEF Min

LEMMA NamesAreFinite == IsFiniteSet(AllNames)
  <1>1. IsFiniteSet(Providers)
    <2>1. PICK s : s = Registered
      OBVIOUS
    <2>2. s \in Seq(Providers)
      BY <2>1, RegistryAssumption
    <2>3. s \in Surjection(1 .. Len(s), Range(s)) /\ Len(s) \in Nat
      BY <2>2 DEF Surjection, Range
    <2>4. QED
      BY <2>1, <2>3, FS_Interval, FS_Surjection DEF Providers
  <1>2. ASSUME NEW p \in Providers PROVE IsFiniteSet(Range(Names[p]))
    <2>1. PICK s : s = Names[p]
      OBVIOUS
    <2>2. s \in Seq(AllNames)
      BY <2>1, RegistryAssumption
    <2>3. s \in Surjection(1 .. Len(s), Range(s)) /\ Len(s) \in Nat
      BY <2>2 DEF Surjection, Range
    <2>4. QED
      BY <2>1, <2>3, FS_Interval, FS_Surjection
  <1>3. IsFiniteSet({Range(Names[p]) : p \in Providers})
    <2> DEFINE S == {Range(Names[p]) : p \in Providers}
    <2>1. [p \in Providers |-> Range(Names[p])] \in Surjection(Providers, S)
      BY DEF Surjection
    <2>2. QED
      BY <1>1, <2>1, FS_Surjection
  <1>4. QED
    BY <1>2, <1>3, FS_UNION DEF AllNames

\* A connect stores every name it carries, in whatever order.
LEMMA ConnectStoresAll ==
  ASSUME NEW names \in Connectable, NEW todo \in SetToSeqs(OrgKeys(names))
  PROVE  /\ todo \in Seq(OrgKeys(names)) /\ todo # <<>> /\ Range(todo) = OrgKeys(names)
  <1> DEFINE K == OrgKeys(names)
             n == Cardinality(K)
  <1>1. IsFiniteSet(K) /\ K # {}
    <2>1. IsFiniteSet(names) /\ names # {}
      <3>1. names \in SUBSET AllNames /\ names # {}
        BY DEF Connectable
      <3>2. QED
        BY <3>1, NamesAreFinite, FS_Subset
    <2>2. [x \in names |-> <<"org", x>>] \in Surjection(names, K)
      BY DEF Surjection, OrgKeys
    <2>3. QED
      BY <2>1, <2>2, FS_Surjection DEF OrgKeys
  <1>2. n \in Nat /\ n # 0
    BY <1>1, FS_CardinalityType, FS_EmptySet
  <1>3. todo \in [1 .. n -> K] /\ \A i, j \in 1 .. n : i # j => todo[i] # todo[j]
    BY DEF SetToSeqs
  <1>4. Cardinality(1 .. n) = n
    BY <1>2, FS_Interval
  <1>5. Range(todo) = K
    <2>1. todo \in Injection(1 .. n, K)
      BY <1>3 DEF Injection, IsInjective
    <2>2. todo \in Surjection(1 .. n, K)
      BY <1>1, <1>4, <2>1, FS_Injection
    <2>3. QED
      BY <1>3, <2>2 DEF Surjection, Range
  <1>6. QED
    BY <1>2, <1>3, <1>5

-----------------------------------------------------------------------------
(* A statement of one request *)

\* Only q moves, and it stays what it is.
StepOf(q) ==
  /\ \A r \in Requests \ {q} : reqs'[r] = reqs[r]
  /\ reqs'[q].kind = reqs[q].kind /\ reqs'[q].keys = reqs[q].keys
  /\ reqs'[q].beside = reqs[q].beside
  /\ reqs'[q].answer = "none" <=> reqs'[q].pc # "done"

\* What a request that runs alone has written or erased is as it left it.
OwnRows(q) ==
  \A k \in reqs[q].keys : /\ Written(q, k) => secrets[k] = q
                          /\ Erased(q, k) => secrets[k] = None

\* What a statement must do for the rows' invariants: (1) a key counts as
\* written only once it is; a row goes only if q says so, and q goes on saying
\* so; (2) a creation gets past its check only without a row; (3) q alone
\* leaves its keys as it says, and all alike at its end; (4) q touches its
\* keys only.
WritesHonestly(q) ==
  \A k \in Keys :
    /\ Written(q, k)' => Written(q, k) \/ secrets'[k] # None
    /\ secrets'[k] = None => secrets[k] = None \/ Gone(q, k)'
    /\ Gone(q, k) => Gone(q, k)' \/ secrets'[k] # None

PassesCheck(q) ==
  Past(q)' => \/ Past(q)
              \/ reqs[q].pc = "check" /\ \E k \in Keys : reqs[q].keys = {k} /\ secrets[k] = None

KeepsOwn(q) ==
  WholeSoFar(q) /\ WholeSoFar(q)' /\ OwnRows(q) =>
    /\ Active(q)' => OwnRows(q)'
    /\ ~Active(q)' => \A k, l \in reqs[q].keys : secrets'[k] = secrets'[l]

OwnKeysOnly(q) == \A k \in Keys \ reqs[q].keys : secrets'[k] = secrets[k]

LEMMA OrgKeysAreKeys ==
  /\ \A names \in Connectable : OrgKeys(names) \subseteq Keys
  /\ \A p \in Providers : /\ OrgKeys(Range(Names[p])) \subseteq Keys
                          /\ Range(Names[p]) \subseteq AllNames
  /\ Singles \subseteq Keys
  <1>1. \A p \in Providers : Range(Names[p]) \subseteq AllNames
    BY DEF AllNames
  <1>2. \A S : S \subseteq AllNames => OrgKeys(S) \subseteq Keys
    BY DEF OrgKeys, Keys
  <1>3. \A names \in Connectable : names \subseteq AllNames
    BY DEF Connectable
  <1>4. Singles \subseteq Keys
    BY RegistryAssumption
  <1>5. QED
    BY <1>1, <1>2, <1>3, <1>4

\* A creation that finds no row, of a key that another created: a third request
\* took it.
LEMMA CheckFindsNone ==
  ASSUME Rows, NEW q \in Requests, NEW r \in Requests, q # r, NEW k \in Keys,
         reqs[q].pc = "check", reqs[q].keys = {k}, reqs[r].keys = {k}, secrets[k] = None,
         Past(r), r \notin reqs[q].beside
  PROVE  \E d \in Requests : Disturbs(d, q, r) /\ Disturbs(d, r, q)
  <1>1. ReqSound(q) /\ ReqSound(r) /\ Active(q)
    BY DEF Rows, Active
  <1>2. ~Active(r)
    BY <1>1 DEF Rows, BesideSound
  <1>3. reqs[r].answer = "ok" /\ reqs[r].kind = "create" /\ reqs[r].pc = "done"
    BY <1>1, <1>2 DEF Past, Active, ReqSound, ReqRest
  <1>4. Written(r, k)
    BY <1>3 DEF Written, Writers
  <1>5. PICK d \in Requests : Gone(d, k)
    BY <1>4 DEF Rows, Vanish
  <1>6. d # q /\ d # r
    BY <1>1, <1>3, <1>5 DEF Gone, ReqSound, Erasers, Active
  <1>7. ReqSound(d)
    BY DEF Rows
  <1>8. reqs[d].pc = "insert" => reqs[d].kind \in Writers /\ q \in reqs[d].beside
    BY <1>1, <1>6, <1>7 DEF ReqSound, Rows, BesideSound, Active
  <1>9. QED
    BY <1>5, <1>6, <1>8 DEF Disturbs, Gone

\* A statement that does what it must keeps the rows' invariants.
LEMMA RowsKept ==
  ASSUME Typed, Rows, NEW q \in Requests, Active(q), StepOf(q), ReqSound(q)',
         WritesHonestly(q), PassesCheck(q), KeepsOwn(q), OwnKeysOnly(q)
  PROVE  Rows'
  <1>1. \A r \in Requests : ReqSound(r)'
    <2>1. \A r \in Requests \ {q} : ReqSound(r)'
      BY DEF Rows, StepOf, ReqSound, Active
    <2>2. QED
      BY <2>1
  <1>2. \A r \in Requests : /\ reqs'[r].beside = reqs[r].beside /\ reqs'[r].keys = reqs[r].keys
                            /\ reqs'[r].kind = reqs[r].kind
                            /\ Active(r)' => Active(r)
                            /\ r # q => reqs'[r] = reqs[r] /\ Active(r)' = Active(r)
    BY DEF StepOf, Active
  <1>3. BesideSound'
    BY <1>2 DEF Rows, BesideSound
  <1>4. Vanish'
    <2> SUFFICES ASSUME NEW k \in Keys, NEW p \in Requests, Written(p, k)', secrets'[k] = None
                 PROVE  \E r \in Requests : Gone(r, k)'
      BY DEF Vanish
    <2>1. CASE Gone(q, k)'
      BY <2>1
    <2>2. CASE ~Gone(q, k)'
      <3>1. secrets[k] = None /\ ~Gone(q, k)
        BY <2>2 DEF WritesHonestly
      <3>2. Written(p, k)
        <4>1. CASE p = q
          BY <4>1 DEF WritesHonestly
        <4>2. CASE p # q
          BY <4>2, <1>2 DEF Written
        <4>3. QED
          BY <4>1, <4>2
      <3>3. PICK r \in Requests : Gone(r, k)
        BY <3>1, <3>2 DEF Rows, Vanish
      <3>4. Gone(r, k)'
        BY <3>1, <3>3, <1>2 DEF Gone
      <3>5. QED
        BY <3>4
    <2>3. QED
      BY <2>1, <2>2
  <1>5. \A d, a, b \in Requests : Disturbs(d, a, b) => Disturbs(d, a, b)'
    <2>1. ReqSound(q)
      BY DEF Rows
    <2>2. reqs[q].answer = "none"
      BY <2>1 DEF ReqSound
    <2>3. QED
      BY <1>2, <2>2 DEF Disturbs
  <1>6. Exclude'
    <2> SUFFICES ASSUME NEW a \in Requests, NEW b \in Requests, a # b, Past(a)', Past(b)',
                        reqs'[a].keys = reqs'[b].keys, b \notin reqs'[a].beside
                 PROVE  \E d \in Requests : Disturbs(d, a, b)
      BY <1>5 DEF Exclude
    <2>1. /\ reqs[a].keys = reqs[b].keys /\ b \notin reqs[a].beside /\ a \notin reqs[b].beside
      BY <1>2 DEF Rows, BesideSound
    <2>2. \A p \in Requests \ {q} : Past(p)' => Past(p)
      BY <1>2 DEF Past
    <2>3. CASE Past(a) /\ Past(b)
      BY <2>1, <2>3 DEF Rows, Exclude
    <2>4. CASE ~Past(a)
      <3>1. a = q /\ Past(b)
        BY <2>2, <2>4
      <3>2. PICK k \in Keys : reqs[q].keys = {k} /\ secrets[k] = None /\ reqs[q].pc = "check"
        BY <2>4, <3>1 DEF PassesCheck
      <3>3. QED
        BY <2>1, <3>1, <3>2, CheckFindsNone
    <2>5. CASE ~Past(b)
      <3>1. b = q /\ Past(a)
        BY <2>2, <2>5
      <3>2. PICK k \in Keys : reqs[q].keys = {k} /\ secrets[k] = None /\ reqs[q].pc = "check"
        BY <2>5, <3>1 DEF PassesCheck
      <3>3. QED
        BY <2>1, <3>1, <3>2, CheckFindsNone
    <2>6. QED
      BY <2>3, <2>4, <2>5
  <1>7. Together'
    <2> SUFFICES ASSUME \A r \in Requests : WholeSoFar(r)'
                 PROVE  /\ \A r \in Requests : Active(r)' => OwnRows(r)'
                        /\ \A m, n \in AllNames : NamedTogether(m, n)' =>
                             \/ Alike(m, n)'
                             \/ \E r \in Requests : Active(r)' /\ <<"org", m>> \in reqs'[r].keys
      BY DEF Together, OwnRows
    <2>1. ReqSound(q) /\ ReqSound(q)'
      BY DEF Rows
    <2>2. /\ reqs[q].beside = {} /\ reqs[q].kind \in {"connect", "disconnect"}
          /\ reqs[q].answer = "none"
      <3>1. reqs[q].kind # "none" /\ reqs[q].answer = "none"
        BY <2>1 DEF ReqSound, Active
      <3>2. reqs'[q].pc # "idle"
        BY <2>1, <3>1, <1>2 DEF ReqSound, ReqRest
      <3>3. QED
        BY <3>1, <3>2, <1>2 DEF WholeSoFar
    <2>3. \A r \in Requests : WholeSoFar(r)
      BY <2>2, <1>2 DEF WholeSoFar
    <2>4. \A r \in Requests : Active(r) => r = q
      BY <2>2 DEF Rows, BesideSound
    <2>5. OwnRows(q)
      BY <2>3 DEF Rows, Together, OwnRows
    <2>6. /\ Active(q)' => OwnRows(q)'
          /\ ~Active(q)' => \A k, l \in reqs[q].keys : secrets'[k] = secrets'[l]
      BY <2>3, <2>5 DEF KeepsOwn
    <2>7. \A r \in Requests : Active(r)' => OwnRows(r)'
      BY <2>4, <2>6, <1>2
    <2>8. ASSUME NEW m \in AllNames, NEW n \in AllNames, NamedTogether(m, n)'
          PROVE  \/ Alike(m, n)'
                 \/ \E r \in Requests : Active(r)' /\ <<"org", m>> \in reqs'[r].keys
      <3>1. NamedTogether(m, n) /\ (<<"org", m>> \in reqs[q].keys <=> <<"org", n>> \in reqs[q].keys)
        BY <2>8, <1>2 DEF NamedTogether
      <3>2. CASE <<"org", m>> \in reqs[q].keys /\ Active(q)'
        BY <3>2, <1>2
      <3>3. CASE <<"org", m>> \in reqs[q].keys /\ ~Active(q)'
        BY <3>1, <3>3, <2>6 DEF Alike
      <3>4. CASE <<"org", m>> \notin reqs[q].keys
        <4>1. <<"org", m>> \in Keys \ reqs[q].keys /\ <<"org", n>> \in Keys \ reqs[q].keys
          BY <3>1, <3>4 DEF Keys
        <4>2. Alike(m, n)
          BY <3>1, <3>4, <2>3, <2>4 DEF Rows, Together
        <4>3. /\ secrets'[<<"org", m>>] = secrets[<<"org", m>>]
              /\ secrets'[<<"org", n>>] = secrets[<<"org", n>>]
          BY <4>1 DEF OwnKeysOnly
        <4>4. QED
          BY <4>2, <4>3 DEF Alike
      <3>5. QED
        BY <3>2, <3>3, <3>4
    <2>9. QED
      BY <2>7, <2>8
  <1>8. QED
    BY <1>1, <1>3, <1>4, <1>6, <1>7 DEF Rows

-----------------------------------------------------------------------------
(* The statements *)

Answers == {"ok", "conflict", "not_found", "error"}

\* What answering does. (the handler's return)
LEMMA AnswerEffect ==
  ASSUME Typed, NEW q \in Requests, NEW a \in Answers, Answer(q, a)
  PROVE  /\ reqs' \in [Requests -> Req] /\ StepOf(q)
         /\ reqs'[q].pc = "done" /\ reqs'[q].answer = a
         /\ (ReqSound(q) /\ Active(q)) => ReqSound(q)'
  <1>1. reqs[q] \in Req
    BY DEF Typed
  <1>2. PICK new : new = [reqs[q] EXCEPT !.pc = "done", !.answer = a, !.todo = <<>>,
                                         !.id = None, !.hit = FALSE]
    OBVIOUS
  <1>3. /\ new \in Req /\ new.pc = "done" /\ new.answer = a
        /\ new.kind = reqs[q].kind /\ new.keys = reqs[q].keys /\ new.beside = reqs[q].beside
    <2>1. <<>> \in Seq(Keys) /\ None \in Values \cup {None}
      OBVIOUS
    <2>2. QED
      BY <1>1, <1>2, <2>1 DEF Req, ReqLabel, Answers
  <1>4. /\ reqs' \in [Requests -> Req]
        /\ \A r \in Requests \ {q} : reqs'[r] = reqs[r]
        /\ reqs'[q] = new
    BY <1>2, <1>3 DEF Typed, Answer
  <1>5. StepOf(q)
    BY <1>3, <1>4 DEF StepOf, Answers
  <1>6. ASSUME ReqSound(q), Active(q) PROVE ReqSound(q)'
    BY <1>3, <1>4, <1>6 DEF ReqSound, Answers, Active
  <1>7. QED
    BY <1>3, <1>4, <1>5, <1>6

\* What going on does.
LEMMA GoesEffect ==
  ASSUME Typed, NEW q \in Requests, NEW pc \in ReqLabel \ {"idle", "done"}, ReqGoes(q, pc),
         ReqSound(q), Active(q)
  PROVE  /\ reqs' \in [Requests -> Req] /\ StepOf(q)
         /\ reqs'[q].pc = pc /\ reqs'[q].todo = reqs[q].todo
         /\ reqs'[q].answer = "none" /\ Active(q)'
  <1>1. reqs[q] \in Req
    BY DEF Typed
  <1>2. reqs[q].answer = "none"
    BY DEF ReqSound
  <1>3. /\ reqs' \in [Requests -> Req]
        /\ \A r \in Requests \ {q} : reqs'[r] = reqs[r]
        /\ reqs'[q].pc = pc /\ reqs'[q].answer = "none" /\ reqs'[q].todo = reqs[q].todo
        /\ reqs'[q].kind = reqs[q].kind /\ reqs'[q].keys = reqs[q].keys
        /\ reqs'[q].beside = reqs[q].beside
    BY <1>1, <1>2 DEF Typed, ReqGoes, Req, ReqLabel
  <1>4. QED
    BY <1>3 DEF StepOf, Active

\* A request under way: its next key is one of its own.
LEMMA NextKey ==
  ASSUME Typed, Rows, NEW q \in Requests, Active(q)
  PROVE  LET s == reqs[q].todo IN
         /\ ReqSound(q) /\ s \in Seq(Keys) /\ s # <<>>
         /\ Head(s) \in Keys /\ Head(s) \in reqs[q].keys /\ Head(s) \in Range(s)
         /\ Range(s) \subseteq reqs[q].keys
         /\ Range(Tail(s)) \subseteq Range(s) /\ Tail(s) \in Seq(Keys)
         /\ \A x \in Range(s) : x = Head(s) \/ x \in Range(Tail(s))
         /\ Len(s) = 1 => Range(s) = {Head(s)}
         /\ Len(s) > 1 => Tail(s) # <<>>
         /\ Len(s) = 1 \/ Len(s) > 1
         /\ reqs[q].keys \subseteq Keys
         /\ Row(q) = secrets[Head(s)] /\ reqs[q].answer = "none"
  <1>1. ReqSound(q) /\ reqs[q] \in Req
    BY DEF Rows, Typed
  <1>2. reqs[q].todo \in Seq(Keys) /\ reqs[q].todo # <<>> /\ reqs[q].keys \subseteq Keys
    BY <1>1 DEF Req, ReqSound
  <1>3. QED
    BY <1>1, <1>2, InRange DEF ReqSound, Row

\* A request that has one key has it next.
LEMMA OnlyKey ==
  ASSUME Typed, Rows, NEW q \in Requests, Active(q),
         reqs[q].kind \in {"create", "rotate", "describe"}
  PROVE  reqs[q].keys = {Head(reqs[q].todo)} /\ Range(reqs[q].todo) = reqs[q].keys
  <1>1. PICK k \in Keys : reqs[q].keys = {k}
    BY DEF Rows, ReqSound
  <1>2. /\ Head(reqs[q].todo) \in reqs[q].keys /\ Head(reqs[q].todo) \in Range(reqs[q].todo)
        /\ Range(reqs[q].todo) \subseteq reqs[q].keys
    BY NextKey
  <1>3. QED
    BY <1>1, <1>2

\* Giving up: with an error, or before anything was done.
LEMMA GivesUp ==
  ASSUME Typed, Rows, NEW q \in Requests, Active(q), NEW a \in Answers, Answer(q, a),
         \/ a = "error"
         \/ a \in {"conflict", "not_found"} /\ reqs[q].pc \in {"check", "read"},
         UNCHANGED secrets
  PROVE  Rows'
  <1>1. ReqSound(q)
    BY DEF Rows
  <1>2. /\ StepOf(q) /\ reqs'[q].pc = "done" /\ reqs'[q].answer = a /\ ReqSound(q)'
    BY <1>1, AnswerEffect
  <1>3. WritesHonestly(q)
    <2>1. ASSUME NEW k \in Keys PROVE ~Written(q, k)'
      BY <1>2 DEF Written
    <2>2. ASSUME NEW k \in Keys, Gone(q, k) PROVE Gone(q, k)'
      BY <1>1, <1>2, <2>2 DEF Gone, StepOf, ReqSound, Active
    <2>3. QED
      BY <2>1, <2>2 DEF WritesHonestly
  <1>4. PassesCheck(q)
    BY <1>2 DEF PassesCheck, Past
  <1>5. ~WholeSoFar(q)'
    BY <1>1, <1>2 DEF WholeSoFar, ReqSound, StepOf
  <1>6. KeepsOwn(q) /\ OwnKeysOnly(q)
    BY <1>5 DEF KeepsOwn, OwnKeysOnly
  <1>7. QED
    BY <1>2, <1>3, <1>4, <1>6, RowsKept

\* What storing does to the rows.
LEMMA StoreEffect ==
  ASSUME Typed, NEW k \in Keys, NEW v \in Values \cup {None}, Store(k, v)
  PROVE  /\ secrets' \in [Keys -> Values \cup {None}] /\ secrets'[k] = v
         /\ \A l \in Keys \ {k} : secrets'[l] = secrets[l]
  BY DEF Typed, Store

\* create_only: past the check only without a row. (create)
LEMMA CheckAbsentKeeps ==
  ASSUME Typed, Rows, NEW q \in Requests, CheckAbsent(q)
  PROVE  Rows' /\ reqs' \in [Requests -> Req]
  <1>1. Active(q) /\ reqs[q].pc = "check" /\ UNCHANGED secrets
    BY DEF CheckAbsent, Active
  <1>2. ReqSound(q) /\ reqs[q].kind = "create"
    BY <1>1 DEF Rows, ReqSound
  <1>3. CASE Answer(q, "conflict")
    BY <1>1, <1>3, GivesUp, AnswerEffect DEF Answers
  <1>4. CASE Row(q) = None /\ ReqGoes(q, "clear")
    <2>1. /\ reqs' \in [Requests -> Req] /\ StepOf(q)
          /\ reqs'[q].pc = "clear" /\ reqs'[q].todo = reqs[q].todo
          /\ reqs'[q].answer = "none" /\ Active(q)'
      BY <1>1, <1>2, <1>4, GoesEffect DEF ReqLabel
    <2>2. PICK k \in Keys : reqs[q].keys = {k} /\ secrets[k] = None /\ Range(reqs[q].todo) = {k}
      BY <1>1, <1>2, <1>4, NextKey, OnlyKey
    <2>3. ReqSound(q)'
      BY <1>1, <1>2, <2>1 DEF ReqSound, StepOf, Active, Writers
    <2>4. WritesHonestly(q)
      <3>1. ASSUME NEW l \in Keys PROVE ~Written(q, l)'
        BY <2>1, <2>2 DEF Written, StepOf
      <3>2. ASSUME NEW l \in Keys PROVE ~Gone(q, l)
        BY <1>1, <1>2 DEF Gone, Erasers, ReqSound
      <3>3. QED
        BY <1>1, <3>1, <3>2 DEF WritesHonestly
    <2>5. PassesCheck(q)
      BY <1>1, <2>2 DEF PassesCheck
    <2>6. KeepsOwn(q) /\ OwnKeysOnly(q)
      BY <1>1, <1>2 DEF KeepsOwn, OwnKeysOnly, WholeSoFar
    <2>7. QED
      BY <1>1, <2>1, <2>3, <2>4, <2>5, <2>6, RowsKept
  <1>5. QED
    BY <1>3, <1>4 DEF CheckAbsent

\* A patch starts from the row it read. (patch_org_secret)
LEMMA ReadExistingKeeps ==
  ASSUME Typed, Rows, NEW q \in Requests, ReadExisting(q)
  PROVE  Rows' /\ reqs' \in [Requests -> Req]
  <1>1. Active(q) /\ reqs[q].pc = "read" /\ UNCHANGED secrets
    BY DEF ReadExisting, Active
  <1>2. ReqSound(q) /\ reqs[q].kind \in {"rotate", "describe"} /\ reqs[q] \in Req
    BY <1>1 DEF Rows, ReqSound, Typed
  <1>3. CASE Answer(q, "not_found")
    BY <1>1, <1>3, GivesUp, AnswerEffect DEF Answers
  <1>4. CASE reqs' = [reqs EXCEPT ![q].pc = IF reqs[q].kind = "rotate" THEN "clear" ELSE "describe",
                                  ![q].id = Row(q)]
    <2>1. PICK pc \in {"clear", "describe"} :
            pc = IF reqs[q].kind = "rotate" THEN "clear" ELSE "describe"
      OBVIOUS
    <2>2. Row(q) \in Values \cup {None} /\ reqs[q].answer = "none" /\ reqs[q].todo # <<>>
          /\ Range(reqs[q].todo) = reqs[q].keys
      BY <1>1, <1>2, NextKey, OnlyKey DEF Typed
    <2>3. PICK new : new = [reqs[q] EXCEPT !.pc = pc, !.id = Row(q)]
      OBVIOUS
    <2>4. /\ new \in Req /\ new.pc = pc /\ new.answer = "none" /\ new.todo = reqs[q].todo
          /\ new.kind = reqs[q].kind /\ new.keys = reqs[q].keys /\ new.beside = reqs[q].beside
      BY <1>2, <2>2, <2>3 DEF Req, ReqLabel
    <2>5. /\ reqs' \in [Requests -> Req] /\ reqs'[q] = new
          /\ \A r \in Requests \ {q} : reqs'[r] = reqs[r]
      BY <1>2, <1>4, <2>1, <2>3, <2>4 DEF Typed
    <2>6. StepOf(q) /\ Active(q)'
      BY <2>4, <2>5 DEF StepOf, Active
    <2>7. ReqSound(q)'
      BY <1>1, <1>2, <2>1, <2>2, <2>4, <2>5 DEF ReqSound, Active, Writers
    <2>8. WritesHonestly(q)
      BY <1>1, <1>2, <2>1, <2>2, <2>4, <2>5 DEF WritesHonestly, Written, Gone, Erasers, Writers
    <2>9. PassesCheck(q) /\ KeepsOwn(q) /\ OwnKeysOnly(q)
      BY <1>1, <1>2, <2>4, <2>5 DEF PassesCheck, Past, KeepsOwn, OwnKeysOnly, WholeSoFar
    <2>10. QED
      BY <1>1, <2>5, <2>6, <2>7, <2>8, <2>9, RowsKept
  <1>5. QED
    BY <1>3, <1>4 DEF ReadExisting

\* A description touches no value. (update_description)
LEMMA UpdateDescriptionKeeps ==
  ASSUME Typed, Rows, NEW q \in Requests, UpdateDescription(q)
  PROVE  Rows' /\ reqs' \in [Requests -> Req]
  <1>1. Active(q) /\ reqs[q].pc = "describe" /\ UNCHANGED secrets
    BY DEF UpdateDescription, Active
  <1>2. ReqSound(q) /\ reqs[q].kind = "describe"
    BY <1>1 DEF Rows, ReqSound
  <1>3. CASE Answer(q, "error")
    BY <1>1, <1>3, GivesUp, AnswerEffect DEF Answers
  <1>4. CASE ReqGoes(q, "log")
    <2>1. /\ reqs' \in [Requests -> Req] /\ StepOf(q)
          /\ reqs'[q].pc = "log" /\ reqs'[q].todo = reqs[q].todo
          /\ reqs'[q].answer = "none" /\ Active(q)'
      BY <1>1, <1>2, <1>4, GoesEffect DEF ReqLabel
    <2>2. ReqSound(q)'
      BY <1>1, <1>2, <2>1 DEF ReqSound, StepOf, Active
    <2>3. WritesHonestly(q)
      <3>1. ASSUME NEW l \in Keys PROVE ~Written(q, l)'
        BY <1>2, <2>1 DEF Written, StepOf, Writers
      <3>2. ASSUME NEW l \in Keys PROVE ~Gone(q, l)
        BY <1>1, <1>2 DEF Gone, Erasers, ReqSound
      <3>3. QED
        BY <1>1, <3>1, <3>2 DEF WritesHonestly
    <2>4. PassesCheck(q) /\ KeepsOwn(q) /\ OwnKeysOnly(q)
      BY <1>1, <1>2, <2>1 DEF StepOf, PassesCheck, Past, KeepsOwn, OwnKeysOnly, WholeSoFar
    <2>5. QED
      BY <1>1, <2>1, <2>2, <2>3, <2>4, RowsKept
  <1>5. QED
    BY <1>3, <1>4 DEF UpdateDescription

\* The first half of replacing a row: the request says that it took it.
\* (upsert_org_secret, upsert_repo_secret)
LEMMA DeleteRowKeeps ==
  ASSUME Typed, Rows, NEW q \in Requests, DeleteRow(q)
  PROVE  Rows' /\ reqs' \in [Requests -> Req]
  <1>0. PICK k : k = Head(reqs[q].todo)
    OBVIOUS
  <1>1. Active(q) /\ reqs[q].pc = "clear" /\ Store(k, None) /\ ReqGoes(q, "insert")
    BY <1>0 DEF DeleteRow, Active
  <1>2. ReqSound(q) /\ reqs[q].kind \in Writers
    BY <1>1 DEF Rows, ReqSound
  <1>3. k \in Keys /\ k \in reqs[q].keys /\ k \in Range(reqs[q].todo) /\ reqs[q].answer = "none"
        /\ reqs[q].keys \subseteq Keys
    BY <1>0, <1>1, NextKey
  <1>4. /\ reqs' \in [Requests -> Req] /\ StepOf(q)
        /\ reqs'[q].pc = "insert" /\ reqs'[q].todo = reqs[q].todo
        /\ reqs'[q].answer = "none" /\ Active(q)'
    BY <1>1, <1>2, GoesEffect DEF ReqLabel
  <1>5. secrets'[k] = None /\ \A l \in Keys \ {k} : secrets'[l] = secrets[l]
    BY <1>1, <1>3, StoreEffect
  <1>6. ReqSound(q)'
    BY <1>1, <1>2, <1>4 DEF ReqSound, StepOf, Active
  <1>7. \A l \in Keys : Written(q, l)' => Written(q, l) /\ l # k
    BY <1>0, <1>1, <1>2, <1>3, <1>4 DEF Written, StepOf
  <1>8. WritesHonestly(q)
    <2>1. Gone(q, k)'
      BY <1>0, <1>3, <1>4 DEF Gone, StepOf
    <2>2. \A l \in Keys \ {k} : ~Gone(q, l)
      BY <1>0, <1>1, <1>2, <1>3 DEF Gone, Writers, Erasers
    <2>3. ASSUME NEW l \in Keys
          PROVE  /\ Written(q, l)' => Written(q, l)
                 /\ secrets'[l] = None => secrets[l] = None \/ Gone(q, l)'
                 /\ Gone(q, l) => Gone(q, l)'
      <3>1. CASE l = k
        BY <3>1, <1>7, <2>1
      <3>2. CASE l # k
        BY <3>2, <1>5, <1>7, <2>2
      <3>3. QED
        BY <3>1, <3>2
    <2>4. QED
      BY <2>3 DEF WritesHonestly
  <1>9. PassesCheck(q)
    BY <1>1, <1>4 DEF PassesCheck, Past, StepOf
  <1>10. OwnKeysOnly(q)
    BY <1>3, <1>5 DEF OwnKeysOnly
  <1>11. KeepsOwn(q)
    <2>1. \A l \in Keys : ~Erased(q, l)'
      BY <1>2, <1>4 DEF Erased, StepOf, Writers
    <2>2. QED
      BY <1>3, <1>4, <1>5, <1>7, <2>1 DEF KeepsOwn, OwnRows, StepOf
  <1>12. QED
    BY <1>1, <1>4, <1>6, <1>8, <1>9, <1>10, <1>11, RowsKept

\* The second half puts the row back, or finds another's and says so.
LEMMA InsertRowKeeps ==
  ASSUME Typed, Rows, NEW q \in Requests, InsertRow(q)
  PROVE  Rows' /\ reqs' \in [Requests -> Req]
  <1> DEFINE k == Head(reqs[q].todo)
  <1>1. Active(q) /\ reqs[q].pc = "insert"
    BY DEF InsertRow, Active
  <1>2. ReqSound(q) /\ reqs[q].kind \in Writers
    BY <1>1 DEF Rows, ReqSound
  <1>3. CASE Answer(q, "error") /\ UNCHANGED secrets
    BY <1>1, <1>3, GivesUp, AnswerEffect DEF Answers
  <1>4. CASE Store(k, q) /\ ReqGoes(q, "reload")
    <2>1. k \in Keys /\ k \in reqs[q].keys /\ k \in Range(reqs[q].todo) /\ reqs[q].answer = "none"
          /\ reqs[q].keys \subseteq Keys
      BY <1>1, NextKey
    <2>2. /\ reqs' \in [Requests -> Req] /\ StepOf(q)
          /\ reqs'[q].pc = "reload" /\ reqs'[q].todo = reqs[q].todo
          /\ reqs'[q].answer = "none" /\ Active(q)'
      BY <1>1, <1>2, <1>4, GoesEffect DEF ReqLabel
    <2>3. q \in Values /\ q # None
      BY NoneAssumption DEF Values
    <2>4. secrets'[k] = q /\ \A l \in Keys \ {k} : secrets'[l] = secrets[l]
      BY <1>4, <2>1, <2>3, StoreEffect
    <2>5. ReqSound(q)'
      BY <1>1, <1>2, <2>2 DEF ReqSound, StepOf, Active
    <2>6. \A l \in Keys : Written(q, l)' => Written(q, l) \/ l = k
      BY <1>1, <1>2, <2>1, <2>2 DEF Written, StepOf
    <2>7. \A l \in Keys \ {k} : ~Gone(q, l)
      BY <1>1, <1>2, <2>1 DEF Gone, Writers, Erasers
    <2>8. WritesHonestly(q)
      <3>1. ASSUME NEW l \in Keys
            PROVE  /\ Written(q, l)' => Written(q, l) \/ secrets'[l] # None
                   /\ secrets'[l] = None => secrets[l] = None
                   /\ Gone(q, l) => secrets'[l] # None
        BY <2>3, <2>4, <2>6, <2>7
      <3>2. QED
        BY <3>1 DEF WritesHonestly
    <2>9. PassesCheck(q)
      BY <1>1, <2>2 DEF PassesCheck, Past, StepOf
    <2>10. OwnKeysOnly(q)
      BY <2>1, <2>4 DEF OwnKeysOnly
    <2>11. KeepsOwn(q)
      <3>1. \A l \in Keys : ~Erased(q, l)'
        BY <1>2, <2>2 DEF Erased, StepOf, Writers
      <3>2. QED
        BY <2>1, <2>2, <2>4, <2>6, <3>1 DEF KeepsOwn, OwnRows, StepOf
    <2>12. QED
      BY <1>1, <2>2, <2>5, <2>8, <2>9, <2>10, <2>11, RowsKept
  <1>5. QED
    BY <1>3, <1>4 DEF InsertRow

\* The row is there: the request ends, or goes on with the next name.
\* (connect_computesdk_upstream)
LEMMA ReloadKeeps ==
  ASSUME Typed, Rows, NEW q \in Requests, Reload(q)
  PROVE  Rows' /\ reqs' \in [Requests -> Req]
  <1> DEFINE k == Head(reqs[q].todo)
             s == reqs[q].todo
  <1>1. Active(q) /\ reqs[q].pc = "reload" /\ UNCHANGED secrets
    BY DEF Reload, Active
  <1>2. ReqSound(q) /\ reqs[q].kind \in Writers /\ reqs[q] \in Req
    BY <1>1 DEF Rows, ReqSound, Typed
  <1>3. /\ reqs[q].answer = "none" /\ Range(s) \subseteq reqs[q].keys /\ reqs[q].keys \subseteq Keys
        /\ Len(s) = 1 => Range(s) = {k}
        /\ Tail(s) \in Seq(Keys) /\ Range(Tail(s)) \subseteq Range(s)
        /\ \A x \in Range(s) : x = k \/ x \in Range(Tail(s))
        /\ Len(s) > 1 => Tail(s) # <<>>
        /\ Len(s) = 1 \/ Len(s) > 1
    BY <1>1, NextKey
  <1>4. CASE Answer(q, "error")
    BY <1>1, <1>4, GivesUp, AnswerEffect DEF Answers
  <1>5. ASSUME reqs' \in [Requests -> Req], StepOf(q), Active(q)', ReqSound(q)',
               reqs'[q].pc \in {"log", "clear"}, reqs'[q].answer = "none",
               \A l \in Keys : Written(q, l)' => Written(q, l)
        PROVE  Rows'
    <2>1. WritesHonestly(q)
      <3>1. ASSUME NEW l \in Keys PROVE ~Gone(q, l)
        BY <1>1, <1>2, <1>3 DEF Gone, Erasers, Writers
      <3>2. QED
        BY <1>1, <1>5, <3>1 DEF WritesHonestly
    <2>2. PassesCheck(q) /\ OwnKeysOnly(q)
      BY <1>1, <1>5 DEF PassesCheck, Past, StepOf, OwnKeysOnly
    <2>3. KeepsOwn(q)
      <3>1. \A l \in Keys : ~Erased(q, l)'
        BY <1>2, <1>5 DEF Erased, StepOf, Writers
      <3>2. QED
        BY <1>1, <1>3, <1>5, <3>1 DEF KeepsOwn, OwnRows, StepOf
    <2>4. QED
      BY <1>1, <1>5, <2>1, <2>2, <2>3, RowsKept
  <1>6. CASE Len(s) = 1 /\ ReqGoes(q, "log")
    <2>1. /\ reqs' \in [Requests -> Req] /\ StepOf(q)
          /\ reqs'[q].pc = "log" /\ reqs'[q].todo = reqs[q].todo
          /\ reqs'[q].answer = "none" /\ Active(q)'
      BY <1>1, <1>2, <1>6, GoesEffect DEF ReqLabel
    <2>2. ReqSound(q)'
      BY <1>1, <1>2, <2>1 DEF ReqSound, StepOf, Active
    <2>3. \A l \in Keys : Written(q, l)' => Written(q, l)
      <3>1. ASSUME NEW l \in Keys, l \in reqs[q].keys PROVE Written(q, l)
        BY <1>1, <1>2, <1>3, <1>6, <3>1 DEF Written
      <3>2. QED
        BY <2>1, <3>1 DEF Written, StepOf
    <2>4. QED
      BY <1>5, <2>1, <2>2, <2>3
  <1>7. CASE Len(s) # 1 /\ reqs' = [reqs EXCEPT ![q].pc = "clear", ![q].todo = Tail(@)]
    <2>1. PICK new : new = [reqs[q] EXCEPT !.pc = "clear", !.todo = Tail(reqs[q].todo)]
      OBVIOUS
    <2>2. /\ new \in Req /\ new.pc = "clear" /\ new.answer = "none" /\ new.todo = Tail(s)
          /\ new.kind = reqs[q].kind /\ new.keys = reqs[q].keys /\ new.beside = reqs[q].beside
      BY <1>2, <1>3, <2>1 DEF Req, ReqLabel
    <2>3. /\ reqs' \in [Requests -> Req] /\ reqs'[q] = new
          /\ \A r \in Requests \ {q} : reqs'[r] = reqs[r]
      BY <1>2, <1>7, <2>1, <2>2 DEF Typed
    <2>4. StepOf(q) /\ Active(q)'
      BY <2>2, <2>3 DEF StepOf, Active
    <2>5. ReqSound(q)'
      <3>1. new.todo # <<>> /\ Range(new.todo) \subseteq new.keys
        BY <1>3, <1>7, <2>2
      <3>2. QED
        BY <1>1, <1>2, <2>2, <2>3, <3>1 DEF ReqSound, Active
    <2>6. \A l \in Keys : Written(q, l)' => Written(q, l)
      BY <1>1, <1>2, <1>3, <2>2, <2>3 DEF Written
    <2>7. QED
      BY <1>5, <2>2, <2>3, <2>4, <2>5, <2>6
  <1>8. CASE Answer(q, "error") \/ (Len(s) = 1 /\ ReqGoes(q, "log"))
             \/ (Len(s) # 1 /\ reqs' = [reqs EXCEPT ![q].pc = "clear", ![q].todo = Tail(@)])
    <2>1. Len(s) = 1 /\ ReqGoes(q, "log") => reqs' \in [Requests -> Req]
      BY <1>1, <1>2, GoesEffect DEF ReqLabel
    <2>2. Answer(q, "error") => reqs' \in [Requests -> Req]
      BY AnswerEffect DEF Answers
    <2>3. reqs' = [reqs EXCEPT ![q].pc = "clear", ![q].todo = Tail(@)] => reqs' \in [Requests -> Req]
      BY <1>2, <1>3, SMTT(60) DEF Typed, Req, ReqLabel
    <2>4. QED
      BY <1>4, <1>6, <1>7, <1>8, <2>1, <2>2, <2>3
  <1>9. QED
    BY <1>8 DEF Reload

\* An erasure goes through its names; without a row it ends as not found.
\* (disconnect_provider, delete_by_org_name, delete_by_repo_name)
LEMMA EraseRowKeeps ==
  ASSUME Typed, Rows, NEW q \in Requests, EraseRow(q)
  PROVE  Rows' /\ reqs' \in [Requests -> Req]
  <1>0. PICK k, s : s = reqs[q].todo /\ k = Head(reqs[q].todo)
    OBVIOUS
  <1>1. Active(q) /\ reqs[q].pc = "erase" /\ Store(k, None)
    BY <1>0 DEF EraseRow, Active
  <1>2. ReqSound(q) /\ reqs[q].kind \in Erasers /\ reqs[q] \in Req
    BY <1>1 DEF Rows, ReqSound, Typed
  <1>3. /\ reqs[q].answer = "none" /\ Range(s) \subseteq reqs[q].keys /\ reqs[q].keys \subseteq Keys
        /\ k \in Keys /\ k \in reqs[q].keys
        /\ Len(s) = 1 => Range(s) = {k}
        /\ Tail(s) \in Seq(Keys) /\ Range(Tail(s)) \subseteq Range(s)
        /\ \A x \in Range(s) : x = k \/ x \in Range(Tail(s))
        /\ Len(s) > 1 => Tail(s) # <<>>
        /\ Len(s) = 1 \/ Len(s) > 1
    BY <1>0, <1>1, NextKey
  <1>4. secrets'[k] = None /\ \A l \in Keys \ {k} : secrets'[l] = secrets[l]
    BY <1>1, <1>3, StoreEffect
  <1>5. ASSUME reqs' \in [Requests -> Req], StepOf(q), ReqSound(q)',
               \/ reqs'[q].pc = "erase" /\ reqs'[q].todo = Tail(s)
               \/ Len(s) = 1 /\ (reqs'[q].pc = "log" \/ reqs'[q].answer = "not_found"),
               reqs'[q].answer # "ok"
        PROVE  Rows'
    <2>1. WritesHonestly(q)
      <3>1. ASSUME NEW l \in Keys PROVE ~Written(q, l)'
        BY <1>2, <1>5 DEF Written, Erasers, Writers, StepOf
      <3>2. ASSUME NEW l \in Keys PROVE Gone(q, l) => Gone(q, l)'
        BY <1>2, <1>5 DEF Gone, StepOf
      <3>3. Gone(q, k)'
        BY <1>2, <1>3, <1>5 DEF Gone, StepOf, Erasers
      <3>4. ASSUME NEW l \in Keys
            PROVE  secrets'[l] = None => secrets[l] = None \/ Gone(q, l)'
        <4>1. CASE l = k
          BY <4>1, <3>3
        <4>2. CASE l # k
          BY <4>2, <1>4
        <4>3. QED
          BY <4>1, <4>2
      <3>5. QED
        BY <3>1, <3>2, <3>4 DEF WritesHonestly
    <2>2. PassesCheck(q) /\ OwnKeysOnly(q)
      BY <1>2, <1>3, <1>4, <1>5 DEF PassesCheck, Past, StepOf, OwnKeysOnly, Erasers
    <2>3. KeepsOwn(q)
      <3> SUFFICES ASSUME WholeSoFar(q), OwnRows(q)
                   PROVE  /\ Active(q)' => OwnRows(q)'
                          /\ ~Active(q)' => \A l, m \in reqs[q].keys : secrets'[l] = secrets'[m]
        BY DEF KeepsOwn
      <3>1. reqs[q].kind = "disconnect"
        BY <1>1, <1>2 DEF WholeSoFar, Erasers
      <3>2. \A l \in reqs[q].keys : l \notin Range(s) => secrets[l] = None
        BY <1>0, <1>1, <3>1 DEF OwnRows, Erased
      <3>3. ASSUME NEW l \in reqs[q].keys,
                   l \notin Range(Tail(s)) \/ Len(s) = 1
            PROVE  secrets'[l] = None
        <4>1. l = k \/ l \notin Range(s)
          BY <1>3, <3>3
        <4>2. l \in Keys
          BY <1>3
        <4>3. CASE l = k
          BY <4>3, <1>4
        <4>4. CASE l # k
          BY <4>1, <4>2, <4>4, <1>4, <3>2
        <4>5. QED
          BY <4>3, <4>4
      <3>4. ASSUME Active(q)' PROVE OwnRows(q)'
        <4>1. \A l \in Keys : ~Written(q, l)'
          BY <1>2, <1>5 DEF Written, Erasers, Writers, StepOf
        <4>2. ASSUME NEW l \in reqs[q].keys, Erased(q, l)' PROVE secrets'[l] = None
          BY <1>0, <1>5, <3>3, <3>4, <4>2 DEF Erased, StepOf, Active
        <4>3. QED
          BY <1>3, <1>5, <4>1, <4>2 DEF OwnRows, StepOf
      <3>5. ASSUME ~Active(q)' PROVE Len(s) = 1
        BY <1>5, <3>5 DEF Active
      <3>6. QED
        BY <3>3, <3>4, <3>5
    <2>4. QED
      BY <1>1, <1>5, <2>1, <2>2, <2>3, RowsKept
  <1> DEFINE hit == reqs[q].hit \/ Row(q) # None
  <1>6. CASE Len(s) > 1 /\ reqs' = [reqs EXCEPT ![q].todo = Tail(@), ![q].hit = hit]
    <2>1. PICK new : new = [reqs[q] EXCEPT !.todo = Tail(reqs[q].todo), !.hit = hit]
      OBVIOUS
    <2>2. hit \in BOOLEAN
      BY <1>2 DEF Req
    <2>3. /\ new \in Req /\ new.pc = "erase" /\ new.answer = "none" /\ new.todo = Tail(s)
          /\ new.kind = reqs[q].kind /\ new.keys = reqs[q].keys /\ new.beside = reqs[q].beside
      BY <1>0, <1>1, <1>2, <1>3, <2>1, <2>2 DEF Req, ReqLabel
    <2>4. /\ reqs' \in [Requests -> Req] /\ reqs'[q] = new
          /\ \A r \in Requests \ {q} : reqs'[r] = reqs[r]
      BY <1>2, <1>6, <2>1, <2>3 DEF Typed
    <2>5. StepOf(q)
      BY <2>3, <2>4 DEF StepOf
    <2>6. ReqSound(q)'
      <3>1. new.todo # <<>> /\ Range(new.todo) \subseteq new.keys
        BY <1>3, <1>6, <2>3
      <3>2. QED
        BY <1>1, <1>2, <2>3, <2>4, <3>1 DEF ReqSound, Active
    <2>7. QED
      BY <1>5, <2>3, <2>4, <2>5, <2>6
  <1>7. CASE ~(Len(s) > 1) /\ ReqGoes(q, "log")
    <2>1. /\ reqs' \in [Requests -> Req] /\ StepOf(q)
          /\ reqs'[q].pc = "log" /\ reqs'[q].todo = reqs[q].todo
          /\ reqs'[q].answer = "none" /\ Active(q)'
      BY <1>1, <1>2, <1>7, GoesEffect DEF ReqLabel
    <2>2. ReqSound(q)'
      BY <1>1, <1>2, <2>1 DEF ReqSound, StepOf, Active
    <2>3. Len(s) = 1
      BY <1>3, <1>7
    <2>4. QED
      BY <1>5, <2>1, <2>2, <2>3
  <1>8. CASE ~(Len(s) > 1) /\ Answer(q, "not_found")
    <2>1. /\ reqs' \in [Requests -> Req] /\ StepOf(q)
          /\ reqs'[q].answer = "not_found" /\ ReqSound(q)'
      BY <1>1, <1>2, <1>8, AnswerEffect DEF Answers
    <2>2. Len(s) = 1
      BY <1>3, <1>8
    <2>3. QED
      BY <1>5, <2>1, <2>2
  <1>9. QED
    BY <1>0, <1>6, <1>7, <1>8 DEF EraseRow

\* A request that is through is answered: what it wrote stands.
LEMMA LogActivityKeeps ==
  ASSUME Typed, Rows, NEW q \in Requests, LogActivity(q)
  PROVE  Rows' /\ reqs' \in [Requests -> Req]
  <1>1. Active(q) /\ reqs[q].pc = "log" /\ Answer(q, "ok") /\ UNCHANGED secrets
    BY DEF LogActivity, Active
  <1>2. ReqSound(q) /\ reqs[q].keys \subseteq Keys /\ reqs[q].answer = "none"
    BY <1>1, NextKey
  <1>3. /\ reqs' \in [Requests -> Req] /\ StepOf(q)
        /\ reqs'[q].pc = "done" /\ reqs'[q].answer = "ok" /\ ReqSound(q)'
    BY <1>1, <1>2, AnswerEffect DEF Answers
  <1>4. WritesHonestly(q)
    <2>1. ASSUME NEW l \in Keys
          PROVE  /\ Written(q, l)' => Written(q, l)
                 /\ Gone(q, l) => Gone(q, l)'
      BY <1>1, <1>2, <1>3 DEF Written, Gone, StepOf
    <2>2. QED
      BY <1>1, <2>1 DEF WritesHonestly
  <1>5. PassesCheck(q) /\ OwnKeysOnly(q)
    BY <1>1, <1>3 DEF PassesCheck, Past, StepOf, OwnKeysOnly
  <1>6. KeepsOwn(q)
    <2>1. ASSUME WholeSoFar(q), OwnRows(q)
          PROVE  \A l, m \in reqs[q].keys : secrets[l] = secrets[m]
      BY <1>1, <1>2, <2>1 DEF WholeSoFar, OwnRows, Written, Erased, Writers
    <2>2. QED
      BY <1>1, <1>3, <2>1 DEF KeepsOwn, Active
  <1>7. QED
    BY <1>1, <1>3, <1>4, <1>5, <1>6, RowsKept

\* A failing statement ends the request with an error.
LEMMA SecretFailsKeeps ==
  ASSUME Typed, Rows, NEW q \in Requests, SecretFails(q)
  PROVE  Rows' /\ reqs' \in [Requests -> Req]
  <1>1. Active(q) /\ Answer(q, "error") /\ UNCHANGED secrets
    BY DEF SecretFails
  <1>2. QED
    BY <1>1, GivesUp, AnswerEffect DEF Answers

\* What a request that is let in has ahead of it: all its keys, one at least.
LEMMA Admits ==
  ASSUME NEW kind \in {"create", "rotate", "describe", "delete", "connect", "disconnect"},
         NEW todo \in CASE kind = "connect" ->
                             UNION {SetToSeqs(OrgKeys(names)) : names \in Connectable}
                        [] kind = "disconnect" ->
                             {[i \in DOMAIN Names[p] |-> <<"org", Names[p][i]>>] : p \in Providers}
                        [] OTHER -> {<<k>> : k \in Singles}
  PROVE  /\ todo \in Seq(Keys) /\ todo # <<>>
         /\ kind \in {"create", "rotate", "describe"} => \E k \in Keys : Range(todo) = {k}
  <1>1. CASE kind = "connect"
    <2>1. PICK names \in Connectable : todo \in SetToSeqs(OrgKeys(names))
      BY <1>1
    <2>2. todo \in Seq(OrgKeys(names)) /\ todo # <<>>
      BY <2>1, ConnectStoresAll
    <2>3. OrgKeys(names) \subseteq Keys
      BY OrgKeysAreKeys
    <2>4. todo \in Seq(Keys)
      BY <2>2, <2>3
    <2>5. QED
      BY <1>1, <2>2, <2>4
  <1>2. CASE kind = "disconnect"
    <2>1. PICK p \in Providers : todo = [i \in DOMAIN Names[p] |-> <<"org", Names[p][i]>>]
      BY <1>2
    <2>2. PICK s : s = Names[p]
      OBVIOUS
    <2>3. s \in Seq(AllNames) /\ s # <<>>
      BY <2>2, RegistryAssumption
    <2>4. Len(s) \in Nat \ {0} /\ DOMAIN s = 1 .. Len(s) /\ \A i \in 1 .. Len(s) : s[i] \in AllNames
      BY <2>3
    <2>5. todo = [i \in 1 .. Len(s) |-> <<"org", s[i]>>]
      BY <2>1, <2>2, <2>4
    <2>6. \A i \in 1 .. Len(s) : <<"org", s[i]>> \in Keys
      BY <2>4 DEF Keys
    <2>7. todo \in Seq(Keys) /\ todo # <<>>
      BY <2>4, <2>5, <2>6
    <2>8. QED
      BY <1>2, <2>7
  <1>3. CASE kind \notin {"connect", "disconnect"}
    <2>1. PICK k \in Singles : todo = <<k>>
      BY <1>3
    <2>2. k \in Keys
      BY OrgKeysAreKeys
    <2>3. todo \in Seq(Keys) /\ todo # <<>> /\ Range(todo) = {k}
      BY <2>1, <2>2 DEF Range
    <2>4. QED
      BY <1>3, <2>2, <2>3
  <1>4. QED
    BY <1>1, <1>2, <1>3

\* A request that is let in has written and taken nothing; it meets the
\* requests under way.
LEMMA StartSecretKeeps ==
  ASSUME Typed, Rows, NEW q \in Requests, StartSecret(q)
  PROVE  Rows' /\ reqs' \in [Requests -> Req]
  <1>1. /\ reqs[q] = ReqRest /\ reqs[q].pc = "idle" /\ UNCHANGED secrets /\ ~Active(q)
        /\ reqs[q].keys = {} /\ reqs[q].beside = {} /\ reqs[q].kind = "none"
        /\ reqs[q].answer = "none"
    <2>1. reqs[q].pc = "idle" /\ UNCHANGED secrets
      BY DEF StartSecret
    <2>2. reqs[q] = ReqRest
      BY <2>1 DEF Rows, ReqSound
    <2>3. QED
      BY <2>1, <2>2 DEF ReqRest, Active
  <1>2. PICK others : others = {r \in Requests \ {q} : Active(r)}
    OBVIOUS
  <1>3. PICK kind \in {"create", "rotate", "describe", "delete", "connect", "disconnect"} :
          \E todo \in CASE kind = "connect" ->
                             UNION {SetToSeqs(OrgKeys(names)) : names \in Connectable}
                        [] kind = "disconnect" ->
                             {[i \in DOMAIN Names[p] |-> <<"org", Names[p][i]>>] : p \in Providers}
                        [] OTHER -> {<<k>> : k \in Singles} :
            reqs' = Meet([reqs EXCEPT ![q] =
                   [ReqRest EXCEPT !.kind = kind, !.todo = todo, !.keys = Range(todo),
                      !.pc = CASE kind = "create" -> "check"
                               [] kind \in {"rotate", "describe"} -> "read"
                               [] kind = "connect" -> "clear"
                               [] OTHER -> "erase"]], q)
    BY DEF StartSecret
  <1>4. PICK todo :
          /\ todo \in Seq(Keys) /\ todo # <<>>
          /\ kind \in {"create", "rotate", "describe"} => \E k \in Keys : Range(todo) = {k}
          /\ reqs' = Meet([reqs EXCEPT ![q] =
                   [ReqRest EXCEPT !.kind = kind, !.todo = todo, !.keys = Range(todo),
                      !.pc = CASE kind = "create" -> "check"
                               [] kind \in {"rotate", "describe"} -> "read"
                               [] kind = "connect" -> "clear"
                               [] OTHER -> "erase"]], q)
    BY <1>3, Admits
  <1>5. PICK pc \in {"check", "read", "clear", "erase"} :
          /\ pc = CASE kind = "create" -> "check"
                    [] kind \in {"rotate", "describe"} -> "read"
                    [] kind = "connect" -> "clear"
                    [] OTHER -> "erase"
          /\ pc = "check" <=> kind = "create"
          /\ pc = "read" <=> kind \in {"rotate", "describe"}
          /\ pc = "clear" <=> kind = "connect"
          /\ pc = "erase" <=> kind \in {"delete", "disconnect"}
    OBVIOUS
  <1>6. PICK new : new = [ReqRest EXCEPT !.kind = kind, !.todo = todo, !.keys = Range(todo),
                                         !.pc = pc, !.beside = others]
    OBVIOUS
  <1>7. /\ new \in Req /\ new.pc = pc /\ new.kind = kind /\ new.todo = todo
        /\ new.keys = Range(todo) /\ new.beside = others /\ new.answer = "none"
    <2>1. Range(todo) \subseteq Keys
      BY <1>4, InRange
    <2>2. others \subseteq Requests
      BY <1>2
    <2>3. None \in Values \cup {None}
      OBVIOUS
    <2>4. QED
      BY <1>4, <1>6, <2>1, <2>2, <2>3 DEF Req, ReqLabel, ReqRest
  <1>8. /\ reqs' \in [Requests -> Req] /\ reqs'[q] = new
        /\ \A r \in Requests \ {q} : /\ reqs'[r].pc = reqs[r].pc /\ reqs'[r].kind = reqs[r].kind
                                     /\ reqs'[r].todo = reqs[r].todo /\ reqs'[r].keys = reqs[r].keys
                                     /\ reqs'[r].answer = reqs[r].answer
                                     /\ reqs'[r].beside =
                                          reqs[r].beside \cup (IF Active(r) THEN {q} ELSE {})
                                     /\ ~Active(r) => reqs'[r] = reqs[r]
    <2>1. PICK met : met = [r \in Requests |-> IF r = q THEN new
                             ELSE IF Active(r) THEN [reqs[r] EXCEPT !.beside = @ \cup {q}]
                             ELSE reqs[r]]
      OBVIOUS
    <2>2. reqs' = met
      <3>1. PICK rs : rs = [reqs EXCEPT ![q] =
                   [ReqRest EXCEPT !.kind = kind, !.todo = todo, !.keys = Range(todo), !.pc = pc]]
        OBVIOUS
      <3>2. /\ [rs[q] EXCEPT !.beside = others] = new
            /\ \A r \in Requests \ {q} : rs[r] = reqs[r]
        BY <1>6, <3>1 DEF Typed, ReqRest
      <3>3. reqs' = Meet(rs, q)
        BY <1>4, <1>5, <3>1
      <3>4. QED
        BY <1>2, <2>1, <3>2, <3>3 DEF Meet
    <2>3. ASSUME NEW r \in Requests \ {q}
          PROVE  /\ met[r] \in Req
                 /\ met[r].pc = reqs[r].pc /\ met[r].kind = reqs[r].kind
                 /\ met[r].todo = reqs[r].todo /\ met[r].keys = reqs[r].keys
                 /\ met[r].answer = reqs[r].answer
                 /\ met[r].beside = reqs[r].beside \cup (IF Active(r) THEN {q} ELSE {})
                 /\ ~Active(r) => met[r] = reqs[r]
      <3>1. reqs[r] \in Req
        BY DEF Typed
      <3>2. CASE Active(r)
        BY <2>1, <3>1, <3>2 DEF Req
      <3>3. CASE ~Active(r)
        BY <2>1, <3>1, <3>3 DEF Req
      <3>4. QED
        BY <3>2, <3>3
    <2>4. met[q] = new /\ met \in [Requests -> Req]
      BY <1>7, <2>1, <2>3
    <2>5. QED
      BY <2>2, <2>3, <2>4
  <1>9. \A r \in Requests \ {q} : Active(r)' = Active(r)
    BY <1>8 DEF Active
  <1>10. Active(q)'
    BY <1>7, <1>8 DEF Active
  <1>11. ASSUME NEW r \in Requests PROVE ReqSound(r)'
    <2>1. CASE r = q
      <3>1. /\ Active(q)' /\ reqs'[q].pc = pc /\ reqs'[q].kind = kind /\ reqs'[q].todo = todo
            /\ reqs'[q].keys = Range(todo) /\ reqs'[q].answer = "none"
        BY <1>7, <1>8, <1>10
      <3>2. kind \in {"create", "rotate", "describe"} => \E k \in Keys : reqs'[q].keys = {k}
        BY <1>4, <3>1
      <3>3. pc = "clear" => kind \in Writers
        BY <1>5 DEF Writers
      <3>4. pc = "erase" => kind \in Erasers
        BY <1>5 DEF Erasers
      <3>5. ReqSound(q)'
        BY <1>4, <1>5, <3>1, <3>2, <3>3, <3>4 DEF ReqSound
      <3>6. QED
        BY <2>1, <3>5
    <2>2. CASE r # q /\ Active(r)
      <3>1. ReqSound(r)
        BY DEF Rows
      <3>2. QED
        BY <2>2, <3>1, <1>8 DEF ReqSound, Active
    <2>3. CASE r # q /\ ~Active(r)
      <3>1. ReqSound(r) /\ reqs'[r] = reqs[r]
        BY <2>3, <1>8 DEF Rows
      <3>2. QED
        BY <3>1 DEF ReqSound, Active
    <2>4. QED
      BY <2>1, <2>2, <2>3
  <1>12. BesideSound'
    <2>1. \A r \in Requests \ {q} : q \notin reqs[r].beside
      BY <1>1 DEF Rows, BesideSound
    <2>2. \A r \in Requests \ {q} : /\ r \in reqs'[q].beside <=> Active(r)
                                    /\ q \in reqs'[r].beside <=> Active(r)
      BY <2>1, <1>2, <1>7, <1>8
    <2>3. \A a, b \in Requests \ {q} : b \in reqs'[a].beside <=> b \in reqs[a].beside
      BY <1>8
    <2>4. ASSUME NEW a \in Requests, NEW b \in Requests, a # b
          PROVE  /\ b \in reqs'[a].beside <=> a \in reqs'[b].beside
                 /\ Active(a)' /\ Active(b)' => b \in reqs'[a].beside
      <3>1. CASE a = q
        BY <3>1, <2>4, <2>2, <1>9
      <3>2. CASE b = q
        BY <3>2, <2>4, <2>2, <1>9
      <3>3. CASE a # q /\ b # q
        BY <3>3, <2>4, <2>3, <1>9 DEF Rows, BesideSound
      <3>4. QED
        BY <3>1, <3>2, <3>3
    <2>5. QED
      BY <2>4 DEF BesideSound
  <1>13. \A k : ~Written(q, k)' /\ ~Erased(q, k)'
    BY <1>5, <1>7, <1>8 DEF Written, Erased, Writers
  <1>14. \A r \in Requests \ {q}, k \in Keys : /\ Written(r, k)' <=> Written(r, k)
                                               /\ Erased(r, k)' <=> Erased(r, k)
                                               /\ Gone(r, k)' <=> Gone(r, k)
    BY <1>8 DEF Written, Erased, Gone
  <1>15. Vanish'
    <2>1. \A k : ~Gone(q, k)
      BY <1>1 DEF Gone
    <2>2. QED
      BY <1>1, <1>13, <1>14, <2>1 DEF Rows, Vanish
  <1>16. Exclude'
    <2>1. ~Past(q)'
      BY <1>5, <1>7, <1>8 DEF Past
    <2>2. \A r \in Requests \ {q} : Past(r)' <=> Past(r)
      BY <1>8 DEF Past
    <2>3. \A a, b \in Requests \ {q}, d \in Requests : Disturbs(d, a, b) => Disturbs(d, a, b)'
      BY <1>1, <1>8 DEF Disturbs
    <2>4. ASSUME NEW a \in Requests, NEW b \in Requests, a # b, Past(a)', Past(b)',
                 reqs'[a].keys = reqs'[b].keys, b \notin reqs'[a].beside
          PROVE  \E d \in Requests : Disturbs(d, a, b)'
      <3>1. a # q /\ b # q
        BY <2>1, <2>4
      <3>2. Past(a) /\ Past(b) /\ reqs[a].keys = reqs[b].keys /\ b \notin reqs[a].beside
        BY <2>2, <2>4, <3>1, <1>8
      <3>3. PICK d \in Requests : Disturbs(d, a, b)
        BY <2>4, <3>2 DEF Rows, Exclude
      <3>4. QED
        BY <2>3, <3>1, <3>3
    <2>5. QED
      BY <2>4 DEF Exclude
  <1>17. Together'
    <2> SUFFICES ASSUME \A r \in Requests : WholeSoFar(r)'
                 PROVE  /\ \A r \in Requests : Active(r)' => \A k \in reqs'[r].keys :
                             /\ Written(r, k)' => secrets'[k] = r
                             /\ Erased(r, k)' => secrets'[k] = None
                        /\ \A m, n \in AllNames : NamedTogether(m, n)' => Alike(m, n)'
      BY DEF Together
    <2>1. others = {}
      BY <1>5, <1>7, <1>8 DEF WholeSoFar
    <2>2. \A r \in Requests : ~Active(r)
      BY <2>1, <1>1, <1>2
    <2>3. \A r \in Requests : WholeSoFar(r)
      BY <1>1, <1>8, <2>2 DEF WholeSoFar
    <2>4. ASSUME NEW m \in AllNames, NEW n \in AllNames, NamedTogether(m, n)' PROVE Alike(m, n)'
      <3>1. NamedTogether(m, n)
        BY <1>1, <1>8, <2>4 DEF NamedTogether
      <3>2. Alike(m, n)
        BY <2>2, <2>3, <3>1 DEF Rows, Together
      <3>3. QED
        BY <1>1, <3>2 DEF Alike
    <2>5. \A r \in Requests : Active(r)' => r = q
      BY <2>2, <1>9
    <2>6. QED
      BY <1>13, <2>4, <2>5
  <1>18. QED
    BY <1>8, <1>11, <1>12, <1>15, <1>16, <1>17 DEF Rows

-----------------------------------------------------------------------------
(* The job while it resolves its credentials *)

JobTyped == job \in Job /\ sandbox \in Sandbox
JobSound == JobTyped /\ Resolves /\ Handed /\ Box

LEMMA JobKeysAreKeys ==
  \A p \in Providers :
    /\ JobKeys(p) \subseteq Keys /\ p # None /\ Names[p] \in Seq(AllNames) /\ Names[p] # <<>>
    /\ \A i \in 1 .. Len(Names[p]) : /\ <<"repo", Names[p][i]>> \in JobKeys(p)
                                     /\ <<"org", Names[p][i]>> \in JobKeys(p)
                                     /\ <<"bootstrap", Names[p][i]>> \in JobKeys(p)
                                     /\ Names[p][i] \in AllNames
  <1> SUFFICES ASSUME NEW p \in Providers
               PROVE  /\ JobKeys(p) \subseteq Keys /\ p # None /\ Names[p] \in Seq(AllNames)
                      /\ Names[p] # <<>>
                      /\ \A i \in 1 .. Len(Names[p]) : /\ <<"repo", Names[p][i]>> \in JobKeys(p)
                                                       /\ <<"org", Names[p][i]>> \in JobKeys(p)
                                                       /\ <<"bootstrap", Names[p][i]>> \in JobKeys(p)
                                                       /\ Names[p][i] \in AllNames
    OBVIOUS
  <1>1. PICK s : s = Names[p]
    OBVIOUS
  <1>2. s \in Seq(AllNames) /\ s # <<>> /\ p # None
    BY <1>1, RegistryAssumption, NoneAssumption
  <1>3. DOMAIN s = 1 .. Len(s) /\ \A i \in 1 .. Len(s) : s[i] \in AllNames /\ s[i] \in Range(s)
    BY <1>2 DEF Range
  <1>4. JobKeys(p) = {"repo", "org", "bootstrap"} \X Range(s)
    BY <1>1, <1>2 DEF JobKeys
  <1>5. Range(s) \subseteq AllNames
    BY <1>1 DEF AllNames
  <1>6. JobKeys(p) \subseteq Keys
    BY <1>4, <1>5 DEF Keys
  <1>7. QED
    BY <1>1, <1>2, <1>3, <1>4, <1>6

\* Where a resolving job stands: the name it is at is its provider's next.
LEMMA AtName ==
  ASSUME JobSound, job.pc \in Resolving
  PROVE  LET p == job.provider
             n == Head(job.todo)
             m == Len(job.creds)
         IN  /\ p \in Providers /\ p # None /\ JobKeys(p) \subseteq Keys
             /\ m \in Nat /\ Len(job.todo) \in Nat \ {0}
             /\ m + Len(job.todo) = Len(Names[p])
             /\ m + 1 \in 1 .. Len(Names[p]) /\ n = Names[p][m + 1] /\ n \in AllNames
             /\ {<<"repo", n>>, <<"org", n>>, <<"bootstrap", n>>} \subseteq JobKeys(p)
             /\ \A i \in 1 .. m : i \in 1 .. Len(Names[p])
             /\ DOMAIN job.could = JobKeys(p)
             /\ \A k \in JobKeys(p) : secrets[k] \in job.could[k]
             /\ job.target = None /\ job.key = None /\ job.result = "none"
             /\ sandbox = NoSandbox
  <1>1. job \in Job
    BY DEF JobSound, JobTyped
  <1>2. /\ job.provider \in Providers /\ job.todo # <<>>
        /\ Len(job.creds) + Len(job.todo) = Len(Names[job.provider])
        /\ \A i \in 1 .. Len(job.todo) : job.todo[i] = Names[job.provider][Len(job.creds) + i]
        /\ \A k \in JobKeys(job.provider) : secrets[k] \in job.could[k]
        /\ DOMAIN job.could = JobKeys(job.provider)
        /\ job.target = None /\ job.key = None
    BY DEF JobSound, Resolves
  <1>3. job.result = "none" /\ sandbox = NoSandbox
    BY DEF JobSound, Box, Resolving
  <1>4. PICK s, c : s = job.todo /\ c = job.creds
    OBVIOUS
  <1>5. s \in Seq(AllNames) /\ s # <<>> /\ c \in Seq(Values \cup {None})
    BY <1>1, <1>2, <1>4 DEF Job
  <1>6. Len(c) \in Nat /\ Len(s) \in Nat \ {0} /\ Head(s) = s[1]
    BY <1>5
  <1>7. s[1] = Names[job.provider][Len(c) + 1]
    BY <1>2, <1>4, <1>6
  <1>8. PICK L : L = Len(Names[job.provider]) /\ L = Len(c) + Len(s)
    BY <1>2, <1>4, Zenon
  <1>9. L \in Nat /\ Len(c) + 1 \in 1 .. L /\ \A i \in 1 .. Len(c) : i \in 1 .. L
    BY <1>6, <1>8
  <1>10. PICK p, n, m : p = job.provider /\ n = Head(s) /\ m = Len(c)
    OBVIOUS
  <1>11. /\ p # None /\ JobKeys(p) \subseteq Keys /\ n = Names[p][m + 1] /\ n \in AllNames
         /\ {<<"repo", n>>, <<"org", n>>, <<"bootstrap", n>>} \subseteq JobKeys(p)
    <2>1. p \in Providers /\ L = Len(Names[p])
      BY <1>2, <1>8, <1>10, Zenon
    <2>2. /\ p # None /\ JobKeys(p) \subseteq Keys
          /\ \A i \in 1 .. L : /\ <<"repo", Names[p][i]>> \in JobKeys(p)
                             /\ <<"org", Names[p][i]>> \in JobKeys(p)
                             /\ <<"bootstrap", Names[p][i]>> \in JobKeys(p)
                             /\ Names[p][i] \in AllNames
      BY <2>1, JobKeysAreKeys, Zenon
    <2>3. m + 1 \in 1 .. L
      BY <1>9, <1>10, Zenon
    <2>4. n = Names[p][m + 1]
      BY <1>6, <1>7, <1>10, Zenon
    <2>5. QED
      BY <2>2, <2>3, <2>4, Zenon
  <1>12. QED
    BY <1>2, <1>3, <1>4, <1>6, <1>8, <1>9, <1>10, <1>11

\* The next name is settled: a job whose queries did not fail has it with a
\* value of that key.
LEMMA SettledKeeps ==
  ASSUME JobSound, job.pc \in Resolving, NEW v \in Values \cup {None},
         NEW lost \in SUBSET {"db", "create", "wait", "upload", "execute", "delete"},
         job' = [Settled(v) EXCEPT !.lost = lost],
         job.lost \subseteq lost, UNCHANGED <<secrets, sandbox>>,
         "db" \notin lost =>
           \/ v \in job.could[<<"repo", Head(job.todo)>>] \ {None}
           \/ /\ None \in job.could[<<"repo", Head(job.todo)>>]
              /\ v \in job.could[<<"org", Head(job.todo)>>]
           \/ /\ Head(job.todo) \in job.strays
              /\ v \in job.could[<<"bootstrap", Head(job.todo)>>]
  PROVE  JobSound'
  <1>1. job \in Job /\ sandbox \in Sandbox
    BY DEF JobSound, JobTyped
  <1>2. PICK p, c, s, m, n, L :
          /\ p = job.provider /\ c = job.creds /\ s = job.todo /\ m = Len(c) /\ n = Head(s)
          /\ L = Len(Names[p])
    OBVIOUS
  <1>3. /\ p \in Providers /\ p # None /\ m \in Nat /\ Len(s) \in Nat \ {0} /\ m + Len(s) = L
        /\ n = Names[p][m + 1] /\ m + 1 \in 1 .. L
        /\ DOMAIN job.could = JobKeys(p)
        /\ \A k \in JobKeys(p) : secrets[k] \in job.could[k]
        /\ job.target = None /\ job.key = None /\ job.result = "none" /\ sandbox = NoSandbox
    BY <1>2, AtName
  <1>4. s \in Seq(AllNames) /\ c \in Seq(Values \cup {None}) /\ s # <<>>
    BY <1>1, <1>2 DEF Job, JobSound, Resolves
  <1>5. PICK d : d = Append(c, v)
    OBVIOUS
  <1>6. PICK pc \in {"dispatch", "repo"} :
          /\ pc = IF Len(s) = 1 THEN "dispatch" ELSE "repo"
          /\ pc = "dispatch" => Len(s) = 1
          /\ pc = "repo" => Len(s) # 1
    OBVIOUS
  <1>7. /\ d \in Seq(Values \cup {None}) /\ Len(d) = m + 1 /\ d[m + 1] = v
        /\ \A i \in 1 .. m : d[i] = c[i]
    BY <1>2, <1>4, <1>5
  <1>8. Tail(s) \in Seq(AllNames) /\ Len(Tail(s)) = Len(s) - 1
        /\ \A i \in 1 .. (Len(s) - 1) : Tail(s)[i] = s[i + 1]
    BY <1>4
  <1>9. /\ job' \in Job /\ job'.pc = pc /\ job'.provider = p /\ job'.todo = Tail(s)
        /\ job'.creds = d /\ job'.could = job.could /\ job'.target = None /\ job'.key = None
        /\ job'.lost = lost /\ job'.result = "none" /\ job'.strays = job.strays
    BY <1>1, <1>2, <1>3, <1>5, <1>6, <1>7, <1>8 DEF Job, Settled
  <1>10. \A i \in 1 .. m : "db" \notin lost => Earned(i)
    BY <1>2, <1>3 DEF JobSound, Resolves
  <1>11. ASSUME "db" \notin lost, NEW i \in 1 .. m + 1 PROVE Earned(i)'
    <2>1. CASE i = m + 1
      BY <2>1, <1>2, <1>3, <1>7, <1>9, <1>11 DEF Earned
    <2>2. CASE i # m + 1
      <3>1. i \in 1 .. m
        BY <2>2, <1>3
      <3>2. d[i] = c[i] /\ Earned(i)
        BY <3>1, <1>7, <1>10, <1>11
      <3>3. QED
        BY <3>2, <1>2, <1>9 DEF Earned
    <2>3. QED
      BY <2>1, <2>2
  <1>12. pc = "repo" =>
           /\ Tail(s) # <<>> /\ Len(d) + Len(Tail(s)) = L
           /\ \A i \in 1 .. Len(Tail(s)) : Tail(s)[i] = Names[p][Len(d) + i]
    <2> SUFFICES ASSUME pc = "repo"
                 PROVE  /\ Tail(s) # <<>> /\ Len(d) + Len(Tail(s)) = L
                        /\ \A i \in 1 .. Len(Tail(s)) : Tail(s)[i] = Names[p][Len(d) + i]
      OBVIOUS
    <2>1. PICK l \in Nat : l = Len(s) /\ l > 1
      <3>1. Len(s) > 1 /\ Len(s) \in Nat
        BY <1>3, <1>4, <1>6, InRange
      <3>2. QED
        BY <3>1, Zenon
    <2>2. Len(Tail(s)) = l - 1
      BY <1>8, <2>1
    <2>3. Tail(s) # <<>>
      BY <1>4, <2>1, InRange
    <2>4. ASSUME NEW i \in 1 .. (l - 1) PROVE Tail(s)[i] = Names[p][m + 1 + i]
      <3>1. \A j \in 1 .. l : s[j] = Names[p][m + j]
        BY <1>2, <2>1 DEF JobSound, Resolves
      <3>2. i + 1 \in 1 .. l /\ m + (i + 1) = m + 1 + i
        BY <1>3, <2>1, <2>4
      <3>3. s[i + 1] = Names[p][m + (i + 1)]
        BY <3>1, <3>2
      <3>4. QED
        BY <1>8, <2>1, <3>2, <3>3
    <2>5. m + 1 + (l - 1) = L
      BY <1>3, <2>1
    <2>6. QED
      BY <1>7, <2>2, <2>3, <2>4, <2>5
  <1>13. pc = "dispatch" => Len(d) = L
    BY <1>3, <1>6, <1>7
  <1>14. Resolves'
    <2>1. \A k \in JobKeys(p) : secrets'[k] \in job'.could[k]
      BY <1>3, <1>9
    <2>2. /\ DOMAIN job'.could = JobKeys(job'.provider)
          /\ job'.target = None /\ job'.key = None
          /\ job'.provider # None /\ "db" \notin job'.lost =>
               \A i \in 1 .. Len(job'.creds) : Earned(i)'
      BY <1>3, <1>7, <1>9, <1>11
    <2>3. CASE pc = "repo"
      <3>1. /\ job'.provider \in Providers /\ job'.todo # <<>>
            /\ Len(job'.creds) + Len(job'.todo) = Len(Names[job'.provider])
            /\ \A i \in 1 .. Len(job'.todo) :
                 job'.todo[i] = Names[job'.provider][Len(job'.creds) + i]
        BY <1>2, <1>3, <1>9, <1>12, <2>3
      <3>2. job'.pc = "repo"
        BY <1>9, <2>3
      <3>3. QED
        BY <1>9, <2>1, <2>2, <3>1, <3>2, Zenon DEF Resolves
    <2>4. CASE pc = "dispatch"
      <3>1. job'.pc = "dispatch" /\ job'.pc \notin Resolving
        BY <1>9, <2>4 DEF Resolving
      <3>2. QED
        BY <2>2, <3>1, Zenon DEF Resolves
    <2>5. QED
      BY <1>6, <2>3, <2>4
  <1>15. Handed'
    BY <1>2, <1>3, <1>6, <1>9, <1>13, NoneAssumption DEF Handed
  <1>16. Box'
    BY <1>3, <1>6, <1>9, BoundsAssumption DEF Box, NoSandbox, Resolving
  <1>17. QED
    BY <1>1, <1>9, <1>14, <1>15, <1>16 DEF JobSound, JobTyped

\* A write of a secret reaches a resolving job's could.
LEMMA StoreKeepsJob ==
  ASSUME JobSound, NEW k \in Keys, NEW v \in Values \cup {None}, Store(k, v),
         secrets \in [Keys -> Values \cup {None}]
  PROVE  JobSound'
  <1>1. job \in Job /\ sandbox \in Sandbox /\ sandbox' = sandbox
    BY DEF JobSound, JobTyped, Store
  <1>2. secrets'[k] = v /\ \A l \in Keys \ {k} : secrets'[l] = secrets[l]
    BY DEF Store
  <1>3. CASE job.pc \in Resolving /\ k \in DOMAIN job.could
    <2>1. /\ job.provider \in Providers /\ DOMAIN job.could = JobKeys(job.provider)
          /\ JobKeys(job.provider) \subseteq Keys
          /\ \A i \in 1 .. Len(job.creds) : i \in 1 .. Len(Names[job.provider])
          /\ \A l \in JobKeys(job.provider) : secrets[l] \in job.could[l]
      BY <1>3, AtName
    <2>2. PICK could : could = [job.could EXCEPT ![k] = @ \cup {v}]
      OBVIOUS
    <2>3. PICK S \in SUBSET Keys : job.could \in [S -> SUBSET (Values \cup {None})]
      BY <1>1 DEF Job, Could
    <2>4. /\ could \in [S -> SUBSET (Values \cup {None})] /\ DOMAIN could = DOMAIN job.could
          /\ \A l \in DOMAIN could : job.could[l] \subseteq could[l]
          /\ v \in could[k]
      BY <1>3, <2>2, <2>3
    <2>5. could \in Could
      BY <2>4 DEF Could
    <2>6. /\ job' \in Job /\ job'.could = could /\ job'.pc = job.pc /\ job'.todo = job.todo
          /\ job'.provider = job.provider /\ job'.creds = job.creds /\ job'.target = job.target
          /\ job'.key = job.key /\ job'.lost = job.lost /\ job'.step = job.step /\ job'.strays = job.strays
          /\ job'.result = job.result
      BY <1>1, <1>3, <2>2, <2>5 DEF Store, Resolving, Job
    <2>7. \A l \in JobKeys(job.provider) : secrets'[l] \in could[l]
      <3> SUFFICES ASSUME NEW l \in JobKeys(job.provider) PROVE secrets'[l] \in could[l]
        OBVIOUS
      <3>1. CASE l = k
        BY <3>1, <1>2, <2>4
      <3>2. CASE l # k
        BY <3>2, <1>2, <2>1, <2>4
      <3>3. QED
        BY <3>1, <3>2
    <2>8. ASSUME NEW i \in 1 .. Len(job.creds), Earned(i) PROVE Earned(i)'
      <3>1. PICK n : n = Names[job.provider][i]
        OBVIOUS
      <3>2. <<"repo", n>> \in DOMAIN could /\ <<"org", n>> \in DOMAIN could
            /\ <<"bootstrap", n>> \in DOMAIN could
        BY <2>1, <2>4, <3>1, JobKeysAreKeys
      <3>3. /\ job.could[<<"repo", n>>] \subseteq could[<<"repo", n>>]
            /\ job.could[<<"org", n>>] \subseteq could[<<"org", n>>]
            /\ job.could[<<"bootstrap", n>>] \subseteq could[<<"bootstrap", n>>]
        BY <2>4, <3>2
      <3>4. QED
        BY <2>6, <2>8, <3>1, <3>3 DEF Earned
    <2>9. Resolves'
      <3>1. /\ job.provider \in Providers /\ job.todo # <<>>
            /\ Len(job.creds) + Len(job.todo) = Len(Names[job.provider])
            /\ \A i \in 1 .. Len(job.todo) :
                 job.todo[i] = Names[job.provider][Len(job.creds) + i]
            /\ job.pc = "bootstrap" => "db" \in job.lost \/ Head(job.todo) \in job.strays
            /\ job.target = None /\ job.key = None /\ job.pc # "idle"
            /\ job.provider # None /\ "db" \notin job.lost =>
                 \A i \in 1 .. Len(job.creds) : Earned(i)
        BY <1>3 DEF JobSound, Resolves, Resolving
      <3>2. ASSUME job.pc = "org", "db" \notin job.lost
            PROVE  None \in could[<<"repo", Head(job.todo)>>]
        <4>1. None \in job.could[<<"repo", Head(job.todo)>>]
          BY <1>3, <3>2 DEF JobSound, Resolves
        <4>2. <<"repo", Head(job.todo)>> \in DOMAIN could
          BY <1>3, <2>1, <2>4, AtName
        <4>3. QED
          BY <2>4, <4>1, <4>2
      <3>3. DOMAIN could = JobKeys(job.provider)
        BY <2>1, <2>4
      <3>4. job.provider # None /\ "db" \notin job.lost =>
              \A i \in 1 .. Len(job'.creds) : Earned(i)'
        BY <2>6, <2>8, <3>1
      <3>5. QED
        BY <2>6, <2>7, <3>1, <3>2, <3>3, <3>4, Zenon DEF Resolves
    <2>10. Handed' /\ Box'
      BY <1>1, <2>6 DEF JobSound, Handed, Box, HasCreds
    <2>11. QED
      BY <1>1, <2>6, <2>9, <2>10 DEF JobSound, JobTyped
  <1>4. CASE ~(job.pc \in Resolving /\ k \in DOMAIN job.could)
    <2>1. job' = job
      BY <1>4 DEF Store, Resolving
    <2>2. ASSUME job.pc \in Resolving
          PROVE  \A l \in JobKeys(job.provider) : secrets'[l] \in job.could[l]
      <3>1. /\ DOMAIN job.could = JobKeys(job.provider) /\ JobKeys(job.provider) \subseteq Keys
            /\ \A l \in JobKeys(job.provider) : secrets[l] \in job.could[l]
        BY <2>2, AtName
      <3>2. QED
        BY <1>2, <1>4, <2>2, <3>1
    <2>3. Resolves'
      BY <2>1, <2>2 DEF JobSound, Resolves, Earned
    <2>4. Handed' /\ Box' /\ JobTyped'
      BY <1>1, <2>1 DEF JobSound, JobTyped, Handed, Box, HasCreds
    <2>5. QED
      BY <2>3, <2>4 DEF JobSound
  <1>5. QED
    BY <1>3, <1>4

\* The job begins with what the keys are now. (resolve_computesdk_credentials)
LEMMA StartJobKeeps ==
  ASSUME JobSound, StartJob, secrets \in [Keys -> Values \cup {None}]
  PROVE  JobSound'
  <1>1. /\ job = JobRest /\ job \in Job /\ sandbox = NoSandbox /\ sandbox \in Sandbox
        /\ UNCHANGED <<secrets, sandbox>> /\ job.pc = "idle"
    BY DEF JobSound, JobTyped, Resolves, Box, StartJob, JobUnchanged
  <1>2. PICK p \in Providers \cup {None} :
          job' = [job EXCEPT !.provider = p, !.todo = IF p = None THEN <<>> ELSE Names[p],
                          !.pc = IF p = None THEN "dispatch" ELSE "repo",
                          !.could = [k \in JobKeys(p) |-> {secrets[k]}]]
    BY DEF StartJob
  <1>3. PICK todo, pc, could :
          /\ todo = IF p = None THEN <<>> ELSE Names[p]
          /\ pc = IF p = None THEN "dispatch" ELSE "repo"
          /\ could = [k \in JobKeys(p) |-> {secrets[k]}]
    OBVIOUS
  <1>4. JobKeys(p) \subseteq Keys
    <2>1. CASE p = None
      BY <2>1 DEF JobKeys
    <2>2. CASE p # None
      BY <2>2, JobKeysAreKeys
    <2>3. QED
      BY <2>1, <2>2
  <1>5. could \in Could
    BY <1>3, <1>4 DEF Could
  <1>6. todo \in Seq(AllNames) /\ pc \in {"dispatch", "repo"}
    BY <1>3, JobKeysAreKeys
  <1>7. /\ job' \in Job /\ job'.pc = pc /\ job'.provider = p /\ job'.todo = todo
        /\ job'.could = could /\ job'.creds = <<>> /\ job'.target = None /\ job'.key = None
        /\ job'.lost = {} /\ job'.result = "none"
    <2>1. PICK new : new = [JobRest EXCEPT !.provider = p, !.todo = todo, !.pc = pc, !.could = could]
      OBVIOUS
    <2>2. job' = new
      BY <1>1, <1>2, <1>3, <2>1
    <2>3. <<>> \in Seq(Values \cup {None})
      OBVIOUS
    <2>4. QED
      BY <1>5, <1>6, <2>1, <2>2, <2>3 DEF Job, JobRest
  <1>8. CASE p = None
    <2>1. pc = "dispatch" /\ ~HasCreds'
      BY <1>3, <1>7, <1>8 DEF HasCreds
    <2>2. Resolves' /\ Handed'
      BY <1>3, <1>7, <1>8, <2>1 DEF Resolves, Resolving, Handed
    <2>3. QED
      BY <1>1, <1>7, <2>1, <2>2, BoundsAssumption
      DEF JobSound, JobTyped, Box, NoSandbox, Resolving
  <1>9. CASE p # None
    <2>1. pc = "repo" /\ p \in Providers /\ todo = Names[p] /\ todo # <<>> /\ Len(todo) \in Nat
      BY <1>3, <1>6, <1>9, JobKeysAreKeys
    <2>2. ~HasCreds'
      BY <1>7 DEF HasCreds
    <2>3. Resolves'
      BY <1>1, <1>3, <1>7, <2>1 DEF Resolves, Resolving
    <2>4. Handed'
      BY <1>7, <1>9, <2>1, <2>2 DEF Handed
    <2>5. QED
      BY <1>1, <1>7, <2>1, <2>3, <2>4, BoundsAssumption
      DEF JobSound, JobTyped, Box, NoSandbox, Resolving
  <1>10. QED
    BY <1>8, <1>9

LEMMA SettledAsIs ==
  ASSUME NEW v \in Values \cup {None}, job \in Job
  PROVE  Settled(v) = [Settled(v) EXCEPT !.lost = job.lost]
  BY DEF Settled, Job

\* The repository's secret goes first. (resolve_named_secret)
LEMMA ReadRepoSecretKeeps ==
  ASSUME JobSound, ReadRepoSecret, secrets \in [Keys -> Values \cup {None}]
  PROVE  JobSound'
  <1>1. /\ job \in Job /\ sandbox \in Sandbox /\ UNCHANGED <<secrets, sandbox>>
        /\ job.pc = "repo" /\ job.pc \in Resolving
    BY DEF JobSound, JobTyped, ReadRepoSecret, JobUnchanged, Resolving
  <1>2. PICK v : v = secrets[<<"repo", Head(job.todo)>>]
    OBVIOUS
  <1>3. v \in Values \cup {None} /\ v \in job.could[<<"repo", Head(job.todo)>>]
    BY <1>1, <1>2, AtName
  <1>4. CASE v # None /\ job' = Settled(v)
    <2>1. job' = [Settled(v) EXCEPT !.lost = job.lost]
      BY <1>1, <1>3, <1>4, SettledAsIs
    <2>2. job.lost \in SUBSET {"db", "create", "wait", "upload", "execute", "delete"}
      BY <1>1 DEF Job
    <2>3. QED
      BY <1>1, <1>3, <1>4, <2>1, <2>2, SettledKeeps
  <1>5. CASE v = None /\ job' = [job EXCEPT !.pc = "org"]
    <2>1. /\ job' \in Job /\ job'.pc = "org" /\ job'.could = job.could /\ job'.todo = job.todo
          /\ job'.provider = job.provider /\ job'.creds = job.creds /\ job'.target = job.target
          /\ job'.key = job.key /\ job'.lost = job.lost /\ job'.step = job.step /\ job'.strays = job.strays
          /\ job'.result = job.result
      BY <1>1, <1>5 DEF Job
    <2>2. Resolves'
      BY <1>1, <1>3, <1>5, <2>1 DEF JobSound, Resolves, Resolving, Earned
    <2>3. Handed' /\ Box'
      BY <1>1, <2>1 DEF JobSound, Handed, Box, HasCreds, Resolving
    <2>4. QED
      BY <1>1, <2>1, <2>2, <2>3 DEF JobSound, JobTyped
  <1>6. QED
    BY <1>2, <1>4, <1>5 DEF ReadRepoSecret

\* A repository that is not found is remembered by the name that was asked for.
LEMMA FindNoRepoKeeps ==
  ASSUME JobSound, FindNoRepo
  PROVE  JobSound'
  <1>1. /\ job \in Job /\ sandbox \in Sandbox /\ UNCHANGED <<secrets, sandbox>>
        /\ job.pc = "repo" /\ job.pc \in Resolving
    BY DEF JobSound, JobTyped, FindNoRepo, JobUnchanged, Resolving
  <1>2. PICK n : n = Head(job.todo)
    OBVIOUS
  <1>3. n \in AllNames
    BY <1>1, <1>2, AtName
  <1>4. /\ job' \in Job /\ job'.pc = "bootstrap" /\ job'.could = job.could /\ job'.todo = job.todo
        /\ job'.provider = job.provider /\ job'.creds = job.creds /\ job'.target = job.target
        /\ job'.key = job.key /\ job'.lost = job.lost /\ job'.step = job.step
        /\ job'.result = job.result /\ job'.strays = job.strays \cup {n}
    BY <1>1, <1>2, <1>3 DEF FindNoRepo, Job
  <1>5. \A i : Earned(i) => Earned(i)'
    BY <1>4 DEF Earned
  <1>6. Resolves'
    BY <1>1, <1>2, <1>4, <1>5 DEF JobSound, Resolves, Resolving
  <1>7. Handed' /\ Box'
    BY <1>1, <1>4 DEF JobSound, Handed, Box, HasCreds, Resolving
  <1>8. QED
    BY <1>1, <1>4, <1>6, <1>7 DEF JobSound, JobTyped

\* Then its organisation's, or the bootstrap organisation's.
LEMMA ReadOrgSecretKeeps ==
  ASSUME JobSound, ReadOrgSecret, secrets \in [Keys -> Values \cup {None}]
  PROVE  JobSound'
  <1>1. /\ job \in Job /\ UNCHANGED <<secrets, sandbox>>
        /\ job.pc \in {"org", "bootstrap"} /\ job.pc \in Resolving
    BY DEF JobSound, JobTyped, ReadOrgSecret, JobUnchanged, Resolving
  <1>2. PICK v : v = secrets[<<job.pc, Head(job.todo)>>]
    OBVIOUS
  <1>3. <<job.pc, Head(job.todo)>> \in Keys
    BY <1>1, AtName DEF Keys
  <1>4. v \in Values \cup {None}
    BY <1>2, <1>3
  <1>5. job' = [Settled(v) EXCEPT !.lost = job.lost]
    BY <1>1, <1>2, <1>4, SettledAsIs DEF ReadOrgSecret
  <1>6. job.lost \in SUBSET {"db", "create", "wait", "upload", "execute", "delete"}
    BY <1>1 DEF Job
  <1>7. "db" \notin job.lost =>
          \/ /\ None \in job.could[<<"repo", Head(job.todo)>>]
             /\ v \in job.could[<<"org", Head(job.todo)>>]
          \/ /\ Head(job.todo) \in job.strays
             /\ v \in job.could[<<"bootstrap", Head(job.todo)>>]
    <2>1. /\ v \in job.could[<<job.pc, Head(job.todo)>>]
          /\ job.pc = "org" /\ "db" \notin job.lost => None \in job.could[<<"repo", Head(job.todo)>>]
          /\ job.pc = "bootstrap" => "db" \in job.lost \/ Head(job.todo) \in job.strays
      BY <1>1, <1>2, AtName DEF JobSound, Resolves
    <2>2. QED
      BY <1>1, <2>1
  <1>8. QED
    BY <1>1, <1>4, <1>5, <1>6, <1>7, SettledKeeps

\* A query that fails is remembered: the job may go without.
LEMMA ResolveFailsKeeps ==
  ASSUME JobSound, ResolveFails
  PROVE  JobSound'
  <1>1. /\ job \in Job /\ sandbox \in Sandbox /\ UNCHANGED <<secrets, sandbox>>
        /\ job.pc \in Resolving
    BY DEF JobSound, JobTyped, ResolveFails, Fault, Resolving
  <1>2. PICK lost : lost = job.lost \cup {"db"}
    OBVIOUS
  <1>3. /\ lost \in SUBSET {"db", "create", "wait", "upload", "execute", "delete"}
        /\ "db" \in lost /\ job.lost \subseteq lost
    BY <1>1, <1>2 DEF Job
  <1>4. CASE \E pc \in {"org", "bootstrap"} : job' = [job EXCEPT !.pc = pc, !.lost = @ \cup {"db"}]
    <2>1. PICK pc \in {"org", "bootstrap"} : job' = [job EXCEPT !.pc = pc, !.lost = lost]
      BY <1>1, <1>2, <1>4 DEF Job
    <2>2. /\ job' \in Job /\ job'.pc = pc /\ job'.could = job.could /\ job'.todo = job.todo
          /\ job'.provider = job.provider /\ job'.creds = job.creds /\ job'.target = job.target
          /\ job'.key = job.key /\ job'.lost = lost /\ job'.step = job.step
          /\ job'.result = job.result
      BY <1>1, <1>3, <2>1 DEF Job
    <2>3. Resolves'
      BY <1>1, <1>3, <2>2 DEF JobSound, Resolves, Resolving
    <2>4. Handed' /\ Box'
      BY <1>1, <1>2, <2>2 DEF JobSound, Handed, Box, HasCreds, Resolving
    <2>5. QED
      BY <1>1, <2>2, <2>3, <2>4 DEF JobSound, JobTyped
  <1>5. CASE job' = [Settled(None) EXCEPT !.lost = @ \cup {"db"}]
    <2>1. job' = [Settled(None) EXCEPT !.lost = lost]
      BY <1>1, <1>2, <1>5 DEF Job, Settled
    <2>2. None \in Values \cup {None}
      OBVIOUS
    <2>3. QED
      BY <1>1, <1>3, <2>1, <2>2, SettledKeeps
  <1>6. CASE job' = [job EXCEPT !.pc = "dispatch", !.lost = @ \cup {"db"},
                              !.creds = [i \in DOMAIN Names[job.provider] |-> None]]
    <2>1. PICK s, creds : s = Names[job.provider] /\ creds = [i \in DOMAIN s |-> None]
      OBVIOUS
    <2>2. job.provider \in Providers /\ job.provider # None /\ s \in Seq(AllNames)
      BY <1>1, <2>1, AtName, JobKeysAreKeys
    <2>3. creds \in Seq(Values \cup {None}) /\ Len(creds) = Len(s) /\ \A i \in DOMAIN creds : creds[i] = None
      BY <2>1, <2>2
    <2>4. /\ job' \in Job /\ job'.pc = "dispatch" /\ job'.could = job.could
          /\ job'.provider = job.provider /\ job'.creds = creds /\ job'.target = job.target
          /\ job'.key = job.key /\ job'.lost = lost /\ job'.result = job.result
      BY <1>1, <1>2, <1>3, <1>6, <2>1, <2>3 DEF Job
    <2>5. /\ DOMAIN job.could = JobKeys(job.provider) /\ job.target = None /\ job.key = None
          /\ job.result = "none" /\ sandbox = NoSandbox
      BY <1>1, AtName
    <2>6. Resolves'
      BY <1>3, <2>4, <2>5 DEF Resolves, Resolving
    <2>7. Handed'
      BY <2>1, <2>2, <2>3, <2>4, <2>5, NoneAssumption DEF Handed
    <2>8. Box'
      BY <1>1, <2>4, <2>5, BoundsAssumption DEF Box, NoSandbox, Resolving
    <2>9. QED
      BY <1>1, <2>4, <2>6, <2>7, <2>8 DEF JobSound, JobTyped
  <1>7. QED
    BY <1>4, <1>5, <1>6 DEF ResolveFails

-----------------------------------------------------------------------------
(* The job after it has its credentials *)

\* The registry picks the named provider, or one of its own. (resolve)
LEMMA ResolveIn ==
  ASSUME NEW p \in Providers \cup {None}, NEW env
  PROVE  Resolve(p, env) \in Providers /\ (p # None => Resolve(p, env) = p)
  <1>1. PICK ready : ready = {i \in DOMAIN Registered : Configured(Registered[i], env)}
    OBVIOUS
  <1>2. CASE p # None
    BY <1>2 DEF Resolve
  <1>3. CASE p = None /\ (ready = {} \/ Configured(Default, env))
    BY <1>1, <1>3, RegistryAssumption DEF Resolve
  <1>4. CASE p = None /\ ~(ready = {} \/ Configured(Default, env))
    <2>1. DOMAIN Registered \subseteq Nat
      BY RegistryAssumption
    <2>2. Min(ready) \in DOMAIN Registered
      BY <1>1, <1>4, <2>1, MinIsIn
    <2>3. Registered[Min(ready)] \in Providers
      BY <2>2 DEF Providers, Range
    <2>4. Resolve(p, env) = Registered[Min(ready)]
      BY <1>1, <1>4 DEF Resolve
    <2>5. QED
      BY <1>4, <2>3, <2>4
  <1>5. QED
    BY <1>2, <1>3, <1>4

\* A credential is not the environment's.
LEMMA OwnKey ==
  ASSUME job \in Job, HasCreds, job.provider = None => job.creds = <<>>,
         job.pc \in {"dispatch", "post"}
  PROVE  job.creds[1] \in Values \cup {None} /\ job.creds[1] # Env /\ job.provider # None
  <1>1. PICK c : c = job.creds
    OBVIOUS
  <1>2. c \in Seq(Values \cup {None}) /\ c # <<>>
    BY <1>1 DEF Job, HasCreds
  <1>3. c[1] \in Values \cup {None}
    BY <1>2
  <1>4. QED
    BY <1>1, <1>2, <1>3, NoneAssumption

\* RunJob: the credentials go to the provider they were resolved for.
LEMMA DispatchKeeps ==
  ASSUME JobSound, Dispatch
  PROVE  JobSound'
  <1>1. /\ job \in Job /\ sandbox = NoSandbox /\ sandbox \in Sandbox /\ sandbox' = sandbox
        /\ job.pc = "dispatch" /\ job.target = None /\ job.key = None /\ job.result = "none"
        /\ job.provider = None => job.creds = <<>>
        /\ Len(job.creds) = (IF job.provider = None THEN 0 ELSE Len(Names[job.provider]))
    BY DEF JobSound, JobTyped, Resolves, Handed, Box, Dispatch, JobUnchanged, Resolving
  <1>2. PICK env \in SUBSET (Providers \ {Bridge}) :
          LET target == Resolve(job.provider, env)
              key == IF HasCreds THEN job.creds[1] ELSE IF target \in env THEN Env ELSE None
              sent == [job EXCEPT !.target = target, !.could = <<>>]
          IN  job' = IF target = Bridge THEN [sent EXCEPT !.pc = "probe"]
                     ELSE IF key = None THEN [sent EXCEPT !.pc = "done", !.result = "disabled"]
                     ELSE [sent EXCEPT !.key = key, !.pc = "create"]
    BY DEF Dispatch
  <1>3. PICK target, key :
          /\ target = Resolve(job.provider, env)
          /\ key = IF HasCreds THEN job.creds[1] ELSE IF target \in env THEN Env ELSE None
    OBVIOUS
  <1>4. target \in Providers /\ (job.provider # None => target = job.provider)
    <2>1. job.provider \in Providers \cup {None}
      BY <1>1 DEF Job
    <2>2. QED
      BY <1>3, <2>1, ResolveIn
  <1>5. key \in Values \cup {None, Env} /\ (key = Env => ~HasCreds)
    <2>1. CASE HasCreds
      BY <1>1, <1>3, <2>1, OwnKey
    <2>2. CASE ~HasCreds
      BY <1>3, <2>2
    <2>3. QED
      BY <2>1, <2>2
  <1>6. <<>> \in Could
    <2>1. <<>> \in [{} -> SUBSET (Values \cup {None})] /\ {} \in SUBSET Keys
      OBVIOUS
    <2>2. QED
      BY <2>1 DEF Could
  <1>7. /\ job' \in Job /\ job'.provider = job.provider /\ job'.creds = job.creds
        /\ job'.target = target
        /\ \/ target = Bridge /\ job'.pc = "probe" /\ job'.key = None /\ job'.result = "none"
           \/ job'.pc = "done" /\ job'.key = None /\ job'.result = "disabled"
           \/ target # Bridge /\ job'.pc = "create" /\ job'.key = key /\ job'.result = "none"
    <2>1. PICK sent : sent = [job EXCEPT !.target = target, !.could = <<>>]
      OBVIOUS
    <2>2. /\ sent \in Job /\ sent.provider = job.provider /\ sent.creds = job.creds
          /\ sent.target = target /\ sent.key = None /\ sent.result = "none"
      BY <1>1, <1>4, <1>6, <2>1 DEF Job
    <2>3. job' = IF target = Bridge THEN [sent EXCEPT !.pc = "probe"]
                 ELSE IF key = None THEN [sent EXCEPT !.pc = "done", !.result = "disabled"]
                 ELSE [sent EXCEPT !.key = key, !.pc = "create"]
      BY <1>2, <1>3, <2>1
    <2>4. QED
      BY <1>5, <2>2, <2>3 DEF Job
  <1>8. HasCreds' = HasCreds
    BY <1>7 DEF HasCreds
  <1>9. None # Env
    BY NoneAssumption
  <1>10. Resolves'
    BY <1>7 DEF Resolves, Resolving
  <1>11. Handed'
    BY <1>1, <1>4, <1>5, <1>7, <1>8, <1>9 DEF Handed
  <1>12. Box'
    BY <1>1, <1>7, BoundsAssumption DEF Box, NoSandbox, Resolving
  <1>13. QED
    BY <1>1, <1>7, <1>10, <1>11, <1>12 DEF JobSound, JobTyped

\* A job that ends without a verdict of its commands.
LEMMA EndKeeps ==
  ASSUME JobSound, job' \in Job, job'.pc = "done", job'.provider = job.provider,
         job'.creds = job.creds, job'.target = job.target, job'.key = job.key,
         job'.result \in {"error", "disabled", "cancelled"},
         sandbox' \in Sandbox, sandbox'.files = sandbox.files, sandbox'.exits = sandbox.exits,
         sandbox'.state = "alive" =>
           job'.result = "cancelled" \/ {"create", "delete"} \cap job'.lost # {}
  PROVE  JobSound'
  <1>1. HasCreds' = HasCreds
    BY DEF HasCreds
  <1>2. Resolves' /\ Handed'
    BY <1>1 DEF JobSound, Resolves, Resolving, Handed
  <1>3. Box'
    BY DEF JobSound, Box, Resolving
  <1>4. QED
    BY <1>2, <1>3 DEF JobSound, JobTyped

LEMMA DispatchFailsKeeps ==
  ASSUME JobSound, DispatchFails
  PROVE  JobSound'
  <1>1. job \in Job /\ sandbox = NoSandbox /\ sandbox \in Sandbox /\ sandbox' = sandbox
    BY DEF JobSound, JobTyped, Box, DispatchFails, Fault
  <1>2. job' = Finish("error")
    BY DEF DispatchFails
  <1>3. /\ job' \in Job /\ job'.pc = "done" /\ job'.provider = job.provider
        /\ job'.creds = job.creds /\ job'.target = job.target /\ job'.key = job.key
        /\ job'.result = "error"
    BY <1>1, <1>2 DEF Finish, Job
  <1>4. QED
    BY <1>1, <1>3, EndKeeps DEF NoSandbox

\* The sandbox may be there without an answer: the failure says so. (create_sandbox)
LEMMA CreateSandboxKeeps ==
  ASSUME JobSound, CreateSandbox
  PROVE  JobSound'
  <1>1. /\ job \in Job /\ sandbox = NoSandbox /\ sandbox \in Sandbox /\ job.pc = "create"
        /\ job.target \in Providers \ {Bridge} /\ job.result = "none"
    BY DEF JobSound, JobTyped, Handed, Box, CreateSandbox, Resolving
  <1>2. \A s \in {"none", "alive"} :
          LET box == [sandbox EXCEPT !.state = s] IN
          box \in Sandbox /\ box.state = s /\ box.files = 0 /\ box.exits = <<>>
    BY <1>1 DEF Sandbox, NoSandbox
  <1>3. CASE sandbox' = [sandbox EXCEPT !.state = "alive"] /\ job' = [job EXCEPT !.pc = "wait"]
    <2>1. /\ job' \in Job /\ job'.pc = "wait" /\ job'.provider = job.provider
          /\ job'.creds = job.creds /\ job'.target = job.target /\ job'.key = job.key
          /\ job'.result = "none"
      BY <1>1, <1>3 DEF Job
    <2>2. HasCreds' = HasCreds
      BY <2>1 DEF HasCreds
    <2>3. Resolves' /\ Handed'
      BY <1>1, <2>1, <2>2 DEF JobSound, Resolves, Resolving, Handed
    <2>4. Box'
      BY <1>2, <1>3, <2>1, BoundsAssumption DEF Box, Resolving
    <2>5. QED
      BY <1>2, <1>3, <2>1, <2>3, <2>4 DEF JobSound, JobTyped
  <1>4. CASE /\ \E s \in {"none", "alive"} : sandbox' = [sandbox EXCEPT !.state = s]
             /\ job' = [Finish("error") EXCEPT !.lost = @ \cup {"create"}]
    <2>1. /\ job' \in Job /\ job'.pc = "done" /\ job'.provider = job.provider
          /\ job'.creds = job.creds /\ job'.target = job.target /\ job'.key = job.key
          /\ job'.result = "error" /\ "create" \in job'.lost
      BY <1>1, <1>4 DEF Finish, Job
    <2>2. sandbox' \in Sandbox /\ sandbox'.files = sandbox.files /\ sandbox'.exits = sandbox.exits
      BY <1>1, <1>2, <1>4 DEF NoSandbox
    <2>3. {"create", "delete"} \cap job'.lost # {}
      BY <2>1
    <2>4. QED
      BY <2>1, <2>2, <2>3, EndKeeps
  <1>5. QED
    BY <1>3, <1>4 DEF CreateSandbox

\* A step on the sandbox: what was handed over stays.
LEMMA RunsOn ==
  ASSUME JobSound, job.pc \in {"wait", "upload", "execute"}, job' \in Job,
         job'.pc \in {"upload", "execute", "delete"}, job'.provider = job.provider,
         job'.creds = job.creds, job'.target = job.target, job'.key = job.key,
         sandbox' \in Sandbox, Box'
  PROVE  JobSound'
  <1>1. HasCreds' = HasCreds
    BY DEF HasCreds
  <1>2. Resolves' /\ Handed'
    BY <1>1 DEF JobSound, Resolves, Resolving, Handed
  <1>3. QED
    BY <1>2 DEF JobSound, JobTyped

\* run_on_sandbox: the sandbox has started; a job may have no file to copy.
LEMMA WaitStartedKeeps ==
  ASSUME JobSound, WaitStarted
  PROVE  JobSound'
  <1>1. /\ job \in Job /\ sandbox \in Sandbox /\ job.pc = "wait" /\ sandbox' = sandbox
        /\ sandbox.files = 0 /\ sandbox.exits = <<>> /\ sandbox.state = "alive"
        /\ job.result = "none"
    BY DEF JobSound, JobTyped, Box, WaitStarted, RunOn
  <1>2. PICK pc \in {"upload", "execute"} :
          /\ pc = IF Files = 0 THEN "execute" ELSE "upload"
          /\ pc = "execute" <=> Files = 0
    OBVIOUS
  <1>3. /\ job' \in Job /\ job'.pc = pc /\ job'.provider = job.provider
        /\ job'.creds = job.creds /\ job'.target = job.target /\ job'.key = job.key
        /\ job'.result = "none" /\ job'.step = 1
    BY <1>1, <1>2 DEF WaitStarted, RunOn, Job
  <1>4. Box'
    BY <1>1, <1>2, <1>3, BoundsAssumption DEF Box, Resolving
  <1>5. QED
    BY <1>1, <1>3, <1>4, RunsOn

\* One file after the other, and then the commands.
LEMMA UploadFileKeeps ==
  ASSUME JobSound, UploadFile
  PROVE  JobSound'
  <1>1. /\ job \in Job /\ sandbox \in Sandbox /\ job.pc = "upload"
        /\ sandbox.exits = <<>> /\ sandbox.state = "alive" /\ job.result = "none"
        /\ job.step \in 1 .. Files /\ sandbox.files = job.step - 1
    BY DEF JobSound, JobTyped, Box, UploadFile
  <1>2. /\ sandbox' \in Sandbox /\ sandbox'.files = job.step /\ sandbox'.exits = <<>>
        /\ sandbox'.state = "alive"
    <2>1. sandbox' = [sandbox EXCEPT !.files = @ + 1]
      BY DEF UploadFile, RunOn
    <2>2. sandbox.files \in Nat /\ sandbox.files + 1 = job.step
      BY <1>1, BoundsAssumption DEF Sandbox
    <2>3. QED
      BY <1>1, <2>1, <2>2 DEF Sandbox
  <1>3. /\ job' \in Job /\ job'.provider = job.provider /\ job'.creds = job.creds
        /\ job'.target = job.target /\ job'.key = job.key /\ job'.result = "none"
        /\ \/ job.step < Files /\ job'.pc = "upload" /\ job'.step = job.step + 1
           \/ ~(job.step < Files) /\ job'.pc = "execute" /\ job'.step = 1
    <2>1. job' = IF job.step < Files THEN [job EXCEPT !.step = @ + 1]
                 ELSE [job EXCEPT !.pc = "execute", !.step = 1]
      BY DEF UploadFile, RunOn
    <2>2. job.step \in Nat
      BY <1>1 DEF Job
    <2>3. CASE job.step < Files
      BY <1>1, <2>1, <2>2, <2>3 DEF Job
    <2>4. CASE ~(job.step < Files)
      BY <1>1, <2>1, <2>4 DEF Job
    <2>5. QED
      BY <2>3, <2>4
  <1>4. Box'
    BY <1>1, <1>2, <1>3, BoundsAssumption DEF Box, Resolving
  <1>5. QED
    BY <1>1, <1>2, <1>3, <1>4, RunsOn

\* The commands that ran before the next one all left 0, as Append adds one more.
LEMMA OneMore ==
  ASSUME NEW s \in Seq({0, 1}), NEW code \in {0, 1}
  PROVE  LET t == Append(s, code) IN
         /\ t \in Seq({0, 1}) /\ t # <<>> /\ Len(t) = Len(s) + 1 /\ Last(t) = code
         /\ \A i \in 1 .. Len(s) : t[i] = s[i]
         /\ Len(s) \in Nat
  BY DEF Last

\* The commands run up to the first that fails.
LEMMA ExecuteKeeps ==
  ASSUME JobSound, Execute
  PROVE  JobSound'
  <1>1. /\ job \in Job /\ sandbox \in Sandbox /\ job.pc = "execute"
        /\ sandbox.state = "alive" /\ job.result = "none"
        /\ job.step \in 1 .. Commands /\ sandbox.files = Files
        /\ Len(sandbox.exits) = job.step - 1
        /\ \A i \in 1 .. Len(sandbox.exits) : sandbox.exits[i] = 0
    BY DEF JobSound, JobTyped, Box, Execute
  <1>2. PICK code \in {0, 1} :
          job' = AfterCommand(code) /\ sandbox' = [sandbox EXCEPT !.exits = Append(@, code)]
    BY DEF Execute, RunOn
  <1>3. PICK s, t, n : s = sandbox.exits /\ t = Append(s, code) /\ n = job.step
    OBVIOUS
  <1>4. s \in Seq({0, 1})
    BY <1>1, <1>3 DEF Sandbox
  <1>5. /\ t \in Seq({0, 1}) /\ t # <<>> /\ Last(t) = code /\ Len(t) = n
        /\ n \in Nat /\ n >= 1 /\ n <= Commands /\ Commands \in Nat
        /\ \A i \in 1 .. n - 1 : t[i] = 0
        /\ t[n] = code
    <2>1. Len(s) = n - 1 /\ \A i \in 1 .. Len(s) : s[i] = 0
      BY <1>1, <1>3
    <2>2. n \in Nat /\ n >= 1 /\ n <= Commands /\ Commands \in Nat
      BY <1>1, <1>3, BoundsAssumption
    <2>3. t \in Seq({0, 1}) /\ t # <<>> /\ Last(t) = code /\ Len(t) = Len(s) + 1
          /\ \A i \in 1 .. Len(s) : t[i] = s[i]
      BY <1>3, <1>4, OneMore
    <2>4. Len(t) = n
      BY <2>1, <2>2, <2>3
    <2>5. QED
      BY <2>1, <2>2, <2>3, <2>4 DEF Last
  <1>6. /\ sandbox' \in Sandbox /\ sandbox'.exits = t /\ sandbox'.files = Files
        /\ sandbox'.state = "alive"
    BY <1>1, <1>2, <1>3, <1>5 DEF Sandbox
  <1>7. CASE code # 0 \/ job.step = Commands
    <2>1. /\ job' \in Job /\ job'.pc = "delete" /\ job'.provider = job.provider
          /\ job'.creds = job.creds /\ job'.target = job.target /\ job'.key = job.key
          /\ job'.result = IF code = 0 THEN "ok" ELSE "failed"
      BY <1>1, <1>2, <1>7 DEF AfterCommand, Job
    <2>2. /\ job'.result \in {"ok", "failed"}
          /\ (job'.result = "ok") = (Last(t) = 0)
          /\ job'.result = "ok" => Len(t) = Commands
      BY <1>3, <1>5, <1>7, <2>1
    <2>3. Box'
      BY <1>5, <1>6, <2>1, <2>2, BoundsAssumption DEF Box, Resolving
    <2>4. QED
      BY <1>1, <1>6, <2>1, <2>3, RunsOn
  <1>8. CASE ~(code # 0 \/ job.step = Commands)
    <2>1. /\ job' \in Job /\ job'.pc = "execute" /\ job'.provider = job.provider
          /\ job'.creds = job.creds /\ job'.target = job.target /\ job'.key = job.key
          /\ job'.result = "none" /\ job'.step = n + 1
      <3>1. job' = [job EXCEPT !.step = n + 1] /\ n + 1 \in Nat
        BY <1>1, <1>2, <1>3, <1>5, <1>8 DEF AfterCommand, Job
      <3>2. QED
        BY <1>1, <3>1 DEF Job
    <2>2. n + 1 \in 1 .. Commands /\ \A i \in 1 .. n : t[i] = 0
      BY <1>3, <1>5, <1>8
    <2>3. Box'
      BY <1>5, <1>6, <2>1, <2>2, BoundsAssumption DEF Box, Resolving
    <2>4. QED
      BY <1>1, <1>6, <2>1, <2>3, RunsOn
  <1>9. QED
    BY <1>7, <1>8

\* A failing call: the sandbox is still to be torn down.
LEMMA SandboxFailsKeeps ==
  ASSUME JobSound, SandboxFails
  PROVE  JobSound'
  <1>1. /\ job \in Job /\ sandbox \in Sandbox /\ job.pc \in {"wait", "upload", "execute"}
        /\ sandbox.state = "alive" /\ sandbox.files \in 0 .. Files
        /\ Len(sandbox.exits) <= Commands
        /\ job.pc = "execute" => /\ job.step \in 1 .. Commands
                                 /\ Len(sandbox.exits) = job.step - 1
    BY DEF JobSound, JobTyped, Box, SandboxFails
  <1>2. /\ job' \in Job /\ job'.pc = "delete" /\ job'.provider = job.provider
        /\ job'.creds = job.creds /\ job'.target = job.target /\ job'.key = job.key
        /\ job'.result = "error"
    BY <1>1 DEF SandboxFails, Abandon, Job
  <1>3. /\ sandbox' \in Sandbox /\ sandbox'.files = sandbox.files /\ sandbox'.state = "alive"
        /\ Len(sandbox'.exits) <= Commands
    <2>1. CASE sandbox' = sandbox
      BY <1>1, <2>1
    <2>2. CASE job.pc = "execute" /\ sandbox' = [sandbox EXCEPT !.exits = Append(@, 0)]
      <3>1. PICK s, t : s = sandbox.exits /\ t = Append(s, 0)
        OBVIOUS
      <3>2. s \in Seq({0, 1})
        BY <1>1, <3>1 DEF Sandbox
      <3>3. t \in Seq({0, 1}) /\ Len(t) = Len(s) + 1
        BY <3>1, <3>2, OneMore
      <3>4. sandbox' \in Sandbox /\ sandbox'.exits = t /\ sandbox'.files = sandbox.files
            /\ sandbox'.state = "alive"
        BY <1>1, <2>2, <3>1, <3>3 DEF Sandbox
      <3>5. Len(t) <= Commands
        BY <1>1, <2>2, <3>1, <3>3, BoundsAssumption
      <3>6. QED
        BY <3>4, <3>5
    <2>3. QED
      BY <2>1, <2>2 DEF SandboxFails
  <1>4. Box'
    BY <1>1, <1>2, <1>3 DEF Box, Resolving
  <1>5. QED
    BY <1>1, <1>2, <1>3, <1>4, RunsOn

\* The tear-down: the verdict stands whether it worked or not. (delete_sandbox)
LEMMA DeleteSandboxKeeps ==
  ASSUME JobSound, DeleteSandbox
  PROVE  JobSound'
  <1>1. job \in Job /\ sandbox \in Sandbox /\ job.pc = "delete"
    BY DEF JobSound, JobTyped, DeleteSandbox
  <1>2. /\ job' \in Job /\ job'.pc = "done" /\ job'.provider = job.provider
        /\ job'.creds = job.creds /\ job'.target = job.target /\ job'.key = job.key
        /\ job'.result = job.result
        /\ sandbox' \in Sandbox /\ sandbox'.files = sandbox.files /\ sandbox'.exits = sandbox.exits
        /\ sandbox'.state = "gone" \/ "delete" \in job'.lost
    <2>1. CASE RunOn([job EXCEPT !.pc = "done"], [sandbox EXCEPT !.state = "gone"])
      BY <1>1, <2>1 DEF RunOn, Job, Sandbox
    <2>2. CASE job' = [job EXCEPT !.pc = "done", !.lost = @ \cup {"delete"}] /\ sandbox' = sandbox
      BY <1>1, <2>2 DEF Job
    <2>3. QED
      BY <2>1, <2>2 DEF DeleteSandbox
  <1>3. HasCreds' = HasCreds
    BY <1>2 DEF HasCreds
  <1>4. Resolves' /\ Handed'
    BY <1>1, <1>2, <1>3 DEF JobSound, Resolves, Resolving, Handed
  <1>5. Box'
    BY <1>1, <1>2 DEF JobSound, Box, Resolving
  <1>6. QED
    BY <1>2, <1>4, <1>5 DEF JobSound, JobTyped

\* The bridge provider probes the bridge and posts the job to it.
LEMMA ProbeHealthKeeps ==
  ASSUME JobSound, ProbeHealth
  PROVE  JobSound'
  <1>1. /\ job \in Job /\ sandbox = NoSandbox /\ sandbox \in Sandbox /\ sandbox' = sandbox
        /\ job.pc = "probe"
    BY DEF JobSound, JobTyped, Box, ProbeHealth
  <1>2. CASE job' = Finish("disabled")
    <2>1. /\ job' \in Job /\ job'.pc = "done" /\ job'.provider = job.provider
          /\ job'.creds = job.creds /\ job'.target = job.target /\ job'.key = job.key
          /\ job'.result = "disabled"
      BY <1>1, <1>2 DEF Finish, Job
    <2>2. QED
      BY <1>1, <2>1, EndKeeps DEF NoSandbox
  <1>3. CASE job' = [job EXCEPT !.pc = "post"]
    <2>1. /\ job' \in Job /\ job'.pc = "post" /\ job'.provider = job.provider
          /\ job'.creds = job.creds /\ job'.target = job.target /\ job'.key = job.key
          /\ job'.result = job.result
      BY <1>1, <1>3 DEF Job
    <2>2. HasCreds' = HasCreds
      BY <2>1 DEF HasCreds
    <2>3. Resolves' /\ Handed' /\ Box'
      BY <1>1, <2>1, <2>2 DEF JobSound, Resolves, Resolving, Handed, Box
    <2>4. QED
      BY <1>1, <2>1, <2>3 DEF JobSound, JobTyped
  <1>4. QED
    BY <1>2, <1>3 DEF ProbeHealth

LEMMA PostJobKeeps ==
  ASSUME JobSound, PostJob
  PROVE  JobSound'
  <1>1. /\ job \in Job /\ sandbox = NoSandbox /\ sandbox \in Sandbox /\ sandbox' = sandbox
        /\ job.pc = "post" /\ job.target = Bridge
        /\ job.provider = None => job.creds = <<>>
    BY DEF JobSound, JobTyped, Box, Handed, PostJob, JobUnchanged
  <1>2. PICK r \in {"ok", "failed", "error", "disabled"} :
          job' = [Finish(r) EXCEPT !.key = IF HasCreds THEN job.creds[1] ELSE Env]
    BY DEF PostJob
  <1>3. PICK key : key = IF HasCreds THEN job.creds[1] ELSE Env
    OBVIOUS
  <1>4. key \in Values \cup {None, Env} /\ (key = Env => ~HasCreds)
    <2>1. CASE HasCreds
      BY <1>1, <1>3, <2>1, OwnKey
    <2>2. CASE ~HasCreds
      BY <1>3, <2>2
    <2>3. QED
      BY <2>1, <2>2
  <1>5. /\ job' \in Job /\ job'.pc = "done" /\ job'.provider = job.provider
        /\ job'.creds = job.creds /\ job'.target = Bridge /\ job'.key = key
        /\ job'.result = r
    <2>1. PICK new : new = [job EXCEPT !.pc = "done", !.result = r, !.key = key]
      OBVIOUS
    <2>2. job' = new
      BY <1>1, <1>2, <1>3, <2>1 DEF Finish, Job
    <2>3. QED
      BY <1>1, <1>4, <2>1, <2>2 DEF Job
  <1>6. HasCreds' = HasCreds
    BY <1>5 DEF HasCreds
  <1>7. Resolves' /\ Handed'
    BY <1>1, <1>4, <1>5, <1>6 DEF JobSound, Resolves, Resolving, Handed
  <1>8. Box'
    BY <1>1, <1>5, BoundsAssumption DEF Box, Resolving, NoSandbox
  <1>9. QED
    BY <1>1, <1>5, <1>7, <1>8 DEF JobSound, JobTyped

\* A job that is cut off says so.
LEMMA CancelKeeps ==
  ASSUME JobSound, Cancel
  PROVE  JobSound'
  <1>1. job \in Job /\ sandbox \in Sandbox
    BY DEF JobSound, JobTyped
  <1>2. /\ job' \in Job /\ job'.pc = "done" /\ job'.provider = job.provider
        /\ job'.creds = job.creds /\ job'.target = job.target /\ job'.key = job.key
        /\ job'.result = "cancelled"
    BY <1>1 DEF Cancel, Finish, Job
  <1>3. sandbox' \in Sandbox /\ sandbox'.files = sandbox.files /\ sandbox'.exits = sandbox.exits
    <2>1. sandbox' = sandbox \/ sandbox' = [sandbox EXCEPT !.state = "alive"]
      BY DEF Cancel
    <2>2. QED
      BY <1>1, <2>1 DEF Sandbox
  <1>4. QED
    BY <1>2, <1>3, EndKeeps

-----------------------------------------------------------------------------
(* The inductive invariant *)

LEMMA InitIInv == Init => IInv
  <1> SUFFICES ASSUME Init PROVE IInv
    OBVIOUS
  <1>1. PICK org \in {{}, AllNames}, repo \in {{}, {Names[Default][1]}} :
          secrets = [k \in Keys |-> CASE k[1] = "org" /\ k[2] \in org -> Old
                                   [] k[1] = "repo" /\ k[2] \in repo -> Old
                                   [] k[1] = "bootstrap" -> Boot
                                   [] OTHER -> None]
    BY DEF Init
  <1>2. secrets \in [Keys -> Values \cup {None}]
    BY <1>1 DEF Values
  <1>3. /\ reqs = [q \in Requests |-> ReqRest] /\ job = JobRest /\ sandbox = NoSandbox
        /\ bridge = "bare" /\ health = None
    BY DEF Init
  <1>4. ReqRest \in Req
    <2>1. <<>> \in Seq(Keys) /\ None \in Values \cup {None}
      OBVIOUS
    <2>2. QED
      BY <2>1 DEF ReqRest, Req, ReqLabel
  <1>5. JobRest \in Job
    <2>1. <<>> \in [{} -> SUBSET (Values \cup {None})] /\ {} \in SUBSET Keys
      OBVIOUS
    <2>2. <<>> \in Could
      BY <2>1 DEF Could
    <2>3. <<>> \in Seq(AllNames) /\ <<>> \in Seq(Values \cup {None})
      OBVIOUS
    <2>4. QED
      BY <2>2, <2>3 DEF JobRest, Job
  <1>6. NoSandbox \in Sandbox
    <2>1. <<>> \in Seq({0, 1})
      OBVIOUS
    <2>2. QED
      BY <2>1 DEF NoSandbox, Sandbox
  <1>7. Typed
    BY <1>2, <1>3, <1>4, <1>5, <1>6 DEF Typed
  <1>8. \A q \in Requests : /\ reqs[q] = ReqRest /\ reqs[q].pc = "idle" /\ reqs[q].keys = {}
                            /\ reqs[q].kind = "none" /\ reqs[q].beside = {} /\ ~Active(q)
                            /\ reqs[q].answer = "none"
    BY <1>3 DEF ReqRest, Active
  <1>9. \A q \in Requests : ReqSound(q)
    BY <1>8 DEF ReqSound
  <1>10. BesideSound /\ Vanish /\ Exclude
    BY <1>8 DEF BesideSound, Vanish, Exclude, Written, Past
  <1>11. \A m, n \in AllNames : Alike(m, n)
    <2> SUFFICES ASSUME NEW m \in AllNames, NEW n \in AllNames
                 PROVE  secrets[<<"org", m>>] = secrets[<<"org", n>>]
      BY DEF Alike
    <2>1. \A x \in AllNames : /\ <<"org", x>> \in Keys
                              /\ secrets[<<"org", x>>] = IF org = {} THEN None ELSE Old
      <3> SUFFICES ASSUME NEW x \in AllNames
                   PROVE  /\ <<"org", x>> \in Keys
                          /\ secrets[<<"org", x>>] = IF org = {} THEN None ELSE Old
        OBVIOUS
      <3>1. <<"org", x>> \in Keys
        BY DEF Keys
      <3>2. x \in org <=> org # {}
        OBVIOUS
      <3>3. QED
        BY <1>1, <3>1, <3>2
    <2>2. QED
      BY <2>1
  <1>12. Together
    BY <1>8, <1>11 DEF Together
  <1>13. Resolves /\ Handed
    BY <1>3 DEF JobRest, Resolves, Handed, Resolving, HasCreds
  <1>14. Box
    BY <1>3, BoundsAssumption DEF JobRest, Box, NoSandbox, Resolving
  <1>15. QED
    BY <1>7, <1>9, <1>10, <1>12, <1>13, <1>14 DEF IInv, Rows

\* What the job's part says is of the secrets, the job and its sandbox.
LEMMA JobStays ==
  ASSUME JobSound, UNCHANGED <<secrets, job, sandbox>>
  PROVE  JobSound'
  <1>1. secrets' = secrets /\ job' = job /\ sandbox' = sandbox
    OBVIOUS
  <1>2. JobTyped'
    BY <1>1 DEF JobSound, JobTyped
  <1>3. \A i : Earned(i)' <=> Earned(i)
    BY <1>1 DEF Earned
  <1>4. Resolves'
    BY <1>1, <1>3 DEF JobSound, Resolves
  <1>5. HasCreds' <=> HasCreds
    BY <1>1 DEF HasCreds
  <1>6. Handed'
    BY <1>1, <1>5 DEF JobSound, Handed
  <1>7. Box'
    BY <1>1 DEF JobSound, Box
  <1>8. QED
    BY <1>2, <1>4, <1>6, <1>7 DEF JobSound

\* A request's statement leaves the job as sound as it was.
LEMMA RequestKeeps ==
  ASSUME IInv, NEW q \in Requests,
         \/ StartSecret(q) \/ CheckAbsent(q) \/ ReadExisting(q) \/ UpdateDescription(q)
         \/ DeleteRow(q) \/ InsertRow(q) \/ Reload(q) \/ EraseRow(q) \/ LogActivity(q)
         \/ SecretFails(q)
  PROVE  IInv'
  <1>1. Typed /\ Rows /\ JobSound /\ secrets \in [Keys -> Values \cup {None}]
    BY DEF IInv, Typed, JobSound, JobTyped
  <1>2. Rows' /\ reqs' \in [Requests -> Req]
    BY <1>1, StartSecretKeeps, CheckAbsentKeeps, ReadExistingKeeps, UpdateDescriptionKeeps,
       DeleteRowKeeps, InsertRowKeeps, ReloadKeeps, EraseRowKeeps, LogActivityKeeps,
       SecretFailsKeeps
  <1>3. \/ UNCHANGED <<secrets, job, sandbox, bridge, health>>
        \/ \E k \in Keys, v \in Values \cup {None} : Store(k, v)
    <2>1. CASE DeleteRow(q) \/ EraseRow(q)
      <3>1. Active(q) /\ Store(Head(reqs[q].todo), None)
        BY <2>1 DEF DeleteRow, EraseRow, Active
      <3>2. Head(reqs[q].todo) \in Keys
        BY <1>1, <3>1, NextKey
      <3>3. QED
        BY <3>1, <3>2
    <2>2. CASE InsertRow(q)
      <3>1. Active(q) /\ (Store(Head(reqs[q].todo), q)
                          \/ UNCHANGED <<secrets, job, sandbox, bridge, health>>)
        BY <2>2 DEF InsertRow, Active
      <3>2. Head(reqs[q].todo) \in Keys /\ q \in Values
        BY <1>1, <3>1, NextKey DEF Values
      <3>3. QED
        BY <3>1, <3>2
    <2>3. CASE ~(DeleteRow(q) \/ EraseRow(q) \/ InsertRow(q))
      BY <2>3 DEF StartSecret, CheckAbsent, ReadExisting, UpdateDescription, Reload, LogActivity,
                  SecretFails
    <2>4. QED
      BY <2>1, <2>2, <2>3
  <1>4. CASE UNCHANGED <<secrets, job, sandbox, bridge, health>>
    <2>1. JobSound'
      BY <1>1, <1>4, JobStays
    <2>2. Typed'
      BY <1>1, <1>2, <1>4 DEF Typed
    <2>3. QED
      BY <1>2, <2>1, <2>2 DEF IInv, JobSound
  <1>5. CASE \E k \in Keys, v \in Values \cup {None} : Store(k, v)
    <2>1. PICK k \in Keys, v \in Values \cup {None} : Store(k, v)
      BY <1>5
    <2>2. JobSound'
      BY <1>1, <2>1, StoreKeepsJob
    <2>3. Typed'
      <3>1. secrets' \in [Keys -> Values \cup {None}]
        BY <1>1, <2>1, StoreEffect
      <3>2. health' = health /\ bridge' = bridge
        BY <2>1 DEF Store
      <3>3. QED
        BY <1>1, <1>2, <2>2, <3>1, <3>2 DEF Typed, JobSound, JobTyped
    <2>4. QED
      BY <1>2, <2>2, <2>3 DEF IInv, JobSound
  <1>6. QED
    BY <1>3, <1>4, <1>5

\* What the rows' part says is of secrets and reqs alone.
LEMMA RowsStay ==
  ASSUME Rows, UNCHANGED <<secrets, reqs>>
  PROVE  Rows'
  <1>1. \A q \in Requests : ReqSound(q)' <=> ReqSound(q)
    BY DEF ReqSound, Active
  <1>2. BesideSound'
    BY DEF Rows, BesideSound, Active
  <1>3. Vanish' /\ Exclude'
    BY DEF Rows, Vanish, Exclude, Written, Gone, Past, Disturbs
  <1>4. Together'
    BY DEF Rows, Together, WholeSoFar, Active, Written, Erased, Alike, NamedTogether
  <1>5. QED
    BY <1>1, <1>2, <1>3, <1>4 DEF Rows

JobStep == \/ StartJob \/ ReadRepoSecret \/ FindNoRepo \/ ReadOrgSecret \/ ResolveFails
           \/ Dispatch \/ DispatchFails \/ CreateSandbox \/ WaitStarted \/ UploadFile
           \/ Execute \/ SandboxFails \/ DeleteSandbox \/ ProbeHealth \/ PostJob \/ Cancel

LEMMA JobKeeps ==
  ASSUME IInv, JobStep
  PROVE  IInv'
  <1>1. Typed /\ Rows /\ JobSound /\ secrets \in [Keys -> Values \cup {None}]
    BY DEF IInv, Typed, JobSound, JobTyped
  <1>2. JobSound'
    BY <1>1, StartJobKeeps, ReadRepoSecretKeeps, FindNoRepoKeeps, ReadOrgSecretKeeps, ResolveFailsKeeps,
       DispatchKeeps, DispatchFailsKeeps, CreateSandboxKeeps, WaitStartedKeeps,
       UploadFileKeeps, ExecuteKeeps, SandboxFailsKeeps, DeleteSandboxKeeps,
       ProbeHealthKeeps, PostJobKeeps, CancelKeeps DEF JobStep
  <1>3. UNCHANGED <<secrets, reqs, bridge>> /\ health' \in {health, bridge}
    BY DEF JobStep, StartJob, ReadRepoSecret, FindNoRepo, ReadOrgSecret, ResolveFails, Dispatch,
           DispatchFails, CreateSandbox, WaitStarted, UploadFile, Execute, SandboxFails,
           DeleteSandbox, ProbeHealth, PostJob, Cancel, JobUnchanged, Fault, RunOn
  <1>4. Rows'
    BY <1>1, <1>3, RowsStay
  <1>5. health' \in {None, "bare", "ready"}
    <2>1. CASE ProbeHealth
      BY <1>1, <2>1 DEF ProbeHealth, Typed
    <2>2. CASE ~ProbeHealth
      <3>1. health' = health
        BY <2>2 DEF JobStep, StartJob, ReadRepoSecret, FindNoRepo, ReadOrgSecret, ResolveFails, Dispatch,
           DispatchFails, CreateSandbox, WaitStarted, UploadFile, Execute, SandboxFails,
           DeleteSandbox, PostJob, Cancel, JobUnchanged, Fault, RunOn
      <3>2. QED
        BY <1>1, <3>1 DEF Typed
    <2>3. QED
      BY <2>1, <2>2
  <1>6. Typed'
    BY <1>1, <1>2, <1>3, <1>5 DEF Typed, JobSound, JobTyped
  <1>7. QED
    BY <1>2, <1>4, <1>6 DEF IInv, JobSound

LEMMA BridgeKeeps ==
  ASSUME IInv, ListProviders \/ BridgeChanges \/ UNCHANGED vars
  PROVE  IInv'
  <1>1. UNCHANGED <<secrets, reqs, job, sandbox>>
    BY DEF ListProviders, BridgeChanges, vars
  <1>2. /\ health' \in {None, "bare", "ready"} /\ bridge' \in {"down", "bare", "ready"}
    BY DEF IInv, Typed, ListProviders, BridgeChanges, vars
  <1>3. Typed' /\ Rows'
    BY <1>1, <1>2, RowsStay DEF IInv, Typed
  <1>4. JobSound'
    BY <1>1, JobStays DEF IInv, Typed, JobSound, JobTyped
  <1>5. QED
    BY <1>3, <1>4 DEF IInv, JobSound

LEMMA StepIInv == IInv /\ [Next]_vars => IInv'
  <1> SUFFICES ASSUME IInv, [Next]_vars PROVE IInv'
    OBVIOUS
  <1>1. CASE \E q \in Requests :
               \/ StartSecret(q) \/ CheckAbsent(q) \/ ReadExisting(q) \/ UpdateDescription(q)
               \/ DeleteRow(q) \/ InsertRow(q) \/ Reload(q) \/ EraseRow(q) \/ LogActivity(q)
               \/ SecretFails(q)
    BY <1>1, RequestKeeps
  <1>2. CASE JobStep
    BY <1>2, JobKeeps
  <1>3. CASE ListProviders \/ BridgeChanges \/ UNCHANGED vars
    BY <1>3, BridgeKeeps
  <1>4. QED
    BY <1>1, <1>2, <1>3 DEF Next, JobStep

\* The invariant holds in every reachable state.
THEOREM InvariantHolds == Spec => []IInv
  BY InitIInv, StepIInv, PTL DEF Spec

-----------------------------------------------------------------------------
(* The properties *)

LEMMA TypeFollows == ASSUME IInv PROVE TypeOK
  <1>1. Typed /\ Handed /\ Box
    BY DEF IInv
  <1>2. secrets \in [Keys -> Values \cup {None}]
    BY <1>1 DEF Typed
  <1>3. ASSUME NEW q \in Requests
        PROVE  /\ reqs[q].pc \in ReqLabel /\ reqs[q].keys \subseteq Keys
               /\ reqs[q].answer \in {"none", "ok", "conflict", "not_found", "error"}
    <2>1. reqs[q] \in Req
      BY <1>1 DEF Typed
    <2>2. QED
      BY <2>1 DEF Req
  <1>4. /\ job.provider \in Providers \cup {None} /\ job.target \in Providers \cup {None}
        /\ job.key \in Values \cup {None, Env}
        /\ job.result \in {"none", "ok", "failed", "error", "disabled", "cancelled"}
    BY <1>1 DEF Typed, Job
  <1>5. sandbox.state \in {"none", "alive", "gone"} /\ health \in {None, "bare", "ready"}
    BY <1>1 DEF Typed, Sandbox
  <1>6. QED
    BY <1>1, <1>2, <1>3, <1>4, <1>5 DEF TypeOK, ReqLabel, Handed, Box

\* A request that is over with success has written all its keys.
LEMMA WrittenAtEnd ==
  ASSUME IInv, NEW q \in Requests, reqs[q].answer = "ok", reqs[q].kind \in Writers,
         NEW k \in reqs[q].keys
  PROVE  Written(q, k)
  BY DEF Written

LEMMA SecretsFollow == ASSUME IInv PROVE SecretsAreKept
  <1>1. Rows /\ TypeOK
    BY TypeFollows DEF IInv
  <1>2. \A q \in Requests : ReqSound(q)
    BY <1>1 DEF Rows
  <1>3. SecretsVanishOnlyOnRequest
    <2> SUFFICES ASSUME NEW k \in Keys, NEW q \in Requests, secrets[k] = None,
                        reqs[q].kind \in Writers, reqs[q].answer = "ok", k \in reqs[q].keys
                 PROVE  \E r \in Requests : Removes(r, k)
      BY DEF SecretsVanishOnlyOnRequest
    <2>1. PICK r \in Requests : Gone(r, k)
      BY <1>1, WrittenAtEnd DEF Rows, Vanish
    <2>2. Removes(r, k)
      BY <2>1 DEF Gone, Removes
    <2>3. QED
      BY <2>2
  <1>4. CreationsExclude
    <2> SUFFICES ASSUME NEW q \in Requests, NEW r \in Requests, q # r,
                        reqs[q].keys = reqs[r].keys,
                        reqs[q].kind = "create", reqs[q].answer = "ok",
                        reqs[r].kind = "create", reqs[r].answer = "ok"
                 PROVE  \/ r \in reqs[q].beside /\ q \in reqs[r].beside
                        \/ \E d \in Requests : Disturbs(d, q, r)
      BY DEF CreationsExclude
    <2>1. Past(q) /\ Past(r)
      BY DEF Past
    <2>2. CASE r \in reqs[q].beside
      BY <1>1, <2>2 DEF Rows, BesideSound
    <2>3. CASE r \notin reqs[q].beside
      BY <1>1, <2>1, <2>3 DEF Rows, Exclude
    <2>4. QED
      BY <2>2, <2>3
  <1>5. CredentialsAreWhole
    <2> SUFFICES ASSUME \A q \in Requests : Whole(q),
                        NEW m \in AllNames, NEW n \in AllNames, NamedTogether(m, n)
                 PROVE  Alike(m, n)
      BY DEF CredentialsAreWhole, Alike
    <2>1. \A q \in Requests : WholeSoFar(q) /\ ~Active(q)
      BY DEF Whole, WholeSoFar, Active
    <2>2. QED
      BY <1>1, <2>1 DEF Rows, Together
  <1>6. QED
    BY <1>1, <1>3, <1>4, <1>5 DEF SecretsAreKept

LEMMA KeysFollow == ASSUME IInv PROVE KeysReachTheirJob
  <1>1. Resolves /\ Handed /\ job \in Job
    BY DEF IInv, Typed
  <1>2. JobUsesStoredKeys
    <2> SUFFICES ASSUME job.pc = "dispatch", job.provider # None, "db" \notin job.lost,
                        NEW i \in DOMAIN Names[job.provider]
                 PROVE  Earned(i)
      BY DEF JobUsesStoredKeys, Earned
    <2>1. PICK s : s = Names[job.provider]
      OBVIOUS
    <2>2. job.provider \in Providers
      BY <1>1 DEF Job
    <2>3. s \in Seq(AllNames)
      BY <2>1, <2>2, JobKeysAreKeys
    <2>4. i \in 1 .. Len(s)
      BY <2>1, <2>3
    <2>5. i \in 1 .. Len(job.creds)
      BY <1>1, <2>1, <2>4 DEF Handed
    <2>6. QED
      BY <1>1, <2>5 DEF Resolves, Resolving
  <1>3. KeysStayWithTheirProvider
    BY <1>1 DEF Handed, KeysStayWithTheirProvider, HasCreds
  <1>4. QED
    BY <1>2, <1>3 DEF KeysReachTheirJob

LEMMA EndFollows == ASSUME IInv PROVE SandboxesEndWell
  <1>1. Box
    BY DEF IInv
  <1>2. SandboxesAreTornDown
    BY <1>1 DEF Box, SandboxesAreTornDown
  <1>3. VerdictsAreEarned
    BY <1>1 DEF Box, VerdictsAreEarned
  <1>4. QED
    BY <1>2, <1>3 DEF SandboxesEndWell

\* Stored secrets are kept: none vanishes but on a request for its removal or by
\* a request that failed, creation excludes creation, and credentials that every
\* connect and disconnect names together come from one connect, whatever names
\* each of them carries. (secrets.rs)
THEOREM KeptTheorem == Spec => []SecretsAreKept
  <1>1. IInv => SecretsAreKept
    BY SecretsFollow
  <1>2. QED
    BY <1>1, InvariantHolds, PTL

\* A job runs with the credentials stored for it and its provider no others,
\* whatever the requests write while it resolves them.
\* (resolve_computesdk_credentials, ComputeRegistry::resolve)
THEOREM KeysTheorem == Spec => []KeysReachTheirJob
  <1>1. IInv => KeysReachTheirJob
    BY KeysFollow
  <1>2. QED
    BY <1>1, InvariantHolds, PTL

\* A sandbox is torn down with its job unless a call to it failed or the job was
\* cut off, and a verdict is the one its commands earned. (run_on_sandbox)
THEOREM EndTheorem == Spec => []SandboxesEndWell
  <1>1. IInv => SandboxesEndWell
    BY EndFollows
  <1>2. QED
    BY <1>1, InvariantHolds, PTL
=============================================================================
