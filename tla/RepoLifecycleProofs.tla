------------------------ MODULE RepoLifecycleProofs ------------------------
(***************************************************************************)
(* Proofs about RepoLifecycle: rows are sound, orphans have a cause,       *)
(* answered creations hold and walks are complete, for every number of     *)
(* requests, names and repositories, every page size and every bound.      *)
(*                                                                         *)
(* The argument is about who owns a name. Neither the look at the table    *)
(* nor the table keeps two creations of one name apart: init_repo does,    *)
(* because it refuses a name it has ever seen. From then on the creation   *)
(* that made the repository holds the name alone, until its row is there;  *)
(* an update or a deletion that knows the name by a row finds it seeded    *)
(* for ever, so no creation can hold it again.                             *)
(***************************************************************************)
EXTENDS RepoLifecycle, TLAPS, FiniteSetTheorems

-----------------------------------------------------------------------------
(* The inductive invariant *)

\* The labels of a creation that holds its name: it has made the repository.
Holding == {"seed", "adopt", "insert"}

\* The labels of a creation whose row was inserted, or that has failed.
Inserted == {"grant", "log_create", "hook", "done", "failed"}

\* The labels of a deletion that may have erased its row.
Gone == {"unadopt", "log_delete", "done", "failed"}

Created(q) == requests[q].id = q
Refers(q) == requests[q].id \notin {None, q}
Holds(q, n) == requests[q].pc \in Holding /\ requests[q].name = n

\* What the fields of a request say at each label.
Shape(q, r) ==
  /\ r.id # None => r.user \in Users /\ r.org \in Orgs /\ r.name \in Names
  /\ r.pc \in {"join", "log_org"} => r.user \in Users /\ r.org \in Orgs
  /\ r.pc \in {"idle", "join", "log_org"} => r.id = None
  /\ r.pc \in {"init", "seed", "adopt", "insert", "grant", "log_create", "hook"} => r.id = q
  /\ r.pc \in {"change", "patch", "log_update"} => r.id \notin {None, q} /\ r.body \in Update
  /\ r.pc \in {"erase_activity", "erase", "unadopt", "log_delete"} =>
       r.id \notin {None, q} /\ r.body = None
  /\ r.id \in {None, q} => r.body = None

\* The row of a repository was inserted by the request it is named after.
WasInserted(i, n) ==
  i \in Requests => Created(i) /\ requests[i].name = n /\ requests[i].pc \in Inserted

\* A creation that holds its name has made what its label says; an update or a
\* deletion knows a repository that was seeded, by its name and its id.
RequestSound(q) ==
  LET n == requests[q].name IN
  /\ Shape(q, requests[q])
  /\ requests[q].pc \in Holding => vcs[n] # "absent"
  /\ requests[q].pc \in {"adopt", "insert"} => vcs[n] = "seeded"
  /\ requests[q].pc = "insert" => projects[n] # "absent"
  /\ Refers(q) => /\ vcs[n] = "seeded"
                  /\ WasInserted(requests[q].id, n)
                  /\ \A r \in repos : r.id = requests[q].id => r.name = n
  /\ requests[q].pc = "unadopt" => \A r \in repos : r.name # n

\* A name is held by one creation at most, and then nothing else has it.
HeldAlone ==
  \A q \in Requests, n \in Names : Holds(q, n) =>
    /\ \A p \in Requests : Holds(p, n) => p = q
    /\ \A p \in Requests : Refers(p) => requests[p].name # n
    /\ \A r \in repos : r.name # n

RowSound(r) ==
  /\ vcs[r.name] = "seeded" /\ projects[r.name] # "absent"
  /\ WasInserted(r.id, r.name)

RowsDistinct == \A r, s \in repos : r.id = s.id \/ r.name = s.name => r = s

\* The network policy of a row is valid, or an update emptied it.
PolicyExplained(r) ==
  PolicyValid(r.mode, r.tags) \/
    \E q \in Requests : /\ requests[q].id = r.id /\ requests[q].body # None
                       /\ requests[q].body.mode = "keep" /\ requests[q].body.tags = "none"

RowsKept == \A r \in repos : r.updated <= now /\ PolicyExplained(r)

HasRow(i) == \E r \in repos : r.id = i

Attached ==
  /\ \A g \in grants : HasRow(g[1])
  /\ \A e \in activity : e.repo # None => HasRow(e.repo)

\* A deletion of the repository may have erased its row.
Deleted(i) ==
  \E d \in Requests \ {i} :
    requests[d].id = i /\ requests[d].body = None /\ requests[d].pc \in Gone

\* A creation past the insertion has its row, then its grant, until it is deleted.
Progress(q) ==
  Created(q) =>
    /\ requests[q].pc = "grant" => HasRow(q) \/ Deleted(q)
    /\ requests[q].pc \in {"log_create", "hook", "done"} =>
         (HasRow(q) /\ <<q, requests[q].user>> \in grants) \/ Deleted(q)

\* A client that walks the pages: what it was shown lies before the cursor, what
\* it could see at the start and was not shown lies behind, unless it was touched.
WalkSound ==
  /\ walk.pc = "idle" => walk.start = {} /\ walk.seen = {}
  /\ walk.twice = {}
  /\ walk.pc = "ended" => walk.start \ walk.touched \subseteq walk.seen
  /\ walk.cursor # None => walk.cursor[1] <= now
  /\ \A i \in walk.seen : i \in Requests => Created(i) /\ requests[i].pc \in Inserted
  /\ walk.pc = "walking" =>
       /\ walk.cursor = None => walk.seen = {}
       /\ \A r \in repos : r.id \in walk.seen => ~AfterCursor(r, walk.cursor)
       /\ \A i \in walk.start \ walk.touched : i \notin walk.seen =>
            \E r \in repos : /\ r.id = i /\ r.visibility = "public"
                             /\ AfterCursor(r, walk.cursor)

IInv ==
  /\ TypeOK
  /\ IsFiniteSet(repos)
  /\ \A q \in Requests : RequestSound(q) /\ Progress(q)
  /\ HeldAlone
  /\ \A r \in repos : RowSound(r)
  /\ RowsDistinct
  /\ RowsKept
  /\ Attached
  /\ OrphansHaveACause
  /\ WalkSound

-----------------------------------------------------------------------------
(* What a step of a request does *)

\* The order of the labels of a request.
Follows(p, l) ==
  \/ p = "idle" /\ l \in {"join", "init", "change", "erase_activity"}
  \/ p = "join" /\ l = "log_org"
  \/ p = "log_org" /\ l = "done"
  \/ p = "init" /\ l = "seed"
  \/ p = "seed" /\ l = "adopt"
  \/ p = "adopt" /\ l = "insert"
  \/ p = "insert" /\ l = "grant"
  \/ p = "grant" /\ l = "log_create"
  \/ p = "log_create" /\ l = "hook"
  \/ p = "hook" /\ l = "done"
  \/ p = "change" /\ l = "patch"
  \/ p = "patch" /\ l = "log_update"
  \/ p = "log_update" /\ l = "done"
  \/ p = "erase_activity" /\ l = "erase"
  \/ p = "erase" /\ l = "unadopt"
  \/ p = "unadopt" /\ l = "log_delete"
  \/ p = "log_delete" /\ l = "done"
  \/ p \notin {"idle", "hook", "patch", "unadopt", "done", "failed"} /\ l = "failed"

\* The step is one of request q, which goes on and keeps what it knows.
Moves(q) ==
  /\ requests' \in [Requests -> Request]
  /\ \A p \in Requests \ {q} : requests'[p] = requests[p]
  /\ Shape(q, requests'[q])
  /\ Follows(requests[q].pc, requests'[q].pc)
  /\ requests[q].id # None =>
       /\ requests'[q].id = requests[q].id /\ requests'[q].name = requests[q].name
       /\ requests'[q].body = requests[q].body /\ requests'[q].user = requests[q].user
  /\ requests[q].id = None /\ requests'[q].id # None =>
       /\ requests[q].pc = "idle"
       /\ requests'[q].id # q =>
            \E r \in repos : r.id = requests'[q].id /\ r.name = requests'[q].name

\* Repositories are never lost, a project only to a deletion of its name.
Stores(q) ==
  LET n == requests'[q].name IN
  /\ \A m \in Names : vcs[m] # "absent" => vcs'[m] # "absent"
  /\ \A m \in Names : vcs[m] = "seeded" => vcs'[m] = "seeded"
  /\ \A m \in Names : vcs[m] = "absent" /\ vcs'[m] # "absent" =>
       requests'[q].pc = "seed" /\ n = m
  /\ requests'[q].pc = "seed" => vcs[n] = "absent" /\ vcs'[n] # "absent"
  /\ requests'[q].pc = "adopt" => vcs'[n] = "seeded"
  /\ requests'[q].pc = "insert" => projects'[n] # "absent"
  /\ \A m \in Names : projects[m] # "absent" =>
       projects'[m] # "absent" \/ (requests[q].pc = "unadopt" /\ n = m)

\* A row appears at the end of a creation and goes with a deletion.
Rows(q) ==
  /\ IsFiniteSet(repos')
  /\ \A s \in repos' : \/ \E r \in repos : r.id = s.id /\ r.name = s.name
                       \/ requests'[q].pc = "grant" /\ s.id = q /\ s.name = requests[q].name
  /\ \A r \in repos : \/ \E s \in repos' : s.id = r.id /\ s.name = r.name
                      \/ requests'[q].pc = "unadopt" /\ r.id = requests[q].id
  /\ \A s, t \in repos' : s.id = t.id => s = t
  /\ requests'[q].pc = "grant" => HasRow(q)'
  /\ requests'[q].pc = "unadopt" => /\ HasRow(requests[q].id)
                                    /\ \A s \in repos' : s.id # requests[q].id

\* Grants go with the row; the row's policy is valid or explained.
Tables(q) ==
  /\ \A g \in grants : \/ g \in grants'
                       \/ requests'[q].pc = "unadopt" /\ g[1] = requests[q].id
  /\ requests'[q].pc = "log_create" => HasRow(q)' /\ <<q, requests[q].user>> \in grants'
  /\ Attached'
  /\ RowsKept'

-----------------------------------------------------------------------------
(* Labels *)

LEMMA Paths ==
  ASSUME NEW p, NEW l, Follows(p, l)
  PROVE  /\ p \notin {"done", "failed"} /\ l # "idle"
         /\ l \in Holding => (p = "init" /\ l = "seed") \/ p \in Holding
         /\ p \in Holding => l \in Holding \/ l \in Inserted
         /\ p \in Inserted => l \in Inserted
         /\ p \in Gone => l \in Gone
         /\ l = "seed" => p = "init"
         /\ l = "adopt" => p = "seed"
         /\ l = "insert" => p = "adopt"
         /\ l = "grant" => p = "insert"
         /\ l = "log_create" => p = "grant"
         /\ l = "hook" => p = "log_create"
         /\ l = "unadopt" => p = "erase"
         /\ l = "done" => p \in {"log_org", "hook", "log_update", "log_delete"}
  BY DEF Follows, Holding, Inserted, Gone

\* A request that goes on with its fields as they are keeps its shape.
LEMMA ShapeFollows ==
  ASSUME NEW q \in Requests, NEW r \in Request, NEW s \in Request,
         Shape(q, r), Follows(r.pc, s.pc), r.pc # "idle",
         s.id = r.id, s.name = r.name, s.body = r.body, s.user = r.user, s.org = r.org
  PROVE  Shape(q, s)
  <1> DEFINE p == r.pc
             l == s.pc
  <1>1. l \notin {"idle", "join", "init", "change", "erase_activity"} /\ (l = "log_org" => p = "join")
    BY DEF Follows
  <1>2. l \in {"seed", "adopt", "insert", "grant", "log_create", "hook"} =>
          p \in {"init", "seed", "adopt", "insert", "grant", "log_create"}
    BY DEF Follows
  <1>3. l \in {"patch", "log_update"} => p \in {"change", "patch"}
    BY DEF Follows
  <1>4. l \in {"erase", "unadopt", "log_delete"} => p \in {"erase_activity", "erase", "unadopt"}
    BY DEF Follows
  <1>5. QED
    BY <1>1, <1>2, <1>3, <1>4 DEF Shape

\* What the type says of a request.
LEMMA RequestType ==
  ASSUME TypeOK, NEW q \in Requests
  PROVE  /\ requests[q] \in Request
         /\ requests[q].pc \in Label /\ requests[q].id \in Id \cup {None}
         /\ requests[q].body \in Update \cup {None}
  BY DEF TypeOK, Request

\* A step that only moves the label.
LEMMA GotoMoves ==
  ASSUME IInv, NEW q \in Requests, NEW l \in Label,
         Goto(q, l), Follows(requests[q].pc, l), requests[q].pc # "idle"
  PROVE  Moves(q) /\ requests'[q] = [requests[q] EXCEPT !.pc = l] /\ requests'[q].pc = l
  <1> DEFINE s == [requests[q] EXCEPT !.pc = l]
  <1>1. requests[q] \in Request /\ Shape(q, requests[q])
    BY RequestType DEF IInv, RequestSound
  <1>2. s \in Request
    BY <1>1 DEF Request
  <1>3. requests' = [requests EXCEPT ![q] = s]
    BY DEF Goto
  <1>4. /\ s.pc = l /\ s.id = requests[q].id /\ s.name = requests[q].name
        /\ s.body = requests[q].body /\ s.user = requests[q].user /\ s.org = requests[q].org
    BY <1>1 DEF Request
  <1> HIDE DEF s
  <1>5. Shape(q, s)
    BY <1>1, <1>2, <1>4, ShapeFollows
  <1>6. requests'[q] = s /\ requests' \in [Requests -> Request]
        /\ \A p \in Requests \ {q} : requests'[p] = requests[p]
    BY <1>2, <1>3 DEF IInv, TypeOK
  <1>7. QED
    BY <1>4, <1>5, <1>6 DEF Moves, s

-----------------------------------------------------------------------------
(* A step that moves, stores and keeps rows as above keeps the invariant *)

\* A creation whose row was inserted stays one.
LEMMA InsertedStays ==
  ASSUME IInv, NEW q \in Requests, Moves(q), NEW i \in Id, NEW n, WasInserted(i, n)
  PROVE  WasInserted(i, n)'
  <1> SUFFICES ASSUME i \in Requests
               PROVE  /\ requests'[i].id = i /\ requests'[i].name = n
                      /\ requests'[i].pc \in Inserted
    BY DEF WasInserted, Created
  <1>1. requests[i].id = i /\ requests[i].name = n /\ requests[i].pc \in Inserted
    BY DEF WasInserted, Created
  <1>2. CASE i # q
    BY <1>1, <1>2 DEF Moves
  <1>3. CASE i = q
    <2>1. requests[q].id # None
      BY <1>1, <1>3, BootstrapAssumption
    <2>2. requests'[q].pc \in Inserted
      BY <1>1, <1>3, Paths DEF Moves
    <2>3. QED
      BY <1>1, <1>3, <2>1, <2>2 DEF Moves
  <1>4. QED
    BY <1>2, <1>3

\* Before its row is inserted no row has the id of a creation.
LEMMA NotYetInserted ==
  ASSUME IInv, NEW q \in Requests, requests[q].pc \notin Inserted
  PROVE  /\ \A r \in repos : r.id # q
         /\ \A p \in Requests : Refers(p) => requests[p].id # q
         /\ walk.seen \subseteq Id /\ q \notin walk.seen
  <1>1. \A r \in repos : r.id # q
    BY DEF IInv, RowSound, WasInserted
  <1>2. \A p \in Requests : Refers(p) => requests[p].id # q
    BY DEF IInv, RequestSound, WasInserted
  <1>3. walk.seen \subseteq Id /\ q \notin walk.seen
    BY DEF IInv, WalkSound, TypeOK, Walk
  <1>4. QED
    BY <1>1, <1>2, <1>3

\* The types of the rows and of what a request that knows a row says.
LEMMA RowType ==
  ASSUME TypeOK, NEW r \in repos
  PROVE  r \in Repo /\ r.id \in Id /\ r.name \in Names /\ r.updated \in 0 .. MaxTime
  BY DEF TypeOK, Repo

LEMMA ReferenceType ==
  ASSUME IInv, NEW q \in Requests, requests[q].id # None
  PROVE  requests[q].id \in Id /\ requests[q].name \in Names /\ requests[q].pc # "idle"
  BY RequestType DEF IInv, RequestSound, Shape

\* The request itself: a creation that holds its name.
LEMMA HolderSound ==
  ASSUME IInv, NEW q \in Requests, Moves(q), Stores(q), requests'[q].pc \in Holding
  PROVE  LET n == requests'[q].name IN
         /\ n \in Names /\ requests'[q].id = q
         /\ vcs'[n] # "absent"
         /\ requests'[q].pc \in {"adopt", "insert"} => vcs'[n] = "seeded"
         /\ requests'[q].pc = "insert" => projects'[n] # "absent"
         /\ requests'[q].pc = "seed" \/ Holds(q, n)
  <1> DEFINE n == requests'[q].name
  <1>1. requests'[q].id = q /\ n \in Names
    BY BootstrapAssumption DEF Moves, Shape, Holding
  <1>2. Follows(requests[q].pc, requests'[q].pc) /\ RequestSound(q)
    BY DEF Moves, IInv
  <1>3. CASE requests'[q].pc = "seed"
    BY <1>1, <1>3 DEF Stores
  <1>4. CASE requests'[q].pc = "adopt"
    <2>1. requests[q].pc = "seed" /\ requests[q].id = q
      BY <1>2, <1>4, Paths DEF RequestSound, Shape
    <2>2. requests[q].name = n
      BY <2>1, BootstrapAssumption DEF Moves
    <2>3. QED
      BY <1>1, <1>4, <2>1, <2>2 DEF Stores, Holds, Holding
  <1>5. CASE requests'[q].pc = "insert"
    <2>1. requests[q].pc = "adopt" /\ requests[q].id = q
      BY <1>2, <1>5, Paths DEF RequestSound, Shape
    <2>2. requests[q].name = n /\ vcs[n] = "seeded"
      BY <1>2, <2>1, BootstrapAssumption DEF Moves, RequestSound
    <2>3. QED
      BY <1>1, <1>5, <2>1, <2>2 DEF Stores, Holds, Holding
  <1>6. QED
    BY <1>3, <1>4, <1>5 DEF Holding

\* A row that is there after the step was there, or belongs to the creation of
\* the step, which held its name.
LEMMA RowOrigin ==
  ASSUME IInv, NEW q \in Requests, Moves(q), Rows(q), NEW s \in repos'
  PROVE  \/ \E r \in repos : r.id = s.id /\ r.name = s.name
         \/ /\ s.id = q /\ Holds(q, s.name) /\ requests[q].pc = "insert"
            /\ requests[q].id = q /\ s.name \in Names /\ requests'[q].pc = "grant"
  <1> SUFFICES ASSUME requests'[q].pc = "grant", s.id = q, s.name = requests[q].name
               PROVE  /\ s.id = q /\ Holds(q, s.name) /\ requests[q].pc = "insert"
                      /\ requests[q].id = q /\ s.name \in Names
    BY DEF Rows
  <1>1. requests[q].pc = "insert"
    BY Paths DEF Moves
  <1>2. requests[q].id = q
    BY <1>1 DEF IInv, RequestSound, Shape
  <1>3. requests[q].name \in Names
    BY <1>2, ReferenceType, BootstrapAssumption
  <1>4. QED
    BY <1>1, <1>2, <1>3 DEF Holds, Holding

\* The request itself: an update or a deletion that knows a row.
LEMMA ReferrerSound ==
  ASSUME IInv, NEW q \in Requests, Moves(q), Stores(q), Rows(q),
         NEW i, i = requests'[q].id, i \notin {None, q}, NEW n, n = requests'[q].name
  PROVE  /\ n \in Names /\ vcs'[n] = "seeded"
         /\ WasInserted(i, n)'
         /\ \A s \in repos' : s.id = i => s.name = n
         /\ requests'[q].pc = "unadopt" => \A s \in repos' : s.name # n
         /\ \A p \in Requests : ~Holds(p, n)
  <1>1. /\ n \in Names /\ i \in Id /\ vcs[n] = "seeded" /\ WasInserted(i, n)
        /\ \A p \in Requests : ~Holds(p, n)
        /\ \A r \in repos : r.id = i => r.name = n
    <2>1. CASE requests[q].id = None
      <3>1. PICK r \in repos : r.id = i /\ r.name = n
        BY <2>1 DEF Moves
      <3>2. RowSound(r) /\ r.name \in Names /\ r.id \in Id
        BY RowType DEF IInv
      <3>3. \A p \in Requests : ~Holds(p, n)
        BY <3>1, <3>2 DEF IInv, HeldAlone
      <3>4. \A t \in repos : t.id = i => t.name = n
        BY <3>1 DEF IInv, RowsDistinct
      <3>5. QED
        BY <3>1, <3>2, <3>3, <3>4 DEF RowSound
    <2>2. CASE requests[q].id # None
      <3>1. requests[q].id = i /\ requests[q].name = n /\ Refers(q)
        BY <2>2 DEF Moves, Refers
      <3>2. RequestSound(q) /\ i \in Id /\ n \in Names
        BY <2>2, <3>1, ReferenceType DEF IInv
      <3>3. \A p \in Requests : ~Holds(p, n)
        BY <3>1, <3>2 DEF IInv, HeldAlone
      <3>4. QED
        BY <3>1, <3>2, <3>3 DEF RequestSound
    <2>3. QED
      BY <2>1, <2>2
  <1>2. WasInserted(i, n)'
    BY <1>1, InsertedStays
  <1>3. \A s \in repos' : s.id = i => s.name = n
    BY <1>1, RowOrigin
  <1>4. ASSUME requests'[q].pc = "unadopt", NEW s \in repos', s.name = n
        PROVE  FALSE
    <2>1. requests[q].id = i /\ requests[q].name = n
      <3>1. requests[q].pc = "erase"
        BY <1>4, Paths DEF Moves
      <3>2. requests[q].id # None
        BY <3>1 DEF IInv, RequestSound, Shape
      <3>3. QED
        BY <3>2 DEF Moves
    <2>2. PICK t \in repos : t.id = i
      BY <1>4, <2>1 DEF Rows, HasRow
    <2>3. PICK r \in repos : r.id = s.id /\ r.name = n
      BY <1>1, <1>4, RowOrigin
    <2>4. t.name = n
      BY <1>1, <2>2
    <2>5. r = t
      BY <2>3, <2>4 DEF IInv, RowsDistinct
    <2>6. QED
      BY <1>4, <2>1, <2>2, <2>3, <2>5 DEF Rows
  <1>5. vcs'[n] = "seeded"
    BY <1>1 DEF Stores
  <1>6. QED
    BY <1>1, <1>2, <1>3, <1>4, <1>5

\* Whoever knows of a creation knows one whose row was inserted.
LEMMA RequestsStaySound ==
  ASSUME IInv, NEW q \in Requests, Moves(q), Stores(q), Rows(q), NEW p \in Requests
  PROVE  RequestSound(p)'
  <1>1. CASE p = q
    <2> PICK n : n = requests'[q].name
      OBVIOUS
    <2> PICK i : i = requests'[q].id
      OBVIOUS
    <2>1. Shape(q, requests'[q])
      BY DEF Moves
    <2>2. CASE i \in {None, q}
      <3>1. requests'[q].pc # "unadopt"
        BY <2>1, <2>2 DEF Shape
      <3>2. QED
        BY <1>1, <2>1, <2>2, <3>1, HolderSound DEF RequestSound, Refers, Holding
    <2>3. CASE i \notin {None, q}
      <3>1. requests'[q].pc \notin Holding
        BY <2>1, <2>3 DEF Shape, Holding
      <3>2. requests'[q].pc \notin {"adopt", "insert"}
        BY <3>1 DEF Holding
      <3>3. /\ vcs'[n] = "seeded" /\ WasInserted(i, n)'
            /\ \A s \in repos' : s.id = i => s.name = n
            /\ requests'[q].pc = "unadopt" => \A s \in repos' : s.name # n
        BY <2>3, ReferrerSound
      <3>4. QED
        BY <1>1, <2>1, <3>1, <3>2, <3>3 DEF RequestSound
    <2>4. QED
      BY <2>2, <2>3
  <1>2. CASE p # q
    <2> PICK n : n = requests[p].name
      OBVIOUS
    <2> PICK i : i = requests[p].id
      OBVIOUS
    <2>1. requests'[p] = requests[p] /\ RequestSound(p)
      BY <1>2 DEF Moves, IInv
    <2>2. requests[p].pc \in Holding => vcs'[n] # "absent"
      <3>1. SUFFICES ASSUME requests[p].pc \in Holding PROVE n \in Names /\ vcs[n] # "absent"
        BY DEF Stores
      <3>2. i = p
        BY <2>1, <3>1 DEF RequestSound, Shape, Holding
      <3>3. QED
        BY <2>1, <3>1, <3>2, ReferenceType, BootstrapAssumption DEF RequestSound
    <2>3. requests[p].pc \in {"adopt", "insert"} => vcs'[n] = "seeded"
      <3>1. SUFFICES ASSUME requests[p].pc \in {"adopt", "insert"}
                     PROVE n \in Names /\ vcs[n] = "seeded"
        BY DEF Stores
      <3>2. i = p
        BY <2>1, <3>1 DEF RequestSound, Shape
      <3>3. QED
        BY <2>1, <3>1, <3>2, ReferenceType, BootstrapAssumption DEF RequestSound
    <2>4. requests[p].pc = "insert" => projects'[n] # "absent"
      <3>1. SUFFICES ASSUME requests[p].pc = "insert" PROVE projects'[n] # "absent"
        OBVIOUS
      <3>2. i = p
        BY <2>1, <3>1 DEF RequestSound, Shape
      <3>3. n \in Names /\ projects[n] # "absent" /\ Holds(p, n)
        BY <2>1, <3>1, <3>2, ReferenceType, BootstrapAssumption
        DEF RequestSound, Holds, Holding
      <3>4. CASE requests[q].pc = "unadopt" /\ requests'[q].name = n
        <4>1. Refers(q) /\ requests[q].id # None
          BY <3>4 DEF IInv, RequestSound, Shape, Refers
        <4>2. requests[q].name = n
          BY <3>4, <4>1 DEF Moves
        <4>3. QED
          BY <3>3, <4>1, <4>2 DEF IInv, HeldAlone
      <3>5. QED
        BY <3>3, <3>4 DEF Stores
    <2>5. Refers(p) => /\ vcs'[n] = "seeded" /\ WasInserted(i, n)'
                       /\ \A s \in repos' : s.id = i => s.name = n
      <3>1. SUFFICES ASSUME Refers(p)
                     PROVE  /\ vcs'[n] = "seeded" /\ WasInserted(i, n)'
                            /\ \A s \in repos' : s.id = i => s.name = n
        OBVIOUS
      <3>2. i \in Id /\ n \in Names /\ vcs[n] = "seeded" /\ WasInserted(i, n)
            /\ \A r \in repos : r.id = i => r.name = n
        BY <2>1, <3>1, ReferenceType DEF RequestSound, Refers
      <3>3. WasInserted(i, n)'
        BY <3>2, InsertedStays
      <3>4. ASSUME NEW s \in repos', s.id = i PROVE s.name = n
        <4>1. CASE s.id = q /\ requests[q].pc = "insert"
          BY <3>1, <3>4, <4>1, NotYetInserted DEF Inserted
        <4>2. QED
          BY <3>2, <3>4, <4>1, RowOrigin
      <3>5. QED
        BY <3>2, <3>3, <3>4 DEF Stores
    <2>6. requests[p].pc = "unadopt" => \A s \in repos' : s.name # n
      <3>1. SUFFICES ASSUME requests[p].pc = "unadopt", NEW s \in repos', s.name = n
                     PROVE  FALSE
        OBVIOUS
      <3>2. Refers(p) /\ \A r \in repos : r.name # n
        BY <2>1, <3>1 DEF RequestSound, Shape, Refers
      <3>3. Holds(q, n) /\ n \in Names
        BY <3>1, <3>2, RowOrigin
      <3>4. QED
        BY <3>2, <3>3 DEF IInv, HeldAlone
    <2>7. QED
      BY <2>1, <2>2, <2>3, <2>4, <2>5, <2>6 DEF RequestSound, Refers
  <1>3. QED
    BY <1>1, <1>2

\* A holder of a name held it before, or has just made the repository.
LEMMA HolderOrigin ==
  ASSUME IInv, NEW q \in Requests, Moves(q), Stores(q), NEW h \in Requests, NEW n \in Names,
         Holds(h, n)'
  PROVE  Holds(h, n) \/ (h = q /\ vcs[n] = "absent")
  <1>1. CASE h = q
    <2>1. requests'[q].pc = "seed" \/ Holds(q, n)
      BY <1>1, HolderSound DEF Holds
    <2>2. QED
      BY <1>1, <2>1 DEF Stores, Holds
  <1>2. CASE h # q
    BY <1>2 DEF Moves, Holds
  <1>3. QED
    BY <1>1, <1>2

LEMMA NamesStayHeld ==
  ASSUME IInv, NEW q \in Requests, Moves(q), Stores(q), Rows(q)
  PROVE  HeldAlone'
  <1> SUFFICES ASSUME NEW h \in Requests, NEW n \in Names, Holds(h, n)'
               PROVE  /\ \A p \in Requests : Holds(p, n)' => p = h
                      /\ \A p \in Requests : Refers(p)' => requests'[p].name # n
                      /\ \A s \in repos' : s.name # n
    BY DEF HeldAlone
  <1>h. \A p \in Requests : Holds(p, n) => vcs[n] # "absent"
    BY DEF IInv, RequestSound, Holds
  <1>1. ASSUME NEW p \in Requests, Holds(p, n)' PROVE p = h
    BY <1>1, <1>h, HolderOrigin DEF IInv, HeldAlone
  <1>2. ASSUME NEW p \in Requests, Refers(p)', requests'[p].name = n PROVE FALSE
    <2>1. CASE p = q
      <3> PICK i : i = requests'[q].id
        OBVIOUS
      <3>1. i \notin {None, q}
        BY <1>2, <2>1 DEF Refers
      <3>2. \A g \in Requests : ~Holds(g, n)
        BY <1>2, <2>1, <3>1, ReferrerSound
      <3>3. requests'[q].pc \notin Holding
        BY <3>1 DEF Moves, Shape, Holding
      <3>4. h # q
        BY <3>3 DEF Holds
      <3>5. QED
        BY <3>2, <3>4, HolderOrigin
    <2>2. CASE p # q
      <3>1. Refers(p) /\ requests[p].name = n
        BY <1>2, <2>2 DEF Refers, Moves
      <3>2. vcs[n] = "seeded"
        BY <3>1 DEF IInv, RequestSound
      <3>3. ~Holds(h, n)
        BY <3>1 DEF IInv, HeldAlone
      <3>4. QED
        BY <3>2, <3>3, HolderOrigin
    <2>3. QED
      BY <2>1, <2>2
  <1>3. ASSUME NEW s \in repos', s.name = n PROVE FALSE
    <2>1. CASE \E r \in repos : r.id = s.id /\ r.name = s.name
      <3>1. PICK r \in repos : r.name = n
        BY <1>3, <2>1
      <3>2. vcs[n] = "seeded" /\ ~Holds(h, n)
        BY <3>1 DEF IInv, RowSound, HeldAlone
      <3>3. QED
        BY <3>2, HolderOrigin
    <2>2. CASE Holds(q, n) /\ requests'[q].pc = "grant"
      <3>1. h # q
        BY <2>2 DEF Holds, Holding
      <3>2. Holds(h, n)
        BY <3>1, HolderOrigin
      <3>3. QED
        BY <2>2, <3>1, <3>2 DEF IInv, HeldAlone
    <2>3. QED
      BY <1>3, <2>1, <2>2, RowOrigin
  <1>4. QED
    BY <1>1, <1>2, <1>3

\* A row keeps its repository and its project: only a deletion of the name takes
\* the project, and then the name has no row.
LEMMA RowsStaySound ==
  ASSUME IInv, NEW q \in Requests, Moves(q), Stores(q), Rows(q), NEW s \in repos',
         s.id \in Id
  PROVE  RowSound(s)'
  <1> PICK n : n = s.name
    OBVIOUS
  <1> PICK i : i = s.id
    OBVIOUS
  <1>1. CASE \E r \in repos : r.id = i /\ r.name = n
    <2>1. PICK r \in repos : r.id = i /\ r.name = n
      BY <1>1
    <2>2. i \in Id /\ n \in Names /\ vcs[n] = "seeded" /\ projects[n] # "absent"
          /\ WasInserted(i, n)
      BY <2>1, RowType DEF IInv, RowSound
    <2>3. ~(requests[q].pc = "unadopt" /\ requests'[q].name = n)
      <3> SUFFICES ASSUME requests[q].pc = "unadopt", requests'[q].name = n PROVE FALSE
        OBVIOUS
      <3>1. requests[q].id # None
        BY DEF IInv, RequestSound, Shape
      <3>2. requests[q].name = n
        BY <3>1 DEF Moves
      <3>3. QED
        BY <2>1, <3>2 DEF IInv, RequestSound
    <2>4. WasInserted(i, n)'
      BY <2>2, InsertedStays
    <2>5. QED
      BY <2>2, <2>3, <2>4 DEF RowSound, Stores
  <1>2. CASE /\ s.id = q /\ Holds(q, n) /\ requests[q].pc = "insert" /\ requests[q].id = q
             /\ n \in Names /\ requests'[q].pc = "grant"
    <2>1. requests[q].name = n /\ vcs[n] = "seeded" /\ projects[n] # "absent"
      BY <1>2 DEF IInv, RequestSound, Holds
    <2>2. requests'[q].name = n /\ requests'[q].id = q
      BY <1>2, <2>1, BootstrapAssumption DEF Moves
    <2>3. WasInserted(i, n)'
      BY <1>2, <2>2 DEF WasInserted, Created, Inserted
    <2>4. QED
      BY <1>2, <2>1, <2>3 DEF RowSound, Stores
  <1>3. QED
    BY <1>1, <1>2, RowOrigin

LEMMA RowsStayDistinct ==
  ASSUME IInv, NEW q \in Requests, Moves(q), Rows(q)
  PROVE  RowsDistinct'
  <1> SUFFICES ASSUME NEW s \in repos', NEW t \in repos', s.name = t.name PROVE s.id = t.id
    BY DEF RowsDistinct, Rows
  <1>1. ASSUME NEW r \in repos, NEW n, r.name = n, Holds(q, n), n \in Names PROVE FALSE
    BY <1>1 DEF IInv, HeldAlone
  <1>2. CASE \E r \in repos : r.id = s.id /\ r.name = s.name
    <2>1. CASE \E r \in repos : r.id = t.id /\ r.name = t.name
      BY <1>2, <2>1 DEF IInv, RowsDistinct
    <2>2. QED
      BY <1>1, <1>2, <2>1, RowOrigin
  <1>3. CASE s.id = q /\ Holds(q, s.name) /\ s.name \in Names
    <2>1. CASE \E r \in repos : r.id = t.id /\ r.name = t.name
      BY <1>1, <1>3, <2>1
    <2>2. QED
      BY <1>3, <2>1, RowOrigin
  <1>4. QED
    BY <1>2, <1>3, RowOrigin

\* A deletion that may have erased its row stays one.
LEMMA DeletedStays ==
  ASSUME IInv, NEW q \in Requests, Moves(q), NEW i \in Id, Deleted(i)
  PROVE  Deleted(i)'
  <1>1. PICK d \in Requests \ {i} :
               requests[d].id = i /\ requests[d].body = None /\ requests[d].pc \in Gone
    BY DEF Deleted
  <1>2. requests'[d].id = i /\ requests'[d].body = None /\ requests'[d].pc \in Gone
    <2>1. CASE d = q
      BY <1>1, <2>1, Paths, BootstrapAssumption DEF Moves, Id
    <2>2. CASE d # q
      BY <1>1, <2>2 DEF Moves
    <2>3. QED
      BY <2>1, <2>2
  <1>3. QED
    BY <1>1, <1>2 DEF Deleted

\* A row of repository i is there after the step, or a deletion takes it.
LEMMA RowStays ==
  ASSUME IInv, NEW q \in Requests, Moves(q), Rows(q), NEW r \in repos
  PROVE  \/ \E s \in repos' : s.id = r.id /\ s.name = r.name
         \/ /\ requests'[q].pc = "unadopt" /\ requests'[q].id = r.id
            /\ requests'[q].name = r.name /\ requests'[q].body = None
            /\ q # r.id /\ Deleted(r.id)'
  <1> SUFFICES ASSUME requests'[q].pc = "unadopt", r.id = requests[q].id
               PROVE  /\ requests'[q].pc = "unadopt" /\ requests'[q].id = r.id
                      /\ requests'[q].name = r.name /\ requests'[q].body = None
                      /\ q # r.id /\ Deleted(r.id)'
    BY DEF Rows
  <1>1. requests[q].pc = "erase"
    BY Paths DEF Moves
  <1>2. requests[q].id \notin {None, q} /\ requests[q].body = None /\ Refers(q)
    BY <1>1 DEF IInv, RequestSound, Shape, Refers
  <1>3. r.name = requests[q].name
    BY <1>2 DEF IInv, RequestSound
  <1>4. /\ requests'[q].id = r.id /\ requests'[q].name = r.name
        /\ requests'[q].body = None /\ q # r.id
    BY <1>2, <1>3 DEF Moves
  <1>5. \E d \in Requests \ {r.id} :
           requests'[d].id = r.id /\ requests'[d].body = None /\ requests'[d].pc \in Gone
    BY <1>4 DEF Gone
  <1>6. QED
    BY <1>4, <1>5 DEF Deleted

LEMMA CreationsProgress ==
  ASSUME IInv, NEW q \in Requests, Moves(q), Rows(q), Tables(q), NEW p \in Requests
  PROVE  Progress(p)'
  <1> PICK l : l = requests'[p].pc
    OBVIOUS
  <1> SUFFICES ASSUME requests'[p].id = p, l \in {"grant", "log_create", "hook", "done"}
               PROVE  \/ HasRow(p)' /\ (l # "grant" => <<p, requests'[p].user>> \in grants')
                      \/ Deleted(p)'
    BY DEF Progress, Created
  <1>p. p \in Id /\ p # None
    BY BootstrapAssumption DEF Id
  <1>1. CASE p = q /\ l = "grant"
    BY <1>1 DEF Rows
  <1>2. CASE p = q /\ l = "log_create"
    <2>1. requests[q].pc = "grant"
      BY <1>2, Paths DEF Moves
    <2>2. requests[q].id = q
      BY <2>1 DEF IInv, RequestSound, Shape
    <2>3. requests'[q].user = requests[q].user
      BY <2>2, <1>p, <1>2 DEF Moves
    <2>4. QED
      BY <1>2, <2>3 DEF Tables
  <1>3. CASE p # q \/ l \in {"hook", "done"}
    <2>1. /\ requests[p].id = p /\ requests'[p].user = requests[p].user
          /\ requests[p].pc \in {"grant", "log_create", "hook", "done"}
          /\ l # "grant" => requests[p].pc # "grant"
      <3>1. CASE p # q
        BY <3>1 DEF Moves
      <3>2. CASE p = q
        <4>1. l \in {"hook", "done"} /\ Follows(requests[q].pc, l)
          BY <1>3, <3>2 DEF Moves
        <4>2. requests[q].pc \in {"log_create", "log_org", "hook", "log_update", "log_delete"}
          BY <4>1, Paths
        <4>3. requests[q].id = None \/ requests[q].id = q
          BY <3>2 DEF Moves
        <4>4. requests[q].pc # "log_org"
          <5> SUFFICES ASSUME requests[q].pc = "log_org" PROVE FALSE
            OBVIOUS
          <5>1. l = "done" /\ Shape(q, requests[q]) /\ requests[q].id = None
            BY <4>1 DEF Follows, IInv, RequestSound, Shape
          <5>2. QED
            BY <5>1, <3>2, <1>p DEF Moves
        <4>5. requests[q].pc \notin {"log_update", "log_delete"} /\ requests[q].id = q
          BY <4>2, <4>3, <4>4 DEF IInv, RequestSound, Shape
        <4>6. QED
          BY <1>p, <3>2, <4>1, <4>2, <4>4, <4>5 DEF Moves
      <3>3. QED
        BY <3>1, <3>2
    <2>2. CASE Deleted(p)
      BY <1>p, <2>2, DeletedStays
    <2>3. CASE HasRow(p) /\ (l # "grant" => <<p, requests[p].user>> \in grants)
      <3>1. PICK r \in repos : r.id = p
        BY <2>3 DEF HasRow
      <3>2. CASE \E s \in repos' : s.id = p
        <4>1. CASE l # "grant" /\ <<p, requests[p].user>> \notin grants'
          <5>1. requests'[q].pc = "unadopt" /\ p = requests[q].id
            BY <2>3, <4>1 DEF Tables
          <5>2. QED
            BY <3>2, <5>1 DEF Rows
        <4>2. QED
          BY <2>1, <3>2, <4>1 DEF HasRow
      <3>3. CASE Deleted(r.id)'
        BY <3>1, <3>3 DEF Deleted
      <3>4. QED
        BY <3>1, <3>2, <3>3, RowStays
    <2>4. Progress(p)
      BY DEF IInv
    <2>5. QED
      BY <2>1, <2>2, <2>3, <2>4 DEF Progress, Created
  <1>4. QED
    BY <1>1, <1>2, <1>3

\* Why a repository may be without a row.
Cause(q, n) ==
  /\ requests[q].name = n
  /\ IF requests[q].id = q THEN requests[q].pc \notin {"init", "done"}
     ELSE requests[q].body = None /\ requests[q].pc \in Gone

\* A cause lasts, or its creation is done and has a row, or a deletion is the cause.
LEMMA CauseStays ==
  ASSUME IInv, NEW q \in Requests, Moves(q), Stores(q), Rows(q), Tables(q),
         NEW n \in Names, NEW p \in Requests, Cause(p, n)
  PROVE  (\E s \in repos' : s.name = n) \/ \E d \in Requests : Cause(d, n)'
  <1>0. None \notin Names /\ None \notin Requests
    BY BootstrapAssumption
  <1>1. CASE p # q
    <2>1. Cause(p, n)'
      BY <1>1 DEF Moves, Cause
    <2>2. QED
      BY <2>1
  <1>2. CASE p = q
    <2>1. requests[q].id # None
      <3> SUFFICES ASSUME requests[q].id = None PROVE FALSE
        OBVIOUS
      <3>1. requests[q].pc \in Gone
        BY <1>0, <1>2 DEF Cause
      <3>2. requests[q].pc \notin {"done", "failed"}
        BY Paths DEF Moves
      <3>3. QED
        BY <3>1, <3>2 DEF IInv, RequestSound, Shape, Gone
    <2>2. /\ requests'[q].id = requests[q].id /\ requests'[q].name = n
          /\ requests'[q].body = requests[q].body
      BY <1>2, <2>1 DEF Moves, Cause
    <2>3. CASE requests[q].id # q
      <3>1. Cause(q, n)'
        BY <1>2, <2>2, <2>3, Paths DEF Cause, Moves
      <3>2. QED
        BY <3>1
    <2>4. CASE requests[q].id = q
      <3>1. requests'[q].pc # "init"
        BY <2>1, <2>4 DEF Moves, Follows, IInv, RequestSound, Shape
      <3>2. CASE requests'[q].pc # "done"
        <4>1. Cause(q, n)'
          BY <2>2, <2>4, <3>1, <3>2 DEF Cause
        <4>2. QED
          BY <4>1
      <3>3. CASE requests'[q].pc = "done"
        <4>1. HasRow(q)' \/ Deleted(q)'
          BY <2>2, <2>4, <3>3, CreationsProgress DEF Progress, Created
        <4>2. ASSUME HasRow(q)' PROVE \E s \in repos' : s.name = n
          <5>1. PICK s \in repos' : s.id = q
            BY <4>2 DEF HasRow
          <5>2. PICK r \in repos : r.id = q /\ r.name = s.name
            BY <3>3, <5>1, RowOrigin
          <5>3. r.name = n
            BY <1>2, <5>2 DEF IInv, RowSound, WasInserted, Cause
          <5>4. QED
            BY <5>2, <5>3
        <4>3. ASSUME Deleted(q)' PROVE \E d \in Requests : Cause(d, n)'
          <5>1. PICK d \in Requests \ {q} :
                  requests'[d].id = q /\ requests'[d].body = None /\ requests'[d].pc \in Gone
            BY <4>3 DEF Deleted
          <5>2. requests[d] = requests'[d] /\ Refers(d) /\ RequestSound(d)
            BY <1>0, <5>1 DEF Moves, Refers, IInv
          <5>3. requests[d].name = n
            BY <1>2, <2>4, <5>1, <5>2 DEF RequestSound, WasInserted, Cause
          <5>4. Cause(d, n)'
            BY <5>1, <5>2, <5>3 DEF Cause
          <5>5. QED
            BY <5>4
        <4>4. QED
          BY <4>1, <4>2, <4>3
      <3>4. QED
        BY <3>2, <3>3
    <2>5. QED
      BY <2>3, <2>4
  <1>3. QED
    BY <1>1, <1>2

LEMMA OrphansMeanCause ==
  OrphansHaveACause <=>
    \A n \in Names : vcs[n] # "absent" =>
      (\E r \in repos : r.name = n) \/ \E q \in Requests : Cause(q, n)
  BY DEF OrphansHaveACause, Cause, Gone

LEMMA OrphansKeepACause ==
  ASSUME IInv, NEW q \in Requests, Moves(q), Stores(q), Rows(q), Tables(q)
  PROVE  OrphansHaveACause'
  <1> SUFFICES ASSUME NEW n \in Names, vcs'[n] # "absent"
               PROVE  (\E s \in repos' : s.name = n) \/ \E d \in Requests : Cause(d, n)'
    BY DEF OrphansHaveACause, Cause, Gone
  <1>1. CASE vcs[n] = "absent"
    <2>1. requests'[q].pc = "seed" /\ requests'[q].name = n
      BY <1>1 DEF Stores
    <2>2. requests'[q].id = q
      BY <2>1 DEF Moves, Shape
    <2>3. Cause(q, n)'
      BY <2>1, <2>2 DEF Cause
    <2>4. QED
      BY <2>3
  <1>2. CASE \E r \in repos : r.name = n
    <2>1. PICK r \in repos : r.name = n
      BY <1>2
    <2>2. CASE \E s \in repos' : s.name = n
      BY <2>2
    <2>3. CASE /\ requests'[q].pc = "unadopt" /\ requests'[q].id = r.id
               /\ requests'[q].name = n /\ requests'[q].body = None /\ q # r.id
      <3>1. Cause(q, n)'
        BY <2>3 DEF Cause, Gone
      <3>2. QED
        BY <3>1
    <2>4. QED
      BY <2>1, <2>2, <2>3, RowStays
  <1>3. CASE \E p \in Requests : Cause(p, n)
    BY <1>3, CauseStays
  <1>4. QED
    BY <1>1, <1>2, <1>3, OrphansMeanCause DEF IInv

\* Together: all of the invariant but the walk.
LEMMA FramesKeep ==
  ASSUME IInv, NEW q \in Requests, TypeOK', Moves(q), Stores(q), Rows(q), Tables(q), WalkSound'
  PROVE  IInv'
  <1>1. \A p \in Requests : RequestSound(p)' /\ Progress(p)'
    BY RequestsStaySound, CreationsProgress
  <1>2. \A s \in repos' : RowSound(s)'
    <2> SUFFICES ASSUME NEW s \in repos' PROVE RowSound(s)'
      OBVIOUS
    <2>1. s.id \in Id
      BY DEF TypeOK, Repo
    <2>2. QED
      BY <2>1, RowsStaySound
  <1>3. HeldAlone' /\ RowsDistinct' /\ OrphansHaveACause'
    BY NamesStayHeld, RowsStayDistinct, OrphansKeepACause
  <1>4. IsFiniteSet(repos') /\ RowsKept' /\ Attached'
    BY DEF Rows, Tables
  <1>5. QED
    BY <1>1, <1>2, <1>3, <1>4 DEF IInv

-----------------------------------------------------------------------------
(* The walk while requests go on *)

LEMMA Numbers ==
  (\A t \in 0 .. MaxTime : t \in Nat) /\ \A n \in Names : n \in Nat
  BY BoundsAssumption

LEMMA WalkType ==
  ASSUME TypeOK
  PROVE  /\ walk.pc \in {"idle", "walking", "ended"} /\ walk.seen \subseteq Id
         /\ walk.start \subseteq Id /\ walk.touched \subseteq Id /\ walk.twice \subseteq Id
         /\ walk.cursor # None => /\ walk.cursor \in (0 .. MaxTime) \X Names
                                  /\ walk.cursor[1] \in Nat /\ walk.cursor[2] \in Nat
         /\ now \in Nat
  <1>1. walk \in Walk /\ now \in 0 .. MaxTime
    BY DEF TypeOK
  <1>2. walk.cursor \in (0 .. MaxTime) \X Names \cup {None}
    BY <1>1 DEF Walk
  <1>3. walk.cursor # None => walk.cursor[1] \in 0 .. MaxTime /\ walk.cursor[2] \in Names
    BY <1>2
  <1>4. 0 .. MaxTime \subseteq Nat /\ Names \subseteq Nat
    BY BoundsAssumption
  <1>5. QED
    BY <1>1, <1>2, <1>3, <1>4 DEF Walk

\* What the client was shown stays a repository that was inserted.
LEMMA SeenStaysInserted ==
  ASSUME IInv, NEW q \in Requests, Moves(q), NEW i \in walk.seen, i \in Requests
  PROVE  Created(i)' /\ requests'[i].pc \in Inserted
  <1>1. i \in Id /\ WasInserted(i, requests[i].name)
    BY WalkType DEF IInv, WalkSound, WasInserted
  <1>2. ASSUME NEW n, n = requests[i].name PROVE WasInserted(i, n)'
    BY <1>1, <1>2, InsertedStays
  <1>3. QED
    BY <1>2 DEF WasInserted

LEMMA WalkUntouched ==
  ASSUME IInv, NEW q \in Requests, Moves(q), UNCHANGED <<walk, repos, now>>
  PROVE  WalkSound'
  <1>1. \A i \in walk.seen : i \in Requests => Created(i)' /\ requests'[i].pc \in Inserted
    BY SeenStaysInserted
  <1>2. WalkSound
    BY DEF IInv
  <1>3. QED
    BY <1>1, <1>2 DEF WalkSound

\* A row that is changed moves to the front, behind the client's back.
LEMMA WalkTouched ==
  ASSUME IInv, NEW q \in Requests, Moves(q), NEW i \in Id, Touch(i), now' = now,
         \A s \in repos' : s.id # i => s \in repos,
         \A r \in repos : r.id # i => r \in repos',
         \A s \in repos' : s.id = i /\ i \in walk.seen =>
           s.updated = now /\ \E r \in repos : r.id = i /\ r.name = s.name
  PROVE  WalkSound'
  <1>1. /\ walk'.pc = walk.pc /\ walk'.cursor = walk.cursor /\ walk'.seen = walk.seen
        /\ walk'.twice = walk.twice /\ walk'.start = walk.start
        /\ walk'.touched = walk.touched \cup {i}
    BY DEF Touch, IInv, TypeOK, Walk
  <1>2. \A j \in walk.seen : j \in Requests => Created(j)' /\ requests'[j].pc \in Inserted
    BY SeenStaysInserted
  <1>3. WalkSound
    BY DEF IInv
  <1>4. ASSUME walk.pc = "walking", NEW s \in repos', s.id \in walk.seen
        PROVE  ~AfterCursor(s, walk.cursor)
    <2>1. CASE s.id # i
      BY <1>3, <1>4, <2>1 DEF WalkSound
    <2>2. CASE s.id = i
      <3>1. PICK r \in repos : r.id = i /\ r.name = s.name
        BY <1>4, <2>2
      <3>2. s.updated = now /\ ~AfterCursor(r, walk.cursor) /\ r.updated <= now
        BY <1>3, <1>4, <2>2, <3>1 DEF WalkSound, IInv, RowsKept
      <3>3. walk.cursor # None /\ walk.cursor[1] <= now
        BY <1>3, <1>4 DEF WalkSound
      <3>4. walk.cursor[1] \in Nat /\ walk.cursor[2] \in Nat /\ now \in Nat
        BY <3>3, WalkType DEF IInv
      <3>6. r.updated \in Nat /\ r.name \in Nat
        BY Numbers, RowType, Zenon DEF IInv
      <3>5. QED
        BY <3>1, <3>2, <3>3, <3>4, <3>6 DEF AfterCursor
    <2>3. QED
      BY <2>1, <2>2
  <1>5. ASSUME walk.pc = "walking", NEW j \in walk.start \ (walk.touched \cup {i}),
               j \notin walk.seen
        PROVE  \E s \in repos' : /\ s.id = j /\ s.visibility = "public"
                                 /\ AfterCursor(s, walk.cursor)
    BY <1>3, <1>5 DEF WalkSound
  <1>6. /\ walk.pc = "idle" => walk.start = {} /\ walk.seen = {}
        /\ walk.twice = {}
        /\ walk.pc = "ended" => walk.start \ (walk.touched \cup {i}) \subseteq walk.seen
        /\ walk.cursor # None => walk.cursor[1] <= now
        /\ walk.pc = "walking" /\ walk.cursor = None => walk.seen = {}
    BY <1>3 DEF WalkSound
  <1>7. QED
    BY <1>1, <1>2, <1>4, <1>5, <1>6 DEF WalkSound

-----------------------------------------------------------------------------
(* Steps that leave the rows alone *)

\* An update that explains a row's policy goes on doing so.
LEMMA PolicyStays ==
  ASSUME IInv, NEW q \in Requests, Moves(q), NEW r, r.id \in Id, PolicyExplained(r)
  PROVE  PolicyExplained(r)'
  <1>1. r.id # None
    BY BootstrapAssumption DEF Id
  <1>2. QED
    BY <1>1 DEF PolicyExplained, Moves

LEMMA RowsUnchanged ==
  ASSUME IInv, NEW q \in Requests, Moves(q), UNCHANGED <<repos, now>>,
         requests'[q].pc \notin {"grant", "unadopt"}
  PROVE  Rows(q) /\ RowsKept'
  <1>1. \A r \in repos : PolicyExplained(r)'
    BY PolicyStays, RowType DEF IInv, RowsKept
  <1>2. RowsKept'
    BY <1>1 DEF IInv, RowsKept
  <1>3. Rows(q)
    BY DEF Rows, IInv, RowsDistinct
  <1>4. QED
    BY <1>2, <1>3

LEMMA TablesUnchanged ==
  ASSUME IInv, NEW q \in Requests, Moves(q), UNCHANGED <<repos, grants, now>>,
         requests'[q].pc \notin {"grant", "unadopt", "log_create"},
         \A e \in activity' : e \in activity \/ e.repo = None \/ HasRow(e.repo)
  PROVE  Rows(q) /\ Tables(q)
  <1>1. Rows(q) /\ RowsKept'
    BY RowsUnchanged
  <1>2. Attached'
    BY DEF IInv, Attached, HasRow
  <1>3. QED
    BY <1>1, <1>2 DEF Tables

LEMMA StoresUnchanged ==
  ASSUME NEW q \in Requests, UNCHANGED <<vcs, projects>>,
         requests'[q].pc \notin {"seed", "adopt", "insert"}
  PROVE  Stores(q)
  BY DEF Stores

\* A step that touches neither repositories nor rows nor grants.
LEMMA QuietStep ==
  ASSUME IInv, NEW q \in Requests, Moves(q),
         UNCHANGED <<repos, grants, vcs, projects, walk, now>>,
         requests'[q].pc \notin {"seed", "adopt", "insert", "grant", "log_create", "unadopt"},
         orgs' \subseteq Orgs, admins' \subseteq Orgs \X Users, activity' \subseteq Event,
         hooks' \subseteq Names, faults' \in 0 .. MaxFaults,
         \A e \in activity' : e \in activity \/ e.repo = None \/ HasRow(e.repo)
  PROVE  IInv'
  <1>1. TypeOK'
    BY DEF IInv, TypeOK, Moves
  <1>2. Stores(q) /\ Rows(q) /\ Tables(q) /\ WalkSound'
    BY StoresUnchanged, TablesUnchanged, WalkUntouched
  <1>3. QED
    BY <1>1, <1>2, FramesKeep

LEMMA Types ==
  ASSUME TypeOK
  PROVE  /\ orgs \subseteq Orgs /\ admins \subseteq Orgs \X Users /\ activity \subseteq Event
         /\ hooks \subseteq Names /\ faults \in 0 .. MaxFaults
         /\ Fault => faults' \in 0 .. MaxFaults
  BY BoundsAssumption DEF TypeOK, Fault

\* An event that is logged has its type.
LEMMA EventType ==
  ASSUME NEW q \in Requests, NEW o \in Orgs, NEW i \in Id \cup {None},
         NEW t \in {"org.created", "repo.created", "repo.updated", "repo.deleted"},
         activity \subseteq Event, Log(q, t, o, i)
  PROVE  /\ activity' \subseteq Event
         /\ \A e \in activity' : e \in activity \/ e.repo = i
  <1> DEFINE e == [type |-> t, org |-> o, repo |-> i, by |-> q]
  <1>1. e \in Event /\ e.repo = i
    BY DEF Event
  <1>2. activity' = activity \cup {e}
    BY DEF Log
  <1> HIDE DEF e
  <1>3. QED
    BY <1>1, <1>2

-----------------------------------------------------------------------------
(* create_org *)

\* A request begins: what is known of the record it starts from.
LEMMA Unused ==
  ASSUME IInv, NEW q \in Requests, requests[q] = NoRequest
  PROVE  /\ requests[q] \in Request /\ requests[q].pc = "idle"
         /\ requests[q].id = None /\ requests[q].body = None
  BY RequestType DEF IInv, NoRequest

\* A request that begins with a well-formed record that knows no row, or one.
LEMMA BeginMoves ==
  ASSUME IInv, NEW q \in Requests, requests[q] = NoRequest,
         NEW s \in Request, requests' = [requests EXCEPT ![q] = s], Shape(q, s),
         s.pc \in {"join", "init", "change", "erase_activity"},
         s.id \notin {None, q} => \E r \in repos : r.id = s.id /\ r.name = s.name
  PROVE  Moves(q) /\ requests'[q].pc \in {"join", "init", "change", "erase_activity"}
  <1>1. /\ requests' \in [Requests -> Request] /\ requests'[q] = s
        /\ \A p \in Requests \ {q} : requests'[p] = requests[p]
    BY DEF IInv, TypeOK
  <1>2. requests[q].pc = "idle" /\ requests[q].id = None
    BY Unused
  <1>3. Follows(requests[q].pc, s.pc)
    BY <1>2 DEF Follows
  <1>4. QED
    BY <1>1, <1>2, <1>3 DEF Moves

LEMMA CreateOrgKeeps ==
  ASSUME IInv, NEW q \in Requests, NEW u \in Users, NEW o \in Orgs, CreateOrg(q, u, o)
  PROVE  IInv'
  <1> DEFINE s == [requests[q] EXCEPT !.pc = "join", !.user = u, !.org = o]
  <1>1. requests[q] = NoRequest /\ requests' = [requests EXCEPT ![q] = s]
    BY DEF CreateOrg
  <1>2. /\ requests[q] \in Request /\ requests[q].pc = "idle"
        /\ requests[q].id = None /\ requests[q].body = None
    BY <1>1, Unused
  <1>3. s \in Request
    BY <1>2 DEF Request, Label
  <1>4. s.pc = "join" /\ s.id = None /\ s.body = None /\ s.user = u /\ s.org = o
    BY <1>2 DEF Request
  <1> HIDE DEF s
  <1>5. Shape(q, s)
    BY <1>4 DEF Shape
  <1>6. Moves(q) /\ requests'[q].pc \in {"join", "init", "change", "erase_activity"}
    BY <1>1, <1>3, <1>4, <1>5, BeginMoves
  <1>7. QED
    BY <1>6, Types, QuietStep DEF CreateOrg, provider, IInv

LEMMA JoinOrgKeeps ==
  ASSUME IInv, NEW q \in Requests, JoinOrg(q)
  PROVE  IInv'
  <1>1. Moves(q) /\ requests'[q].pc = "log_org"
    BY GotoMoves DEF JoinOrg, Follows, Label
  <1>2. requests[q].user \in Users /\ requests[q].org \in Orgs
    BY DEF IInv, RequestSound, Shape, JoinOrg
  <1>3. QED
    BY <1>1, <1>2, Types, QuietStep DEF JoinOrg, provider, IInv

LEMMA LogOrgKeeps ==
  ASSUME IInv, NEW q \in Requests, LogOrg(q)
  PROVE  IInv'
  <1>1. Moves(q) /\ requests'[q].pc = "done"
    BY GotoMoves DEF LogOrg, Follows, Label
  <1>2. requests[q].org \in Orgs
    BY DEF IInv, RequestSound, Shape, LogOrg
  <1>3. activity' \subseteq Event /\ \A e \in activity' : e \in activity \/ e.repo = None
    BY <1>2, EventType, Types DEF LogOrg, IInv
  <1>4. QED
    BY <1>1, <1>3, Types, QuietStep DEF LogOrg, provider, IInv

-----------------------------------------------------------------------------
(* create_repo *)

LEMMA CreateRepoKeeps ==
  ASSUME IInv, NEW q \in Requests, NEW u \in Users, NEW o \in Orgs, NEW n \in Names,
         NEW v \in Visibility, NEW mode \in Mode, NEW tags \in Tags,
         CreateRepo(q, u, o, n, v, mode, tags)
  PROVE  IInv'
  <1> DEFINE s == [requests[q] EXCEPT !.pc = "init", !.user = u, !.org = o, !.name = n,
                     !.id = q, !.visibility = v, !.mode = mode, !.tags = tags]
  <1>1. requests[q] = NoRequest /\ requests' = [requests EXCEPT ![q] = s]
    BY DEF CreateRepo
  <1>2. /\ requests[q] \in Request /\ requests[q].pc = "idle"
        /\ requests[q].id = None /\ requests[q].body = None
    BY <1>1, Unused
  <1>3. s \in Request
    BY <1>2 DEF Request, Label, Id
  <1>4. /\ s.pc = "init" /\ s.id = q /\ s.body = None /\ s.user = u /\ s.org = o /\ s.name = n
    BY <1>2 DEF Request
  <1> HIDE DEF s
  <1>5. Shape(q, s)
    BY <1>4, BootstrapAssumption DEF Shape
  <1>6. Moves(q) /\ requests'[q].pc \in {"join", "init", "change", "erase_activity"}
    BY <1>1, <1>3, <1>4, <1>5, BeginMoves
  <1>7. QED
    BY <1>6, Types, QuietStep DEF CreateRepo, database, provider, IInv

\* The request that creates: its name, and that nothing is known of it yet.
LEMMA CreationType ==
  ASSUME IInv, NEW q \in Requests,
         requests[q].pc \in {"init", "seed", "adopt", "insert", "grant", "log_create", "hook"}
  PROVE  /\ requests[q].id = q /\ requests[q].name \in Names
         /\ requests[q].user \in Users /\ requests[q].org \in Orgs
         /\ q \in Id /\ q # None
  BY BootstrapAssumption DEF IInv, RequestSound, Shape, Id

\* A step that stores: repositories and projects change, tables do not.
LEMMA StoreStep ==
  ASSUME IInv, NEW q \in Requests, Moves(q), Stores(q),
         UNCHANGED <<database, walk, now>>,
         requests'[q].pc \notin {"grant", "log_create", "unadopt"},
         vcs' \in [Names -> {"absent", "empty", "seeded"}],
         projects' \in [Names -> {"absent"} \cup Visibility],
         hooks' \subseteq Names, faults' \in 0 .. MaxFaults
  PROVE  IInv'
  <1>1. TypeOK'
    BY DEF IInv, TypeOK, Moves, database
  <1>2. Rows(q) /\ Tables(q) /\ WalkSound'
    BY TablesUnchanged, WalkUntouched DEF database
  <1>3. QED
    BY <1>1, <1>2, FramesKeep

LEMMA InitRepoKeeps ==
  ASSUME IInv, NEW q \in Requests, InitRepo(q)
  PROVE  IInv'
  <1> PICK n : n = requests[q].name
    OBVIOUS
  <1>1. n \in Names /\ requests[q].id = q /\ q # None
    BY CreationType DEF InitRepo
  <1>2. CASE vcs[n] = "absent"
    <2>1. Moves(q) /\ requests'[q].pc = "seed"
      BY <1>2, GotoMoves DEF InitRepo, Follows, Label
    <2>2. requests'[q].name = n
      BY <1>1, <2>1 DEF Moves
    <2>3. vcs' = [vcs EXCEPT ![n] = "empty"] /\ projects' = projects
      BY <1>2 DEF InitRepo
    <2>4. vcs' \in [Names -> {"absent", "empty", "seeded"}] /\ Stores(q)
      BY <1>1, <1>2, <2>1, <2>2, <2>3 DEF IInv, TypeOK, Stores
    <2>5. QED
      BY <2>1, <2>4, StoreStep DEF InitRepo, IInv, TypeOK
  <1>3. CASE vcs[n] # "absent"
    <2>1. Moves(q) /\ requests'[q].pc = "failed" /\ vcs' = vcs
      BY <1>3, GotoMoves DEF InitRepo, Follows, Label
    <2>2. QED
      BY <2>1, Types, QuietStep DEF InitRepo, database, IInv
  <1>4. QED
    BY <1>2, <1>3

LEMMA SeedRepoKeeps ==
  ASSUME IInv, NEW q \in Requests, SeedRepo(q)
  PROVE  IInv'
  <1> PICK n : n = requests[q].name
    OBVIOUS
  <1>1. n \in Names /\ requests[q].id = q /\ q # None
    BY CreationType DEF SeedRepo
  <1>2. Moves(q) /\ requests'[q].pc = "adopt"
    BY GotoMoves DEF SeedRepo, Follows, Label
  <1>3. requests'[q].name = n /\ vcs[n] # "absent"
    BY <1>1, <1>2 DEF Moves, IInv, RequestSound, Holding, SeedRepo
  <1>4. vcs' = [vcs EXCEPT ![n] = "seeded"] /\ projects' = projects
    BY DEF SeedRepo
  <1>5. vcs' \in [Names -> {"absent", "empty", "seeded"}] /\ Stores(q)
    BY <1>1, <1>2, <1>3, <1>4 DEF IInv, TypeOK, Stores
  <1>6. QED
    BY <1>2, <1>5, StoreStep DEF SeedRepo, IInv, TypeOK

LEMMA AdoptRepoKeeps ==
  ASSUME IInv, NEW q \in Requests, AdoptRepo(q)
  PROVE  IInv'
  <1> PICK n : n = requests[q].name
    OBVIOUS
  <1>1. n \in Names /\ requests[q].id = q /\ q # None
    BY CreationType DEF AdoptRepo
  <1>2. Moves(q) /\ requests'[q].pc = "insert"
    BY GotoMoves DEF AdoptRepo, Follows, Label
  <1>3. requests'[q].name = n
    BY <1>1, <1>2 DEF Moves
  <1>4. projects' = [projects EXCEPT ![n] = "public"] /\ vcs' = vcs
    BY DEF AdoptRepo
  <1>5. projects' \in [Names -> {"absent"} \cup Visibility] /\ Stores(q)
    BY <1>1, <1>2, <1>3, <1>4 DEF IInv, TypeOK, Visibility, Stores
  <1>6. QED
    BY <1>2, <1>5, StoreStep DEF AdoptRepo, IInv, TypeOK

LEMMA RegisterHookKeeps ==
  ASSUME IInv, NEW q \in Requests, RegisterHook(q)
  PROVE  IInv'
  <1>1. Moves(q) /\ requests'[q].pc = "done"
    BY GotoMoves DEF RegisterHook, Follows, Label
  <1>2. hooks' \subseteq Names /\ faults' \in 0 .. MaxFaults
    BY CreationType, Types DEF RegisterHook, IInv
  <1>3. QED
    BY <1>1, <1>2, Types, QuietStep DEF RegisterHook, database, IInv

LEMMA LogCreateKeeps ==
  ASSUME IInv, NEW q \in Requests, LogCreate(q)
  PROVE  IInv'
  <1>1. Moves(q) /\ requests'[q].pc = "hook"
    BY GotoMoves DEF LogCreate, Follows, Label
  <1>2. requests[q].org \in Orgs /\ q \in Id /\ HasRow(q)
    BY CreationType DEF LogCreate, Present, HasRow
  <1>3. activity' \subseteq Event /\ \A e \in activity' : e \in activity \/ e.repo = q
    BY <1>2, EventType, Types DEF LogCreate, IInv
  <1>4. QED
    BY <1>1, <1>2, <1>3, Types, QuietStep DEF LogCreate, provider, IInv

LEMMA GrantCreatorKeeps ==
  ASSUME IInv, NEW q \in Requests, GrantCreator(q)
  PROVE  IInv'
  <1>1. Moves(q) /\ requests'[q].pc = "log_create"
    BY GotoMoves DEF GrantCreator, Follows, Label
  <1>2. q \in Id /\ requests[q].user \in Users /\ requests[q].id = q /\ HasRow(q)
    BY CreationType DEF GrantCreator, Present, HasRow
  <1>3. grants' = grants \cup {<<q, requests[q].user>>} /\ repos' = repos
        /\ activity' = activity
    BY DEF GrantCreator
  <1>4. grants' \subseteq Id \X Users
    BY <1>2, <1>3 DEF IInv, TypeOK
  <1>5. TypeOK'
    BY <1>1, <1>4 DEF GrantCreator, provider, IInv, TypeOK, Moves
  <1>6. Attached'
    BY <1>2, <1>3 DEF IInv, Attached, HasRow
  <1>7. Rows(q) /\ RowsKept' /\ Stores(q) /\ WalkSound'
    BY <1>1, RowsUnchanged, StoresUnchanged, WalkUntouched DEF GrantCreator, provider
  <1>8. Tables(q)
    BY <1>1, <1>2, <1>3, <1>6, <1>7 DEF Tables, HasRow
  <1>9. QED
    BY <1>1, <1>5, <1>7, <1>8, FramesKeep

LEMMA TouchType ==
  ASSUME TypeOK, NEW i \in Id, Touch(i)
  PROVE  walk' \in Walk
  BY DEF Touch, TypeOK, Walk

\* A step on a row: what is left to check when tables and walk changed.
LEMMA RowStep ==
  ASSUME IInv, NEW q \in Requests, Moves(q), Rows(q), Tables(q), NEW i \in Id, Touch(i),
         UNCHANGED <<orgs, admins, provider, now, faults>>,
         requests'[q].pc \notin {"seed", "adopt", "insert"},
         repos' \subseteq Repo, grants' \subseteq grants, activity' \subseteq activity,
         \A s \in repos' : s.id # i => s \in repos,
         \A r \in repos : r.id # i => r \in repos',
         \A s \in repos' : s.id = i /\ i \in walk.seen =>
           s.updated = now /\ \E r \in repos : r.id = i /\ r.name = s.name
  PROVE  IInv'
  <1>1. TypeOK'
    BY TouchType DEF IInv, TypeOK, Moves, provider
  <1>2. Stores(q) /\ WalkSound'
    BY StoresUnchanged, WalkTouched DEF provider
  <1>3. QED
    BY <1>1, <1>2, FramesKeep

LEMMA InsertRowKeeps ==
  ASSUME IInv, NEW q \in Requests, InsertRow(q)
  PROVE  IInv'
  <1> DEFINE r == requests[q]
             taken == \E row \in repos : row.name = r.name /\ row.org = r.org
             row == [id |-> q, org |-> r.org, name |-> r.name, visibility |-> r.visibility,
                     mode |-> r.mode, tags |-> r.tags, updated |-> now]
  <1>1. /\ r.pc = "insert" /\ r.id = q /\ r.name \in Names /\ r.org \in Orgs
        /\ q \in Id /\ q # None
    BY CreationType DEF InsertRow
  <1>2. CASE PolicyValid(r.mode, r.tags) /\ ~taken
    <2>1. /\ repos' = repos \cup {row} /\ Touch(q) /\ Goto(q, "grant")
          /\ UNCHANGED <<orgs, admins, grants, activity, provider, now, faults>>
      BY <1>2 DEF InsertRow
    <2>2. Moves(q) /\ requests'[q].pc = "grant"
      BY <1>1, <2>1, GotoMoves DEF Follows, Label
    <2> PICK new : new = row
      OBVIOUS
    <2>3. new \in Repo
      BY <1>1, RequestType DEF IInv, TypeOK, Repo, Request
    <2>4. /\ new.id = q /\ new.name = r.name /\ new.updated = now
          /\ PolicyValid(new.mode, new.tags)
      BY <1>2
    <2> HIDE DEF row
    <2>5. (\A s \in repos : s.id # q) /\ q \notin walk.seen
      BY <1>1, NotYetInserted DEF Inserted
    <2>6. Rows(q)
      <3>1. IsFiniteSet(repos')
        BY <2>1, FS_AddElement DEF IInv
      <3>2. \A s, t \in repos' : s.id = t.id => s = t
        BY <2>1, <2>4, <2>5 DEF IInv, RowsDistinct
      <3>3. QED
        BY <2>1, <2>2, <2>4, <3>1, <3>2 DEF Rows, HasRow
    <2>7. RowsKept'
      <3>1. \A s \in repos : PolicyExplained(s)' /\ s.updated <= now'
        BY <2>1, <2>2, PolicyStays, RowType DEF IInv, RowsKept
      <3>2. PolicyExplained(new)'
        BY <2>4 DEF PolicyExplained
      <3>3. new.updated <= now'
        BY <2>1, <2>4, WalkType DEF IInv
      <3>4. repos' = repos \cup {new}
        BY <2>1
      <3>5. QED
        BY <3>1, <3>2, <3>3, <3>4 DEF RowsKept
    <2>8. Tables(q)
      BY <2>1, <2>2, <2>7 DEF IInv, Tables, Attached, HasRow
    <2>9. repos' \subseteq Repo
      BY <2>1, <2>3 DEF IInv, TypeOK
    <2>10. QED
      BY <1>1, <2>1, <2>2, <2>4, <2>5, <2>6, <2>8, <2>9, RowStep
  <1>3. CASE ~(PolicyValid(r.mode, r.tags) /\ ~taken)
    <2>1. Goto(q, "failed") /\ UNCHANGED <<repos, walk>>
      BY <1>3 DEF InsertRow
    <2>2. Moves(q) /\ requests'[q].pc = "failed"
      BY <1>1, <2>1, GotoMoves DEF Follows, Label
    <2>3. QED
      BY <2>1, <2>2, Types, QuietStep DEF InsertRow, provider, IInv
  <1>4. QED
    BY <1>2, <1>3

-----------------------------------------------------------------------------
(* update_repo *)

\* A request that begins with a row: the id, the name and the organisation of it.
LEMMA LookupType ==
  ASSUME IInv, NEW n, NEW r \in Lookup(n)
  PROVE  /\ r \in repos /\ r.name = n /\ r.id \in Id /\ r.id # None
         /\ r.name \in Names /\ r.org \in Orgs
  <1>1. r \in repos /\ r.name = n
    BY DEF Lookup
  <1>2. QED
    BY <1>1, BootstrapAssumption DEF IInv, TypeOK, Repo, Id

\* An update or deletion begins with a row that another request inserted.
LEMMA BeginWithRow ==
  ASSUME IInv, NEW q \in Requests, requests[q] = NoRequest,
         NEW n, NEW r \in Lookup(n), NEW u \in Users, NEW body \in Update \cup {None},
         NEW l \in {"change", "erase_activity"}, l = "change" <=> body # None,
         requests' = [requests EXCEPT ![q] =
           [@ EXCEPT !.pc = l, !.user = u, !.org = r.org, !.name = n, !.id = r.id,
                     !.body = body]]
  PROVE  Moves(q) /\ requests'[q].pc = l
  <1> DEFINE s == [requests[q] EXCEPT !.pc = l, !.user = u, !.org = r.org, !.name = n,
                     !.id = r.id, !.body = body]
  <1>1. requests' = [requests EXCEPT ![q] = s]
    OBVIOUS
  <1>2. /\ requests[q] \in Request /\ requests[q].pc = "idle"
        /\ requests[q].id = None /\ requests[q].body = None
    BY Unused
  <1>3. /\ r \in repos /\ r.name = n /\ r.id \in Id /\ r.id # None
        /\ n \in Names /\ r.org \in Orgs
    BY LookupType
  <1>4. s \in Request
    BY <1>2, <1>3 DEF Request, Label
  <1>5. /\ s.pc = l /\ s.id = r.id /\ s.body = body /\ s.user = u /\ s.org = r.org
        /\ s.name = n
    BY <1>2 DEF Request
  <1> HIDE DEF s
  <1>6. r.id # q
    BY <1>2, <1>3, NotYetInserted DEF Inserted
  <1>7. Shape(q, s)
    BY <1>3, <1>5, <1>6 DEF Shape
  <1>8. Moves(q)
    BY <1>1, <1>3, <1>4, <1>5, <1>7, BeginMoves
  <1>9. requests'[q] = s
    BY <1>1 DEF IInv, TypeOK
  <1>10. QED
    BY <1>5, <1>8, <1>9

LEMMA UpdateRepoKeeps ==
  ASSUME IInv, NEW q \in Requests, NEW u \in Users, NEW n \in Names, NEW body \in Updates,
         UpdateRepo(q, u, n, body)
  PROVE  IInv'
  <1>1. PICK r \in Lookup(n) :
          requests' = [requests EXCEPT ![q] =
            [@ EXCEPT !.pc = "change", !.user = u, !.org = r.org, !.name = n, !.id = r.id,
                      !.body = body]]
    BY DEF UpdateRepo
  <1>2. body \in Update \cup {None} /\ body # None
    BY UpdatesAssumption
  <1>3. Moves(q) /\ requests'[q].pc = "change"
    BY <1>1, <1>2, BeginWithRow DEF UpdateRepo
  <1>4. QED
    BY <1>3, Types, QuietStep DEF UpdateRepo, database, provider, IInv

\* What an update knows.
LEMMA UpdateType ==
  ASSUME IInv, NEW q \in Requests, requests[q].pc \in {"change", "patch", "log_update"}
  PROVE  /\ requests[q].body \in Update /\ requests[q].body # None
         /\ requests[q].id \in Id /\ requests[q].id # None
         /\ requests[q].name \in Names /\ requests[q].org \in Orgs
  BY ReferenceType, UpdatesAssumption DEF IInv, RequestSound, Shape

\* An update whose body is accepted leaves a valid policy, or emptied it itself.
LEMMA PolicyAfterUpdate ==
  ASSUME NEW b \in Update, BodyValid(b), NEW mode \in Mode, NEW tags \in Tags
  PROVE  \/ PolicyValid(Or(b.mode, mode), Or(b.tags, tags))
         \/ b.mode = "keep" /\ b.tags = "none"
         \/ b.mode = "keep" /\ b.tags = "keep"
  BY DEF BodyValid, PolicyValid, Or, Update, Mode, Tags

LEMMA ChangeRowKeeps ==
  ASSUME IInv, NEW q \in Requests, ChangeRow(q)
  PROVE  IInv'
  <1> DEFINE b == requests[q].body
             i == requests[q].id
             Changed(r) == [r EXCEPT !.visibility = Or(b.visibility, @), !.mode = Or(b.mode, @),
                                     !.tags = Or(b.tags, @), !.updated = now]
             After(r) == IF r.id # i THEN r ELSE Changed(r)
  <1>1. /\ b \in Update /\ b # None /\ i \in Id /\ i # None
        /\ requests[q].pc = "change" /\ BodyValid(b) /\ HasRow(i)
    BY UpdateType DEF ChangeRow, Present, HasRow
  <1>2. Moves(q) /\ requests'[q].pc = "patch"
    BY GotoMoves DEF ChangeRow, Follows, Label
  <1>3. /\ repos' = {After(r) : r \in repos}
        /\ Touch(i) /\ UNCHANGED <<orgs, admins, grants, activity, provider, now, faults>>
    BY DEF ChangeRow
  <1>4. ASSUME NEW r \in repos
        PROVE  /\ After(r) \in Repo /\ After(r).id = r.id /\ After(r).name = r.name
               /\ r.id # i => After(r) = r
               /\ r.id = i => /\ After(r).updated = now
                              /\ After(r).mode = Or(b.mode, r.mode)
                              /\ After(r).tags = Or(b.tags, r.tags)
    <2>1. r \in Repo /\ now \in 0 .. MaxTime
      BY DEF IInv, TypeOK
    <2>2. CASE r.id # i
      BY <2>1, <2>2
    <2>3. CASE r.id = i
      <3>1. PICK s : s = Changed(r)
        OBVIOUS
      <3>2. /\ s \in Repo /\ s.id = r.id /\ s.name = r.name /\ s.updated = now
            /\ s.mode = Or(b.mode, r.mode) /\ s.tags = Or(b.tags, r.tags)
        BY <1>1, <2>1, <3>1 DEF Repo, Update, Or, Visibility, Mode, Tags
      <3>3. After(r) = s
        BY <2>3, <3>1
      <3> HIDE DEF After
      <3>4. QED
        BY <2>3, <3>2, <3>3
    <2>4. QED
      BY <2>2, <2>3
  <1> HIDE DEF After
  <1>5. Rows(q)
    <2>1. IsFiniteSet(repos')
      <3>1. [r \in repos |-> After(r)] \in Surjection(repos, repos')
        BY <1>3 DEF Surjection
      <3>2. QED
        BY <3>1, FS_Surjection DEF IInv
    <2>2. \A s, t \in repos' : s.id = t.id => s = t
      BY <1>3, <1>4 DEF IInv, RowsDistinct
    <2>3. QED
      BY <1>2, <1>3, <1>4, <2>1, <2>2 DEF Rows
  <1>6. RowsKept'
    <2> SUFFICES ASSUME NEW r \in repos, NEW s, s = After(r)
                 PROVE  s.updated <= now' /\ PolicyExplained(s)'
      BY <1>3 DEF RowsKept
    <2>1. r.updated <= now /\ PolicyExplained(r) /\ r.id \in Id /\ now \in Nat
      BY RowType, WalkType DEF IInv, RowsKept
    <2>2. s.updated <= now'
      BY <1>3, <1>4, <2>1
    <2>3. PolicyExplained(r)'
      BY <1>2, <2>1, PolicyStays
    <2>4. PolicyExplained(s)'
      <3>1. CASE r.id # i
        BY <1>4, <2>3, <3>1
      <3>2. CASE r.id = i
        <4>1. s.id = i /\ s.mode = Or(b.mode, r.mode) /\ s.tags = Or(b.tags, r.tags)
          BY <1>4, <3>2
        <4>2. r.mode \in Mode /\ r.tags \in Tags
          BY DEF IInv, TypeOK, Repo
        <4>3. CASE PolicyValid(Or(b.mode, r.mode), Or(b.tags, r.tags))
          BY <4>1, <4>3 DEF PolicyExplained
        <4>4. CASE b.mode = "keep" /\ b.tags = "none"
          <5>1. requests'[q].id = i /\ requests'[q].body = b
            BY <1>1, <1>2 DEF Moves
          <5>2. QED
            BY <1>1, <4>1, <4>4, <5>1 DEF PolicyExplained
        <4>5. CASE b.mode = "keep" /\ b.tags = "keep"
          <5>1. s.mode = r.mode /\ s.tags = r.tags /\ s.id = r.id
            BY <3>2, <4>1, <4>5 DEF Or
          <5>2. QED
            BY <2>3, <5>1 DEF PolicyExplained
        <4>6. QED
          BY <1>1, <4>2, <4>3, <4>4, <4>5, PolicyAfterUpdate
      <3>3. QED
        BY <3>1, <3>2
    <2>5. QED
      BY <2>2, <2>4
  <1>7. Tables(q)
    BY <1>2, <1>3, <1>4, <1>6 DEF IInv, Tables, Attached, HasRow
  <1>8. /\ repos' \subseteq Repo
        /\ \A s \in repos' : s.id # i => s \in repos
        /\ \A r \in repos : r.id # i => r \in repos'
        /\ \A s \in repos' : s.id = i /\ i \in walk.seen =>
             s.updated = now /\ \E r \in repos : r.id = i /\ r.name = s.name
    BY <1>3, <1>4
  <1>9. QED
    BY <1>1, <1>2, <1>3, <1>5, <1>7, <1>8, RowStep

LEMMA RefuseBodyKeeps ==
  ASSUME IInv, NEW q \in Requests, RefuseBody(q)
  PROVE  IInv'
  <1>1. Moves(q) /\ requests'[q].pc = "failed"
    BY GotoMoves DEF RefuseBody, Follows, Label
  <1>2. QED
    BY <1>1, Types, QuietStep DEF RefuseBody, database, provider, IInv

LEMMA PatchProjectKeeps ==
  ASSUME IInv, NEW q \in Requests, PatchProject(q)
  PROVE  IInv'
  <1> DEFINE b == requests[q].body
             n == requests[q].name
  <1>1. b \in Update /\ n \in Names
    BY UpdateType DEF PatchProject
  <1>2. Moves(q) /\ requests'[q].pc = "log_update"
    BY GotoMoves DEF PatchProject, Follows, Label
  <1>3. /\ projects' \in [Names -> {"absent"} \cup Visibility] /\ faults' \in 0 .. MaxFaults
        /\ \A m \in Names : projects[m] # "absent" => projects'[m] # "absent"
    <2>1. projects \in [Names -> {"absent"} \cup Visibility] /\ faults \in 0 .. MaxFaults
      BY DEF IInv, TypeOK
    <2>2. b.visibility \in Visibility \cup {"keep"}
      BY <1>1 DEF Update
    <2>3. CASE projects' = [projects EXCEPT ![n] =
                             IF @ = "absent" THEN @ ELSE Or(b.visibility, @)]
               /\ faults' = faults
      BY <1>1, <2>1, <2>2, <2>3 DEF Or, Visibility
    <2>4. CASE Fault /\ projects' = projects
      BY <2>1, <2>4, Types DEF IInv
    <2>5. QED
      BY <2>3, <2>4 DEF PatchProject
  <1>4. Stores(q)
    BY <1>2, <1>3 DEF Stores, PatchProject
  <1>5. QED
    BY <1>2, <1>3, <1>4, StoreStep DEF PatchProject, IInv, TypeOK

LEMMA LogUpdateKeeps ==
  ASSUME IInv, NEW q \in Requests, LogUpdate(q)
  PROVE  IInv'
  <1> DEFINE i == requests[q].id
  <1>1. Moves(q) /\ requests'[q].pc = "done"
    BY GotoMoves DEF LogUpdate, Follows, Label
  <1>2. requests[q].org \in Orgs /\ i \in Id /\ HasRow(i)
    BY UpdateType DEF LogUpdate, Present, HasRow
  <1>3. activity' \subseteq Event /\ \A e \in activity' : e \in activity \/ e.repo = i
    BY <1>2, EventType, Types DEF LogUpdate, IInv
  <1>4. QED
    BY <1>1, <1>2, <1>3, Types, QuietStep DEF LogUpdate, provider, IInv

-----------------------------------------------------------------------------
(* delete_repo *)

LEMMA DeleteRepoKeeps ==
  ASSUME IInv, NEW q \in Requests, NEW u \in Users, NEW n \in Names, DeleteRepo(q, u, n)
  PROVE  IInv'
  <1>1. requests[q].body = None
    BY Unused DEF DeleteRepo
  <1>2. PICK r \in Lookup(n) :
          requests' = [requests EXCEPT ![q] =
            [@ EXCEPT !.pc = "erase_activity", !.user = u, !.org = r.org, !.name = n,
                      !.id = r.id]]
    BY DEF DeleteRepo
  <1>3. [requests[q] EXCEPT !.pc = "erase_activity", !.user = u, !.org = r.org, !.name = n,
                            !.id = r.id]
        = [requests[q] EXCEPT !.pc = "erase_activity", !.user = u, !.org = r.org, !.name = n,
                              !.id = r.id, !.body = None]
    BY <1>1, Unused DEF Request, DeleteRepo
  <1>4. requests' = [requests EXCEPT ![q] =
          [@ EXCEPT !.pc = "erase_activity", !.user = u, !.org = r.org, !.name = n,
                    !.id = r.id, !.body = None]]
    BY <1>2, <1>3, Zenon
  <1>5. Moves(q) /\ requests'[q].pc = "erase_activity"
    BY <1>4, BeginWithRow DEF DeleteRepo
  <1>6. QED
    BY <1>5, Types, QuietStep DEF DeleteRepo, database, provider, IInv

\* What a deletion knows.
LEMMA DeletionType ==
  ASSUME IInv, NEW q \in Requests,
         requests[q].pc \in {"erase_activity", "erase", "unadopt", "log_delete"}
  PROVE  /\ requests[q].id \in Id /\ requests[q].id \notin {None, q}
         /\ requests[q].name \in Names /\ requests[q].org \in Orgs
  BY ReferenceType DEF IInv, RequestSound, Shape

LEMMA EraseActivityKeeps ==
  ASSUME IInv, NEW q \in Requests, EraseActivity(q)
  PROVE  IInv'
  <1>1. Moves(q) /\ requests'[q].pc = "erase"
    BY GotoMoves DEF EraseActivity, Follows, Label
  <1>2. activity' \subseteq activity
    BY DEF EraseActivity
  <1>3. QED
    BY <1>1, <1>2, Types, QuietStep DEF EraseActivity, provider, IInv

LEMMA EraseRowKeeps ==
  ASSUME IInv, NEW q \in Requests, EraseRow(q)
  PROVE  IInv'
  <1> DEFINE i == requests[q].id
  <1>1. i \in Id /\ i \notin {None, q} /\ requests[q].pc = "erase" /\ HasRow(i)
    BY DeletionType DEF EraseRow, Present, HasRow
  <1>2. Moves(q) /\ requests'[q].pc = "unadopt"
    BY GotoMoves DEF EraseRow, Follows, Label
  <1>3. /\ repos' = {r \in repos : r.id # i}
        /\ grants' = {g \in grants : g[1] # i}
        /\ activity' = {e \in activity : e.repo # i}
        /\ Touch(i) /\ UNCHANGED <<orgs, admins, provider, now, faults>>
    BY DEF EraseRow
  <1>4. Rows(q)
    <2>1. IsFiniteSet(repos')
      BY <1>3, FS_Subset DEF IInv
    <2>2. QED
      BY <1>1, <1>2, <1>3, <2>1 DEF Rows, IInv, RowsDistinct
  <1>5. RowsKept'
    <2>1. \A r \in repos : PolicyExplained(r)'
      BY <1>2, PolicyStays, RowType DEF IInv, RowsKept
    <2>2. QED
      BY <1>3, <2>1 DEF IInv, RowsKept
  <1>6. Attached'
    BY <1>3 DEF IInv, Attached, HasRow
  <1>7. Tables(q)
    BY <1>2, <1>3, <1>5, <1>6 DEF Tables
  <1>8. /\ repos' \subseteq Repo /\ grants' \subseteq grants /\ activity' \subseteq activity
        /\ \A s \in repos' : s.id # i /\ s \in repos
        /\ \A r \in repos : r.id # i => r \in repos'
    BY <1>3 DEF IInv, TypeOK
  <1>9. QED
    BY <1>1, <1>2, <1>3, <1>4, <1>7, <1>8, RowStep

LEMMA UnadoptKeeps ==
  ASSUME IInv, NEW q \in Requests, Unadopt(q)
  PROVE  IInv'
  <1> PICK n : n = requests[q].name
    OBVIOUS
  <1>1. n \in Names /\ requests[q].id # None /\ requests[q].pc = "unadopt"
    BY DeletionType DEF Unadopt
  <1>2. Moves(q) /\ requests'[q].pc = "log_delete"
    BY GotoMoves DEF Unadopt, Follows, Label
  <1>3. requests'[q].name = n
    BY <1>1, <1>2 DEF Moves
  <1>4. /\ projects' \in [Names -> {"absent"} \cup Visibility] /\ faults' \in 0 .. MaxFaults
        /\ hooks' \subseteq Names
        /\ \A m \in Names \ {n} : projects'[m] = projects[m]
    <2>1. projects \in [Names -> {"absent"} \cup Visibility] /\ faults \in 0 .. MaxFaults
          /\ hooks \subseteq Names
      BY DEF IInv, TypeOK
    <2>2. CASE /\ projects' = [projects EXCEPT ![n] = "absent"]
               /\ hooks' = hooks \ {n} /\ faults' = faults
      BY <1>1, <2>1, <2>2
    <2>3. CASE Fault /\ projects' = projects /\ hooks' = hooks
      BY <2>1, <2>3, Types DEF IInv
    <2>4. QED
      BY <2>2, <2>3 DEF Unadopt
  <1>5. Stores(q)
    BY <1>1, <1>2, <1>3, <1>4 DEF Stores, Unadopt
  <1>6. QED
    BY <1>2, <1>4, <1>5, StoreStep DEF Unadopt, IInv, TypeOK

LEMMA LogDeleteKeeps ==
  ASSUME IInv, NEW q \in Requests, LogDelete(q)
  PROVE  IInv'
  <1>1. Moves(q) /\ requests'[q].pc = "done"
    BY GotoMoves DEF LogDelete, Follows, Label
  <1>2. requests[q].org \in Orgs
    BY DeletionType DEF LogDelete
  <1>3. activity' \subseteq Event /\ \A e \in activity' : e \in activity \/ e.repo = None
    BY <1>2, EventType, Types DEF LogDelete, IInv
  <1>4. QED
    BY <1>1, <1>3, Types, QuietStep DEF LogDelete, provider, IInv

-----------------------------------------------------------------------------
(* Failures *)

LEMMA RepoGoneKeeps ==
  ASSUME IInv, NEW q \in Requests, RepoGone(q)
  PROVE  IInv'
  <1>1. requests[q].pc \in {"grant", "log_create", "log_update", "erase", "change"}
    BY DEF RepoGone
  <1>2. Follows(requests[q].pc, "failed") /\ requests[q].pc # "idle"
    BY <1>1 DEF Follows
  <1>3. Moves(q) /\ requests'[q].pc = "failed"
    BY <1>2, GotoMoves DEF RepoGone, Label
  <1>4. QED
    BY <1>3, Types, QuietStep DEF RepoGone, database, provider, IInv

LEMMA CallFailsKeeps ==
  ASSUME IInv, NEW q \in Requests, CallFails(q)
  PROVE  IInv'
  <1>1. Moves(q) /\ requests'[q].pc = "failed"
    BY GotoMoves DEF CallFails, Follows, Label
  <1>2. QED
    BY <1>1, Types, QuietStep DEF CallFails, database, provider, IInv

-----------------------------------------------------------------------------
(* list_repos *)

\* A step of the client or of the clock keeps what is not the walk.
LEMMA NoRequestStep ==
  ASSUME IInv, UNCHANGED <<database, provider, requests, faults>>,
         now' \in 0 .. MaxTime, now <= now', walk' \in Walk, WalkSound'
  PROVE  IInv'
  <1>1. TypeOK'
    BY DEF IInv, TypeOK, database, provider
  <1>2. /\ orgs' = orgs /\ admins' = admins /\ repos' = repos /\ grants' = grants
        /\ activity' = activity /\ vcs' = vcs /\ projects' = projects /\ requests' = requests
    BY DEF database, provider
  <1>3. \A q \in Requests : RequestSound(q)' /\ Progress(q)'
    BY <1>2 DEF IInv, RequestSound, Progress, Refers, WasInserted, Created, HasRow, Deleted
  <1>4. (\A r \in repos' : RowSound(r)') /\ RowsDistinct' /\ IsFiniteSet(repos')
    BY <1>2 DEF IInv, RowSound, WasInserted, Created, RowsDistinct
  <1>5. HeldAlone'
    BY <1>2 DEF IInv, HeldAlone, Holds, Refers
  <1>6. RowsKept'
    <2> SUFFICES ASSUME NEW r \in repos PROVE r.updated <= now' /\ PolicyExplained(r)'
      BY <1>2 DEF RowsKept
    <2>1. r.updated <= now /\ PolicyExplained(r)
      BY DEF IInv, RowsKept
    <2>2. r.updated \in Nat /\ now \in Nat /\ now' \in Nat
      BY Numbers, RowType, WalkType DEF IInv
    <2>3. PolicyExplained(r)'
      BY <1>2, <2>1 DEF PolicyExplained
    <2>4. QED
      BY <2>1, <2>2, <2>3
  <1>7. Attached' /\ OrphansHaveACause'
    BY <1>2 DEF IInv, Attached, HasRow, OrphansHaveACause
  <1>8. QED
    BY <1>1, <1>3, <1>4, <1>5, <1>6, <1>7 DEF IInv

\* No two rows have one name, so no row is hidden.
LEMMA ListedMeans ==
  ASSUME IInv
  PROVE  Listed = {r \in repos : r.visibility = "public"}
  <1> SUFFICES ASSUME NEW r \in repos PROVE Lookup(r.name) = {r}
    BY DEF Listed
  <1>1. {s \in repos : s.name = r.name} = {r}
    BY DEF IInv, RowsDistinct
  <1>2. QED
    BY <1>1, FS_Singleton DEF Lookup

LEMMA StartWalkKeeps ==
  ASSUME IInv, StartWalk
  PROVE  IInv'
  <1> DEFINE ids == {r.id : r \in Listed}
             w == [NoWalk EXCEPT !.pc = "walking", !.start = ids]
  <1>1. ids \subseteq Id
    BY ListedMeans, RowType DEF IInv
  <1> HIDE DEF ids
  <1>2. w \in Walk
    BY <1>1 DEF NoWalk, Walk
  <1>3. /\ w.pc = "walking" /\ w.cursor = None /\ w.seen = {} /\ w.twice = {}
        /\ w.start = ids /\ w.touched = {}
    BY DEF NoWalk
  <1> HIDE DEF w
  <1>4. walk' = w /\ repos' = repos /\ now' = now
    BY DEF StartWalk, database, w, ids
  <1>5. \A i \in ids : \E r \in repos : r.id = i /\ r.visibility = "public"
    BY ListedMeans DEF ids
  <1>6. WalkSound'
    BY <1>3, <1>4, <1>5 DEF WalkSound, AfterCursor
  <1>7. now \in 0 .. MaxTime /\ now <= now
    BY WalkType DEF IInv, TypeOK
  <1>8. QED
    BY <1>2, <1>4, <1>6, <1>7, NoRequestStep DEF StartWalk

\* The rows in the order of the listing.
LEMMA Order ==
  ASSUME IInv, NEW r \in repos, NEW s \in repos
  PROVE  /\ r = s \/ Sooner(r, s) \/ Sooner(s, r)
         /\ ~Sooner(r, r)
         /\ \A t \in repos : Sooner(t, r) /\ Sooner(r, s) => Sooner(t, s)
  <1>1. \A t \in repos : t.updated \in Nat /\ t.name \in Nat
    BY Numbers, RowType, Zenon DEF IInv
  <1>2. r.name = s.name => r = s
    BY DEF IInv, RowsDistinct
  <1>3. QED
    BY <1>1, <1>2 DEF Sooner

\* What is left out by the cut comes after everything on the page.
LEMMA PageCut ==
  ASSUME IInv, NEW rest \in SUBSET repos, NEW page,
         page = Page(rest),
         NEW last \in page, NEW r \in rest \ page
  PROVE  Sooner(last, r)
  <1> DEFINE Before(x) == {s \in rest : Sooner(s, x)}
  <1>0. page = {x \in rest : Cardinality(Before(x)) < PageSize}
    BY DEF Page
  <1>1. SUFFICES ASSUME ~Sooner(last, r) PROVE r \in page
    OBVIOUS
  <1>2. last \in repos /\ r \in repos /\ last # r /\ r \in rest /\ last \in rest
    BY <1>0
  <1>3. Sooner(r, last)
    BY <1>1, <1>2, Order
  <1>4. Before(r) \subseteq Before(last)
    BY <1>2, <1>3, Order
  <1>5. IsFiniteSet(rest) /\ IsFiniteSet(Before(last)) /\ IsFiniteSet(Before(r))
    BY FS_Subset DEF IInv
  <1>6. Cardinality(Before(r)) <= Cardinality(Before(last))
    BY <1>4, <1>5, FS_Subset
  <1>7. Cardinality(Before(r)) \in Nat /\ Cardinality(Before(last)) \in Nat /\ PageSize \in Nat
    BY <1>5, FS_CardinalityType, BoundsAssumption
  <1> HIDE DEF Before
  <1>8. Cardinality(Before(last)) < PageSize
    BY <1>0
  <1>9. Cardinality(Before(r)) < PageSize
    BY <1>6, <1>7, <1>8
  <1>10. QED
    BY <1>0, <1>2, <1>9

\* A row that is not after the cursor is not after a later one either.
LEMMA CursorMoves ==
  ASSUME IInv, NEW r \in repos, NEW last \in repos,
         AfterCursor(last, walk.cursor), ~AfterCursor(r, walk.cursor)
  PROVE  Sooner(r, last)
  <1>1. walk.cursor # None
    BY DEF AfterCursor
  <1>2. walk.cursor[1] \in Nat /\ walk.cursor[2] \in Nat
    BY <1>1, WalkType DEF IInv
  <1>3. /\ r.updated \in Nat /\ r.name \in Nat
        /\ last.updated \in Nat /\ last.name \in Nat
    BY Numbers, RowType, Zenon DEF IInv
  <1>4. QED
    BY <1>1, <1>2, <1>3 DEF AfterCursor, Sooner

\* After the cursor of a row is what comes later.
LEMMA AfterRow ==
  ASSUME IInv, NEW r \in repos, NEW last \in repos
  PROVE  LET cursor == <<last.updated, last.name>> IN
         /\ Sooner(last, r) => AfterCursor(r, cursor)
         /\ r = last \/ Sooner(r, last) => ~AfterCursor(r, cursor)
  <1> DEFINE cursor == <<last.updated, last.name>>
  <1>1. /\ r.updated \in Nat /\ r.name \in Nat
        /\ last.updated \in Nat /\ last.name \in Nat
    BY Numbers, RowType, Zenon DEF IInv
  <1>2. cursor # None /\ cursor[1] = last.updated /\ cursor[2] = last.name
    BY CursorAssumption, RowType DEF IInv
  <1> HIDE DEF cursor
  <1>3. (Sooner(last, r) => AfterCursor(r, cursor)) /\ (r = last \/ Sooner(r, last) => ~AfterCursor(r, cursor))
    BY <1>1, <1>2 DEF AfterCursor, Sooner
  <1>4. QED
    BY <1>3 DEF cursor

\* The repositories of a page.
Ids(page) == {r.id : r \in page}

\* What a page does to the walk.
LEMMA PageStep ==
  ASSUME IInv, walk.pc = "walking",
         NEW rest, rest = Rest, NEW page, page = Page(rest),
         NEW ids, ids = Ids(page)
  PROVE  /\ rest \in SUBSET repos /\ page \subseteq rest /\ ids \subseteq Id
         /\ ids \cap walk.seen = {}
         /\ \A i \in ids : i \in Requests => Created(i) /\ requests[i].pc \in Inserted
         /\ \A r \in repos : r.id \in ids => r \in page
         /\ \A i \in walk.start \ walk.touched : i \notin walk.seen =>
              \E r \in rest : r.id = i /\ r.visibility = "public"
  <1>1. /\ rest \in SUBSET repos /\ page \subseteq rest
        /\ \A r \in rest : AfterCursor(r, walk.cursor)
    BY ListedMeans DEF Rest, Page
  <1>2. ids \subseteq Id
    BY <1>1, RowType DEF IInv, Ids
  <1>3. \A i \in ids : i \in Requests => Created(i) /\ requests[i].pc \in Inserted
    BY <1>1 DEF IInv, RowSound, WasInserted, Ids
  <1>4. ids \cap walk.seen = {}
    BY <1>1 DEF IInv, WalkSound, Ids
  <1>5. \A r \in repos : r.id \in ids => r \in page
    BY <1>1 DEF IInv, RowsDistinct, Ids
  <1>6. ASSUME NEW i \in walk.start \ walk.touched, i \notin walk.seen
        PROVE  \E r \in rest : r.id = i /\ r.visibility = "public"
    BY <1>6, ListedMeans DEF IInv, WalkSound, Rest
  <1>7. QED
    BY <1>1, <1>2, <1>3, <1>4, <1>5, <1>6

LEMMA ListPageKeeps ==
  ASSUME IInv, ListPage
  PROVE  IInv'
  <1> PICK rest : rest = Rest
    OBVIOUS
  <1> PICK page : page = Page(rest)
    OBVIOUS
  <1> PICK ids : ids = Ids(page)
    OBVIOUS
  <1> DEFINE shown == [walk EXCEPT !.seen = @ \cup ids, !.twice = @ \cup (ids \cap walk.seen)]
  <1>1. walk.pc = "walking" /\ UNCHANGED <<database, provider, requests, now, faults>>
    BY DEF ListPage
  <1>2. /\ rest \in SUBSET repos /\ page \subseteq rest /\ ids \subseteq Id
        /\ ids \cap walk.seen = {}
        /\ \A i \in ids : i \in Requests => Created(i) /\ requests[i].pc \in Inserted
        /\ \A r \in repos : r.id \in ids => r \in page
        /\ \A i \in walk.start \ walk.touched : i \notin walk.seen =>
             \E r \in rest : r.id = i /\ r.visibility = "public"
    BY <1>1, PageStep
  <1>a. \A r \in page : AfterCursor(r, walk.cursor)
    BY DEF Page, Rest
  <1>3. /\ shown \in Walk /\ shown.pc = walk.pc /\ shown.cursor = walk.cursor
        /\ shown.seen = walk.seen \cup ids /\ shown.twice = walk.twice
        /\ shown.start = walk.start /\ shown.touched = walk.touched
    <2>1. walk \in Walk
      BY DEF IInv, TypeOK
    <2>2. shown \in Walk
      BY <1>2, <2>1 DEF Walk
    <2>3. shown.twice = walk.twice \cup (ids \cap walk.seen)
      BY <2>1 DEF Walk
    <2>4. /\ shown.pc = walk.pc /\ shown.cursor = walk.cursor
          /\ shown.seen = walk.seen \cup ids
          /\ shown.start = walk.start /\ shown.touched = walk.touched
      BY <2>1 DEF Walk
    <2>5. QED
      BY <1>2, <2>2, <2>3, <2>4
  <1>4. WalkSound
    BY DEF IInv
  <1>5. \A i \in walk.seen \cup ids : i \in Requests => Created(i)' /\ requests'[i].pc \in Inserted
    BY <1>1, <1>2, <1>4 DEF WalkSound, Created
  <1>6. repos' = repos /\ now' = now /\ now \in 0 .. MaxTime /\ now <= now
    BY <1>1, WalkType DEF database, IInv, TypeOK
  <1>7. CASE page = rest /\ walk' = [shown EXCEPT !.pc = "ended"]
    <2> HIDE DEF shown
    <2>1. /\ walk' \in Walk /\ walk'.pc = "ended" /\ walk'.cursor = walk.cursor
          /\ walk'.seen = walk.seen \cup ids /\ walk'.twice = walk.twice
          /\ walk'.start = walk.start /\ walk'.touched = walk.touched
      BY <1>3, <1>7 DEF Walk
    <2>2. walk.start \ walk.touched \subseteq walk.seen \cup ids
      BY <1>2, <1>7 DEF Ids
    <2>3. WalkSound'
      BY <1>4, <1>5, <1>6, <2>1, <2>2 DEF WalkSound
    <2>4. QED
      BY <1>1, <1>6, <2>1, <2>3, NoRequestStep
  <1>8. ASSUME NEW last \in page, \A r \in page \ {last} : Sooner(r, last),
               walk' = [shown EXCEPT !.cursor = <<last.updated, last.name>>]
        PROVE  IInv'
    <2> HIDE DEF shown
    <2> PICK cursor : cursor = <<last.updated, last.name>>
      OBVIOUS
    <2>0. last \in repos /\ AfterCursor(last, walk.cursor)
      BY <1>2, <1>a
    <2>1. cursor \in (0 .. MaxTime) \X Names /\ cursor # None /\ cursor[1] <= now
      BY <2>0, CursorAssumption, RowType DEF IInv, RowsKept
    <2>2. /\ walk' \in Walk /\ walk'.pc = "walking" /\ walk'.cursor = cursor
          /\ walk'.seen = walk.seen \cup ids /\ walk'.twice = walk.twice
          /\ walk'.start = walk.start /\ walk'.touched = walk.touched
      BY <1>1, <1>3, <1>8, <2>1 DEF Walk
    <2>3. \A r \in repos : /\ Sooner(last, r) => AfterCursor(r, cursor)
                           /\ r = last \/ Sooner(r, last) => ~AfterCursor(r, cursor)
      BY <2>0, AfterRow
    <2>4. ASSUME NEW r \in repos, r.id \in walk.seen \cup ids PROVE ~AfterCursor(r, cursor)
      <3>1. CASE r.id \in ids
        BY <1>2, <1>8, <2>3, <3>1
      <3>2. CASE r.id \in walk.seen
        <4>1. ~AfterCursor(r, walk.cursor)
          BY <1>1, <1>4, <3>2 DEF WalkSound
        <4>2. QED
          BY <2>0, <2>3, <4>1, CursorMoves
      <3>3. QED
        BY <2>4, <3>1, <3>2
    <2>5. ASSUME NEW i \in walk.start \ walk.touched, i \notin walk.seen \cup ids
          PROVE  \E r \in repos : /\ r.id = i /\ r.visibility = "public"
                                  /\ AfterCursor(r, cursor)
      <3>1. PICK r \in rest : r.id = i /\ r.visibility = "public"
        BY <1>2, <2>5
      <3>2. r \in rest \ page /\ r \in repos
        BY <1>2, <2>5, <3>1 DEF Ids
      <3>3. Sooner(last, r)
        BY <1>2, <3>2, PageCut
      <3>4. QED
        BY <2>3, <3>1, <3>2, <3>3
    <2>6. WalkSound'
      BY <1>4, <1>5, <1>6, <2>1, <2>2, <2>4, <2>5 DEF WalkSound
    <2>7. QED
      BY <1>1, <1>6, <2>2, <2>6, NoRequestStep
  <1>9. QED
    BY <1>7, <1>8 DEF ListPage, Ids

LEMMA TickKeeps ==
  ASSUME IInv, Tick
  PROVE  IInv'
  <1>1. now' = now + 1 /\ UNCHANGED <<database, provider, requests, walk, faults>>
        /\ now < MaxTime
    BY DEF Tick
  <1>2. now \in Nat /\ MaxTime \in Nat /\ now' \in 0 .. MaxTime /\ now <= now'
    BY <1>1, WalkType, BoundsAssumption DEF IInv
  <1>3. repos' = repos /\ requests' = requests /\ walk' = walk
    BY <1>1 DEF database
  <1>4. walk.cursor # None => walk.cursor[1] <= now'
    BY <1>1, <1>2, WalkType DEF IInv, WalkSound
  <1>5. WalkSound'
    BY <1>3, <1>4 DEF IInv, WalkSound, Created
  <1>6. QED
    BY <1>1, <1>2, <1>3, <1>5, NoRequestStep DEF IInv, TypeOK

-----------------------------------------------------------------------------
(* The invariant *)

\* What was made in earlier days is complete: every row has its repository, its
\* project and its grant, and no name was used twice.
LEMMA InitIInv == Init => IInv
  <1> SUFFICES ASSUME Init PROVE IInv
    OBVIOUS
  <1>0. PICK old \in SUBSET Existing : \E name \in Injection(old, Names) :
          LET used == {name[i] : i \in old} IN
          /\ repos = {[id |-> i, org |-> Bootstrap, name |-> name[i], visibility |-> "public",
                       mode |-> "public", tags |-> "none", updated |-> 0] : i \in old}
          /\ grants = {<<i, Operator>> : i \in old}
          /\ vcs = [n \in Names |-> IF n \in used THEN "seeded" ELSE "absent"]
          /\ projects = [n \in Names |-> IF n \in used THEN "public" ELSE "absent"]
          /\ hooks = used
    BY DEF Init
  <1>1. PICK name \in Injection(old, Names) :
          /\ repos = {[id |-> i, org |-> Bootstrap, name |-> name[i], visibility |-> "public",
                       mode |-> "public", tags |-> "none", updated |-> 0] : i \in old}
          /\ grants = {<<i, Operator>> : i \in old}
          /\ vcs = [n \in Names |-> IF n \in {name[i] : i \in old} THEN "seeded" ELSE "absent"]
          /\ projects = [n \in Names |->
                           IF n \in {name[i] : i \in old} THEN "public" ELSE "absent"]
          /\ hooks = {name[i] : i \in old}
    BY <1>0
  <1>2. /\ activity = {} /\ requests = [q \in Requests |-> NoRequest]
        /\ walk = NoWalk /\ now = 0 /\ faults = 0
    BY DEF Init
  <1> DEFINE row(i) == [id |-> i, org |-> Bootstrap, name |-> name[i], visibility |-> "public",
                        mode |-> "public", tags |-> "none", updated |-> 0]
  <1>3. /\ name \in [old -> Names] /\ old \subseteq Id /\ old \cap Requests = {}
        /\ \A i, j \in old : name[i] = name[j] => i = j
    BY ExistingAssumption DEF Injection, IsInjective, Id
  <1>4. \A r \in repos : \E i \in old : r = row(i)
    BY <1>1
  <1>5. ASSUME NEW r \in repos
        PROVE  /\ r \in Repo /\ r.id \in old /\ r.name = name[r.id] /\ r.updated = 0
               /\ PolicyValid(r.mode, r.tags)
    <2>1. PICK i \in old : r = row(i)
      BY <1>4
    <2>2. /\ r.id = i /\ r.org = Bootstrap /\ r.name = name[i] /\ r.visibility = "public"
          /\ r.mode = "public" /\ r.tags = "none" /\ r.updated = 0
      BY <2>1
    <2>3. row(i) \in Repo
      BY <1>3, BootstrapAssumption, BoundsAssumption DEF Repo, Visibility, Mode, Tags
    <2>4. QED
      BY <2>1, <2>2, <2>3 DEF PolicyValid
  <1>6. ASSUME NEW i \in old PROVE HasRow(i)
    <2>1. row(i) \in repos /\ row(i).id = i
      BY <1>1
    <2>2. QED
      BY <2>1 DEF HasRow
  <1>7. IsFiniteSet(repos)
    <2>1. IsFiniteSet(old)
      BY ExistingAssumption, FS_Subset
    <2>2. [i \in old |-> row(i)] \in Surjection(old, repos)
      BY <1>1 DEF Surjection
    <2>3. QED
      BY <2>1, <2>2, FS_Surjection
  <1>8. ASSUME NEW q \in Requests
        PROVE  /\ requests[q] \in Request /\ requests[q].pc = "idle"
               /\ requests[q].id = None /\ requests[q].body = None /\ q # None
    BY <1>2, BootstrapAssumption
    DEF NoRequest, Request, Label, Mode, Tags, Visibility
  <1>9. /\ walk \in Walk /\ walk.pc = "idle" /\ walk.cursor = None /\ walk.seen = {}
        /\ walk.twice = {} /\ walk.start = {}
    BY <1>2 DEF NoWalk, Walk
  <1>10. orgs \subseteq Orgs /\ admins \subseteq Orgs \X Users
    BY BootstrapAssumption DEF Init
  <1>11. TypeOK
    <2>1. grants \subseteq Id \X Users /\ hooks \subseteq Names
      BY <1>1, <1>3, BootstrapAssumption
    <2>2. vcs \in [Names -> {"absent", "empty", "seeded"}]
          /\ projects \in [Names -> {"absent"} \cup Visibility]
      BY <1>1 DEF Visibility
    <2>3. requests \in [Requests -> Request]
      BY <1>2, <1>8
    <2>4. QED
      BY <1>2, <1>5, <1>9, <1>10, <2>1, <2>2, <2>3, BoundsAssumption DEF TypeOK
  <1>12. \A q \in Requests : RequestSound(q) /\ Progress(q)
    BY <1>8 DEF RequestSound, Progress, Shape, Refers, Created, Holding
  <1>13. HeldAlone
    BY <1>8 DEF HeldAlone, Holds, Holding
  <1>14. \A r \in repos : RowSound(r)
    BY <1>1, <1>3, <1>5 DEF RowSound, WasInserted
  <1>15. RowsDistinct
    <2> SUFFICES ASSUME NEW r \in repos, NEW s \in repos, r.id = s.id \/ r.name = s.name
                 PROVE  r = s
      BY DEF RowsDistinct
    <2>1. PICK i \in old : r = row(i)
      BY <1>4
    <2>2. PICK j \in old : s = row(j)
      BY <1>4
    <2>3. r.id = i /\ s.id = j /\ r.name = name[i] /\ s.name = name[j]
      BY <2>1, <2>2
    <2>4. i = j
      BY <1>3, <2>3
    <2>5. QED
      BY <2>1, <2>2, <2>4
  <1>16. RowsKept
    BY <1>2, <1>5 DEF RowsKept, PolicyExplained
  <1>17. Attached
    BY <1>1, <1>2, <1>6 DEF Attached
  <1>18. OrphansHaveACause
    <2> SUFFICES ASSUME NEW n \in Names, vcs[n] # "absent" PROVE \E r \in repos : r.name = n
      BY DEF OrphansHaveACause
    <2>1. PICK i \in old : n = name[i]
      BY <1>1
    <2>2. PICK r \in repos : r.id = i
      BY <1>6 DEF HasRow
    <2>3. QED
      BY <1>5, <2>1, <2>2
  <1>19. WalkSound
    BY <1>9 DEF WalkSound
  <1>20. QED
    BY <1>7, <1>11, <1>12, <1>13, <1>14, <1>15, <1>16, <1>17, <1>18, <1>19 DEF IInv

\* Every step keeps the invariant: requests, failures, the client and the clock.
LEMMA StepIInv == IInv /\ [Next]_vars => IInv'
  <1> SUFFICES ASSUME IInv, [Next]_vars PROVE IInv'
    OBVIOUS
  <1>1. ASSUME NEW q \in Requests, NEW u \in Users, Arrive(q, u) PROVE IInv'
    <2>1. "none" \in Tags
      BY DEF Tags
    <2>2. QED
      BY <1>1, <2>1, CreateOrgKeeps, CreateRepoKeeps, UpdateRepoKeeps, DeleteRepoKeeps DEF Arrive
  <1>2. ASSUME NEW q \in Requests, CreateStep(q) PROVE IInv'
    BY <1>2, InitRepoKeeps, SeedRepoKeeps, AdoptRepoKeeps, InsertRowKeeps, GrantCreatorKeeps,
       LogCreateKeeps, RegisterHookKeeps DEF CreateStep
  <1>3. ASSUME NEW q \in Requests, UpdateStep(q) \/ DeleteStep(q) PROVE IInv'
    BY <1>3, ChangeRowKeeps, RefuseBodyKeeps, PatchProjectKeeps, LogUpdateKeeps,
       EraseActivityKeeps, EraseRowKeeps, UnadoptKeeps, LogDeleteKeeps
    DEF UpdateStep, DeleteStep
  <1>4. CASE UNCHANGED vars
    <2>1. /\ UNCHANGED <<database, provider, requests, faults>> /\ now' = now /\ walk' = walk
          /\ repos' = repos /\ requests' = requests
      BY <1>4 DEF vars, database, provider
    <2>2. WalkSound'
      BY <2>1 DEF IInv, WalkSound, Created
    <2>3. now \in 0 .. MaxTime /\ now <= now /\ walk \in Walk
      BY WalkType DEF IInv, TypeOK
    <2>4. QED
      BY <2>1, <2>2, <2>3, NoRequestStep
  <1>5. QED
    BY <1>1, <1>2, <1>3, <1>4, JoinOrgKeeps, LogOrgKeeps, RepoGoneKeeps, CallFailsKeeps,
       StartWalkKeeps, ListPageKeeps, TickKeeps DEF Next

\* The invariant holds of every reachable state.
THEOREM InvariantHolds == Spec => []IInv
  BY InitIInv, StepIInv, PTL DEF Spec

-----------------------------------------------------------------------------
(* The properties *)

\* Whatever creations, updates and deletions overlap and wherever they fail: the
\* rows the gateway routes by have unambiguous names, a seeded repository, a
\* project, and a network policy that is valid unless an update emptied it.
\* (create_repo, update_repo, delete_repo)
THEOREM RowsTheorem == Spec => []RowsAreSound
  <1>1. IInv => RowsAreSound
    BY DEF IInv, RowsAreSound, NamesAreUnambiguous, RowsDistinct, RowsAreBacked, RowSound,
       UntaggedHasACause, RowsKept, PolicyExplained
  <1>2. QED
    BY <1>1, InvariantHolds, PTL

\* A repository without a row is owed to a creation that is under way or failed,
\* or to a deletion. (create_repo, delete_repo: nothing is undone)
THEOREM OrphansTheorem == Spec => []OrphansHaveACause
  <1>1. IInv => OrphansHaveACause
    BY DEF IInv
  <1>2. QED
    BY <1>1, InvariantHolds, PTL

\* A creation that was answered has its row and its grant until a deletion takes
\* them, and no grant or event outlives its row. (insert_repo, delete_repo_row)
THEOREM CreationsTheorem == Spec => []AnsweredCreations
  <1>1. IInv => AnsweredCreations
    <2> SUFFICES ASSUME IInv PROVE AnsweredCreations
      OBVIOUS
    <2>1. ASSUME NEW q \in Requests, requests[q].pc = "done", requests[q].id = q
          PROVE  \/ \E r \in repos : r.id = q /\ <<q, requests[q].user>> \in grants
                 \/ Deleted(q)
      BY <2>1 DEF IInv, Progress, Created, HasRow
    <2>2. QED
      BY <2>1 DEF IInv, AnsweredCreations, Attached, HasRow, Deleted, Gone
  <1>2. QED
    BY <1>1, InvariantHolds, PTL

\* Page by page nothing is shown twice, and at the end everything was shown that
\* could be seen at the start and was not touched. (paginate_repos)
THEOREM WalksTheorem == Spec => []WalksAreComplete
  <1>1. IInv => WalksAreComplete
    BY DEF IInv, WalkSound, WalksAreComplete
  <1>2. QED
    BY <1>1, InvariantHolds, PTL

=============================================================================
