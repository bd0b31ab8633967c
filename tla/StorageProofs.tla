---------------------------- MODULE StorageProofs ----------------------------
(***************************************************************************)
(* Theorems about the two stores: ArachneStorage, which keeps large files, *)
(* and VcsEngine, which keeps the commits and operations of repositories.  *)
(* They share no state; each theorem is about one of the specifications,   *)
(* for every value of its constants.                                       *)
(*                                                                         *)
(* ArachneStorage: its inductive invariant, IInv, says of every entry that *)
(* it resolves, of every upload how its segments, its xorb and the content *)
(* it was sent belong together (UploadSound), of every download which      *)
(* bytes it has sent (Faithful), and of the entries on disk and of the     *)
(* pointers where else they are to be found.                               *)
(*                                                                         *)
(* VcsEngine: LogInv, inductive whatever calls overlap, says that the      *)
(* operation log is closed under ancestors, and that a call works on an    *)
(* operation of the log, which may have ceased to be a head long ago.      *)
(* SerialInv, inductive when calls do not overlap, says that the log is a  *)
(* line of operations that agree with the git ref they record, and that    *)
(* what landed is in the history of whatever main is about to become; the  *)
(* lemmas before it say what jj's rewriting keeps of the commit graph.     *)
(* VisibleInv, inductive whatever calls overlap, says that every operation *)
(* shows the commits that the operations before it showed, or newer ones   *)
(* of their changes.                                                       *)
(* TurnsInv adds, for a queue whose submissions meet no mishap, commit or  *)
(* restore, that the turn is the submission's (AloneInv), and that no      *)
(* merge of the log takes main off the line of a main that a submission    *)
(* built on (Core).                                                        *)
(***************************************************************************)
EXTENDS ArachneStorage, VcsEngine, Integers, SequenceTheorems, FiniteSetTheorems,
        WellFoundedInduction, TLAPS

-----------------------------------------------------------------------------
(* ArachneStorage: entries, uploads and downloads *)

\* The entry's xorbs are stored, and hold what it says.
Resolves(e) ==
  IF e.kind = "xorb" THEN e.xorb \in xorbs
  ELSE /\ [k \in DOMAIN e.segments |-> e.segments[k].chunk] = e.file
       /\ \A k \in DOMAIN e.segments :
            e.segments[k].xorb \in xorbs /\ Contains(e.segments[k].xorb, e.segments[k].chunk)

\* A segment names a stored xorb that holds its chunk, or waits for the xorb
\* that is being filled.
SegmentSound(u, s) ==
  IF s.xorb = <<>> THEN Contains(uploads[u].new, s.chunk)
  ELSE s.xorb \in xorbs /\ Contains(s.xorb, s.chunk)

\* Segments and chunks still to do make up the content.
Covers(segments, todo, sent) ==
  /\ Len(segments) + Len(todo) = Len(sent)
  /\ \A k \in 1 .. Len(segments) : segments[k].chunk = sent[k]
  /\ \A k \in 1 .. Len(todo) : todo[k] = sent[Len(segments) + k]

UploadSound(u) ==
  /\ uploads[u].pc \notin {"idle", "answered"} => uploads[u].payload \in Payloads
  /\ \A k \in 1 .. Len(uploads[u].segments) : SegmentSound(u, uploads[u].segments[k])
  /\ Covers(uploads[u].segments, uploads[u].todo, uploads[u].sent)
  /\ uploads[u].pc \in {"put_xorb", "index_xorb"} => uploads[u].new # <<>>
  /\ uploads[u].pc = "index_xorb" => uploads[u].new \in xorbs
  /\ uploads[u].pc = "flush" => uploads[u].sent \in FilesIn(memory \cup disk)
  /\ uploads[u].pc = "put_shard" => uploads[u].sent \in FilesIn(disk)
  /\ uploads[u].taken \subseteq disk
  /\ uploads[u].taken # {} => uploads[u].pc = "put_shard"

\* Where a download stands: what it still has to send are the last segments of
\* the file, and what it has sent is the range up to the segment it is at.
Bounded(dl) ==
  /\ dl.offset <= dl.end /\ dl.end <= Len(dl.file) * ChunkBytes
  /\ Len(dl.out) <= dl.end - dl.offset
  /\ \A k \in 1 .. Len(dl.out) : dl.out[k] = BytesOf(dl.file)[dl.offset + k]

Remaining(dl) ==
  /\ Len(dl.segments) <= Len(dl.file)
  /\ dl.start = (Len(dl.file) - Len(dl.segments)) * ChunkBytes
  /\ \A k \in 1 .. Len(dl.segments) :
       dl.segments[k].chunk = dl.file[(Len(dl.file) - Len(dl.segments)) + k]

Reached(dl) ==
  Len(dl.out) = IF dl.start <= dl.offset THEN 0 ELSE Least(dl.start, dl.end) - dl.offset

Faithful(dl) ==
  /\ Bounded(dl)
  /\ dl.pc = "streaming" => Remaining(dl) /\ Reached(dl)
  /\ dl.pc = "ended" => Len(dl.out) = dl.end - dl.offset

EntriesResolve == \A e \in (memory \cup disk) \cup shards : Resolves(e)

Taken == UNION {uploads[u].taken : u \in Uploads}

DiskAccounted == disk \subseteq (shards \cup adrift) \cup Taken

PointersHeld == \A ptr \in pointers : ptr[2] = ptr[1] /\ ptr[2] \in FilesIn(disk \cup adrift)

IInv ==
  /\ TypeOK
  /\ EntriesResolve
  /\ \A u \in Uploads : UploadSound(u)
  /\ \A d \in Downloads : Faithful(downloads[d])
  /\ DiskAccounted
  /\ PointersHeld

-----------------------------------------------------------------------------
(* Lemmas about sequences *)

\* What BoundedSeq means.
LEMMA BoundedSeqMeans ==
  ASSUME NEW S, NEW n \in Nat, NEW s
  PROVE  s \in BoundedSeq(S, n) <=> s \in Seq(S) /\ Len(s) <= n
  <1>1. ASSUME NEW m \in 0 .. n, s \in [1 .. m -> S] PROVE s \in Seq(S) /\ Len(s) <= n
    BY <1>1
  <1>2. ASSUME s \in Seq(S), Len(s) <= n PROVE Len(s) \in 0 .. n /\ s \in [1 .. Len(s) -> S]
    BY <1>2, LenProperties
  <1>3. QED
    BY <1>1, <1>2 DEF BoundedSeq, SeqOf

\* A sequence keeps what it contains when it grows, and contains what is appended.
LEMMA AppendContains ==
  ASSUME NEW S, NEW s \in Seq(S), NEW e \in S
  PROVE  /\ Contains(Append(s, e), e)
         /\ \A x : Contains(s, x) => Contains(Append(s, e), x)
  <1>1. Len(s) \in Nat /\ Len(Append(s, e)) = Len(s) + 1 /\ Append(s, e)[Len(s) + 1] = e
    BY AppendProperties, LenProperties
  <1>2. \A i \in 1 .. Len(s) : Append(s, e)[i] = s[i]
    BY AppendProperties
  <1>3. QED
    BY <1>1, <1>2 DEF Contains

\* A sequence that contains something is not empty.
LEMMA ContainsNonempty ==
  ASSUME NEW S, NEW s \in Seq(S), NEW x, Contains(s, x)
  PROVE  s # <<>>
  BY EmptySeq DEF Contains

\* Appending a segment for the head of what is to do keeps the content covered.
LEMMA CoversStep ==
  ASSUME NEW segments \in Seq(Segment), NEW todo \in Seq(Chunks), NEW sent \in Seq(Chunks),
         todo # <<>>, NEW s \in Segment, s.chunk = Head(todo), Covers(segments, todo, sent)
  PROVE  Covers(Append(segments, s), Tail(todo), sent)
  <1> DEFINE longer == Append(segments, s)
             rest == Tail(todo)
  <1>1. /\ Len(segments) \in Nat /\ Len(todo) \in Nat \ {0} /\ Len(sent) \in Nat
        /\ Len(longer) = Len(segments) + 1 /\ Len(rest) = Len(todo) - 1
    BY LenProperties, EmptySeq, AppendProperties, HeadTailProperties
  <1>2. /\ \A k \in 1 .. Len(segments) : longer[k] = segments[k]
        /\ longer[Len(segments) + 1] = s
    BY AppendProperties
  <1>3. \A k \in 1 .. Len(rest) : rest[k] = todo[k + 1]
    BY HeadTailProperties
  <1>4. Head(todo) = todo[1]
    OBVIOUS
  <1> HIDE DEF longer, rest
  <1>5. Len(longer) + Len(rest) = Len(sent)
    <2>1. Len(segments) + Len(todo) = Len(sent)
      BY DEF Covers
    <2>2. QED
      BY <1>1, <2>1
  <1>6. ASSUME NEW k \in 1 .. Len(longer) PROVE longer[k].chunk = sent[k]
    <2>1. CASE k = Len(segments) + 1
      BY <1>1, <1>2, <1>4, <2>1 DEF Covers
    <2>2. CASE k # Len(segments) + 1
      BY <1>1, <1>2, <2>2 DEF Covers
    <2>3. QED
      BY <2>1, <2>2
  <1>7. ASSUME NEW k \in 1 .. Len(rest) PROVE rest[k] = sent[Len(longer) + k]
    <2>1. k + 1 \in 1 .. Len(todo) /\ Len(segments) + (k + 1) = Len(longer) + k
      BY <1>1
    <2>2. QED
      BY <1>3, <2>1 DEF Covers
  <1>8. Covers(longer, rest, sent)
    BY <1>5, <1>6, <1>7 DEF Covers
  <1>9. QED
    BY <1>8 DEF longer, rest

-----------------------------------------------------------------------------
(* Lemmas about the bytes of a content *)

\* Division undoes the layout of chunks in a content.
LEMMA Layout ==
  ASSUME NEW b \in Nat \ {0}, NEW i \in Nat, NEW x \in 0 .. b - 1
  PROVE  (i * b + x) \div b = i /\ (i * b + x) % b = x
  <1> DEFINE q == (i * b + x) \div b
             r == (i * b + x) % b
  <1>1. i * b \in Nat
    OBVIOUS
  <1>2. q \in Int /\ r \in 0 .. b - 1 /\ i * b + x = q * b + r
    BY <1>1
  <1> HIDE DEF q, r
  <1>3. q >= i
    <2> SUFFICES ASSUME q + 1 <= i PROVE FALSE
      BY <1>2
    <2>1. (q + 1) * b <= i * b
      BY <1>2
    <2>2. q * b + b <= i * b
      BY <1>2, <2>1
    <2>3. QED
      BY <1>1, <1>2, <2>2
  <1>4. q <= i
    <2> SUFFICES ASSUME i + 1 <= q PROVE FALSE
      BY <1>2
    <2>1. (i + 1) * b <= q * b
      BY <1>2
    <2>2. i * b + b <= q * b
      BY <1>2, <2>1
    <2>3. QED
      BY <1>1, <1>2, <2>2
  <1>5. q = i
    BY <1>2, <1>3, <1>4
  <1>6. r = x
    BY <1>1, <1>2, <1>5
  <1>7. QED
    BY <1>5, <1>6 DEF q, r

\* Where a chunk's bytes are in a content.
LEMMA BytesOfChunk ==
  ASSUME NEW content \in Seq(Chunks), NEW i \in 0 .. Len(content) - 1, NEW k \in 1 .. ChunkBytes
  PROVE  /\ i * ChunkBytes + k \in 1 .. Len(content) * ChunkBytes
         /\ BytesOf(content)[i * ChunkBytes + k] = <<content[i + 1], k>>
  <1>1. ChunkBytes \in Nat \ {0} /\ Len(content) \in Nat /\ i \in Nat /\ k - 1 \in 0 .. ChunkBytes - 1
    BY SizesAssumption, LenProperties
  <1>2. i * ChunkBytes + ChunkBytes <= Len(content) * ChunkBytes
    <2>1. (i + 1) * ChunkBytes <= Len(content) * ChunkBytes
      BY <1>1
    <2>2. QED
      BY <1>1, <2>1
  <1>3. i * ChunkBytes \in Nat /\ Len(content) * ChunkBytes \in Nat
    BY <1>1
  <1>4. i * ChunkBytes + k \in 1 .. Len(content) * ChunkBytes
    BY <1>1, <1>2, <1>3
  <1>5. (i * ChunkBytes + k) - 1 = i * ChunkBytes + (k - 1)
    BY <1>1, <1>3
  <1>6. /\ (i * ChunkBytes + (k - 1)) \div ChunkBytes = i
        /\ (i * ChunkBytes + (k - 1)) % ChunkBytes = k - 1
    BY <1>1, Layout
  <1>7. BytesOf(content)[i * ChunkBytes + k] =
          <<content[(((i * ChunkBytes + k) - 1) \div ChunkBytes) + 1],
            (((i * ChunkBytes + k) - 1) % ChunkBytes) + 1>>
    BY <1>4 DEF BytesOf
  <1>8. (k - 1) + 1 = k
    OBVIOUS
  <1>9. QED
    BY <1>4, <1>5, <1>6, <1>7, <1>8

\* The bytes of a content are a sequence.
LEMMA BytesOfSeq ==
  ASSUME NEW content \in Seq(Chunks)
  PROVE  /\ Len(content) * ChunkBytes \in Nat
         /\ BytesOf(content) \in Seq(Chunks \X (1 .. ChunkBytes))
         /\ Len(BytesOf(content)) = Len(content) * ChunkBytes
  <1>1. ChunkBytes \in Nat \ {0} /\ Len(content) \in Nat
    BY SizesAssumption, LenProperties
  <1>2. Len(content) * ChunkBytes \in Nat
    BY <1>1
  <1>3. ASSUME NEW n \in 1 .. Len(content) * ChunkBytes
        PROVE  <<content[((n - 1) \div ChunkBytes) + 1], ((n - 1) % ChunkBytes) + 1>>
                 \in Chunks \X (1 .. ChunkBytes)
    <2> DEFINE q == (n - 1) \div ChunkBytes
               r == (n - 1) % ChunkBytes
    <2>1. n - 1 \in Nat /\ n - 1 < Len(content) * ChunkBytes
      BY <1>2
    <2>2. q \in Nat /\ r \in 0 .. ChunkBytes - 1 /\ n - 1 = q * ChunkBytes + r
      BY <1>1, <2>1
    <2> HIDE DEF q, r
    <2>3. q < Len(content)
      <3> SUFFICES ASSUME Len(content) <= q PROVE FALSE
        BY <1>1, <2>2
      <3>1. Len(content) * ChunkBytes <= q * ChunkBytes
        BY <1>1, <2>2
      <3>2. q * ChunkBytes \in Nat
        BY <1>1, <2>2
      <3> DEFINE size == Len(content) * ChunkBytes
                 low == q * ChunkBytes
      <3>3. size <= low /\ low \in Nat /\ size \in Nat /\ n - 1 < size /\ n - 1 = low + r
        BY <1>2, <2>1, <2>2, <3>1, <3>2
      <3> HIDE DEF size, low
      <3>4. QED
        BY <2>1, <2>2, <3>3
    <2>4. content[q + 1] \in Chunks /\ r + 1 \in 1 .. ChunkBytes
      BY <1>1, <2>2, <2>3, ElementOfSeq
    <2>5. QED
      BY <2>4 DEF q, r
  <1>4. BytesOf(content) \in [1 .. Len(content) * ChunkBytes -> Chunks \X (1 .. ChunkBytes)]
    BY <1>3 DEF BytesOf
  <1>5. QED
    BY <1>2, <1>4

-----------------------------------------------------------------------------
(* Frames: what a step leaves alone *)

\* Objects stay in the store, and entries in the shards there.
StoreGrows == xorbs \subseteq xorbs' /\ shards \subseteq shards' /\ adrift \subseteq adrift'

\* What the index answers from grows.
IndexGrows == memory \cup disk \subseteq memory' \cup disk' /\ disk \subseteq disk'

\* An entry that resolved still does.
LEMMA ResolvesFrame ==
  ASSUME EntriesResolve, xorbs \subseteq xorbs', NEW e \in (memory \cup disk) \cup shards
  PROVE  Resolves(e)'
  BY DEF EntriesResolve, Resolves

\* More entries name more files.
LEMMA FilesGrow ==
  ASSUME NEW A, NEW B, A \subseteq B
  PROVE  FilesIn(A) \subseteq FilesIn(B)
  BY DEF FilesIn

\* An upload that does not change stays sound, whatever others do.
LEMMA UploadFrame ==
  ASSUME NEW u \in Uploads, UploadSound(u), uploads'[u] = uploads[u], StoreGrows, IndexGrows
  PROVE  UploadSound(u)'
  <1>1. FilesIn(memory \cup disk) \subseteq FilesIn(memory' \cup disk')
    BY FilesGrow DEF IndexGrows
  <1>2. FilesIn(disk) \subseteq FilesIn(disk')
    BY FilesGrow DEF IndexGrows
  <1>3. (\A k \in 1 .. Len(uploads[u].segments) : SegmentSound(u, uploads[u].segments[k]))'
    BY DEF UploadSound, SegmentSound, StoreGrows
  <1>4. QED
    BY <1>1, <1>2, <1>3 DEF UploadSound, StoreGrows, IndexGrows

\* The records of uploads and downloads that are not going on.
LEMMA RecordsTyped ==
  /\ Unused \in Upload /\ Answered \in Upload
  /\ NoDownload \in Download /\ HungUp \in Download
  <1>1. <<>> \in Seq(Chunks) /\ <<>> \in Seq(Segment) /\ <<>> \in Seq(Chunks \X (1 .. ChunkBytes))
    BY EmptySeq
  <1>2. <<>> \in BoundedSeq(Chunks, XorbLimit)
    <2>1. Len(<<>>) <= XorbLimit /\ XorbLimit \in Nat
      BY SizesAssumption
    <2>2. QED
      BY <1>1, <2>1, BoundedSeqMeans
  <1>3. QED
    BY <1>1, <1>2 DEF Unused, Answered, NoDownload, HungUp, Upload, Download

\* Nothing is claimed of an upload that has not begun, or is over.
LEMMA FreshUpload ==
  ASSUME NEW u \in Uploads, uploads'[u] = Unused \/ uploads'[u] = Answered
  PROVE  UploadSound(u)'
  <1>1. Len(<<>>) = 0
    OBVIOUS
  <1>2. /\ uploads'[u].pc \in {"idle", "answered"} /\ uploads'[u].segments = <<>>
        /\ uploads'[u].todo = <<>> /\ uploads'[u].sent = <<>> /\ uploads'[u].taken = {}
    BY DEF Unused, Answered
  <1>3. Covers(<<>>, <<>>, <<>>)
    BY <1>1 DEF Covers
  <1>4. QED
    BY <1>1, <1>2, <1>3 DEF UploadSound

\* A download that has sent nothing, of nothing.
LEMMA FreshDownload ==
  ASSUME NEW dl, dl.pc \in {"idle", "failed"}, dl.file \in Seq(Chunks),
         dl.offset = 0, dl.end = 0, dl.out = <<>>
  PROVE  Faithful(dl)
  BY BytesOfSeq DEF Faithful, Bounded

\* A download whose receiver hung up is reset.
LEMMA HungUpFaithful == Faithful(HungUp)
  <1> PICK dl : dl = HungUp
    OBVIOUS
  <1>1. dl.pc = "failed" /\ dl.offset = 0 /\ dl.end = 0 /\ dl.out = <<>>
    BY DEF HungUp, NoDownload
  <1>2. dl.file \in Seq(Chunks)
    BY EmptySeq DEF HungUp, NoDownload
  <1>3. Faithful(dl)
    BY <1>1, <1>2, FreshDownload
  <1>4. QED
    BY <1>3

\* What is left to show of a step of an upload: that its own record is sound,
\* that the entries it adds resolve, and that what it moves is accounted for.
LEMMA UploadKeeps ==
  ASSUME IInv, NEW u \in Uploads,
         uploads' \in [Uploads -> Upload], \A v \in Uploads \ {u} : uploads'[v] = uploads[v],
         UNCHANGED downloads, StoreGrows, IndexGrows,
         xorbs' \subseteq Seq(Chunks), shards' \subseteq Entry, disk' \subseteq Entry,
         memory' \subseteq Entry, adrift' \subseteq Entry, faults' \in 0 .. MaxFaults,
         UploadSound(u)',
         \A e \in (memory' \cup disk') \cup shards' :
           e \notin (memory \cup disk) \cup shards => Resolves(e)',
         disk' \subseteq disk \cup uploads'[u].taken,
         uploads[u].taken \subseteq (shards' \cup adrift') \cup uploads'[u].taken,
         \A ptr \in pointers' \ pointers :
           /\ ptr \in Payloads \X Seq(Chunks)
           /\ ptr[2] = ptr[1] /\ ptr[2] \in FilesIn(disk')
  PROVE  IInv'
  <1>1. TypeOK'
    BY DEF IInv, TypeOK
  <1>2. EntriesResolve'
    BY ResolvesFrame DEF IInv, StoreGrows, EntriesResolve
  <1>3. ASSUME NEW v \in Uploads PROVE UploadSound(v)'
    BY UploadFrame DEF IInv
  <1>4. \A d \in Downloads : Faithful(downloads'[d])
    BY DEF IInv
  <1>5. DiskAccounted'
    <2> SUFFICES ASSUME NEW e \in disk' PROVE e \in (shards' \cup adrift') \cup Taken'
      BY DEF DiskAccounted
    <2>1. CASE e \in uploads'[u].taken
      BY <2>1 DEF Taken
    <2>2. CASE e \in disk
      <3>1. CASE e \in shards \cup adrift
        BY <3>1 DEF StoreGrows
      <3>2. CASE e \in Taken
        <4> PICK v \in Uploads : e \in uploads[v].taken
          BY <3>2 DEF Taken
        <4>1. CASE v = u
          BY <2>1, <4>1
        <4>2. CASE v # u
          BY <4>2 DEF Taken
        <4>3. QED
          BY <4>1, <4>2
      <3>3. QED
        BY <2>2, <3>1, <3>2 DEF IInv, DiskAccounted
    <2>3. QED
      BY <2>1, <2>2
  <1>6. PointersHeld'
    <2> SUFFICES ASSUME NEW ptr \in pointers'
                 PROVE  ptr[2] = ptr[1] /\ ptr[2] \in FilesIn(disk' \cup adrift')
      BY DEF PointersHeld
    <2>1. CASE ptr \in pointers
      <3>1. FilesIn(disk \cup adrift) \subseteq FilesIn(disk' \cup adrift')
        BY FilesGrow DEF IndexGrows, StoreGrows
      <3>2. QED
        BY <2>1, <3>1 DEF IInv, PointersHeld
    <2>2. CASE ptr \notin pointers
      <3>1. FilesIn(disk') \subseteq FilesIn(disk' \cup adrift')
        BY FilesGrow
      <3>2. QED
        BY <2>2, <3>1
    <2>3. QED
      BY <2>1, <2>2
  <1>7. QED
    BY <1>1, <1>2, <1>3, <1>4, <1>5, <1>6 DEF IInv

\* A step of a download has only its own record to keep.
LEMMA DownloadKeeps ==
  ASSUME IInv, NEW d \in Downloads,
         downloads' \in [Downloads -> Download],
         \A g \in Downloads \ {d} : downloads'[g] = downloads[g],
         Faithful(downloads'[d]), faults' \in 0 .. MaxFaults,
         UNCHANGED <<xorbs, shards, disk, memory, uploads, pointers, adrift>>
  PROVE  IInv'
  <1>1. TypeOK'
    BY DEF IInv, TypeOK
  <1>2. \A g \in Downloads : Faithful(downloads'[g])
    BY DEF IInv
  <1>3. EntriesResolve'
    BY ResolvesFrame DEF IInv, EntriesResolve
  <1>4. ASSUME NEW u \in Uploads PROVE UploadSound(u)'
    BY UploadFrame DEF IInv, StoreGrows, IndexGrows
  <1>5. DiskAccounted' /\ PointersHeld'
    BY ZenonT(60) DEF IInv, DiskAccounted, PointersHeld, Taken
  <1>6. QED
    BY <1>1, <1>2, <1>3, <1>4, <1>5 DEF IInv

-----------------------------------------------------------------------------
(* The steps of an upload *)

\* All that the stream will deliver is still to do.
LEMMA BeginUploadKeeps ==
  ASSUME IInv, NEW u \in Uploads, NEW p \in Payloads, NEW n \in 1 .. Len(p), BeginUpload(u, p, n)
  PROVE  IInv'
  <1> DEFINE s == SubSeq(p, 1, n)
             r == [Unused EXCEPT !.pc = "streaming", !.payload = p, !.sent = s, !.todo = s]
  <1>1. p \in Seq(Chunks) /\ s \in Seq(Chunks)
    <2>1. p \in Seq(Chunks)
      BY PayloadsAssumption
    <2>2. \A i \in 1 .. n : p[i] \in Chunks
      BY <2>1, ElementOfSeq, LenProperties
    <2>3. QED
      BY <2>1, <2>2, SubSeqProperties
  <1>2. uploads' = [uploads EXCEPT ![u] = r] /\ uploads[u].taken = {}
    BY DEF BeginUpload, Unused
  <1> HIDE DEF s
  <1>3. r \in Upload
    BY <1>1, RecordsTyped DEF Upload
  <1>4. /\ r.pc = "streaming" /\ r.payload = p /\ r.sent = s /\ r.todo = s
        /\ r.segments = <<>> /\ r.taken = {}
    BY DEF Unused
  <1> HIDE DEF r
  <1>5. uploads'[u] = r
    BY <1>2 DEF IInv, TypeOK
  <1>6. Covers(<<>>, s, s)
    BY <1>1, LenProperties DEF Covers
  <1>7. UploadSound(u)'
    BY <1>4, <1>5, <1>6 DEF UploadSound
  <1>8. QED
    BY <1>2, <1>3, <1>5, <1>7, UploadKeeps DEF BeginUpload, IInv, TypeOK, StoreGrows, IndexGrows

\* A chunk is found in an indexed xorb, which is stored, or joins the xorb that
\* is being filled.
LEMMA ProcessChunkKeeps ==
  ASSUME IInv, NEW u \in Uploads, ProcessChunk(u)
  PROVE  IInv'
  <1> DEFINE c == Head(uploads[u].todo)
             rest == Tail(uploads[u].todo)
             before == uploads[u].segments
  <1>1. uploads[u] \in Upload /\ uploads[u].todo # <<>> /\ uploads[u].pc = "streaming"
    BY DEF IInv, TypeOK, ProcessChunk
  <1>2. c \in Chunks /\ rest \in Seq(Chunks) /\ before \in Seq(Segment)
    BY <1>1, HeadTailProperties DEF Upload
  <1>3. /\ uploads[u].new \in Seq(Chunks) /\ Len(uploads[u].new) \in Nat
        /\ Len(uploads[u].new) < XorbLimit /\ XorbLimit \in Nat
    <2>1. XorbLimit \in Nat /\ uploads[u].new \in BoundedSeq(Chunks, XorbLimit)
      BY <1>1, SizesAssumption DEF Upload
    <2>2. uploads[u].new \in Seq(Chunks)
      BY <2>1, BoundedSeqMeans
    <2>3. Len(uploads[u].new) \in Nat
      BY <2>2, LenProperties
    <2>4. ~(Len(uploads[u].new) >= XorbLimit)
      BY DEF ProcessChunk, XorbFull
    <2>5. QED
      BY <2>1, <2>2, <2>3, <2>4
  <1>4. Covers(before, uploads[u].todo, uploads[u].sent)
    BY DEF IInv, UploadSound
  <1>5. ASSUME NEW s \in Segment, s.chunk = c, NEW xorb \in BoundedSeq(Chunks, XorbLimit),
               uploads' = [uploads EXCEPT
                 ![u].todo = Tail(@), ![u].segments = Append(@, s), ![u].new = xorb],
               \A e : Contains(uploads[u].new, e) => Contains(xorb, e),
               IF s.xorb = <<>> THEN Contains(xorb, s.chunk)
               ELSE s.xorb \in xorbs /\ Contains(s.xorb, s.chunk)
        PROVE  IInv'
    <2> DEFINE longer == Append(before, s)
    <2>1. longer \in Seq(Segment) /\ Len(longer) = Len(before) + 1 /\ Len(before) \in Nat
      BY <1>2, AppendProperties, LenProperties
    <2>2. (\A k \in 1 .. Len(before) : longer[k] = before[k]) /\ longer[Len(before) + 1] = s
      BY <1>2, AppendProperties
    <2>3. Covers(longer, rest, uploads[u].sent)
      BY <1>1, <1>2, <1>4, <1>5, CoversStep DEF Upload
    <2> HIDE DEF longer
    <2>4. uploads' \in [Uploads -> Upload] /\ \A v \in Uploads \ {u} : uploads'[v] = uploads[v]
      <3> DEFINE r == [uploads[u] EXCEPT !.todo = rest, !.segments = longer, !.new = xorb]
      <3>1. r \in Upload
        BY <1>1, <1>2, <1>5, <2>1 DEF Upload
      <3>2. uploads' = [uploads EXCEPT ![u] = r]
        BY <1>5 DEF longer
      <3>3. QED
        BY <3>1, <3>2 DEF IInv, TypeOK
    <2>5. /\ uploads'[u].pc = "streaming" /\ uploads'[u].payload = uploads[u].payload
          /\ uploads'[u].sent = uploads[u].sent /\ uploads'[u].taken = uploads[u].taken
          /\ uploads'[u].todo = rest /\ uploads'[u].segments = longer /\ uploads'[u].new = xorb
      BY <1>1, <1>5 DEF IInv, TypeOK, Upload, longer
    <2>6. ASSUME NEW k \in 1 .. Len(longer), NEW seg, seg = longer[k] PROVE SegmentSound(u, seg)'
      <3>1. CASE k = Len(before) + 1
        BY <1>5, <2>2, <2>5, <2>6, <3>1 DEF SegmentSound, ProcessChunk
      <3>2. CASE k # Len(before) + 1
        <4>1. k \in 1 .. Len(before) /\ longer[k] = before[k]
          BY <2>1, <2>2, <3>2
        <4>2. SegmentSound(u, before[k])
          BY <4>1 DEF IInv, UploadSound
        <4>3. xorbs' = xorbs
          BY DEF ProcessChunk
        <4>4. SegmentSound(u, seg)
          BY <2>6, <4>1, <4>2
        <4>5. SegmentSound(u, seg)' <=>
                IF seg.xorb = <<>> THEN Contains(xorb, seg.chunk)
                ELSE seg.xorb \in xorbs /\ Contains(seg.xorb, seg.chunk)
          BY <2>5, <4>3, Zenon DEF SegmentSound
        <4>6. Contains(uploads[u].new, seg.chunk) => Contains(xorb, seg.chunk)
          BY <1>5
        <4>7. QED
          BY <4>4, <4>5, <4>6, Zenon DEF SegmentSound
      <3>3. QED
        BY <3>1, <3>2
    <2>7. UploadSound(u)'
      <3>1. uploads[u].payload \in Payloads /\ uploads[u].taken = {}
        BY <1>1 DEF IInv, UploadSound
      <3>2. (\A k \in 1 .. Len(uploads[u].segments) : SegmentSound(u, uploads[u].segments[k]))'
        BY <2>5, <2>6
      <3>3. QED
        BY <2>3, <2>5, <3>1, <3>2 DEF UploadSound, ProcessChunk
    <2>8. QED
      BY <2>4, <2>5, <2>7, UploadKeeps
      DEF ProcessChunk, IInv, TypeOK, StoreGrows, IndexGrows
  <1>6. ASSUME NEW x \in Holding(c),
               uploads' = [uploads EXCEPT
                 ![u].todo = Tail(@), ![u].segments = Append(@, [chunk |-> c, xorb |-> x])]
        PROVE  IInv'
    <2> PICK e \in Index : e.kind = "xorb" /\ Contains(e.xorb, c) /\ x = e.xorb
      BY DEF Holding
    <2>1. x \in xorbs /\ Contains(x, c)
      BY DEF IInv, EntriesResolve, Resolves, Index
    <2>2. x \in Seq(Chunks) /\ x # <<>>
      BY <2>1, ContainsNonempty DEF IInv, TypeOK
    <2> DEFINE s == [chunk |-> c, xorb |-> x]
    <2>3. s \in Segment
      BY <1>2, <2>2 DEF Segment
    <2>4. uploads' = [uploads EXCEPT
            ![u].todo = Tail(@), ![u].segments = Append(@, s), ![u].new = uploads[u].new]
      BY <1>1, <1>6 DEF IInv, TypeOK, Upload
    <2>5. uploads[u].new \in BoundedSeq(Chunks, XorbLimit)
      BY <1>1 DEF Upload
    <2>6. QED
      BY <1>5, <2>1, <2>2, <2>3, <2>4, <2>5
  <1>7. ASSUME uploads' = [uploads EXCEPT
                 ![u].todo = Tail(@),
                 ![u].segments = Append(@, [chunk |-> c, xorb |-> <<>>]),
                 ![u].new = IF Contains(@, c) THEN @ ELSE Append(@, c)]
        PROVE  IInv'
    <2> DEFINE s == [chunk |-> c, xorb |-> <<>>]
               new == uploads[u].new
               xorb == IF Contains(new, c) THEN new ELSE Append(new, c)
    <2>1. s \in Segment
      BY <1>2, EmptySeq DEF Segment
    <2>2. Contains(xorb, c) /\ \A e : Contains(new, e) => Contains(xorb, e)
      BY <1>2, <1>3, AppendContains
    <2>3. Append(new, c) \in Seq(Chunks) /\ Len(Append(new, c)) <= XorbLimit
      BY <1>2, <1>3, AppendProperties
    <2>4. xorb \in BoundedSeq(Chunks, XorbLimit)
      <3>1. Len(new) <= XorbLimit
        BY <1>3
      <3>2. new \in BoundedSeq(Chunks, XorbLimit) /\ Append(new, c) \in BoundedSeq(Chunks, XorbLimit)
        BY <1>3, <2>3, <3>1, BoundedSeqMeans
      <3>3. QED
        BY <3>2
    <2>5. uploads' = [uploads EXCEPT
            ![u].todo = Tail(@), ![u].segments = Append(@, s), ![u].new = xorb]
      BY <1>7
    <2> HIDE DEF xorb
    <2>6. QED
      BY <1>5, <2>1, <2>2, <2>4, <2>5
  <1>8. QED
    BY <1>6, <1>7 DEF ProcessChunk

\* Steps of an upload that only move it on.
LEMMA CutXorbKeeps ==
  ASSUME IInv, NEW u \in Uploads, CutXorb(u)
  PROVE  IInv'
  <1>1. uploads[u] \in Upload /\ uploads' = [uploads EXCEPT ![u].pc = "put_xorb"]
    BY DEF IInv, TypeOK, CutXorb, Goto
  <1>2. /\ uploads' \in [Uploads -> Upload] /\ \A v \in Uploads \ {u} : uploads'[v] = uploads[v]
        /\ uploads'[u] = [uploads[u] EXCEPT !.pc = "put_xorb"]
    BY <1>1 DEF IInv, TypeOK, Upload
  <1>3. UploadSound(u)'
    BY <1>1, <1>2 DEF IInv, UploadSound, SegmentSound, CutXorb, Upload
  <1>4. uploads'[u].taken = uploads[u].taken
    BY <1>1, <1>2 DEF Upload
  <1>5. QED
    BY <1>2, <1>3, <1>4, UploadKeeps DEF CutXorb, IInv, TypeOK, StoreGrows, IndexGrows

\* The object is stored before anything refers to it.
LEMMA PutXorbKeeps ==
  ASSUME IInv, NEW u \in Uploads, PutXorb(u)
  PROVE  IInv'
  <1>1. uploads[u] \in Upload /\ uploads' = [uploads EXCEPT ![u].pc = "index_xorb"]
    BY DEF IInv, TypeOK, PutXorb, Goto
  <1>2. /\ uploads' \in [Uploads -> Upload] /\ \A v \in Uploads \ {u} : uploads'[v] = uploads[v]
        /\ uploads'[u] = [uploads[u] EXCEPT !.pc = "index_xorb"]
    BY <1>1 DEF IInv, TypeOK, Upload
  <1>3. UploadSound(u)'
    BY <1>1, <1>2 DEF IInv, UploadSound, SegmentSound, PutXorb, Upload
  <1>4. uploads[u].new \in Seq(Chunks)
    BY <1>1, BoundedSeqMeans, SizesAssumption DEF Upload
  <1>5. uploads'[u].taken = uploads[u].taken
    BY <1>1, <1>2 DEF Upload
  <1>6. QED
    BY <1>2, <1>3, <1>4, <1>5, UploadKeeps DEF PutXorb, IInv, TypeOK, StoreGrows, IndexGrows

\* The chunks that waited for the xorb learn its name; the xorb is in the store.
LEMMA IndexXorbKeeps ==
  ASSUME IInv, NEW u \in Uploads, IndexXorb(u)
  PROVE  IInv'
  <1> DEFINE x == uploads[u].new
             before == uploads[u].segments
             filled(s) == IF s.xorb # <<>> THEN s ELSE [s EXCEPT !.xorb = uploads[u].new]
             after == [k \in DOMAIN before |-> filled(before[k])]
  <1>1. uploads[u] \in Upload /\ x # <<>> /\ x \in xorbs
    BY DEF IInv, TypeOK, IndexXorb, UploadSound
  <1>2. before \in Seq(Segment) /\ Len(before) \in Nat /\ DOMAIN before = 1 .. Len(before)
    BY <1>1, LenProperties DEF Upload
  <1>3. x \in Seq(Chunks) /\ <<>> \in BoundedSeq(Chunks, XorbLimit)
    BY <1>1, RecordsTyped DEF IInv, TypeOK, Unused, Upload
  <1>4. ASSUME NEW s \in Segment
        PROVE  filled(s) \in Segment /\ filled(s).chunk = s.chunk /\ filled(s).xorb # <<>>
               /\ filled(s).xorb = IF s.xorb # <<>> THEN s.xorb ELSE x
    BY <1>1, <1>3 DEF Segment
  <1>5. \A k \in 1 .. Len(before) : before[k] \in Segment
    BY <1>2, ElementOfSeq
  <1> HIDE DEF filled
  <1>6. /\ after \in Seq(Segment) /\ Len(after) = Len(before)
        /\ \A k \in 1 .. Len(before) : after[k] = filled(before[k])
    <2>1. after \in [1 .. Len(before) -> Segment]
      BY <1>2, <1>4, <1>5
    <2>2. QED
      BY <1>2, <2>1
  <1>7. uploads' \in [Uploads -> Upload] /\ \A v \in Uploads \ {u} : uploads'[v] = uploads[v]
    <2> DEFINE r == [uploads[u] EXCEPT !.pc = "streaming", !.new = <<>>, !.segments = after]
    <2>1. uploads' = [uploads EXCEPT ![u] = r]
      BY DEF IndexXorb, filled
    <2> HIDE DEF after
    <2>2. r \in Upload
      BY <1>1, <1>3, <1>6 DEF Upload
    <2>3. QED
      BY <2>1, <2>2 DEF IInv, TypeOK
  <1>8. /\ uploads'[u].pc = "streaming" /\ uploads'[u].payload = uploads[u].payload
        /\ uploads'[u].sent = uploads[u].sent /\ uploads'[u].taken = uploads[u].taken
        /\ uploads'[u].todo = uploads[u].todo /\ uploads'[u].segments = after
    BY <1>1 DEF IInv, TypeOK, Upload, IndexXorb, filled
  <1> HIDE DEF after
  <1>9. ASSUME NEW k \in 1 .. Len(after), NEW s, s = after[k] PROVE SegmentSound(u, s)'
    <2>1. SegmentSound(u, before[k]) /\ before[k] \in Segment
      BY <1>5, <1>6 DEF IInv, UploadSound
    <2>2. /\ s.chunk = before[k].chunk /\ s.xorb # <<>>
          /\ s.xorb = IF before[k].xorb # <<>> THEN before[k].xorb ELSE x
      BY <1>4, <1>6, <1>9, <2>1
    <2>3. s.xorb \in xorbs /\ Contains(s.xorb, s.chunk)
      BY <1>1, <2>1, <2>2 DEF SegmentSound
    <2>4. QED
      BY <2>2, <2>3 DEF SegmentSound, IndexXorb
  <1>10. Covers(after, uploads[u].todo, uploads[u].sent)
    <2>1. Covers(before, uploads[u].todo, uploads[u].sent)
      BY DEF IInv, UploadSound
    <2>2. QED
      BY <1>4, <1>5, <1>6, <2>1, ZenonT(60) DEF Covers
  <1>11. UploadSound(u)'
    <2>1. (\A k \in 1 .. Len(uploads[u].segments) : SegmentSound(u, uploads[u].segments[k]))'
      BY <1>8, <1>9
    <2>2. uploads[u].payload \in Payloads /\ uploads[u].taken = {}
      BY DEF IInv, UploadSound, IndexXorb
    <2>3. QED
      BY <1>8, <1>10, <2>1, <2>2 DEF UploadSound, IndexXorb
  <1> DEFINE e == [kind |-> "xorb", xorb |-> x]
  <1>12. e \in Entry /\ memory' = memory \cup {e}
    BY <1>3 DEF Entry, IndexXorb
  <1>13. ASSUME NEW f, f = e PROVE Resolves(f)'
    BY <1>1, <1>13 DEF Resolves, IndexXorb
  <1> HIDE DEF e
  <1>14. QED
    BY <1>7, <1>8, <1>11, <1>12, <1>13, UploadKeeps
    DEF IndexXorb, IInv, TypeOK, StoreGrows, IndexGrows

\* Every chunk has been processed and no segment waits: the file's entry resolves.
LEMMA IndexFileKeeps ==
  ASSUME IInv, NEW u \in Uploads, IndexFile(u)
  PROVE  IInv'
  <1> DEFINE sent == uploads[u].sent
             segments == uploads[u].segments
             e == [kind |-> "file", file |-> sent, segments |-> segments]
  <1>1. /\ uploads[u] \in Upload /\ uploads' = [uploads EXCEPT ![u].pc = "flush"]
        /\ uploads[u].todo = <<>> /\ uploads[u].new = <<>> /\ uploads[u].pc = "streaming"
    BY DEF IInv, TypeOK, IndexFile, Goto
  <1>2. /\ uploads' \in [Uploads -> Upload] /\ \A v \in Uploads \ {u} : uploads'[v] = uploads[v]
        /\ uploads'[u] = [uploads[u] EXCEPT !.pc = "flush"]
    BY <1>1 DEF IInv, TypeOK, Upload
  <1>3. /\ sent \in Seq(Chunks) /\ segments \in Seq(Segment)
        /\ Len(sent) \in Nat /\ Len(segments) \in Nat /\ DOMAIN segments = 1 .. Len(segments)
    BY <1>1, LenProperties DEF Upload
  <1>4. e \in Entry /\ memory' = memory \cup {e}
    BY <1>3 DEF Entry, IndexFile
  <1>5. Covers(segments, <<>>, sent)
    BY <1>1 DEF IInv, UploadSound
  <1>6. Len(segments) = Len(sent) /\ \A k \in 1 .. Len(segments) : segments[k].chunk = sent[k]
    <2>1. Len(segments) + Len(<<>>) = Len(sent)
      BY <1>5 DEF Covers
    <2>2. QED
      BY <1>3, <1>5, <2>1, EmptySeq DEF Covers
  <1>7. [k \in DOMAIN segments |-> segments[k].chunk] = sent
    <2> DEFINE chunks == [k \in 1 .. Len(segments) |-> segments[k].chunk]
    <2>1. chunks \in [1 .. Len(segments) -> Chunks]
      BY <1>3, <1>6, ElementOfSeq
    <2>2. chunks \in Seq(Chunks) /\ Len(chunks) = Len(sent)
      BY <1>3, <1>6, <2>1
    <2>3. \A k \in 1 .. Len(chunks) : chunks[k] = sent[k]
      BY <1>6, <2>2
    <2> HIDE DEF chunks
    <2>4. chunks = sent
      BY <1>3, <2>2, <2>3, SeqEqual
    <2>5. QED
      BY <1>3, <2>4 DEF chunks
  <1>8. \A k \in DOMAIN segments :
          segments[k].xorb \in xorbs /\ Contains(segments[k].xorb, segments[k].chunk)
    <2>1. \A k \in 1 .. Len(segments) : SegmentSound(u, segments[k])
      BY DEF IInv, UploadSound
    <2>2. \A c : ~Contains(<<>>, c)
      BY EmptySeq DEF Contains
    <2>3. QED
      BY <1>1, <1>3, <2>1, <2>2 DEF SegmentSound
  <1>9. ASSUME NEW f, f = e PROVE Resolves(f)'
    BY <1>7, <1>8, <1>9 DEF Resolves, IndexFile
  <1>10. sent \in FilesIn(memory' \cup disk')
    <2>1. e.kind = "file" /\ e.file = sent /\ e \in memory'
      BY <1>4
    <2>2. QED
      BY <2>1 DEF FilesIn
  <1> HIDE DEF e
  <1>11. uploads'[u].taken = uploads[u].taken
    BY <1>1, <1>2 DEF Upload
  <1>12. UploadSound(u)'
    BY <1>1, <1>2, <1>10, <1>11 DEF IInv, UploadSound, SegmentSound, IndexFile, Upload
  <1>13. QED
    BY <1>2, <1>4, <1>9, <1>11, <1>12, UploadKeeps
    DEF IndexFile, IInv, TypeOK, StoreGrows, IndexGrows

\* What is flushed moves from memory to disk, the entries of others along with it.
LEMMA FlushKeeps ==
  ASSUME IInv, NEW u \in Uploads, Flush(u)
  PROVE  IInv'
  <1> DEFINE r == [uploads[u] EXCEPT !.pc = "put_shard", !.taken = memory]
  <1>1. uploads[u] \in Upload /\ memory \subseteq Entry /\ uploads' = [uploads EXCEPT ![u] = r]
    BY DEF IInv, TypeOK, Flush
  <1>2. r \in Upload
    BY <1>1 DEF Upload
  <1>3. /\ r.pc = "put_shard" /\ r.taken = memory /\ r.payload = uploads[u].payload
        /\ r.segments = uploads[u].segments /\ r.sent = uploads[u].sent
        /\ r.todo = uploads[u].todo /\ r.new = uploads[u].new
    BY <1>1 DEF Upload
  <1> HIDE DEF r
  <1>4. /\ uploads' \in [Uploads -> Upload] /\ \A v \in Uploads \ {u} : uploads'[v] = uploads[v]
        /\ uploads'[u] = r
    BY <1>1, <1>2 DEF IInv, TypeOK
  <1>5. disk' = memory \cup disk /\ uploads[u].sent \in FilesIn(disk')
    BY DEF Flush, IInv, UploadSound
  <1>6. UploadSound(u)'
    BY <1>3, <1>4, <1>5 DEF IInv, UploadSound, SegmentSound, Flush
  <1>7. uploads[u].taken = {}
    BY DEF IInv, UploadSound, Flush
  <1>8. QED
    BY <1>3, <1>4, <1>5, <1>6, <1>7, UploadKeeps
    DEF Flush, IInv, TypeOK, StoreGrows, IndexGrows

\* An acknowledged file is on disk: it was flushed by this upload or another.
LEMMA AnswerKeeps ==
  ASSUME IInv, NEW u \in Uploads, FlushNothing(u) \/ PutShard(u)
  PROVE  IInv'
  <1>1. uploads[u] \in Upload /\ uploads[u].sent \in Seq(Chunks) /\ uploads[u].payload \in Payloads
    BY DEF IInv, TypeOK, Upload, UploadSound, FlushNothing, PutShard
  <1>2. uploads[u].sent \in FilesIn(disk)
    <2>1. CASE FlushNothing(u)
      <3>1. memory \cup disk = disk
        BY <2>1 DEF FlushNothing
      <3>2. QED
        BY <2>1, <3>1 DEF IInv, UploadSound, FlushNothing
    <2>2. CASE PutShard(u)
      BY <2>2 DEF IInv, UploadSound, PutShard
    <2>3. QED
      BY <2>1, <2>2
  <1>3. uploads' = [uploads EXCEPT ![u] = Answered]
    BY DEF FlushNothing, PutShard, Answer
  <1>4. /\ uploads' \in [Uploads -> Upload] /\ \A v \in Uploads \ {u} : uploads'[v] = uploads[v]
        /\ uploads'[u] = Answered
    BY <1>3, RecordsTyped DEF IInv, TypeOK
  <1>5. UploadSound(u)'
    BY <1>4, FreshUpload
  <1>6. /\ uploads[u].taken \subseteq shards' /\ StoreGrows /\ UNCHANGED <<xorbs, disk, memory>>
        /\ shards' \subseteq disk \cup shards /\ UNCHANGED <<downloads, adrift, faults>>
    BY DEF IInv, UploadSound, FlushNothing, PutShard, StoreGrows
  <1>7. \A ptr \in pointers' \ pointers :
          /\ ptr \in Payloads \X Seq(Chunks)
          /\ ptr[2] = ptr[1] /\ ptr[2] \in FilesIn(disk')
    <2> SUFFICES ASSUME NEW ptr \in pointers' \ pointers
                 PROVE  /\ ptr \in Payloads \X Seq(Chunks)
                        /\ ptr[2] = ptr[1] /\ ptr[2] \in FilesIn(disk')
      OBVIOUS
    <2>1. /\ ptr = <<uploads[u].payload, uploads[u].sent>>
          /\ uploads[u].sent = uploads[u].payload
      BY DEF FlushNothing, PutShard, Answer
    <2>2. QED
      BY <1>1, <1>2, <1>6, <2>1
  <1>8. shards' \subseteq Entry
    BY <1>6 DEF IInv, TypeOK
  <1>9. QED
    BY <1>4, <1>5, <1>6, <1>7, <1>8, UploadKeeps DEF IInv, TypeOK, IndexGrows

\* The shard of an upload that fails counts as adrift, though it may have been put.
LEMMA UploadFailsKeeps ==
  ASSUME IInv, NEW u \in Uploads, UploadFails(u)
  PROVE  IInv'
  <1>1. /\ uploads[u] \in Upload /\ uploads' = [uploads EXCEPT ![u] = Answered]
        /\ adrift' = adrift \cup uploads[u].taken /\ UNCHANGED <<disk, memory, downloads, pointers>>
    BY DEF IInv, TypeOK, UploadFails
  <1>2. /\ uploads' \in [Uploads -> Upload] /\ \A v \in Uploads \ {u} : uploads'[v] = uploads[v]
        /\ uploads'[u] = Answered
    BY <1>1, RecordsTyped DEF IInv, TypeOK
  <1>3. UploadSound(u)'
    BY <1>2, FreshUpload
  <1>4. uploads[u].new \in Seq(Chunks) /\ uploads[u].taken \subseteq Entry
    <2>1. uploads[u].new \in BoundedSeq(Chunks, XorbLimit) /\ XorbLimit \in Nat
      BY <1>1, SizesAssumption DEF Upload
    <2>2. QED
      BY <1>1, <2>1, BoundedSeqMeans DEF Upload
  <1>5. /\ StoreGrows /\ xorbs' \subseteq Seq(Chunks) /\ adrift' \subseteq Entry
        /\ shards' \subseteq shards \cup disk
    BY <1>1, <1>4 DEF IInv, TypeOK, UploadSound, UploadFails, StoreGrows
  <1>6. faults' \in 0 .. MaxFaults
    BY SizesAssumption DEF IInv, TypeOK, UploadFails, Fault
  <1>7. shards' \subseteq Entry
    BY <1>5 DEF IInv, TypeOK
  <1>8. QED
    BY <1>1, <1>2, <1>3, <1>5, <1>6, <1>7, UploadKeeps DEF IInv, TypeOK, IndexGrows

\* A restart ends every upload and download; what they had flushed and not stored
\* is adrift, and the index is rebuilt from the rest.
LEMMA RestartKeeps ==
  ASSUME IInv, NEW kept \in {disk, {}}, Restart(kept)
  PROVE  IInv'
  <1>1. /\ disk' = kept \cup shards /\ memory' = {} /\ adrift' = adrift \cup Taken
        /\ UNCHANGED <<xorbs, shards, pointers>>
    BY DEF Restart, Rebuilt, Taken
  <1>2. \A u \in Uploads : uploads'[u] = Unused \/ uploads'[u] = Answered
    BY DEF Restart
  <1>3. \A d \in Downloads : downloads'[d] = HungUp \/ downloads'[d] = downloads[d]
    BY DEF Restart
  <1>4. uploads' \in [Uploads -> Upload] /\ downloads' \in [Downloads -> Download]
    BY RecordsTyped DEF Restart, IInv, TypeOK
  <1>5. Taken \subseteq Entry
    BY DEF IInv, TypeOK, Upload, Taken
  <1>6. faults' \in 0 .. MaxFaults
    BY SizesAssumption DEF IInv, TypeOK, Restart, Fault
  <1>7. TypeOK'
    BY <1>1, <1>4, <1>5, <1>6 DEF IInv, TypeOK
  <1>8. EntriesResolve'
    BY <1>1, ResolvesFrame DEF IInv, EntriesResolve
  <1>9. \A u \in Uploads : UploadSound(u)'
    BY <1>2, FreshUpload
  <1>10. \A d \in Downloads : Faithful(downloads'[d])
    BY <1>3, HungUpFaithful DEF IInv
  <1>11. DiskAccounted'
    BY <1>1 DEF IInv, DiskAccounted
  <1>12. PointersHeld'
    <2>1. disk \cup adrift \subseteq disk' \cup adrift'
      BY <1>1 DEF IInv, DiskAccounted
    <2>2. FilesIn(disk \cup adrift) \subseteq FilesIn(disk' \cup adrift')
      BY <2>1, FilesGrow
    <2>3. QED
      BY <1>1, <2>2 DEF IInv, PointersHeld
  <1>13. QED
    BY <1>7, <1>8, <1>9, <1>10, <1>11, <1>12 DEF IInv

-----------------------------------------------------------------------------
(* The steps of a download *)

\* A file's entry tells its size and its segments; the range that is taken up
\* ends within the file.
LEMMA BeginDownloadKeeps ==
  ASSUME IInv, NEW d \in Downloads, NEW f \in Payloads, NEW range \in Ranges,
         BeginDownload(d, f, range[1], range[2])
  PROVE  IInv'
  <1> DEFINE offset == range[1]
             length == range[2]
  <1>1. f \in Seq(Chunks) /\ f # <<>> /\ offset \in Nat /\ length \in Nat
    BY PayloadsAssumption, RangesAssumption, SizesAssumption
  <1>2. PICK e \in Index :
          /\ e.kind = "file" /\ e.file = f
          /\ downloads' = [downloads EXCEPT ![d] =
               IF offset > SizeOf(e.segments) \/ offset + length > MaxWord
               THEN [NoDownload EXCEPT !.pc = "failed", !.file = f]
               ELSE [NoDownload EXCEPT !.pc = "streaming", !.file = f, !.segments = e.segments,
                       !.offset = offset,
                       !.end = IF length = 0 THEN SizeOf(e.segments)
                               ELSE Least(offset + length, SizeOf(e.segments))]]
    BY DEF BeginDownload
  <1> DEFINE segments == e.segments
             size == SizeOf(segments)
             end == IF length = 0 THEN size ELSE Least(offset + length, size)
  <1>3. e \in Entry /\ Resolves(e)
    BY DEF IInv, TypeOK, EntriesResolve, Index
  <1>4. segments \in Seq(Segment) /\ Len(segments) \in Nat /\ DOMAIN segments = 1 .. Len(segments)
    BY <1>2, <1>3, LenProperties DEF Entry
  <1>5. [k \in 1 .. Len(segments) |-> segments[k].chunk] = f
    BY <1>2, <1>3, <1>4 DEF Resolves
  <1>6. Len(segments) = Len(f) /\ \A k \in 1 .. Len(segments) : segments[k].chunk = f[k]
    BY <1>1, <1>4, <1>5, LenProperties
  <1>7. size = Len(f) * ChunkBytes /\ size \in Nat
    BY <1>1, <1>6, BytesOfSeq DEF SizeOf
  <1> HIDE DEF size, segments
  <1>8. CASE offset > size \/ offset + length > MaxWord
    <2> DEFINE r == [NoDownload EXCEPT !.pc = "failed", !.file = f]
    <2>1. r \in Download
      BY <1>1, RecordsTyped DEF Download
    <2>2. /\ r.pc = "failed" /\ r.file = f /\ r.offset = 0 /\ r.end = 0 /\ r.out = <<>>
      BY DEF NoDownload
    <2>3. downloads' = [downloads EXCEPT ![d] = r]
      BY <1>2, <1>8 DEF size, segments
    <2> HIDE DEF r
    <2>4. Faithful(r)
      BY <1>1, <2>2, FreshDownload
    <2>5. QED
      BY <2>1, <2>3, <2>4, DownloadKeeps DEF BeginDownload, IInv, TypeOK
  <1>9. CASE ~(offset > size \/ offset + length > MaxWord)
    <2> DEFINE r == [NoDownload EXCEPT !.pc = "streaming", !.file = f, !.segments = segments,
                       !.offset = offset, !.end = end]
    <2>1. end \in Nat /\ offset <= end /\ end <= size
      BY <1>1, <1>7, <1>9 DEF Least
    <2>2. downloads' = [downloads EXCEPT ![d] = r]
      BY <1>2, <1>9 DEF size, segments
    <2> HIDE DEF end
    <2>3. r \in Download
      BY <1>1, <1>4, <2>1, RecordsTyped DEF Download
    <2>4. /\ r.pc = "streaming" /\ r.file = f /\ r.offset = offset /\ r.end = end
          /\ r.out = <<>> /\ r.segments = segments /\ r.start = 0
      BY DEF NoDownload
    <2> HIDE DEF r, offset, length
    <2>5. Bounded(r) /\ Reached(r)
      BY <1>1, <1>7, <2>1, <2>4, EmptySeq DEF Bounded, Reached
    <2>6. Remaining(r)
      <3>1. Len(f) - Len(segments) = 0 /\ Len(f) \in Nat /\ ChunkBytes \in Nat
        BY <1>1, <1>4, <1>6, SizesAssumption
      <3>2. QED
        BY <1>6, <2>4, <3>1 DEF Remaining
    <2>7. Faithful(r)
      BY <2>4, <2>5, <2>6 DEF Faithful
    <2>8. QED
      BY <2>2, <2>3, <2>7, DownloadKeeps DEF BeginDownload, IInv, TypeOK
  <1>10. QED
    BY <1>8, <1>9

\* Steps after which a download has sent as much as before, or nothing.
LEMMA DownloadEndsKeeps ==
  ASSUME IInv, NEW d \in Downloads,
         \/ \E f \in Payloads : DownloadUnknown(d, f)
         \/ EndDownload(d) \/ DownloadFails(d) \/ CloseDownload(d)
  PROVE  IInv'
  <1>1. downloads[d] \in Download /\ Faithful(downloads[d])
    BY DEF IInv, TypeOK
  <1>2. ASSUME NEW r \in Download, Faithful(r), downloads' = [downloads EXCEPT ![d] = r],
               faults' \in 0 .. MaxFaults,
               UNCHANGED <<xorbs, shards, disk, memory, uploads, pointers, adrift>>
        PROVE  IInv'
    BY <1>2, DownloadKeeps DEF IInv, TypeOK
  <1>3. ASSUME NEW f \in Payloads, DownloadUnknown(d, f) PROVE IInv'
    <2> DEFINE r == [NoDownload EXCEPT !.pc = "failed", !.file = f]
    <2>1. f \in Seq(Chunks)
      BY PayloadsAssumption
    <2>2. r \in Download
      BY <2>1, RecordsTyped DEF Download
    <2>3. /\ r.pc = "failed" /\ r.file = f /\ r.offset = 0 /\ r.end = 0 /\ r.out = <<>>
      BY DEF NoDownload
    <2>4. downloads' = [downloads EXCEPT ![d] = r]
      BY <1>3 DEF DownloadUnknown
    <2> HIDE DEF r
    <2>5. Faithful(r)
      BY <2>1, <2>3, FreshDownload
    <2>6. QED
      BY <1>2, <1>3, <2>2, <2>4, <2>5 DEF DownloadUnknown, IInv, TypeOK
  <1>4. CASE CloseDownload(d)
    BY <1>2, <1>4, HungUpFaithful, RecordsTyped DEF CloseDownload, IInv, TypeOK
  <1>5. CASE DownloadFails(d)
    <2> DEFINE r == [downloads[d] EXCEPT !.pc = "failed"]
    <2>1. r \in Download /\ downloads' = [downloads EXCEPT ![d] = r]
      BY <1>1, <1>5 DEF Download, DownloadFails, IInv, TypeOK
    <2>2. Faithful(r)
      BY <1>1 DEF Faithful, Bounded, Download
    <2>3. faults' \in 0 .. MaxFaults
      BY <1>5, SizesAssumption DEF IInv, TypeOK, DownloadFails, Fault
    <2> HIDE DEF r
    <2>4. QED
      BY <1>2, <1>5, <2>1, <2>2, <2>3 DEF DownloadFails
  <1>6. CASE EndDownload(d)
    <2> DEFINE dl == downloads[d]
               r == [downloads[d] EXCEPT !.pc = "ended"]
    <2>1. r \in Download /\ downloads' = [downloads EXCEPT ![d] = r]
      BY <1>1, <1>6 DEF Download, EndDownload, IInv, TypeOK
    <2>2. /\ dl.start \in Nat /\ dl.end \in Nat /\ dl.offset \in Nat
          /\ dl.file \in Seq(Chunks) /\ dl.segments \in Seq(Segment)
      BY <1>1 DEF Download
    <2>3. Bounded(dl) /\ Remaining(dl) /\ Reached(dl)
      BY <1>1, <1>6 DEF Faithful, EndDownload
    <2>4. dl.start >= dl.end
      <3>1. CASE dl.segments = <<>>
        <4>1. Len(dl.segments) = 0 /\ Len(dl.file) \in Nat
          BY <2>2, <3>1, LenProperties, EmptySeq
        <4>2. dl.start = Len(dl.file) * ChunkBytes
          BY <2>3, <4>1 DEF Remaining
        <4>3. QED
          BY <2>2, <2>3, <4>2 DEF Bounded
      <3>2. QED
        BY <1>6, <3>1 DEF EndDownload
    <2>5. dl.offset <= dl.end
      BY <2>3 DEF Bounded
    <2>6. Len(dl.out) = dl.end - dl.offset
      BY <2>2, <2>3, <2>4, <2>5 DEF Reached, Least
    <2>7. Faithful(r)
      <3>1. /\ r.pc = "ended" /\ r.file = dl.file /\ r.out = dl.out
            /\ r.offset = dl.offset /\ r.end = dl.end
        BY <1>1 DEF Download
      <3>2. QED
        BY <2>3, <2>6, <3>1 DEF Faithful, Bounded
    <2> HIDE DEF r
    <2>8. QED
      BY <1>2, <1>6, <2>1, <2>7 DEF EndDownload, IInv, TypeOK
  <1>7. QED
    BY <1>3, <1>4, <1>5, <1>6

\* The position after the first in a tail is the next one in the sequence.
LEMMA Regroup == \A a, b \in Int : a + (b + 1) = (a + 1) + b
  OBVIOUS

\* The bytes of the segment a download is at, and where they are in the file.
LEMMA SegmentBytes ==
  ASSUME NEW dl \in Download, Remaining(dl), dl.segments # <<>>
  PROVE  LET bytes == BytesOf(<<Head(dl.segments).chunk>>) IN
         /\ bytes \in Seq(Chunks \X (1 .. ChunkBytes)) /\ Len(bytes) = ChunkBytes
         /\ \A k \in 1 .. ChunkBytes : bytes[k] = BytesOf(dl.file)[dl.start + k]
         /\ dl.start + ChunkBytes <= Len(dl.file) * ChunkBytes
  <1> DEFINE s == Head(dl.segments)
             at == Len(dl.file) - Len(dl.segments)
             chunk == <<s.chunk>>
  <1>1. dl.file \in Seq(Chunks) /\ dl.segments \in Seq(Segment)
    BY DEF Download
  <1>2. /\ Len(dl.file) \in Nat /\ Len(dl.segments) \in Nat \ {0} /\ ChunkBytes \in Nat \ {0}
    BY <1>1, LenProperties, EmptySeq, SizesAssumption
  <1>3. s \in Segment /\ s = dl.segments[1]
    BY <1>1, HeadTailProperties
  <1>4. /\ at \in 0 .. Len(dl.file) - 1 /\ dl.start = at * ChunkBytes
        /\ dl.segments[1].chunk = dl.file[at + 1]
    <2>1. Len(dl.segments) <= Len(dl.file) /\ dl.start = at * ChunkBytes
      BY DEF Remaining
    <2>2. 1 \in 1 .. Len(dl.segments)
      BY <1>2
    <2>3. dl.segments[1].chunk = dl.file[at + 1]
      BY <2>2 DEF Remaining
    <2>4. at \in 0 .. Len(dl.file) - 1
      <3>1. Len(dl.segments) <= Len(dl.file)
        BY <2>1
      <3>2. \A m \in Nat, n \in Nat \ {0} : n <= m => m - n \in 0 .. m - 1
        OBVIOUS
      <3>3. QED
        BY <1>2, <3>1, <3>2
    <2>5. QED
      BY <2>1, <2>3, <2>4
  <1>5. s.chunk \in Chunks /\ s.chunk = dl.file[at + 1]
    BY <1>3, <1>4 DEF Segment
  <1> HIDE DEF s, at
  <1>6. chunk \in Seq(Chunks) /\ Len(chunk) = 1 /\ chunk[1] = s.chunk
    BY <1>5
  <1>7. BytesOf(chunk) \in Seq(Chunks \X (1 .. ChunkBytes)) /\ Len(BytesOf(chunk)) = ChunkBytes
    <2> HIDE DEF chunk
    <2>1. Len(BytesOf(chunk)) = 1 * ChunkBytes
      BY <1>6, BytesOfSeq
    <2>2. QED
      BY <1>2, <1>6, <2>1, BytesOfSeq
  <1>8. ASSUME NEW k \in 1 .. ChunkBytes PROVE BytesOf(chunk)[k] = BytesOf(dl.file)[dl.start + k]
    <2>1. BytesOf(dl.file)[at * ChunkBytes + k] = <<dl.file[at + 1], k>>
      BY <1>1, <1>4, BytesOfChunk
    <2>2. BytesOf(chunk)[0 * ChunkBytes + k] = <<chunk[0 + 1], k>>
      <3> HIDE DEF chunk
      <3>1. 0 \in 0 .. Len(chunk) - 1
        BY <1>6
      <3>2. QED
        BY <1>6, <3>1, BytesOfChunk
    <2>3. 0 * ChunkBytes + k = k /\ chunk[0 + 1] = dl.file[at + 1]
      BY <1>2, <1>5, <1>6
    <2> HIDE DEF chunk
    <2>4. QED
      BY <1>4, <2>1, <2>2, <2>3
  <1>9. dl.start + ChunkBytes <= Len(dl.file) * ChunkBytes
    <2>1. (at + 1) * ChunkBytes <= Len(dl.file) * ChunkBytes
      BY <1>2, <1>4
    <2>2. (at + 1) * ChunkBytes = at * ChunkBytes + ChunkBytes
      BY <1>2, <1>4
    <2>3. QED
      BY <1>4, <2>1, <2>2
  <1>10. QED
    BY <1>7, <1>8, <1>9 DEF s

\* The part of a segment that lies in the range continues what was sent.
LEMMA SliceContinues ==
  ASSUME NEW dl \in Download, Bounded(dl), Remaining(dl), Reached(dl), dl.segments # <<>>,
         dl.start < dl.end, ~(dl.start + ChunkBytes <= dl.offset)
  PROVE  LET part == Slice(dl, BytesOf(<<Head(dl.segments).chunk>>), dl.start + ChunkBytes)
         IN  /\ part \in Seq(Chunks \X (1 .. ChunkBytes))
             /\ Len(dl.out) + Len(part) = Least(dl.start + ChunkBytes, dl.end) - dl.offset
             /\ \A k \in 1 .. Len(part) :
                  part[k] = BytesOf(dl.file)[dl.offset + Len(dl.out) + k]
  <1> DEFINE bytes == BytesOf(<<Head(dl.segments).chunk>>)
             segmentEnd == dl.start + ChunkBytes
             from == (IF dl.offset > dl.start THEN dl.offset - dl.start ELSE 0) + 1
             to == Least(dl.end, segmentEnd) - dl.start
             part == SubSeq(bytes, from, to)
             Byte == Chunks \X (1 .. ChunkBytes)
  <1>1. /\ bytes \in Seq(Byte) /\ Len(bytes) = ChunkBytes
        /\ \A k \in 1 .. ChunkBytes : bytes[k] = BytesOf(dl.file)[dl.start + k]
    BY SegmentBytes
  <1>2. /\ dl.offset \in Nat /\ dl.end \in Nat /\ dl.start \in Nat /\ ChunkBytes \in Nat \ {0}
        /\ dl.offset <= dl.end
    BY SizesAssumption DEF Download, Bounded
  <1> HIDE DEF bytes, Byte
  <1>3. from \in 1 .. ChunkBytes /\ to \in 1 .. ChunkBytes /\ from <= to + 1
    <2>1. from \in 1 .. ChunkBytes
      BY <1>2
    <2>2. to \in 1 .. ChunkBytes
      BY <1>2 DEF Least
    <2>3. CASE dl.offset > dl.start
      BY <1>2, <2>3 DEF Least
    <2>4. CASE ~(dl.offset > dl.start)
      BY <1>2, <2>2, <2>4
    <2>5. QED
      BY <2>1, <2>2, <2>3, <2>4
  <1>4. Len(dl.out) = from - 1 + dl.start - dl.offset
    BY <1>2 DEF Reached, Least
  <1>5. to + dl.start = Least(segmentEnd, dl.end)
    BY <1>2 DEF Least
  <1> HIDE DEF from, to
  <1>6. \A i \in from .. to : bytes[i] \in Byte
    BY <1>1, <1>3, ElementOfSeq
  <1>7. from \in Int /\ to \in Int
    BY <1>3
  <1>8. /\ part \in Seq(Byte) /\ Len(part) = IF from <= to THEN to - from + 1 ELSE 0
        /\ \A k \in 1 .. to - from + 1 : part[k] = bytes[from + k - 1]
    BY <1>6, <1>7, SubSeqProperties
  <1> HIDE DEF part
  <1>9. Len(part) = to - from + 1
    BY <1>3, <1>7, <1>8
  <1>10. Len(dl.out) + Len(part) = Least(segmentEnd, dl.end) - dl.offset
    <2>1. Len(dl.out) + Len(part) = to + dl.start - dl.offset
      BY <1>2, <1>3, <1>4, <1>9
    <2> HIDE DEF segmentEnd
    <2>2. QED
      BY <1>2, <1>5, <1>7, <2>1
  <1>11. ASSUME NEW k \in 1 .. Len(part)
         PROVE  part[k] = BytesOf(dl.file)[dl.offset + Len(dl.out) + k]
    <2>1. k \in 1 .. to - from + 1 /\ from + k - 1 \in 1 .. ChunkBytes
      BY <1>2, <1>3, <1>7, <1>9
    <2>2. part[k] = BytesOf(dl.file)[dl.start + (from + k - 1)]
      BY <1>1, <1>8, <2>1
    <2>3. dl.start + (from + k - 1) = dl.offset + Len(dl.out) + k
      BY <1>2, <1>3, <1>4, <2>1, SMTT(40)
    <2>4. QED
      BY <2>2, <2>3
  <1>12. part = Slice(dl, bytes, segmentEnd)
    BY DEF Slice, part, from, to
  <1>13. QED
    BY <1>8, <1>10, <1>11, <1>12 DEF bytes, Byte

\* One segment further: a segment that ends before the range is skipped, of the
\* others the part in the range is sent.
LEMMA DownloadSegmentKeeps ==
  ASSUME IInv, NEW d \in Downloads, DownloadSegment(d)
  PROVE  IInv'
  <1> DEFINE Byte == Chunks \X (1 .. ChunkBytes)
  <1> PICK dl : dl = downloads[d]
    OBVIOUS
  <1> DEFINE segmentEnd == dl.start + ChunkBytes
             skipped == segmentEnd <= dl.offset
             part == Slice(dl, BytesOf(<<Head(dl.segments).chunk>>), segmentEnd)
             rest == Tail(dl.segments)
             sent == IF skipped THEN dl.out ELSE dl.out \o part
  <1>1. /\ dl \in Download /\ Faithful(dl) /\ dl.pc = "streaming"
        /\ dl.segments # <<>> /\ dl.start < dl.end
        /\ downloads' = [downloads EXCEPT ![d].segments = rest, ![d].start = segmentEnd,
                                          ![d].out = sent]
    BY DEF IInv, TypeOK, DownloadSegment
  <1>2. /\ dl.file \in Seq(Chunks) /\ dl.segments \in Seq(Segment) /\ dl.out \in Seq(Byte)
        /\ dl.offset \in Nat /\ dl.end \in Nat /\ dl.start \in Nat
        /\ ChunkBytes \in Nat \ {0}
    BY <1>1, SizesAssumption DEF Download
  <1>3. Bounded(dl) /\ Remaining(dl) /\ Reached(dl)
    BY <1>1 DEF Faithful
  <1>4. /\ rest \in Seq(Segment) /\ Len(rest) = Len(dl.segments) - 1
        /\ \A k \in 1 .. Len(rest) : rest[k] = dl.segments[k + 1]
    BY <1>1, <1>2, HeadTailProperties
  <1>5. segmentEnd \in Nat
    BY <1>2
  <1>6. /\ Len(dl.file) \in Nat /\ Len(dl.segments) \in Nat \ {0} /\ Len(rest) \in Nat
        /\ Len(dl.out) \in Nat
    BY <1>1, <1>2, <1>4, LenProperties, EmptySeq
  <1> HIDE DEF rest
  <1>7. /\ sent \in Seq(Byte)
        /\ Len(sent) = IF segmentEnd <= dl.offset THEN 0 ELSE Least(segmentEnd, dl.end) - dl.offset
        /\ \A k \in 1 .. Len(sent) : sent[k] = BytesOf(dl.file)[dl.offset + k]
    <2>1. CASE skipped
      <3>1. Len(dl.out) = 0
        BY <1>2, <1>3, <2>1 DEF Reached
      <3>2. QED
        BY <1>2, <2>1, <3>1
    <2>2. CASE ~skipped
      <3>1. /\ part \in Seq(Byte)
            /\ Len(dl.out) + Len(part) = Least(segmentEnd, dl.end) - dl.offset
            /\ \A k \in 1 .. Len(part) :
                 part[k] = BytesOf(dl.file)[dl.offset + Len(dl.out) + k]
        BY <1>1, <1>3, <2>2, SliceContinues
      <3> HIDE DEF part, Byte, segmentEnd
      <3>2. /\ dl.out \o part \in Seq(Byte)
            /\ Len(dl.out \o part) = Len(dl.out) + Len(part)
            /\ \A k \in 1 .. Len(dl.out) + Len(part) :
                 (dl.out \o part)[k] = IF k <= Len(dl.out) THEN dl.out[k] ELSE part[k - Len(dl.out)]
        BY <1>2, <3>1, ConcatProperties
      <3>3. Len(part) \in Nat
        BY <3>1, LenProperties
      <3>4. ASSUME NEW k \in 1 .. Len(dl.out \o part)
            PROVE  (dl.out \o part)[k] = BytesOf(dl.file)[dl.offset + k]
        <4>1. CASE k <= Len(dl.out)
          <5>1. k \in 1 .. Len(dl.out)
            BY <1>6, <4>1
          <5>2. (dl.out \o part)[k] = dl.out[k]
            BY <3>2, <4>1
          <5>3. QED
            BY <1>3, <5>1, <5>2 DEF Bounded
        <4>2. CASE ~(k <= Len(dl.out))
          <5>1. k - Len(dl.out) \in 1 .. Len(part)
            BY <1>6, <3>2, <3>3, <4>2
          <5>2. (dl.out \o part)[k] = part[k - Len(dl.out)]
            BY <3>2, <4>2
          <5>3. dl.offset + Len(dl.out) + (k - Len(dl.out)) = dl.offset + k
            BY <1>2, <1>6
          <5>4. QED
            BY <3>1, <5>1, <5>2, <5>3
        <4>3. QED
          BY <4>1, <4>2
      <3>5. sent = dl.out \o part
        BY <2>2
      <3> HIDE DEF sent
      <3>6. QED
        BY <2>2, <3>1, <3>2, <3>4, <3>5
    <2>3. QED
      BY <2>1, <2>2
  <1> HIDE DEF sent
  <1> DEFINE r == [dl EXCEPT !.segments = rest, !.start = segmentEnd, !.out = sent]
  <1>8. r \in Download
    <2> HIDE DEF segmentEnd
    <2>1. QED
      BY <1>1, <1>4, <1>5, <1>7 DEF Download
  <1>9. downloads' = [downloads EXCEPT ![d] = r]
    BY <1>1
  <1>10. /\ r.pc = "streaming" /\ r.file = dl.file /\ r.offset = dl.offset /\ r.end = dl.end
         /\ r.segments = rest /\ r.start = segmentEnd /\ r.out = sent
    BY <1>1 DEF Download
  <1> HIDE DEF r
  <1>11. Remaining(r)
    <2>1. /\ Len(dl.segments) <= Len(dl.file)
          /\ dl.start = (Len(dl.file) - Len(dl.segments)) * ChunkBytes
      BY <1>3 DEF Remaining
    <2>2. Len(rest) <= Len(dl.file)
      BY <1>4, <1>6, <2>1
    <2>3. segmentEnd = (Len(dl.file) - Len(rest)) * ChunkBytes
      <3>1. Len(dl.file) - Len(rest) = (Len(dl.file) - Len(dl.segments)) + 1
        BY <1>4, <1>6
      <3>2. \A n \in Int : (n + 1) * ChunkBytes = n * ChunkBytes + ChunkBytes
        BY <1>2
      <3>3. Len(dl.file) - Len(dl.segments) \in Int
        BY <1>6
      <3>4. QED
        BY <2>1, <3>1, <3>2, <3>3
    <2>4. ASSUME NEW k \in 1 .. Len(rest)
          PROVE  rest[k].chunk = dl.file[(Len(dl.file) - Len(rest)) + k]
      <3> DEFINE at == Len(dl.file) - Len(dl.segments)
      <3>0. at \in Int
        BY <1>6
      <3>1. Len(dl.file) - Len(rest) = at + 1 /\ k \in Nat /\ k + 1 \in 1 .. Len(dl.segments)
        <4>1. Len(rest) = Len(dl.segments) - 1
          BY <1>4
        <4>2. QED
          BY <1>6, <4>1
      <3> HIDE DEF at
      <3>2. at + (k + 1) = (at + 1) + k
        <4>1. k \in Int
          BY <3>1
        <4>2. QED
          BY <3>0, <4>1, Regroup, Zenon
      <3>3. dl.segments[k + 1].chunk = dl.file[at + (k + 1)]
        BY <1>3, <3>1 DEF Remaining, at
      <3>4. QED
        BY <1>4, <3>1, <3>2, <3>3
    <2> HIDE DEF segmentEnd
    <2>5. QED
      BY <1>10, <2>2, <2>3, <2>4 DEF Remaining
  <1> HIDE DEF segmentEnd
  <1>12. Bounded(r) /\ Reached(r)
    <2>1. dl.offset <= dl.end /\ dl.end <= Len(dl.file) * ChunkBytes
      BY <1>3 DEF Bounded
    <2>2. Len(sent) <= dl.end - dl.offset
      BY <1>2, <1>5, <1>7, <2>1 DEF Least
    <2>3. QED
      BY <1>7, <1>10, <2>1, <2>2 DEF Bounded, Reached
  <1>13. Faithful(r)
    BY <1>10, <1>11, <1>12 DEF Faithful
  <1>14. UNCHANGED <<xorbs, shards, disk, memory, uploads, pointers, adrift, faults>>
    BY DEF DownloadSegment
  <1>15. /\ downloads' \in [Downloads -> Download] /\ downloads'[d] = r
         /\ \A g \in Downloads \ {d} : downloads'[g] = downloads[g]
    BY <1>8, <1>9 DEF IInv, TypeOK
  <1>16. QED
    BY <1>13, <1>14, <1>15, DownloadKeeps DEF IInv, TypeOK

-----------------------------------------------------------------------------
(* The theorems *)

\* Nothing is stored, uploaded or downloaded yet. (ArachneEngine::new)
THEOREM InitIInv == Init => IInv
  <1> SUFFICES ASSUME Init PROVE IInv
    OBVIOUS
  <1> USE DEF Init
  <1>1. TypeOK
    BY RecordsTyped, SizesAssumption DEF TypeOK
  <1>2. ASSUME NEW u \in Uploads PROVE UploadSound(u)
    <2>1. /\ uploads[u].pc = "idle" /\ uploads[u].segments = <<>> /\ uploads[u].todo = <<>>
          /\ uploads[u].sent = <<>> /\ uploads[u].taken = {}
      BY DEF Unused
    <2>2. Covers(<<>>, <<>>, <<>>) /\ Len(<<>>) = 0
      BY EmptySeq DEF Covers
    <2>3. QED
      BY <2>1, <2>2 DEF UploadSound
  <1>3. ASSUME NEW d \in Downloads PROVE Faithful(downloads[d])
    <2> PICK dl : dl = downloads[d]
      OBVIOUS
    <2>1. dl.pc = "idle" /\ dl.offset = 0 /\ dl.end = 0 /\ dl.out = <<>>
      BY DEF NoDownload
    <2>2. dl.file \in Seq(Chunks)
      BY EmptySeq DEF NoDownload
    <2>3. QED
      BY <2>1, <2>2, FreshDownload
  <1>4. EntriesResolve /\ DiskAccounted /\ PointersHeld
    BY DEF EntriesResolve, DiskAccounted, PointersHeld
  <1>5. QED
    BY <1>1, <1>2, <1>3, <1>4 DEF IInv

\* Every step keeps the invariant: uploads, downloads, failures and restarts.
THEOREM StepIInv == IInv /\ [Next]_vars => IInv'
  <1> SUFFICES ASSUME IInv, [Next]_vars PROVE IInv'
    OBVIOUS
  <1>1. ASSUME NEW u \in Uploads, UploadStep(u) \/ UploadFails(u) PROVE IInv'
    BY <1>1, ProcessChunkKeeps, CutXorbKeeps, PutXorbKeeps, IndexXorbKeeps, IndexFileKeeps,
       FlushKeeps, AnswerKeeps, UploadFailsKeeps DEF UploadStep
  <1>2. ASSUME NEW d \in Downloads, DownloadStep(d) PROVE IInv'
    BY <1>2, DownloadSegmentKeeps, DownloadEndsKeeps DEF DownloadStep
  <1>3. CASE UNCHANGED vars
    <2>1. TypeOK'
      BY <1>3, Zenon DEF IInv, vars, TypeOK
    <2>5. DiskAccounted'
      BY <1>3, Zenon DEF IInv, vars, DiskAccounted, Taken
    <2>6. PointersHeld'
      BY <1>3, Zenon DEF IInv, vars, PointersHeld, FilesIn
    <2>2. EntriesResolve'
      BY <1>3, ResolvesFrame DEF IInv, vars, EntriesResolve
    <2>3. ASSUME NEW u \in Uploads PROVE UploadSound(u)'
      BY <1>3, UploadFrame DEF IInv, vars, StoreGrows, IndexGrows
    <2>4. QED
      BY <1>3, <2>1, <2>2, <2>3, <2>5, <2>6 DEF IInv, vars
  <1>4. QED
    BY <1>1, <1>2, <1>3, BeginUploadKeeps, BeginDownloadKeeps, DownloadEndsKeeps, RestartKeeps
    DEF Next

\* The invariant holds of every reachable state.
THEOREM InvariantHolds == Spec => []IInv
  BY InitIInv, StepIInv, PTL DEF Spec

\* Whatever the index or a shard hands out can be read: its xorbs are stored and
\* hold the chunks it names. (write_xorb, FileUploader::finish)
THEOREM ResolveTheorem == Spec => []ReferencesResolve
  <1>1. IInv => ReferencesResolve
    BY DEF IInv, EntriesResolve, Resolves, ReferencesResolve
  <1>2. QED
    BY <1>1, InvariantHolds, PTL

\* What was acknowledged is whole, readable now, and can be rebuilt from the object
\* store unless its shard is on its way there or was lost on it.
\* (FileUploader::finish, store_http_payload, ArachneEngine::new)
THEOREM AcknowledgedTheorem == Spec => []AcknowledgedIsSafe
  <1>1. IInv => AcknowledgedIsSafe
    <2> SUFFICES ASSUME IInv PROVE AcknowledgedIsSafe
      OBVIOUS
    <2>1. disk \cup adrift \subseteq Index \cup adrift
      BY DEF Index
    <2>2. disk \cup adrift
            \subseteq shards \cup adrift \cup UNION {uploads[u].taken : u \in Uploads}
      BY DEF IInv, DiskAccounted, Taken
    <2>3. AcknowledgedIsReadable
      <3>1. FilesIn(disk \cup adrift) \subseteq FilesIn(Index \cup adrift)
        BY <2>1, FilesGrow
      <3>2. QED
        BY <3>1 DEF IInv, PointersHeld, AcknowledgedIsReadable
    <2>4. AcknowledgedIsKept
      <3>1. FilesIn(disk \cup adrift)
              \subseteq FilesIn(shards \cup adrift \cup UNION {uploads[u].taken : u \in Uploads})
        BY <2>2, FilesGrow
      <3>2. QED
        BY <3>1 DEF IInv, PointersHeld, AcknowledgedIsKept
    <2>5. PointersAreWhole
      BY DEF IInv, PointersHeld, PointersAreWhole
    <2>6. QED
      BY <2>3, <2>4, <2>5 DEF IInv, AcknowledgedIsSafe
  <1>2. QED
    BY <1>1, InvariantHolds, PTL

\* A download sends the bytes of the range that was asked for, in order, and all
\* of them when it ends without an error. (download_inner)
THEOREM DownloadsTheorem == Spec => []DownloadsAreExact
  <1>1. ASSUME NEW dl \in Download, Faithful(dl)
        PROVE  LET asked == SubSeq(BytesOf(dl.file), dl.offset + 1, dl.end)
               IN  IsPrefix(dl.out, asked) /\ (dl.pc = "ended" => dl.out = asked)
    <2> DEFINE bytes == BytesOf(dl.file)
               asked == SubSeq(bytes, dl.offset + 1, dl.end)
               Byte == Chunks \X (1 .. ChunkBytes)
    <2>1. /\ dl.file \in Seq(Chunks) /\ dl.out \in Seq(Byte)
          /\ dl.offset \in Nat /\ dl.end \in Nat
      BY DEF Download
    <2>2. bytes \in Seq(Byte) /\ Len(bytes) = Len(dl.file) * ChunkBytes
      BY <2>1, BytesOfSeq
    <2>3. /\ dl.offset <= dl.end /\ dl.end <= Len(bytes)
          /\ Len(dl.out) <= dl.end - dl.offset
          /\ \A k \in 1 .. Len(dl.out) : dl.out[k] = bytes[dl.offset + k]
          /\ dl.pc = "ended" => Len(dl.out) = dl.end - dl.offset
      BY <1>1, <2>2 DEF Faithful, Bounded
    <2> HIDE DEF bytes, Byte
    <2>4. Len(bytes) \in Nat /\ Len(dl.out) \in Nat
      BY <2>1, <2>2, LenProperties
    <2>5. \A i \in dl.offset + 1 .. dl.end : bytes[i] \in Byte
      BY <2>1, <2>2, <2>3, <2>4, ElementOfSeq
    <2>6. /\ asked \in Seq(Byte) /\ Len(asked) = dl.end - dl.offset
          /\ \A k \in 1 .. dl.end - dl.offset : asked[k] = bytes[dl.offset + k]
      <3>1. /\ asked \in Seq(Byte)
            /\ Len(asked) = IF dl.offset + 1 <= dl.end THEN dl.end - (dl.offset + 1) + 1 ELSE 0
            /\ \A k \in 1 .. dl.end - (dl.offset + 1) + 1 :
                 asked[k] = bytes[(dl.offset + 1) + k - 1]
        <4>1. dl.offset + 1 \in Int /\ dl.end \in Int
          BY <2>1
        <4>2. QED
          BY <2>5, <4>1, SubSeqProperties
      <3> HIDE DEF asked
      <3>2. dl.end - (dl.offset + 1) + 1 = dl.end - dl.offset
        BY <2>1
      <3>3. Len(asked) = dl.end - dl.offset
        BY <2>1, <2>3, <3>1
      <3>4. ASSUME NEW k \in 1 .. dl.end - dl.offset PROVE asked[k] = bytes[dl.offset + k]
        <4>1. (dl.offset + 1) + k - 1 = dl.offset + k
          BY <2>1
        <4>2. QED
          BY <3>1, <3>2, <4>1
      <3>5. QED
        BY <3>1, <3>3, <3>4
    <2> HIDE DEF asked
    <2>7. \A k \in 1 .. Len(dl.out) : dl.out[k] = asked[k]
      BY <2>1, <2>3, <2>4, <2>6
    <2>8. Len(dl.out) <= Len(asked) /\ Len(asked) \in Nat
      BY <2>1, <2>3, <2>6
    <2>9. SubSeq(dl.out, 1, Len(dl.out)) = SubSeq(asked, 1, Len(dl.out))
      <3> DEFINE n == Len(dl.out)
      <3>1. n \in Int /\ 1 \in Int
        BY <2>4
      <3>2. (\A i \in 1 .. n : dl.out[i] \in Byte) /\ (\A i \in 1 .. n : asked[i] \in Byte)
        BY <2>1, <2>7, ElementOfSeq
      <3>3. /\ SubSeq(dl.out, 1, n) \in Seq(Byte) /\ SubSeq(asked, 1, n) \in Seq(Byte)
            /\ Len(SubSeq(dl.out, 1, n)) = n /\ Len(SubSeq(asked, 1, n)) = n
            /\ \A i \in 1 .. n : SubSeq(dl.out, 1, n)[i] = dl.out[i]
            /\ \A i \in 1 .. n : SubSeq(asked, 1, n)[i] = asked[i]
        BY <2>4, <3>1, <3>2, SubSeqProperties
      <3>4. QED
        BY <2>7, <3>3, SeqEqual
    <2>10. dl.pc = "ended" => dl.out = asked
      <3> SUFFICES ASSUME dl.pc = "ended" PROVE dl.out = asked
        OBVIOUS
      <3>1. Len(dl.out) = Len(asked)
        BY <2>3, <2>6
      <3>2. QED
        BY <2>1, <2>6, <2>7, <3>1, SeqEqual
    <2>11. QED
      BY <2>8, <2>9, <2>10 DEF IsPrefix, asked, bytes
  <1>2. IInv => DownloadsAreExact
    BY <1>1 DEF IInv, TypeOK, DownloadsAreExact
  <1>3. QED
    BY <1>2, InvariantHolds, PTL

-----------------------------------------------------------------------------
(* VcsEngine: the operation log *)

CallFields == {"pc", "kind", "arg", "op", "target", "client"}

\* The log is a sequence of operations that name only operations of the log.
LogShape ==
  /\ ops \in Seq({ops[o] : o \in DOMAIN ops})
  /\ opHeads \subseteq DOMAIN ops
  /\ \A o \in DOMAIN ops : ops[o].anc \subseteq DOMAIN ops

\* A call that has loaded the repository works on an operation of the log.
CallShape ==
  /\ DOMAIN calls = Callers
  /\ \A c \in Callers :
       /\ DOMAIN calls[c] = CallFields
       /\ calls[c].pc \in {"loaded", "ready"} => calls[c].op \in DOMAIN ops

\* The inductive invariant: calls may publish on an operation that has long
\* ceased to be a head, so completeness needs what the operations name.
LogInv == LogShape /\ OpLogComplete /\ CallShape

\* What an Append makes of the log: Transaction::commit only adds.
LEMMA AppendGrows ==
  ASSUME NEW s, s \in Seq({s[i] : i \in DOMAIN s}), NEW x
  PROVE  LET t == Append(s, x) IN
         /\ t \in Seq({t[i] : i \in DOMAIN t})
         /\ DOMAIN t = DOMAIN s \cup {Len(s) + 1}
         /\ Len(s) + 1 \notin DOMAIN s
         /\ \A i \in DOMAIN s : t[i] = s[i]
         /\ t[Len(s) + 1] = x
<1> DEFINE S == {s[i] : i \in DOMAIN s}
           t == Append(s, x)
<1>1. s \in Seq(S \cup {x}) /\ Len(s) \in Nat /\ DOMAIN s = 1 .. Len(s)
  OBVIOUS
<1>2. /\ t \in Seq(S \cup {x}) /\ DOMAIN t = 1 .. (Len(s) + 1)
      /\ \A i \in DOMAIN s : t[i] = s[i]
      /\ t[Len(s) + 1] = x
  BY <1>1
<1>3. \A i \in 1 .. (Len(s) + 1) : t[i] \in {t[j] : j \in DOMAIN t}
  BY <1>2
<1>4. t \in Seq({t[i] : i \in DOMAIN t})
  BY <1>1, <1>2, <1>3
<1> QED
  BY <1>1, <1>2, <1>4

\* Publishing an operation on any operations of the log, heads or not, keeps
\* the log complete. (Transaction::commit)
LEMMA PublishKeepsLog ==
  ASSUME LogShape, OpLogComplete,
         NEW parents, parents \subseteq DOMAIN ops, NEW kind, NEW view,
         Publish(parents, kind, view)
  PROVE  /\ LogShape' /\ OpLogComplete'
         /\ DOMAIN ops' = DOMAIN ops \cup {Len(ops) + 1}
<1>n. PICK n : n = Len(ops) + 1
  OBVIOUS
<1>0. PICK new : new = [kind |-> kind, view |-> view,
                        anc |-> (UNION {ops[p].anc : p \in parents}) \cup {n}]
  OBVIOUS
<1>1. ops' = Append(ops, new) /\ opHeads' = (opHeads \ parents) \cup {n}
  BY <1>n, <1>0 DEF Publish
<1>2. /\ ops' \in Seq({ops'[i] : i \in DOMAIN ops'})
      /\ DOMAIN ops' = DOMAIN ops \cup {n}
      /\ \A i \in DOMAIN ops : ops'[i] = ops[i]
      /\ n \notin DOMAIN ops
      /\ ops'[n] = new
  BY <1>n, <1>1, AppendGrows DEF LogShape
<1>3. new.anc = (UNION {ops[p].anc : p \in parents}) \cup {n}
  BY <1>0
<1>4. new.anc \subseteq DOMAIN ops'
  <2>1. \A p \in parents : ops[p].anc \subseteq DOMAIN ops
    BY DEF LogShape
  <2>2. UNION {ops[p].anc : p \in parents} \subseteq DOMAIN ops
    BY <2>1
  <2> QED BY <1>2, <1>3, <2>2
<1>5. LogShape'
  BY <1>1, <1>2, <1>4 DEF LogShape
<1>6. ASSUME NEW o \in DOMAIN ops'
      PROVE  \E h \in opHeads' : o \in ops'[h].anc
  <2>1. CASE o = n
    <3>1. n \in opHeads' /\ n \in new.anc
      BY <1>1, <1>3
    <3>2. ops'[n].anc = new.anc
      BY <1>2
    <3> QED BY <2>1, <3>1, <3>2
  <2>2. CASE o \in DOMAIN ops
    <3>1. PICK h \in opHeads : o \in ops[h].anc
      BY <2>2 DEF OpLogComplete
    <3>2. CASE h \in parents
      BY <3>1, <3>2, <1>1, <1>2, <1>3
    <3>3. CASE h \notin parents
      BY <3>1, <3>3, <1>1, <1>2 DEF LogShape
    <3> QED BY <3>2, <3>3
  <2> QED BY <1>2, <2>1, <2>2
<1>7. OpLogComplete'
  BY <1>5, <1>6 DEF OpLogComplete, LogShape
<1> QED BY <1>n, <1>2, <1>5, <1>7

\* A repository as init_repo leaves it, or any VcsInit allows, has a complete log.
LEMMA InitLog == VcsInit => LogInv
<1> SUFFICES ASSUME VcsInit PROVE LogInv
  OBVIOUS
<1>1. \E v : ops = <<[kind |-> "init", anc |-> {1}, view |-> v]>>
  BY Zenon DEF VcsInit, Repo
<1>2. PICK v : ops = <<[kind |-> "init", anc |-> {1}, view |-> v]>>
  BY <1>1
<1>3. DOMAIN ops = {1} /\ ops[1].anc = {1} /\ opHeads = {1}
  BY <1>2 DEF VcsInit
<1>4. ops \in Seq({ops[o] : o \in DOMAIN ops})
  BY <1>2
<1>5. LogShape /\ OpLogComplete
  BY <1>3, <1>4 DEF LogShape, OpLogComplete
<1>6. CallShape
  BY DEF VcsInit, CallShape, CallFields
<1> QED BY <1>5, <1>6 DEF LogInv

\* Every step of every call, of the environment and of the queue keeps it.
LEMMA StepLog == LogInv /\ [VcsNext]_vcsVars => LogInv'
<1> SUFFICES ASSUME LogInv, [VcsNext]_vcsVars PROVE LogInv'
  OBVIOUS
<1> USE DEF LogInv
<1>0. ASSUME UNCHANGED <<ops, opHeads>>, CallShape'
      PROVE  LogInv'
  BY <1>0 DEF LogShape, OpLogComplete
<1>p. ASSUME NEW parents, parents \subseteq DOMAIN ops, NEW kind, NEW view,
             Publish(parents, kind, view), NEW c \in Callers,
             NEW call, DOMAIN call = CallFields,
             calls' = [calls EXCEPT ![c] = call],
             call.pc \in {"loaded", "ready"} => call.op \in DOMAIN ops \cup {Len(ops) + 1}
      PROVE  LogInv'
  <2>1. LogShape' /\ OpLogComplete' /\ DOMAIN ops' = DOMAIN ops \cup {Len(ops) + 1}
    BY <1>p, PublishKeepsLog
  <2>2. CallShape'
    BY <1>p, <2>1 DEF CallShape
  <2> QED BY <2>1, <2>2
<1>1. CASE UNCHANGED vcsVars
  BY <1>1, <1>0 DEF vcsVars, CallShape
<1>2. CASE Push
  BY <1>2, <1>0 DEF Push, CallShape
<1>3. CASE Crash
  <2>1. CallShape'
    BY <1>3 DEF Crash, CallShape, CallFields, UnderWay
  <2> QED BY <1>0, <1>3, <2>1 DEF Crash
<1>4. ASSUME NEW c \in Callers, Step(c) PROVE LogInv'
  <2>1. ASSUME NEW kind \in Kinds, NEW arg, Begin(c, kind, arg) PROVE LogInv'
    <3>1. CallShape'
      BY <2>1 DEF Begin, CallShape, CallFields
    <3> QED BY <1>0, <2>1, <3>1 DEF Begin
  <2>2. CASE TakeTurn(c) \/ NothingToImport(c) \/ CancelSubmission(c)
    <3>1. CallShape'
      BY <2>2 DEF TakeTurn, NothingToImport, CancelSubmission, CallShape, CallFields
    <3> QED BY <1>0, <2>2, <3>1 DEF TakeTurn, NothingToImport, CancelSubmission
  <2>3. CASE LoadAtHead(c)
    <3>1. opHeads # {}
      BY <2>3, FS_EmptySet DEF LoadAtHead
    <3>2. (CHOOSE o \in opHeads : TRUE) \in DOMAIN ops
      BY <3>1 DEF LogShape
    <3>3. CallShape'
      BY <2>3, <3>2 DEF LoadAtHead, CallShape, CallFields
    <3> QED BY <1>0, <2>3, <3>3 DEF LoadAtHead
  <2>4. CASE LoadMerging(c)
    <3>1. PICK view : Publish(opHeads, "merge", view)
      BY <2>4 DEF LoadMerging
    <3>2. calls' = [calls EXCEPT ![c] = [calls[c] EXCEPT !.pc = "loaded", !.op = Len(ops) + 1]]
      BY <2>4 DEF LoadMerging, CallShape
    <3> QED BY <1>p, <3>1, <3>2 DEF CallShape, CallFields, LogShape
  <2>5. CASE Read(c) \/ IntegrateOutOfScope(c) \/ MirrorFails(c) \/ Mirror(c)
    <3>1. CallShape'
      BY <2>5 DEF Read, IntegrateOutOfScope, MirrorFails, Mirror, Return, CallShape, CallFields
    <3> QED BY <1>0, <2>5, <3>1 DEF Read, IntegrateOutOfScope, MirrorFails, Mirror
  <2>6. CASE Import(c)
    <3>1. calls[c].pc = "loaded" /\ \E view : Publish({calls[c].op}, "import", view)
      BY <2>6 DEF Import
    <3>2. calls' = [calls EXCEPT ![c] = [calls[c] EXCEPT !.pc = "ready", !.op = Len(ops) + 1]]
      BY <2>6 DEF Import, CallShape
    <3> QED BY <1>p, <3>1, <3>2 DEF CallShape, CallFields
  <2>7. CASE CheckpointCall(c) \/ CommitCall(c) \/ RestoreCall(c)
             \/ IntegrateFastForward(c) \/ IntegrateRebase(c)
    <3>1. calls[c].pc = "ready" /\ \E kind, view : Publish({calls[c].op}, kind, view)
      BY <2>7 DEF CheckpointCall, CommitCall, RestoreCall, IntegrateFastForward, IntegrateRebase
    <3>2. \/ calls' = [calls EXCEPT ![c].pc = "done"]
          \/ \E t : calls' = [calls EXCEPT ![c].pc = "mirroring", ![c].target = t]
      BY <2>7 DEF CheckpointCall, CommitCall, RestoreCall, IntegrateFastForward,
                  IntegrateRebase, Return
    <3>3. \E call : /\ calls' = [calls EXCEPT ![c] = call]
                    /\ DOMAIN call = CallFields
                    /\ call.pc \notin {"loaded", "ready"}
      <4>1. CASE calls' = [calls EXCEPT ![c].pc = "done"]
        <5> WITNESS [calls[c] EXCEPT !.pc = "done"]
        <5> QED BY <4>1 DEF CallShape, CallFields
      <4>2. ASSUME NEW t, calls' = [calls EXCEPT ![c].pc = "mirroring", ![c].target = t]
            PROVE  \E call : /\ calls' = [calls EXCEPT ![c] = call]
                             /\ DOMAIN call = CallFields
                             /\ call.pc \notin {"loaded", "ready"}
        <5> WITNESS [calls[c] EXCEPT !.pc = "mirroring", !.target = t]
        <5> QED BY <4>2 DEF CallShape, CallFields
      <4> QED BY <3>2, <4>1, <4>2
    <3> QED BY <1>p, <3>1, <3>3 DEF CallShape
  <2> QED BY <1>4, <2>1, <2>2, <2>3, <2>4, <2>5, <2>6, <2>7 DEF Step
<1> QED BY <1>1, <1>2, <1>3, <1>4 DEF VcsNext

\* The operation log keeps every operation, whatever the interleaving: any
\* number of calls may load, import and publish on stale operations, and none
\* makes an operation unreachable. (restore_to's "the op log keeps everything")
THEOREM OpLogTheorem == VcsSpec => []OpLogComplete
<1>1. LogInv => OpLogComplete
  BY DEF LogInv
<1> QED BY <1>1, InitLog, StepLog, PTL DEF VcsSpec

-----------------------------------------------------------------------------
(* VcsEngine: the commit graph *)

CommitRecord == [change : Nat, parents : SUBSET Nat, edits : SUBSET Nat, anc : SUBSET Nat]

\* A commit comes after what it is built on, and names all of its ancestors.
WellFormed(cs) ==
  /\ cs \in Seq(CommitRecord)
  /\ \A c \in DOMAIN cs :
       /\ cs[c].change \in 1 .. c
       /\ cs[c].parents \subseteq cs[c].anc \ {c}
       /\ cs[c].anc = (UNION {cs[p].anc : p \in cs[c].parents}) \cup {c}
       /\ cs[c].anc \subseteq 1 .. c
       /\ \A a \in cs[c].anc : cs[a].anc \subseteq cs[c].anc
       /\ cs[c].edits \subseteq 1 .. Len(cs)

\* All that lies below a commit with these parents.
Below(cs, parents) == UNION {cs[p].anc : p \in parents}

\* As long as the graph is plain, a tree is what its history says.
TreesFollow(cs) == Plain(cs) => \A c \in DOMAIN cs : cs[c].edits = History(cs, c)

\* ds keeps every commit of cs.
Extends(ds, cs) == DOMAIN cs \subseteq DOMAIN ds /\ \A c \in DOMAIN cs : ds[c] = cs[c]

\* ds is a well-formed graph that has one commit more than cs.
OneMore(ds, cs, parents, change, edits) ==
  /\ WellFormed(ds) /\ Extends(ds, cs)
  /\ Len(ds) = Len(cs) + 1 /\ DOMAIN ds = DOMAIN cs \cup {Len(cs) + 1}
  /\ ds[Len(cs) + 1].change = change /\ ds[Len(cs) + 1].parents = parents
  /\ ds[Len(cs) + 1].edits = edits
  /\ ds[Len(cs) + 1].anc = Below(cs, parents) \cup {Len(cs) + 1}

LEMMA StoreShape ==
  ASSUME NEW cs, WellFormed(cs)
  PROVE  cs \in Seq(CommitRecord) /\ Len(cs) \in Nat /\ DOMAIN cs = 1 .. Len(cs)
<1>1. cs \in Seq(CommitRecord)
  BY DEF WellFormed
<1> QED BY <1>1

\* Counting up to n reaches every number on the way.
LEMMA CountUp ==
  ASSUME NEW n \in Nat, NEW S, 0 \in S,
         \A k \in 0 .. n : k < n /\ k \in S => k + 1 \in S
  PROVE  \A k \in 0 .. n : k \in S
<1> DEFINE T == (0 .. n) \ S
<1> SUFFICES ASSUME T # {} PROVE FALSE
  OBVIOUS
<1>1. IsWellFoundedOn(OpToRel(<, Nat), Nat)
  BY NatLessThanWellFounded
<1>2. T \subseteq Nat
  OBVIOUS
<1>3. PICK x \in T : \A y \in T : ~(<<y, x>> \in OpToRel(<, Nat))
  BY <1>1, <1>2, WFMin
<1>4. \A y \in T : ~(y < x)
  <2>1. SUFFICES ASSUME NEW y \in T, y < x PROVE FALSE
    OBVIOUS
  <2>2. <<y, x>> \in OpToRel(<, Nat)
    BY <1>2, <1>3, <2>1 DEF OpToRel
  <2> QED BY <1>3, <2>2
<1>5. x \in 0 .. n /\ x # 0 /\ x \notin S
  BY <1>3
<1>6. x - 1 \in 0 .. n /\ x - 1 < n /\ x - 1 < x /\ (x - 1) + 1 = x
  BY <1>5
<1>7. x - 1 \in S
  BY <1>4, <1>6
<1> QED BY <1>5, <1>6, <1>7

\* A commit written on top of commits of a well-formed graph.
LEMMA WithCommitKeeps ==
  ASSUME NEW cs, WellFormed(cs), NEW parents, parents \subseteq DOMAIN cs,
         NEW change, change \in 1 .. (Len(cs) + 1),
         NEW edits, edits \subseteq 1 .. (Len(cs) + 1),
         NEW ds, ds = WithCommit(cs, parents, change, edits)
  PROVE  OneMore(ds, cs, parents, change, edits)
<1> DEFINE n == Len(cs) + 1
           up == UNION {cs[p].anc : p \in parents}
           new == [change |-> change, parents |-> parents, edits |-> edits, anc |-> up \cup {n}]
<1>1. cs \in Seq(CommitRecord) /\ Len(cs) \in Nat /\ DOMAIN cs = 1 .. Len(cs)
  BY DEF WellFormed
<1>2. \A p \in parents : cs[p].anc \subseteq 1 .. p /\ p \in cs[p].anc /\ p \in 1 .. Len(cs)
  BY <1>1 DEF WellFormed
<1>3. up \subseteq 1 .. Len(cs) /\ parents \subseteq up
  BY <1>1, <1>2
<1>4. new \in CommitRecord
  <2>1. change \in Nat /\ parents \in SUBSET Nat /\ edits \in SUBSET Nat
    BY <1>1
  <2> HIDE DEF up
  <2>2. up \cup {n} \in SUBSET Nat
    BY <1>1, <1>3
  <2> QED BY <2>1, <2>2 DEF CommitRecord
<1>5. ds = Append(cs, new)
  BY DEF WithCommit
<1>. HIDE DEF new
<1>6. /\ ds \in Seq(CommitRecord) /\ Len(ds) = n /\ DOMAIN ds = 1 .. n
      /\ \A c \in DOMAIN cs : ds[c] = cs[c]
      /\ ds[n] = new
  BY <1>1, <1>4, <1>5
<1>7. new.change = change /\ new.parents = parents /\ new.edits = edits /\ new.anc = up \cup {n}
  BY DEF new
<1>8. ASSUME NEW c \in DOMAIN ds
      PROVE  /\ ds[c].change \in 1 .. c
         /\ ds[c].parents \subseteq ds[c].anc \ {c}
         /\ ds[c].anc = (UNION {ds[p].anc : p \in ds[c].parents}) \cup {c}
         /\ ds[c].anc \subseteq 1 .. c
         /\ \A a \in ds[c].anc : ds[a].anc \subseteq ds[c].anc
         /\ ds[c].edits \subseteq 1 .. Len(ds)
  <2>1. CASE c \in DOMAIN cs
    <3>1. \A a \in cs[c].anc : a \in DOMAIN cs
      BY <1>1, <2>1 DEF WellFormed
    <3>2. 1 .. Len(cs) \subseteq 1 .. Len(ds)
      BY <1>1, <1>6
    <3>3. \A p \in cs[c].parents : p \in DOMAIN cs
      BY <2>1, <3>1 DEF WellFormed
    <3>4. UNION {ds[p].anc : p \in ds[c].parents} = UNION {cs[p].anc : p \in cs[c].parents}
      BY <1>6, <2>1, <3>3
    <3> QED BY <1>6, <2>1, <3>1, <3>2, <3>4 DEF WellFormed
  <2>2. CASE c = n
    <3>1. ASSUME NEW a \in up \cup {n} PROVE ds[a].anc \subseteq up \cup {n}
      <4>1. CASE a = n
        BY <4>1, <1>6, <1>7
      <4>2. CASE a \in up
        <5>1. PICK p \in parents : a \in cs[p].anc
          BY <4>2
        <5>2. cs[a].anc \subseteq cs[p].anc
          BY <5>1 DEF WellFormed
        <5>3. a \in DOMAIN cs
          BY <4>2, <1>3, <1>1
        <5> QED BY <5>1, <5>2, <5>3, <1>6
      <4> QED BY <4>1, <4>2
    <3>2. n \notin parents
      <4>1. n \notin 1 .. Len(cs)
        BY <1>1
      <4> QED BY <4>1, <1>1
    <3>3. up \cup {n} \subseteq 1 .. n
      <4> HIDE DEF up
      <4> QED BY <1>1, <1>3
    <3> HIDE DEF up
    <3>4. parents \subseteq (up \cup {n}) \ {n}
      BY <3>2, <1>3
    <3>5. UNION {ds[p].anc : p \in ds[n].parents} = UNION {cs[p].anc : p \in parents}
      BY <1>6, <1>7
    <3>6. ds[n].change \in 1 .. n /\ ds[n].edits \subseteq 1 .. Len(ds)
      BY <1>6, <1>7
    <3>7. ds[n].parents \subseteq ds[n].anc \ {n} /\ ds[n].anc \subseteq 1 .. n
      BY <1>6, <1>7, <3>3, <3>4
    <3>8. \A a \in ds[n].anc : ds[a].anc \subseteq ds[n].anc
      BY <1>6, <1>7, <3>1
    <3>9. ds[n].anc = (UNION {ds[p].anc : p \in ds[n].parents}) \cup {n}
      <4>1. ds[n].anc = (UNION {cs[p].anc : p \in parents}) \cup {n}
        BY <1>6, <1>7 DEF up
      <4> QED BY <3>5, <4>1
    <3> QED BY <2>2, <3>6, <3>7, <3>8, <3>9
  <2> QED BY <1>1, <1>6, <2>1, <2>2
<1>9. WellFormed(ds) /\ Extends(ds, cs)
  BY <1>1, <1>6, <1>8 DEF WellFormed, Extends
<1>10. DOMAIN ds = DOMAIN cs \cup {Len(cs) + 1}
  BY <1>1, <1>6
<1> QED BY <1>6, <1>7, <1>9, <1>10 DEF Below, OneMore

\* Growing the graph changes nothing about the commits that were there.
LEMMA ExtendsMeans ==
  ASSUME NEW cs, NEW ds, WellFormed(cs), WellFormed(ds), Extends(ds, cs)
  PROVE  /\ DOMAIN cs \subseteq DOMAIN ds
         /\ \A c \in DOMAIN cs : History(ds, c) = History(cs, c)
         /\ Plain(ds) => Plain(cs)
<1>1. DOMAIN cs = 1 .. Len(cs) /\ DOMAIN ds = 1 .. Len(ds) /\ Len(cs) \in Nat /\ Len(ds) \in Nat
  BY StoreShape
<1>2. DOMAIN cs \subseteq DOMAIN ds
  BY <1>1 DEF Extends
<1>3. \A c \in DOMAIN cs : ds[c] = cs[c] /\ \A a \in cs[c].anc : a \in DOMAIN cs /\ ds[a] = cs[a]
  BY <1>1 DEF WellFormed, Extends
<1>4. \A c \in DOMAIN cs : History(ds, c) = History(cs, c)
  BY <1>3 DEF History
<1>5. Plain(ds) => Plain(cs)
  BY <1>2, <1>3 DEF Plain
<1> QED BY <1>2, <1>4, <1>5

LEMMA ExtendsTransitive ==
  \A as, bs, cs : Extends(bs, as) /\ Extends(cs, bs) => Extends(cs, as)
  BY DEF Extends

LEMMA ExtendsItself == \A cs : Extends(cs, cs)
  BY DEF Extends

-----------------------------------------------------------------------------
(* VcsEngine: rewriting commits *)

\* The commits that "onto" stands for in a rewrite, and where it has got to.
RewriteSound(cs, acc) ==
  /\ acc = [cs |-> acc.cs, map |-> acc.map]
  /\ WellFormed(acc.cs) /\ Extends(acc.cs, cs)
  /\ DOMAIN acc.map = DOMAIN cs
  /\ \A c \in DOMAIN cs : acc.map[c] \subseteq DOMAIN acc.cs
  /\ TreesFollow(cs) => TreesFollow(acc.cs)

\* At most one parent: none, or exactly one.
LEMMA AtMostOne ==
  ASSUME NEW n \in Nat, NEW S, S \subseteq 1 .. n, Cardinality(S) <= 1
  PROVE  S = {} \/ \E p \in 1 .. n : S = {p}
<1>1. IsFiniteSet(1 .. n)
  BY FS_Interval
<1>2. IsFiniteSet(S) /\ Cardinality(S) \in Nat
  BY <1>1, FS_Subset, FS_CardinalityType
<1>3. Cardinality(S) = 0 => S = {}
  BY <1>2, FS_EmptySet
<1>4. Cardinality(S) = 1 => \E p : S = {p}
  BY <1>2, FS_Singleton
<1> QED BY <1>2, <1>3, <1>4

\* A rewritten commit keeps the change; in a plain graph its tree is again
\* what its history says. (rebase_commit)
LEMMA RebaseKeeps ==
  ASSUME NEW cs, WellFormed(cs), NEW c \in DOMAIN cs,
         NEW parents, parents \subseteq DOMAIN cs,
         NEW ds, ds = Rebase(cs, c, parents)
  PROVE  /\ OneMore(ds, cs, parents, cs[c].change, ds[Len(cs) + 1].edits)
         /\ TreesFollow(cs) => TreesFollow(ds)
<1> DEFINE old == MergedEdits(cs, cs[c].parents)
           own == cs[c].edits
           n == Len(cs) + 1
<1>0. PICK edits : edits = (MergedEdits(cs, parents) \ (old \ own)) \cup (own \ old)
  OBVIOUS
<1>1. cs \in Seq(CommitRecord) /\ Len(cs) \in Nat /\ DOMAIN cs = 1 .. Len(cs)
  BY StoreShape
<1>2. ds = WithCommit(cs, parents, cs[c].change, edits)
  BY <1>0 DEF Rebase
<1>3. \A p \in DOMAIN cs : cs[p].edits \subseteq 1 .. Len(cs)
  BY DEF WellFormed
<1>4. edits \subseteq 1 .. n
  <2>1. MergedEdits(cs, parents) \subseteq 1 .. Len(cs)
    BY <1>3 DEF MergedEdits
  <2> HIDE DEF old
  <2> QED BY <1>0, <1>1, <1>3, <2>1
<1>5. cs[c].change \in 1 .. n
  <2>1. cs[c].change \in 1 .. c
    BY DEF WellFormed
  <2> QED BY <1>1, <2>1
<1>w. OneMore(ds, cs, parents, cs[c].change, edits)
  BY <1>2, <1>4, <1>5, WithCommitKeeps, ZenonT(30)
<1>6. /\ WellFormed(ds) /\ Extends(ds, cs) /\ Len(ds) = n
      /\ DOMAIN ds = 1 .. n
      /\ ds[n].change = cs[c].change /\ ds[n].parents = parents /\ ds[n].edits = edits
      /\ ds[n].anc = Below(cs, parents) \cup {n}
  BY <1>1, <1>w DEF OneMore
<1>7. ASSUME TreesFollow(cs), Plain(ds) PROVE \A d \in DOMAIN ds : ds[d].edits = History(ds, d)
  <2>1. Plain(cs) /\ \A d \in DOMAIN cs : History(ds, d) = History(cs, d) /\ ds[d] = cs[d]
    <3>1. /\ \A d \in DOMAIN cs : History(ds, d) = History(cs, d)
          /\ Plain(ds) => Plain(cs)
      BY <1>6, ExtendsMeans
    <3> QED BY <1>6, <1>7, <3>1 DEF Extends
  <2>2. \A d \in DOMAIN cs : cs[d].edits = History(cs, d)
    BY <1>7, <2>1 DEF TreesFollow
  <2>3. \A ps : ps \subseteq DOMAIN cs /\ Cardinality(ps) <= 1 =>
                  MergedEdits(cs, ps) = UNION {History(cs, p) : p \in ps}
    <3> SUFFICES ASSUME NEW ps, ps \subseteq DOMAIN cs, Cardinality(ps) <= 1
                 PROVE  MergedEdits(cs, ps) = UNION {History(cs, p) : p \in ps}
      OBVIOUS
    <3>1. ps = {} \/ \E p \in DOMAIN cs : ps = {p}
      BY <1>1, AtMostOne
    <3>2. CASE ps = {}
      BY <3>2 DEF MergedEdits
    <3>3. ASSUME NEW p \in DOMAIN cs, ps = {p} PROVE MergedEdits(cs, ps) = History(cs, p)
      BY <2>2, <3>3 DEF MergedEdits
    <3> QED BY <3>1, <3>2, <3>3
  <2>4. cs[c].parents \subseteq DOMAIN cs /\ Cardinality(cs[c].parents) <= 1
    <3>1. cs[c].parents \subseteq 1 .. c
      BY DEF WellFormed
    <3> QED BY <1>1, <2>1, <3>1 DEF Plain
  <2>5. old = UNION {History(cs, p) : p \in cs[c].parents}
    BY <2>3, <2>4
  <2>6. Cardinality(parents) <= 1
    <3>1. n \in DOMAIN ds
      BY <1>1, <1>6
    <3> QED BY <1>6, <1>7, <3>1 DEF Plain
  <2>7. MergedEdits(cs, parents) = UNION {History(cs, p) : p \in parents}
    BY <2>3, <2>6
  <2>8. own = old \cup {cs[c].change} /\ cs[c].change \notin old
    <3>1. own = History(cs, c)
      BY <2>2
    <3>2. cs[c].change \in own
      BY <3>1 DEF History, WellFormed
    <3>3. old \subseteq History(cs, c)
      <4> SUFFICES ASSUME NEW p \in cs[c].parents PROVE History(cs, p) \subseteq History(cs, c)
        BY <2>5
      <4>1. cs[p].anc \subseteq cs[c].anc
        BY DEF WellFormed
      <4> QED BY <4>1 DEF History
    <3>4. cs[c].change \notin old
      <4> SUFFICES ASSUME NEW p \in cs[c].parents PROVE cs[c].change \notin History(cs, p)
        BY <2>5
      <4>1. cs[p].anc \subseteq cs[c].anc /\ cs[p].anc \subseteq 1 .. p /\ p \in 1 .. c /\ p # c
        BY <1>1, <2>4 DEF WellFormed
      <4>2. \A a \in cs[p].anc : a \in cs[c].anc \ {c}
        BY <1>1, <4>1
      <4> QED BY <2>1, <4>2 DEF History, Plain
    <3>5. History(cs, c) \subseteq old \cup {cs[c].change}
      <4>1. cs[c].anc = (UNION {cs[p].anc : p \in cs[c].parents}) \cup {c}
        BY DEF WellFormed
      <4> QED BY <2>5, <4>1 DEF History
    <3> QED BY <3>1, <3>2, <3>3, <3>4, <3>5
  <2>9. edits = (UNION {History(cs, p) : p \in parents}) \cup {cs[c].change}
    <3> HIDE DEF old, own
    <3> QED BY <1>0, <2>7, <2>8
  <2>10. History(ds, n) = edits
    <3>1. \A a \in DOMAIN cs : ds[a].change = cs[a].change
      BY <2>1
    <3>2. \A p \in parents : cs[p].anc \subseteq DOMAIN cs
      BY <1>1 DEF WellFormed
    <3>3. History(ds, n) = {ds[a].change : a \in UNION {cs[p].anc : p \in parents}} \cup {cs[c].change}
      BY <1>6 DEF History, Below
    <3>4. {ds[a].change : a \in UNION {cs[p].anc : p \in parents}}
             = UNION {History(cs, p) : p \in parents}
      BY <3>1, <3>2 DEF History
    <3> QED BY <2>9, <3>3, <3>4
  <2> QED BY <1>1, <1>6, <2>1, <2>2, <2>10
<1>8. edits = ds[Len(cs) + 1].edits
  BY <1>6
<1> QED BY <1>w, <1>7, <1>8 DEF TreesFollow

\* The commits written when the first c commits of cs have been moved.
Moved(cs, gone, moving, new) ==
  CHOOSE moved : moved = [c \in 0 .. Len(cs) |->
    IF c = 0 THEN [cs |-> cs, map |-> [d \in DOMAIN cs |-> {d}]]
    ELSE MoveCommit(cs, gone, moving, new, moved[c - 1], c)]

LEMMA MoveAllIs ==
  \A cs, gone, moving, new : MoveAll(cs, gone, moving, new) = Moved(cs, gone, moving, new)[Len(cs)]
  BY DEF MoveAll, Moved

\* The commits are moved one after the other.
LEMMA MovedIs ==
  ASSUME NEW cs, Len(cs) \in Nat, NEW gone, NEW moving, NEW new
  PROVE  LET moved == Moved(cs, gone, moving, new) IN
         /\ moved[0] = [cs |-> cs, map |-> [d \in DOMAIN cs |-> {d}]]
         /\ \A c \in 1 .. Len(cs) : moved[c] = MoveCommit(cs, gone, moving, new, moved[c - 1], c)
<1> DEFINE start == [cs |-> cs, map |-> [d \in DOMAIN cs |-> {d}]]
           Step1(acc, c) == MoveCommit(cs, gone, moving, new, acc, c)
           F(m, k) == [c \in 0 .. k |-> IF c = 0 THEN start ELSE Step1(m[c - 1], c)]
           S == {k \in 0 .. Len(cs) : \E m : m = F(m, k)}
<1> HIDE DEF start, Step1
<1>1. 0 \in S
  <2>1. [c \in 0 .. 0 |-> start] = F([c \in 0 .. 0 |-> start], 0)
    OBVIOUS
  <2> HIDE DEF F
  <2>2. \E m : m = F(m, 0)
    BY <2>1
  <2> QED BY <2>2
<1>2. ASSUME NEW k \in 0 .. Len(cs), k < Len(cs), k \in S PROVE k + 1 \in S
  <2>1. PICK f : f = F(f, k)
    BY <1>2
  <2>2. PICK g : g = [c \in 0 .. (k + 1) |-> IF c = k + 1 THEN Step1(f[k], k + 1) ELSE f[c]]
    OBVIOUS
  <2>3. \A c \in 0 .. k : f[c] = IF c = 0 THEN start ELSE Step1(f[c - 1], c)
    BY <2>1
  <2>4. \A c \in 0 .. (k + 1) : g[c] = IF c = 0 THEN start ELSE Step1(g[c - 1], c)
    <3> SUFFICES ASSUME NEW c \in 0 .. (k + 1)
                 PROVE  g[c] = IF c = 0 THEN start ELSE Step1(g[c - 1], c)
      OBVIOUS
    <3>1. CASE c = k + 1
      <4>1. c # 0 /\ c - 1 = k /\ k \in 0 .. (k + 1) /\ k # k + 1
        BY <3>1
      <4>2. g[c - 1] = f[k] /\ g[c] = Step1(f[k], c)
        BY <2>2, <3>1, <4>1
      <4> QED BY <4>1, <4>2
    <3>2. CASE c \in 0 .. k
      <4>1. c # k + 1 /\ (c # 0 => c - 1 \in 0 .. (k + 1) /\ c - 1 # k + 1)
        BY <3>2
      <4>2. g[c] = f[c] /\ (c # 0 => g[c - 1] = f[c - 1])
        BY <2>2, <4>1
      <4> QED BY <2>3, <3>2, <4>2
    <3> QED BY <3>1, <3>2
  <2>5. g = F(g, k + 1)
    BY <2>2, <2>4
  <2> HIDE DEF F
  <2>6. \E m : m = F(m, k + 1)
    BY <2>5
  <2>7. k + 1 \in 0 .. Len(cs)
    BY <1>2
  <2> QED BY <2>6, <2>7
<1>3. Len(cs) \in S
  BY <1>1, <1>2, CountUp
<1>4. PICK h : h = F(h, Len(cs))
  BY <1>3
<1>5. Moved(cs, gone, moving, new) = F(Moved(cs, gone, moving, new), Len(cs))
  BY <1>4 DEF Moved, start, Step1
<1>6. PICK moved : moved = Moved(cs, gone, moving, new)
  OBVIOUS
<1>7. moved = F(moved, Len(cs))
  BY <1>5, <1>6
<1>8. moved[0] = start
  BY <1>7
<1>9. ASSUME NEW c \in 1 .. Len(cs) PROVE moved[c] = Step1(moved[c - 1], c)
  <2>1. c \in 0 .. Len(cs) /\ c # 0
    OBVIOUS
  <2> QED BY <1>7, <2>1
<1> QED BY <1>6, <1>8, <1>9 DEF start, Step1

\* What the parents of c have become.
Onto(cs, acc, c) == UNION {acc.map[p] : p \in cs[c].parents}

\* One commit moved, or not: the graph stays well formed.
LEMMA MoveCommitKeeps ==
  ASSUME NEW cs, WellFormed(cs), NEW acc, RewriteSound(cs, acc),
         NEW gone, NEW moving, moving \cap gone = {}, NEW new, new \subseteq DOMAIN cs,
         NEW c \in DOMAIN cs
  PROVE  RewriteSound(cs, MoveCommit(cs, gone, moving, new, acc, c))
<1>0. PICK onto : onto = UNION {acc.map[p] : p \in cs[c].parents}
  OBVIOUS
<1>1. /\ DOMAIN cs \subseteq DOMAIN acc.cs
      /\ DOMAIN acc.map = DOMAIN cs
      /\ \A d \in DOMAIN cs : acc.map[d] \subseteq DOMAIN acc.cs /\ acc.cs[d] = cs[d]
      /\ WellFormed(acc.cs) /\ (TreesFollow(cs) => TreesFollow(acc.cs)) /\ Extends(acc.cs, cs)
  BY DEF RewriteSound, Extends
<1>2. onto \subseteq DOMAIN acc.cs
  <2>1. cs[c].parents \subseteq DOMAIN cs
    <3>1. cs[c].parents \subseteq 1 .. c /\ DOMAIN cs = 1 .. Len(cs) /\ Len(cs) \in Nat
      BY StoreShape DEF WellFormed
    <3> QED BY <3>1
  <2> QED BY <1>0, <1>1, <2>1
<1>3. CASE c \in moving /\ onto # cs[c].parents
  <2>1. PICK ds : ds = Rebase(acc.cs, c, onto)
    OBVIOUS
  <2>2. c \in DOMAIN acc.cs
    BY <1>1
  <2>3. /\ OneMore(ds, acc.cs, onto, acc.cs[c].change, ds[Len(acc.cs) + 1].edits)
        /\ TreesFollow(acc.cs) => TreesFollow(ds)
    <3>1. PICK as : as = acc.cs
      OBVIOUS
    <3>2. WellFormed(as) /\ c \in DOMAIN as /\ onto \subseteq DOMAIN as /\ ds = Rebase(as, c, onto)
      BY <1>1, <1>2, <2>1, <2>2, <3>1
    <3>3. /\ OneMore(ds, as, onto, as[c].change, ds[Len(as) + 1].edits)
          /\ TreesFollow(as) => TreesFollow(ds)
      BY ONLY <3>2, RebaseKeeps, ZenonT(30)
    <3> QED BY <3>1, <3>3, Zenon
  <2>4. /\ WellFormed(ds) /\ Extends(ds, acc.cs)
        /\ DOMAIN ds = DOMAIN acc.cs \cup {Len(acc.cs) + 1}
    BY <2>3 DEF OneMore
  <2>5. MoveCommit(cs, gone, moving, new, acc, c)
          = [cs |-> ds, map |-> [acc.map EXCEPT ![c] = {Len(acc.cs) + 1}]]
    <3>1. MoveCommit(cs, gone, moving, new, acc, c)
            = [cs |-> Rebase(acc.cs, c, Onto(cs, acc, c)),
               map |-> [acc.map EXCEPT ![c] = {Len(acc.cs) + 1}]]
      <4> QED BY <1>0, <1>3 DEF MoveCommit, Onto
    <3>2. onto = Onto(cs, acc, c)
      BY <1>0 DEF Onto
    <3> QED BY <2>1, <3>1, <3>2
  <2>6. Extends(ds, cs)
    BY <1>1, <2>4, ExtendsTransitive
  <2> QED BY <1>1, <2>3, <2>4, <2>5, <2>6 DEF RewriteSound
<1>4. CASE c \in gone
  <2>1. PICK now : now = IF Successors(cs, new, c) = {} THEN onto ELSE Successors(cs, new, c)
    OBVIOUS
  <2>2. now \subseteq DOMAIN acc.cs
    BY <1>1, <1>2, <2>1 DEF Successors
  <2>3. MoveCommit(cs, gone, moving, new, acc, c) = [acc EXCEPT !.map[c] = now]
    <3>1. c \notin moving
      BY <1>4
    <3> QED BY <1>0, <1>4, <2>1, <3>1 DEF MoveCommit
  <2>4. [acc EXCEPT !.map[c] = now] = [cs |-> acc.cs, map |-> [acc.map EXCEPT ![c] = now]]
    BY DEF RewriteSound
  <2> QED BY <1>1, <2>2, <2>3, <2>4 DEF RewriteSound
<1>5. CASE c \notin gone /\ (c \notin moving \/ onto = cs[c].parents)
  BY <1>0, <1>5 DEF MoveCommit
<1> QED BY <1>3, <1>4, <1>5

\* And so for all of them.
LEMMA MoveAllKeeps ==
  ASSUME NEW cs, WellFormed(cs),
         NEW gone, NEW moving, moving \cap gone = {}, NEW new, new \subseteq DOMAIN cs
  PROVE  RewriteSound(cs, MoveAll(cs, gone, moving, new))
<1>1. Len(cs) \in Nat /\ DOMAIN cs = 1 .. Len(cs)
  BY StoreShape
<1>2. PICK moved : moved = Moved(cs, gone, moving, new)
  OBVIOUS
<1>3. /\ moved[0] = [cs |-> cs, map |-> [d \in DOMAIN cs |-> {d}]]
      /\ \A c \in 1 .. Len(cs) : moved[c] = MoveCommit(cs, gone, moving, new, moved[c - 1], c)
  BY <1>1, <1>2, MovedIs
<1> DEFINE S == {k \in 0 .. Len(cs) : RewriteSound(cs, moved[k])}
<1>4. 0 \in S
  BY <1>1, <1>3, ExtendsItself DEF RewriteSound
<1>5. ASSUME NEW k \in 0 .. Len(cs), k < Len(cs), k \in S PROVE k + 1 \in S
  <2>1. k + 1 \in 1 .. Len(cs) /\ (k + 1) - 1 = k /\ k + 1 \in 0 .. Len(cs) /\ k + 1 \in DOMAIN cs
    BY <1>1, <1>5
  <2>2. moved[k + 1] = MoveCommit(cs, gone, moving, new, moved[k], k + 1)
    BY <1>3, <2>1
  <2>3. RewriteSound(cs, moved[k])
    BY <1>5
  <2>4. RewriteSound(cs, moved[k + 1])
    BY <2>1, <2>2, <2>3, MoveCommitKeeps
  <2> QED BY <2>1, <2>4
<1>6. Len(cs) \in S
  <2> HIDE DEF S
  <2>1. \A k \in 0 .. Len(cs) : k < Len(cs) /\ k \in S => k + 1 \in S
    BY <1>5
  <2>2. \A k \in 0 .. Len(cs) : k \in S
    BY <1>1, <1>4, <2>1, CountUp
  <2> QED BY <1>1, <2>2
<1> QED BY <1>2, <1>6, MoveAllIs

\* A rewritten graph and view: well formed, and the heads name commits of it.
Rewritten(r, cs) ==
  /\ WellFormed(r.cs) /\ Extends(r.cs, cs)
  /\ TreesFollow(cs) => TreesFollow(r.cs)
  /\ r.view = [heads |-> r.view.heads, main |-> r.view.main, git |-> r.view.git]
  /\ r.view.heads \subseteq DOMAIN r.cs

\* Rewriting a commit and what is built on it: the graph stays well formed, and
\* the heads name commits of it. (rebase_descendants)
LEMMA RebaseDescendantsKeeps ==
  ASSUME NEW cs, WellFormed(cs), NEW view,
         view = [heads |-> view.heads, main |-> view.main, git |-> view.git],
         view.heads \subseteq DOMAIN cs,
         NEW lost, lost \subseteq DOMAIN cs, NEW new, new \subseteq DOMAIN cs,
         NEW r, r = RebaseDescendants(cs, view, lost, new)
  PROVE  Rewritten(r, cs)
<1> DEFINE gone == Gone(cs, lost, new)
           moving == Moving(cs, view, lost, gone)
           left == (UNION {cs[c].parents : c \in lost \cup moving}) \ (lost \cup moving)
           Now(end, c) == IF c = None THEN {None}
                          ELSE IF c \in lost \ gone THEN Successors(cs, new, c)
                          ELSE end.map[c]
           Heads(end) == ((UNION {end.map[h] : h \in view.heads}) \ lost) \cup left
<1>1. Len(cs) \in Nat /\ DOMAIN cs = 1 .. Len(cs)
  BY StoreShape
<1>2. PICK end : end = MoveAll(cs, gone, moving, new)
  OBVIOUS
<1>3. /\ WellFormed(end.cs) /\ Extends(end.cs, cs) /\ (TreesFollow(cs) => TreesFollow(end.cs))
      /\ \A c \in DOMAIN cs : end.map[c] \subseteq DOMAIN end.cs
  <2>1. moving \cap gone = {}
    BY DEF Moving, Gone
  <2>2. RewriteSound(cs, end)
    BY <1>2, <2>1, MoveAllKeeps
  <2> QED BY <2>2 DEF RewriteSound
<1>4. r = [cs |-> end.cs,
           view |-> [view EXCEPT !.heads = HeadsOf(end.cs, Heads(end)),
                                 !.main = UNION {Now(end, c) : c \in view.main}]]
  BY <1>2 DEF RebaseDescendants
<1>5. moving \subseteq DOMAIN cs
  <2>1. \A h \in DOMAIN cs : cs[h].anc \subseteq 1 .. h
    BY DEF WellFormed
  <2>2. \A h \in view.heads : cs[h].anc \subseteq DOMAIN cs
    BY <1>1, <2>1
  <2> QED BY <2>2 DEF Moving, Visible
<1>6. left \subseteq DOMAIN cs
  <2>1. \A c \in DOMAIN cs : cs[c].parents \subseteq DOMAIN cs
    BY <1>1 DEF WellFormed
  <2> HIDE DEF moving
  <2> QED BY <1>5, <2>1
<1>7. Heads(end) \subseteq DOMAIN end.cs
  <2>1. left \subseteq DOMAIN end.cs
    BY <1>3, <1>6 DEF Extends
  <2> HIDE DEF left
  <2> QED BY <1>3, <2>1
<1>8. PICK hs, ms : /\ hs = HeadsOf(end.cs, Heads(end))
                    /\ ms = UNION {Now(end, c) : c \in view.main}
  OBVIOUS
<1>9. hs \subseteq DOMAIN end.cs
  <2> HIDE DEF Heads
  <2> QED BY <1>7, <1>8 DEF HeadsOf
<1>10. r.cs = end.cs /\ r.view = [view EXCEPT !.heads = hs, !.main = ms]
  <2> HIDE DEF Heads, Now
  <2> QED BY <1>4, <1>8
<1>11. r.view = [heads |-> r.view.heads, main |-> r.view.main, git |-> r.view.git] /\ r.view.heads = hs
  <2>1. r.view = [[heads |-> view.heads, main |-> view.main, git |-> view.git]
                    EXCEPT !.heads = hs, !.main = ms]
    BY <1>10
  <2>2. r.view = [heads |-> hs, main |-> ms, git |-> view.git]
    BY <2>1
  <2> QED BY <2>2
<1> QED BY <1>3, <1>9, <1>10, <1>11 DEF Rewritten

-----------------------------------------------------------------------------
(* VcsEngine: one call at a time *)

OpKinds == {"init", "merge", "import", "commit", "integrate", "checkpoint", "restore"}

\* A view in which the engine and plain git have one and the same main.
SettledView(v) ==
  /\ v = [heads |-> v.heads, main |-> v.main, git |-> v.git]
  /\ v.heads \subseteq Commit
  /\ \E x \in Commit \cup {None} : v.main = {x} /\ v.git = {x}

\* An operation of the log whose view is settled.
SettledOp(op) ==
  /\ op = [kind |-> op.kind, view |-> op.view, anc |-> op.anc]
  /\ op.kind \in OpKinds /\ op.anc \subseteq DOMAIN ops
  /\ SettledView(op.view)

\* What landed is in the history of x.
Holds(x) == landed \subseteq IF x = None THEN {} ELSE History(commits, x)

StoreInv ==
  /\ WellFormed(commits) /\ TreesFollow(commits)
  /\ git \in Commit \cup {None} /\ pushed \subseteq Commit
  /\ landed \subseteq 1 .. Len(commits) /\ acked \subseteq 1 .. Len(commits)
  /\ mishaps \in 0 .. MaxMishaps /\ turn \in Callers \cup {None}

\* The log is a line, and every operation settled.
LineInv ==
  /\ ops \in Seq({ops[o] : o \in DOMAIN ops}) /\ ops # <<>>
  /\ opHeads = {Len(ops)}
  /\ \A o \in DOMAIN ops : SettledOp(ops[o])

Begun(call) == call.pc \notin {"idle", "done"}

\* A call works on the last operation; main in it, and the commit it is about to
\* mirror, hold what landed.
Sound(call) ==
  /\ Begun(call) => /\ call.kind = "integrate" => call.arg \in Commit
                    /\ call.kind = "restore" => call.arg \in DOMAIN ops
                    /\ call.kind = "commit" => call.arg \in Commit \cup {None}
  /\ call.pc \in {"loaded", "ready"} => call.op = Len(ops)
  /\ call.pc = "ready" /\ call.kind \in {"commit", "integrate"} =>
       Holds(AsNormal(ops[call.op].view.main))
  /\ call.pc = "mirroring" =>
       IF call.kind = "restore" THEN landed = {}
       ELSE call.kind \in {"commit", "integrate"} /\ call.target \in Commit /\ Holds(call.target)

CallsInv ==
  /\ calls \in [Callers -> Call]
  /\ \A c, d \in Callers : Begun(calls[c]) /\ Begun(calls[d]) => c = d
  /\ \A c \in Callers : Sound(calls[c])

\* The inductive invariant of a repository whose calls do not overlap.
SerialInv == StoreInv /\ LineInv /\ CallsInv /\ Holds(git)

LEMMA NormalOne == \A x : AsNormal({x}) = x
<1> TAKE x
<1>1. Cardinality({x}) = 1
  BY FS_Singleton
<1> QED BY <1>1 DEF AsNormal

\* As the repository grows, what was a call stays one.
LEMMA CallGrows ==
  ASSUME Commit \subseteq Commit'
  PROVE  Call \subseteq Call' /\ \A v : SettledView(v) => SettledView(v)'
<1>1. Call \subseteq Call'
  <2>1. ASSUME NEW call \in Call PROVE call \in Call'
    <3>1. call.target \in Commit' \cup {None}
      BY DEF Call
    <3> QED BY <3>1 DEF Call
  <2> QED BY <2>1
<1>2. \A v : SettledView(v) => SettledView(v)'
  BY DEF SettledView
<1> QED BY <1>1, <1>2

LEMMA HoldsStays ==
  ASSUME WellFormed(commits), WellFormed(commits'), Extends(commits', commits),
         landed' \subseteq landed, NEW x \in Commit \cup {None}, Holds(x)
  PROVE  Holds(x)'
<1>1. CASE x = None
  BY <1>1 DEF Holds
<1>2. CASE x # None
  <2>1. History(commits', x) = History(commits, x)
    BY <1>2, ExtendsMeans DEF Commit
  <2> QED BY <1>2, <2>1 DEF Holds
<1> QED BY <1>1, <1>2

\* A commit built on x has in its history what x has.
LEMMA HistoryAbove ==
  ASSUME NEW cs, WellFormed(cs), NEW y \in DOMAIN cs, NEW x \in cs[y].anc
  PROVE  History(cs, x) \subseteq History(cs, y)
<1>1. cs[x].anc \subseteq cs[y].anc
  BY DEF WellFormed
<1> QED BY <1>1 DEF History

\* If the new commit is built on x, it holds what x holds.
LEMMA HoldsAbove ==
  ASSUME WellFormed(commits), WellFormed(commits'), Extends(commits', commits), landed' = landed,
         NEW x \in Commit \cup {None}, Holds(x), NEW y \in DOMAIN commits',
         x = None \/ x \in commits'[y].anc
  PROVE  Holds(y)'
<1>1. y # None
  BY StoreShape, NoCommitAssumption
<1>2. CASE x = None
  BY <1>2 DEF Holds
<1>3. CASE x # None
  <2>1. History(commits', x) = History(commits, x)
    BY <1>3, ExtendsMeans DEF Commit
  <2>2. History(commits', x) \subseteq History(commits', y)
    BY <1>3, HistoryAbove
  <2> QED BY <1>1, <1>3, <2>1, <2>2 DEF Holds
<1> QED BY <1>2, <1>3

\* An operation published at the end of a line keeps it one.
LEMMA PublishInLine ==
  ASSUME LineInv, Commit \subseteq Commit', NEW kind \in OpKinds, NEW view, SettledView(view)',
         Publish({Len(ops)}, kind, view)
  PROVE  /\ LineInv'
         /\ Len(ops') = Len(ops) + 1 /\ DOMAIN ops \subseteq DOMAIN ops'
         /\ ops'[Len(ops) + 1].view = view
<1>n. PICK n : n = Len(ops) + 1
  OBVIOUS
<1>0. PICK new : new = [kind |-> kind, view |-> view,
                        anc |-> (UNION {ops[p].anc : p \in {Len(ops)}}) \cup {n}]
  OBVIOUS
<1>1. ops' = Append(ops, new) /\ opHeads' = (opHeads \ {Len(ops)}) \cup {n}
  BY <1>n, <1>0 DEF Publish
<1>2. /\ ops' \in Seq({ops'[i] : i \in DOMAIN ops'})
      /\ DOMAIN ops' = DOMAIN ops \cup {n}
      /\ \A i \in DOMAIN ops : ops'[i] = ops[i]
      /\ n \notin DOMAIN ops
      /\ ops'[n] = new
  <2>1. ops \in Seq({ops[o] : o \in DOMAIN ops})
    BY DEF LineInv
  <2> QED BY <1>n, <1>1, <2>1, AppendGrows
<1>3. Len(ops) \in DOMAIN ops
  BY DEF LineInv
<1>4. SettledOp(new)'
  <2>1. ops[Len(ops)].anc \subseteq DOMAIN ops
    BY <1>3 DEF LineInv, SettledOp
  <2>2. (UNION {ops[p].anc : p \in {Len(ops)}}) \cup {n} \subseteq DOMAIN ops'
    BY <1>2, <2>1
  <2> QED BY <1>0, <2>2 DEF SettledOp
<1>5. \A o \in DOMAIN ops : SettledOp(ops[o])'
  <2> SUFFICES ASSUME NEW o \in DOMAIN ops PROVE SettledOp(ops[o])'
    OBVIOUS
  <2>1. SettledOp(ops[o]) /\ ops'[o] = ops[o] /\ DOMAIN ops \subseteq DOMAIN ops'
    BY <1>2 DEF LineInv
  <2>2. SettledView(ops[o].view) => SettledView(ops[o].view)'
    BY <2>1, CallGrows DEF SettledView
  <2> QED BY <2>1, <2>2 DEF SettledOp
<1>6. Len(ops') = n /\ ops' # <<>>
  BY <1>1, <1>n DEF LineInv
<1>7. opHeads' = {n}
  BY <1>1 DEF LineInv
<1>8. LineInv'
  BY <1>2, <1>4, <1>5, <1>6, <1>7 DEF LineInv
<1> QED BY <1>n, <1>0, <1>2, <1>6, <1>8

\* The commits may have grown, nothing published.
LEMMA LineStays ==
  ASSUME LineInv, Commit \subseteq Commit', UNCHANGED <<ops, opHeads>>
  PROVE  LineInv'
<1>1. \A o \in DOMAIN ops : SettledOp(ops[o])'
  BY DEF LineInv, SettledOp, SettledView
<1> QED BY <1>1 DEF LineInv

\* A step of the one call that has begun.
LEMMA CallSteps ==
  ASSUME CallsInv, Commit \subseteq Commit',
         NEW c \in Callers, \A d \in Callers : d # c => ~Begun(calls[d]),
         NEW call, call \in Call', calls' = [calls EXCEPT ![c] = call], Sound(call)'
  PROVE  CallsInv'
<1>1. Call \subseteq Call'
  BY CallGrows
<1>2. calls' \in [Callers -> Call']
  BY <1>1 DEF CallsInv
<1>3. \A d \in Callers : d # c => calls'[d] = calls[d]
  BY DEF CallsInv
<1>4. calls'[c] = call
  BY DEF CallsInv
<1>5. ASSUME NEW d \in Callers PROVE Sound(calls[d])'
  <2>1. CASE d = c
    BY <2>1, <1>4 DEF Sound, Begun
  <2>2. CASE d # c
    <3>1. ~Begun(calls[d])'
      BY <2>2, <1>3 DEF Begun
    <3> QED BY <3>1 DEF Sound, Begun
  <2> QED BY <2>1, <2>2
<1>6. \A d \in Callers : d # c => ~Begun(calls[d])'
  BY <1>3 DEF Begun
<1> QED BY <1>2, <1>5, <1>6 DEF CallsInv

LEMMA Alone ==
  ASSUME CallsInv, NEW c \in Callers, Begun(calls[c])
  PROVE  \A d \in Callers : d # c => ~Begun(calls[d])
  BY DEF CallsInv

\* A step that only moves a call along.
LEMMA CallMoves ==
  ASSUME SerialInv, UNCHANGED <<commits, ops, opHeads, git, pushed, acked, landed>>,
         turn' \in Callers \cup {None}, mishaps' \in 0 .. MaxMishaps,
         NEW c \in Callers, NEW call \in Call, calls' = [calls EXCEPT ![c] = call],
         Begun(call) => Begun(calls[c]) \/ \A d \in Callers : ~Begun(calls[d]),
         Sound(call)
  PROVE  SerialInv'
<1>1. StoreInv' /\ LineInv' /\ Holds(git)'
  <2>1. Commit' = Commit
    BY DEF Commit
  <2>2. StoreInv'
    BY <2>1 DEF SerialInv, StoreInv
  <2>3. LineInv'
    BY <2>1, LineStays DEF SerialInv
  <2>4. Holds(git)'
    BY DEF SerialInv, Holds
  <2> QED BY <2>2, <2>3, <2>4
<1>2. calls' \in [Callers -> Call']
  BY DEF SerialInv, CallsInv, Call, Commit
<1>3. calls'[c] = call /\ \A d \in Callers : d # c => calls'[d] = calls[d]
  BY DEF SerialInv, CallsInv
<1>4. ASSUME NEW d \in Callers PROVE Sound(calls[d])'
  <2>1. Sound(calls'[d])
    BY <1>3 DEF SerialInv, CallsInv
  <2> QED BY <2>1 DEF Sound, Begun, Holds, Commit
<1>5. \A d, e \in Callers : Begun(calls[d])' /\ Begun(calls[e])' => d = e
  BY <1>3 DEF SerialInv, CallsInv, Begun
<1> QED BY <1>1, <1>2, <1>4, <1>5 DEF SerialInv, CallsInv

\* A step of the call that has begun, with what it does to the repository.
LEMMA CallActs ==
  ASSUME SerialInv, StoreInv', LineInv', Holds(git)', Commit \subseteq Commit',
         NEW c \in Callers, Begun(calls[c]),
         NEW call, call \in Call', calls' = [calls EXCEPT ![c] = call], Sound(call)'
  PROVE  SerialInv'
<1>1. CallsInv /\ \A d \in Callers : d # c => ~Begun(calls[d])
  BY Alone DEF SerialInv
<1>2. CallsInv'
  BY <1>1, CallSteps
<1> QED BY <1>2 DEF SerialInv

LEMMA BeginKeeps ==
  ASSUME SerialInv, ~Overlap, NEW c \in Callers, NEW kind \in Kinds, NEW arg \in Args(kind),
         Begin(c, kind, arg)
  PROVE  SerialInv'
<1>1. \A d \in Callers : ~Begun(calls[d])
  <2> SUFFICES ASSUME NEW d \in Callers PROVE ~Begun(calls[d])
    OBVIOUS
  <2>1. ~UnderWay(d) /\ calls[d].pc # "queued"
    BY DEF Begin
  <2>2. calls[d] \in Call
    BY DEF SerialInv, CallsInv
  <2> QED BY <2>1, <2>2 DEF Begun, UnderWay, Call
<1>2. /\ kind = "integrate" => arg \in Commit
      /\ kind = "restore" => arg \in DOMAIN ops
      /\ kind = "commit" => arg \in Commit \cup {None}
      /\ arg \in Commit \cup DOMAIN ops \cup {None}
  BY KindsAssumption DEF Args
<1>3. arg \in Nat \cup {None}
  <2>1. Commit \subseteq Nat
    BY StoreShape DEF SerialInv, StoreInv, Commit
  <2>2. DOMAIN ops \subseteq Nat
    BY DEF SerialInv, LineInv
  <2> QED BY <1>2, <2>1, <2>2
<1>4. PICK call : call = [calls[c] EXCEPT !.pc = IF kind = "integrate" THEN "queued" ELSE "called",
                                          !.kind = kind, !.arg = arg]
  OBVIOUS
<1>5. calls[c] \in Call
  BY DEF SerialInv, CallsInv
<1>6. call \in Call /\ call.pc \in {"queued", "called"} /\ call.kind = kind /\ call.arg = arg
  BY <1>3, <1>4, <1>5 DEF Call
<1>7. calls' = [calls EXCEPT ![c] = call]
  BY <1>4 DEF Begin
<1>8. Sound(call)
  BY <1>2, <1>6 DEF Sound
<1>9. UNCHANGED <<commits, ops, opHeads, git, turn, pushed, acked, landed, mishaps>>
  BY DEF Begin
<1>10. turn' \in Callers \cup {None} /\ mishaps' \in 0 .. MaxMishaps
  BY <1>9 DEF SerialInv, StoreInv
<1> QED BY <1>1, <1>6, <1>7, <1>8, <1>9, <1>10, CallMoves

\* A call with another pc, another operation, or another target.
LEMMA CallFieldsKept ==
  ASSUME NEW call \in Call, NEW pc \in {"queued", "called", "loaded", "ready", "mirroring", "done"},
         NEW op \in Nat, NEW target \in Commit \cup {None}
  PROVE  /\ [call EXCEPT !.pc = pc] \in Call
         /\ [call EXCEPT !.pc = pc, !.op = op] \in Call
         /\ [call EXCEPT !.pc = pc, !.target = target] \in Call
         /\ [call EXCEPT !.client = FALSE] \in Call
  BY DEF Call

LEMMA DoneIsSound == \A call : call.pc = "done" => Sound(call) /\ ~Begun(call)
  BY DEF Sound, Begun

LEMMA TurnsKeep ==
  ASSUME SerialInv, NEW c \in Callers,
         \/ TakeTurn(c) \/ Read(c) \/ IntegrateOutOfScope(c) \/ MirrorFails(c) \/ CancelSubmission(c)
  PROVE  SerialInv'
<1>1. calls[c] \in Call /\ Sound(calls[c]) /\ calls \in [Callers -> Call]
  BY DEF SerialInv, CallsInv
<1>2. UNCHANGED <<commits, ops, opHeads, git, pushed, acked, landed>>
  BY DEF TakeTurn, Read, IntegrateOutOfScope, MirrorFails, CancelSubmission
<1>3. turn' \in Callers \cup {None} /\ mishaps' \in 0 .. MaxMishaps
  <2>1. turn \in Callers \cup {None} /\ mishaps \in 0 .. MaxMishaps
    BY DEF SerialInv, StoreInv
  <2>2. turn' \in {turn, c, None}
    BY DEF TakeTurn, Read, IntegrateOutOfScope, MirrorFails, CancelSubmission, Return
  <2>3. CASE TakeTurn(c) \/ Read(c) \/ IntegrateOutOfScope(c)
    <3>1. mishaps' = mishaps
      BY <2>3 DEF TakeTurn, Read, IntegrateOutOfScope
    <3> QED BY <2>1, <2>2, <3>1
  <2>4. CASE MirrorFails(c) \/ CancelSubmission(c)
    <3>1. Mishap
      BY <2>4 DEF MirrorFails, CancelSubmission
    <3>2. mishaps' \in 0 .. MaxMishaps
      BY <2>1, <3>1, BoundsAssumption DEF Mishap
    <3> QED BY <2>1, <2>2, <3>2
  <2> QED BY <2>3, <2>4
<1>4. CASE TakeTurn(c)
  <2>1. PICK call : call = [calls[c] EXCEPT !.pc = "called"]
    OBVIOUS
  <2>2. call \in Call /\ calls' = [calls EXCEPT ![c] = call] /\ Begun(calls[c])
    BY <1>1, <1>4, <2>1 DEF TakeTurn, Call, Begun
  <2>3. Sound(call)
    BY <1>1, <2>1, <2>2 DEF Sound, Call, Begun
  <2> QED BY <1>2, <1>3, <2>2, <2>3, CallMoves
<1>5. CASE Read(c) \/ IntegrateOutOfScope(c) \/ MirrorFails(c)
  <2>1. PICK call : call = [calls[c] EXCEPT !.pc = "done"]
    OBVIOUS
  <2>2. call \in Call /\ calls' = [calls EXCEPT ![c] = call] /\ call.pc = "done"
    BY <1>1, <1>5, <2>1 DEF Read, IntegrateOutOfScope, MirrorFails, Return, Call
  <2> QED BY <1>2, <1>3, <2>2, DoneIsSound, CallMoves
<1>6. CASE CancelSubmission(c)
  <2>1. PICK call : call = [calls[c] EXCEPT !.client = FALSE]
    OBVIOUS
  <2>2. call \in Call /\ calls' = [calls EXCEPT ![c] = call]
    BY <1>1, <1>6, <2>1 DEF CancelSubmission, Call
  <2>3. Sound(call) /\ (Begun(call) => Begun(calls[c]))
    BY <1>1, <2>1 DEF Sound, Call, Begun
  <2> QED BY <1>2, <1>3, <2>2, <2>3, CallMoves
<1> QED BY <1>4, <1>5, <1>6

\* Every operation of the line is settled.
LEMMA Settled ==
  ASSUME LineInv, NEW o \in DOMAIN ops
  PROVE  /\ SettledView(ops[o].view)
         /\ \E x \in Commit \cup {None} :
              ops[o].view.main = {x} /\ ops[o].view.git = {x} /\ AsNormal(ops[o].view.main) = x
<1>1. SettledView(ops[o].view)
  BY DEF LineInv, SettledOp
<1>2. PICK x \in Commit \cup {None} : ops[o].view.main = {x} /\ ops[o].view.git = {x}
  BY <1>1 DEF SettledView
<1>3. ops[o].view.main = {x}
  BY <1>2
<1>4. AsNormal(ops[o].view.main) = x
  BY <1>3, NormalOne
<1> QED BY <1>1, <1>2, <1>4

LEMMA LoadAtHeadKeeps ==
  ASSUME SerialInv, NEW c \in Callers, LoadAtHead(c)
  PROVE  SerialInv'
<1>1. calls[c] \in Call /\ Sound(calls[c]) /\ calls[c].pc = "called"
  BY DEF SerialInv, CallsInv, LoadAtHead
<1>2. (CHOOSE o \in opHeads : TRUE) = Len(ops) /\ Len(ops) \in Nat
  BY DEF SerialInv, LineInv
<1>3. PICK call : call = [calls[c] EXCEPT !.pc = "loaded", !.op = Len(ops)]
  OBVIOUS
<1>4. call \in Call /\ calls' = [calls EXCEPT ![c] = call]
  <2>1. call \in Call
    <3>1. PICK n \in Nat : n = Len(ops)
      BY <1>2
    <3> QED BY <1>1, <1>3, <3>1 DEF Call
  <2>2. calls \in [Callers -> Call]
    BY DEF SerialInv, CallsInv
  <2>3. calls' = [calls EXCEPT ![c].pc = "loaded", ![c].op = Len(ops)]
    BY <1>2 DEF LoadAtHead
  <2> QED BY <1>1, <1>3, <2>1, <2>2, <2>3
<1>5. Sound(call) /\ Begun(calls[c])
  BY <1>1, <1>3 DEF Sound, Call, Begun
<1>6. turn' \in Callers \cup {None} /\ mishaps' \in 0 .. MaxMishaps
  BY DEF LoadAtHead, SerialInv, StoreInv
<1>7. UNCHANGED <<commits, ops, opHeads, git, pushed, acked, landed>>
  BY DEF LoadAtHead
<1> QED BY <1>4, <1>5, <1>6, <1>7, CallMoves

LEMMA NoMerging == LineInv => \A c \in Callers : ~LoadMerging(c)
<1>1. Cardinality({Len(ops)}) = 1
  BY FS_Singleton
<1> QED BY <1>1 DEF LineInv, LoadMerging

LEMMA NothingToImportKeeps ==
  ASSUME SerialInv, NEW c \in Callers, NothingToImport(c)
  PROVE  SerialInv'
<1>1. calls[c] \in Call /\ Sound(calls[c]) /\ calls[c].pc = "loaded"
  BY DEF SerialInv, CallsInv, NothingToImport
<1>2. calls[c].op = Len(ops) /\ Len(ops) \in DOMAIN ops
  BY <1>1 DEF Sound, SerialInv, LineInv
<1>3. AsNormal(Loaded(c).main) = git
  <2>1. PICK x \in Commit \cup {None} :
          Loaded(c).main = {x} /\ Loaded(c).git = {x} /\ AsNormal(Loaded(c).main) = x
    BY <1>2, Settled DEF Loaded, SerialInv
  <2>2. Loaded(c).git = {git}
    BY DEF NothingToImport
  <2> QED BY <2>1, <2>2
<1>4. PICK call : call = [calls[c] EXCEPT !.pc = "ready"]
  OBVIOUS
<1>5. call \in Call /\ calls' = [calls EXCEPT ![c] = call]
  BY <1>1, <1>4 DEF NothingToImport, Call
<1>6. call.op = calls[c].op /\ call.pc = "ready" /\ call.kind = calls[c].kind /\ call.arg = calls[c].arg
  BY <1>1, <1>4 DEF Call
<1>7. Holds(git)
  BY DEF SerialInv
<1>8. Sound(call) /\ Begun(calls[c])
  BY <1>1, <1>2, <1>3, <1>6, <1>7 DEF Sound, Begun, Loaded
<1>9. turn' \in Callers \cup {None} /\ mishaps' \in 0 .. MaxMishaps
  BY DEF NothingToImport, SerialInv, StoreInv
<1>10. UNCHANGED <<commits, ops, opHeads, git, pushed, acked, landed>>
  BY DEF NothingToImport
<1> QED BY <1>5, <1>8, <1>9, <1>10, CallMoves

LEMMA ImportKeeps ==
  ASSUME SerialInv, NEW c \in Callers, Import(c)
  PROVE  SerialInv'
<1>1. /\ calls[c] \in Call /\ Sound(calls[c]) /\ calls[c].pc = "loaded" /\ Begun(calls[c])
      /\ calls \in [Callers -> Call]
  BY DEF SerialInv, CallsInv, Import, Begun
<1>2. calls[c].op = Len(ops) /\ Len(ops) \in DOMAIN ops /\ Len(ops) \in Nat
  BY <1>1 DEF Sound, SerialInv, LineInv
<1>3. PICK x \in Commit \cup {None} : Loaded(c).main = {x} /\ Loaded(c).git = {x}
  BY <1>2, Settled DEF Loaded, SerialInv
<1>h. PICK heads : heads = Loaded(c).heads /\ heads \subseteq Commit
  BY <1>2, Settled DEF Loaded, SerialInv, SettledView
<1>4. UNCHANGED <<commits, git, turn, pushed, acked, landed, mishaps>>
  BY DEF Import
<1>5. StoreInv' /\ Holds(git)' /\ Commit' = Commit
  BY <1>4 DEF SerialInv, StoreInv, Holds, Commit
<1>6. PICK hs : hs = HeadsOf(commits, heads \cup ({git} \ {None}))
  OBVIOUS
<1>7. hs \subseteq Commit /\ git \in Commit \cup {None}
  BY <1>h, <1>6 DEF HeadsOf, SerialInv, StoreInv
<1>v. PICK view : view = [heads |-> hs, main |-> {git}, git |-> {git}]
  OBVIOUS
<1>8. Publish({Len(ops)}, "import", view)
  <2>1. x # git
    BY <1>3 DEF Import
  <2>2. MergeRef(commits, {x}, {x}, {git}) = {git}
    BY <2>1 DEF MergeRef
  <2>3. Publish({calls[c].op}, "import",
                [heads |-> HeadsOf(commits, Loaded(c).heads \cup ({git} \ {None})),
                 main |-> MergeRef(commits, Loaded(c).main, Loaded(c).git, {git}), git |-> {git}])
    BY DEF Import
  <2> QED BY <1>2, <1>3, <1>h, <1>v, <1>6, <2>2, <2>3
<1>9. SettledView(view)'
  BY <1>5, <1>7, <1>v DEF SettledView
<1>10. PICK call : call = [calls[c] EXCEPT !.pc = "ready", !.op = Len(ops) + 1]
  OBVIOUS
<1>11. /\ call \in Call' /\ calls' = [calls EXCEPT ![c] = call]
       /\ call.pc = "ready" /\ call.op = Len(ops) + 1
       /\ call.kind = calls[c].kind /\ call.arg = calls[c].arg
  <2>1. call \in Call
    <3>1. PICK n \in Nat : n = Len(ops) + 1
      BY <1>2
    <3> QED BY <1>1, <1>10, <3>1 DEF Call
  <2>2. Call \subseteq Call'
    BY <1>5, CallGrows
  <2>3. calls' = [calls EXCEPT ![c] = call]
    BY <1>1, <1>10 DEF Import
  <2> QED BY <1>1, <1>10, <2>1, <2>2, <2>3 DEF Call
<1>12. /\ LineInv'
       /\ Len(ops') = Len(ops) + 1 /\ DOMAIN ops \subseteq DOMAIN ops'
       /\ ops'[Len(ops) + 1].view = view
  <2>1. "import" \in OpKinds /\ LineInv /\ Commit \subseteq Commit'
    BY <1>5 DEF OpKinds, SerialInv
  <2> QED BY <1>8, <1>9, <2>1, PublishInLine
<1>13. Sound(call)'
  <2>1. ops'[call.op].view.main = {git}
    BY <1>11, <1>12, <1>v
  <2>2. AsNormal(ops'[call.op].view.main) = git
    BY <2>1, NormalOne
  <2> QED BY <1>1, <1>4, <1>5, <1>11, <1>12, <2>2 DEF Sound, Begun
<1> QED BY <1>1, <1>5, <1>11, <1>12, <1>13, CallActs

\* What a call that has loaded the repository works from.
LEMMA WhenReady ==
  ASSUME SerialInv, NEW c \in Callers, calls[c].pc = "ready"
  PROVE  /\ calls[c] \in Call /\ calls \in [Callers -> Call] /\ Begun(calls[c])
         /\ calls[c].kind = "integrate" => calls[c].arg \in Commit
         /\ calls[c].kind = "restore" => calls[c].arg \in DOMAIN ops
         /\ calls[c].kind = "commit" => calls[c].arg \in Commit \cup {None}
         /\ calls[c].op = Len(ops) /\ Len(ops) \in DOMAIN ops
         /\ SettledView(Loaded(c))
         /\ Main(c) \in Commit \cup {None}
         /\ calls[c].kind \in {"commit", "integrate"} => Holds(Main(c))
<1>1. calls[c] \in Call /\ Sound(calls[c]) /\ calls \in [Callers -> Call] /\ Begun(calls[c])
  BY DEF SerialInv, CallsInv, Begun
<1>2. calls[c].op = Len(ops) /\ Len(ops) \in DOMAIN ops
  BY <1>1 DEF Sound, SerialInv, LineInv
<1>3. /\ SettledView(Loaded(c))
      /\ Main(c) \in Commit \cup {None}
  BY <1>2, Settled DEF Loaded, Main, SerialInv
<1> QED BY <1>1, <1>2, <1>3 DEF Sound, Main, Loaded

LEMMA CheckpointKeeps ==
  ASSUME SerialInv, NEW c \in Callers, CheckpointCall(c)
  PROVE  SerialInv'
<1>1. /\ calls[c] \in Call /\ calls \in [Callers -> Call] /\ Begun(calls[c])
      /\ calls[c].op = Len(ops) /\ SettledView(Loaded(c))
  BY WhenReady DEF CheckpointCall
<1>2. Commit' = Commit /\ Holds(git)' /\ StoreInv'
  <2>1. UNCHANGED <<commits, git, pushed, acked, landed, mishaps>> /\ turn' \in {turn, None}
    BY DEF CheckpointCall, Return
  <2> QED BY <2>1 DEF SerialInv, StoreInv, Holds, Commit
<1>3. PICK view : view = Loaded(c)
  OBVIOUS
<1>4. SettledView(view)'
  BY <1>1, <1>2, <1>3, CallGrows
<1>5. LineInv'
  <2>1. Publish({Len(ops)}, "checkpoint", view)
    BY <1>1, <1>3 DEF CheckpointCall
  <2>2. "checkpoint" \in OpKinds /\ LineInv /\ Commit \subseteq Commit'
    BY <1>2 DEF OpKinds, SerialInv
  <2> QED BY <1>4, <2>1, <2>2, PublishInLine
<1>6. PICK call : call = [calls[c] EXCEPT !.pc = "done"]
  OBVIOUS
<1>7. call \in Call' /\ calls' = [calls EXCEPT ![c] = call] /\ call.pc = "done"
  <2>1. call \in Call /\ call.pc = "done"
    BY <1>1, <1>6 DEF Call
  <2>2. calls' = [calls EXCEPT ![c] = call]
    BY <1>1, <1>6 DEF CheckpointCall, Return
  <2> QED BY <1>2, <2>1, <2>2, CallGrows
<1>8. Sound(call)'
  BY <1>7 DEF Sound, Begun
<1> QED BY <1>1, <1>2, <1>5, <1>7, <1>8, CallActs

LEMMA RestoreKeeps ==
  ASSUME SerialInv, NEW c \in Callers, RestoreCall(c)
  PROVE  SerialInv'
<1>1. /\ calls[c] \in Call /\ calls \in [Callers -> Call] /\ Begun(calls[c])
      /\ calls[c].op = Len(ops) /\ calls[c].arg \in DOMAIN ops
  BY WhenReady DEF RestoreCall
<1>2. /\ UNCHANGED <<commits, git, turn, pushed, acked, mishaps>> /\ landed' = {}
      /\ calls[c].kind = "restore"
  BY DEF RestoreCall
<1>3. Commit' = Commit /\ Holds(git)' /\ StoreInv'
  BY <1>2 DEF SerialInv, StoreInv, Holds, Commit
<1>4. PICK x \in Commit \cup {None} : /\ ops[calls[c].arg].view.main = {x}
                                     /\ ops[calls[c].arg].view.git = {x}
                                     /\ AsNormal(ops[calls[c].arg].view.main) = x
  BY <1>1, Settled DEF SerialInv
<1>5. PICK view : view = [ops[calls[c].arg].view EXCEPT !.git = {x}]
  OBVIOUS
<1>6. SettledView(view)'
  <2>1. SettledView(ops[calls[c].arg].view)
    BY <1>1, Settled DEF SerialInv
  <2>2. view = ops[calls[c].arg].view
    BY <1>4, <1>5, <2>1 DEF SettledView
  <2> QED BY <1>3, <2>1, <2>2, CallGrows
<1>7. LineInv'
  <2>1. Publish({Len(ops)}, "restore", view)
    BY <1>1, <1>4, <1>5 DEF RestoreCall
  <2>2. "restore" \in OpKinds /\ LineInv /\ Commit \subseteq Commit'
    BY <1>3 DEF OpKinds, SerialInv
  <2> QED BY <1>6, <2>1, <2>2, PublishInLine
<1>8. PICK call : call = [calls[c] EXCEPT !.pc = "mirroring", !.target = x]
  OBVIOUS
<1>9. call \in Call' /\ calls' = [calls EXCEPT ![c] = call] /\ call.pc = "mirroring"
      /\ call.kind = "restore" /\ call.arg = calls[c].arg
  <2>1. call \in Call /\ call.pc = "mirroring" /\ call.kind = "restore" /\ call.arg = calls[c].arg
    BY <1>1, <1>2, <1>8 DEF Call
  <2>2. calls' = [calls EXCEPT ![c] = call]
    BY <1>1, <1>4, <1>8 DEF RestoreCall
  <2> QED BY <1>3, <2>1, <2>2, CallGrows
<1>10. Sound(call)'
  <2>1. call.arg \in DOMAIN ops'
    <3>1. PICK op : ops' = Append(ops, op)
      BY DEF RestoreCall, Publish
    <3>2. DOMAIN ops \subseteq DOMAIN ops'
      BY <3>1 DEF SerialInv, LineInv
    <3> QED BY <1>1, <1>9, <3>2
  <2> QED BY <1>2, <1>9, <2>1 DEF Sound, Begun
<1> QED BY <1>1, <1>3, <1>7, <1>9, <1>10, CallActs

LEMMA MirrorKeeps ==
  ASSUME SerialInv, NEW c \in Callers, Mirror(c)
  PROVE  SerialInv'
<1>1. /\ calls[c] \in Call /\ Sound(calls[c]) /\ calls \in [Callers -> Call]
      /\ calls[c].pc = "mirroring" /\ Begun(calls[c])
  BY DEF SerialInv, CallsInv, Mirror, Begun
<1>2. /\ UNCHANGED <<commits, ops, opHeads, pushed, mishaps>>
      /\ git' = calls[c].target /\ git' \in Commit \cup {None} /\ turn' \in {turn, None}
  BY <1>1 DEF Mirror, Return, Call
<1>3. Commit' = Commit
  BY <1>2 DEF Commit
<1>4. /\ acked' \subseteq 1 .. Len(commits) /\ landed' \subseteq 1 .. Len(commits)
      /\ Holds(git)'
  <2>1. /\ acked \subseteq 1 .. Len(commits) /\ landed \subseteq 1 .. Len(commits)
        /\ WellFormed(commits)
    BY DEF SerialInv, StoreInv
  <2>2. CASE calls[c].kind = "restore"
    <3>1. acked' = acked /\ landed' = landed /\ landed = {}
      BY <1>1, <2>2 DEF Mirror, Sound
    <3> QED BY <2>1, <3>1 DEF Holds
  <2>3. CASE calls[c].kind # "restore"
    <3>1. calls[c].target \in Commit /\ Holds(calls[c].target)
      BY <1>1, <2>3 DEF Sound
    <3>2. PICK change : change = commits[calls[c].target].change
      OBVIOUS
    <3>3. acked' \subseteq acked \cup {change} /\ landed' \subseteq landed \cup {change}
      BY <2>3, <3>2 DEF Mirror, Acknowledge
    <3>4. /\ change \in 1 .. Len(commits) /\ change \in History(commits, calls[c].target)
          /\ calls[c].target # None
      <4>1. DOMAIN commits = 1 .. Len(commits) /\ Len(commits) \in Nat
        BY <2>1, StoreShape
      <4>2. change \in 1 .. calls[c].target /\ calls[c].target \in commits[calls[c].target].anc
        BY <2>1, <3>1, <3>2 DEF WellFormed, Commit
      <4> QED BY <3>1, <3>2, <4>1, <4>2, NoCommitAssumption DEF History, Commit
    <3>5. landed' \subseteq History(commits, calls[c].target)
      BY <3>1, <3>3, <3>4 DEF Holds
    <3> QED BY <1>2, <2>1, <3>3, <3>4, <3>5 DEF Holds
  <2> QED BY <2>2, <2>3
<1>5. StoreInv'
  BY <1>2, <1>3, <1>4 DEF SerialInv, StoreInv
<1>6. LineInv'
  BY <1>2, <1>3, LineStays DEF SerialInv
<1>7. PICK call : call = [calls[c] EXCEPT !.pc = "done"]
  OBVIOUS
<1>8. call \in Call' /\ calls' = [calls EXCEPT ![c] = call] /\ call.pc = "done"
  <2>1. call \in Call /\ call.pc = "done"
    BY <1>1, <1>7 DEF Call
  <2>2. calls' = [calls EXCEPT ![c] = call]
    BY <1>1, <1>7 DEF Mirror, Return
  <2> QED BY <1>3, <2>1, <2>2, CallGrows
<1>9. Sound(call)'
  BY <1>8 DEF Sound, Begun
<1> QED BY <1>1, <1>3, <1>4, <1>5, <1>6, <1>8, <1>9, CallActs

\* A call that goes on to mirror what it has published.
LEMMA GoesOnToMirror ==
  ASSUME SerialInv, NEW c \in Callers, Begun(calls[c]), calls[c].kind \in {"commit", "integrate"},
         calls[c].op = Len(ops), StoreInv', Holds(git)', Commit \subseteq Commit',
         NEW kind \in OpKinds, NEW view, Publish({Len(ops)}, kind, view),
         NEW x \in Commit', Holds(x)',
         view = [heads |-> view.heads, main |-> {x}, git |-> {x}], view.heads \subseteq Commit',
         calls' = [calls EXCEPT ![c].pc = "mirroring", ![c].target = x]
  PROVE  SerialInv'
<1>1. SettledView(view)'
  <2>1. view.main = {x} /\ view.git = {x}
    OBVIOUS
  <2> QED BY <2>1 DEF SettledView
<1>2. LineInv' /\ DOMAIN ops \subseteq DOMAIN ops'
  BY <1>1, PublishInLine DEF SerialInv
<1>3. calls[c] \in Call /\ calls \in [Callers -> Call] /\ Sound(calls[c])
  BY DEF SerialInv, CallsInv
<1>4. PICK call : call = [calls[c] EXCEPT !.pc = "mirroring", !.target = x]
  OBVIOUS
<1>5. calls[c] \in Call'
  BY <1>3, CallGrows
<1>6. call \in Call' /\ call.pc = "mirroring" /\ call.kind = calls[c].kind /\ call.arg = calls[c].arg
      /\ call.target = x
  BY <1>4, <1>5 DEF Call
<1>7. calls' = [calls EXCEPT ![c] = call]
  BY <1>3, <1>4
<1>8. Sound(call)'
  BY <1>3, <1>6 DEF Sound, Begun
<1> QED BY <1>2, <1>6, <1>7, <1>8, CallActs

LEMMA MoveMainIs ==
  ASSUME NEW v, v = [heads |-> v.heads, main |-> v.main, git |-> v.git], NEW hs, NEW x
  PROVE  MoveMain([v EXCEPT !.heads = hs], x) = [heads |-> hs, main |-> {x}, git |-> {x}]
<1>1. PICK h, m, g : v = [heads |-> h, main |-> m, git |-> g]
  OBVIOUS
<1>2. PICK w : w = [v EXCEPT !.heads = hs]
  OBVIOUS
<1>3. w = [heads |-> hs, main |-> m, git |-> g]
  BY <1>1, <1>2
<1>4. PICK u, X : X = {x} /\ u = [w EXCEPT !.main = X, !.git = X]
  OBVIOUS
<1>5. u = [heads |-> hs, main |-> X, git |-> X]
  BY <1>3, <1>4
<1> QED BY <1>2, <1>4, <1>5 DEF MoveMain

LEMMA FastForwardKeeps ==
  ASSUME SerialInv, NEW c \in Callers, IntegrateFastForward(c)
  PROVE  SerialInv'
<1>1. /\ calls[c] \in Call /\ calls \in [Callers -> Call] /\ Begun(calls[c])
      /\ calls[c].op = Len(ops) /\ calls[c].kind = "integrate" /\ calls[c].arg \in Commit
      /\ SettledView(Loaded(c)) /\ Main(c) \in Commit \cup {None} /\ Holds(Main(c))
  BY WhenReady DEF IntegrateFastForward
<1>2. UNCHANGED <<commits, git, turn, pushed, acked, landed, mishaps>>
  BY DEF IntegrateFastForward
<1>3. Commit' = Commit /\ Holds(git)' /\ StoreInv'
  BY <1>2 DEF SerialInv, StoreInv, Holds, Commit
<1>4. PICK x : x = calls[c].arg
  OBVIOUS
<1>5. Holds(x)'
  <2>1. Main(c) = None \/ Main(c) \in commits[x].anc
    BY <1>4 DEF IntegrateFastForward, IsAncestor
  <2>2. WellFormed(commits) /\ WellFormed(commits') /\ Extends(commits', commits)
    BY <1>2, ExtendsItself DEF SerialInv, StoreInv
  <2>3. PICK m \in Commit \cup {None} : m = Main(c)
    BY <1>1
  <2>4. x \in DOMAIN commits' /\ landed' = landed /\ Holds(m) /\ (m = None \/ m \in commits'[x].anc)
    BY <1>1, <1>2, <1>4, <2>1, <2>3 DEF Commit
  <2> QED BY <2>2, <2>4, HoldsAbove
<1>6. PICK hs : hs = HeadsOf(commits, Loaded(c).heads \cup {x})
  OBVIOUS
<1>7. hs \subseteq Commit
  BY <1>1, <1>4, <1>6 DEF HeadsOf, SettledView
<1>8. PICK view : view = [heads |-> hs, main |-> {x}, git |-> {x}]
  OBVIOUS
<1>9. view = MoveMain([Loaded(c) EXCEPT !.heads = HeadsOf(commits, @ \cup {x})], x)
  <2>1. Loaded(c) = [heads |-> Loaded(c).heads, main |-> Loaded(c).main, git |-> Loaded(c).git]
    BY <1>1 DEF SettledView
  <2>2. MoveMain([Loaded(c) EXCEPT !.heads = hs], x) = [heads |-> hs, main |-> {x}, git |-> {x}]
    BY <2>1, MoveMainIs
  <2> QED BY <1>6, <1>8, <2>2
<1>10. Publish({Len(ops)}, "integrate", view)
  BY <1>1, <1>4, <1>9 DEF IntegrateFastForward
<1>11. calls' = [calls EXCEPT ![c].pc = "mirroring", ![c].target = x]
  BY <1>4 DEF IntegrateFastForward
<1>12. "integrate" \in OpKinds /\ x \in Commit' /\ Commit \subseteq Commit'
       /\ view.heads \subseteq Commit'
       /\ view = [heads |-> view.heads, main |-> {x}, git |-> {x}]
  BY <1>1, <1>3, <1>4, <1>7, <1>8 DEF OpKinds
<1> QED BY <1>1, <1>3, <1>5, <1>10, <1>11, <1>12, GoesOnToMirror

\* integrate_commit's rebase: main moves to a commit built on main.
LEMMA RebaseCallKeeps ==
  ASSUME SerialInv, NEW c \in Callers, IntegrateRebase(c)
  PROVE  SerialInv'
<1>1. /\ calls[c] \in Call /\ calls \in [Callers -> Call] /\ Begun(calls[c])
      /\ calls[c].op = Len(ops) /\ calls[c].kind = "integrate" /\ calls[c].arg \in Commit
      /\ SettledView(Loaded(c)) /\ Main(c) \in Commit /\ Holds(Main(c))
  BY WhenReady DEF IntegrateRebase
<1>2. UNCHANGED <<git, turn, pushed, acked, landed, mishaps>>
  BY DEF IntegrateRebase
<1>3. PICK x, m, n, loaded : /\ x = calls[c].arg /\ m = Main(c) /\ n = Len(commits) + 1
                             /\ loaded = Loaded(c)
  OBVIOUS
<1>4. PICK cs : cs = Rebase(commits, x, {m})
  OBVIOUS
<1>5. PICK r : r = RebaseDescendants(cs, loaded, {x}, {n})
  OBVIOUS
<1>6. WellFormed(commits) /\ TreesFollow(commits)
  BY DEF SerialInv, StoreInv
<1>7. /\ WellFormed(cs) /\ Extends(cs, commits) /\ TreesFollow(cs)
      /\ n \in DOMAIN cs /\ m \in cs[n].anc
  <2>1. /\ OneMore(cs, commits, {m}, commits[x].change, cs[Len(commits) + 1].edits)
        /\ TreesFollow(commits) => TreesFollow(cs)
    <3>1. x \in DOMAIN commits /\ {m} \subseteq DOMAIN commits
      BY <1>1, <1>3 DEF Commit
    <3> QED BY <1>4, <1>6, <3>1, RebaseKeeps, ZenonT(30)
  <2>2. m \in Below(commits, {m})
    BY <1>1, <1>3, <1>6 DEF Below, WellFormed, Commit
  <2> QED BY <1>3, <1>6, <2>1, <2>2 DEF OneMore
<1>8. /\ WellFormed(r.cs) /\ Extends(r.cs, cs) /\ TreesFollow(r.cs)
      /\ r.view = [heads |-> r.view.heads, main |-> r.view.main, git |-> r.view.git]
      /\ r.view.heads \subseteq DOMAIN r.cs
  <2>1. loaded.heads \subseteq DOMAIN cs
    BY <1>1, <1>3, <1>7 DEF SettledView, Extends, Commit
  <2>2. loaded = [heads |-> loaded.heads, main |-> loaded.main, git |-> loaded.git]
    BY <1>1, <1>3 DEF SettledView
  <2>3. {x} \subseteq DOMAIN cs /\ {n} \subseteq DOMAIN cs
    BY <1>1, <1>3, <1>7 DEF Extends, Commit
  <2>4. Rewritten(r, cs)
    BY <1>5, <1>7, <2>1, <2>2, <2>3, RebaseDescendantsKeeps, ZenonT(40)
  <2> QED BY <1>7, <2>4 DEF Rewritten
<1>9. commits' = r.cs
  BY <1>3, <1>4, <1>5 DEF IntegrateRebase
<1>10. /\ WellFormed(commits') /\ Extends(commits', commits) /\ TreesFollow(commits')
       /\ Commit \subseteq Commit' /\ n \in Commit' /\ m \in commits'[n].anc
  <2>1. Extends(commits', commits)
    BY <1>7, <1>8, <1>9, ExtendsTransitive
  <2> QED BY <1>7, <1>8, <1>9, <2>1 DEF Extends, Commit
<1>11. Holds(git)' /\ Holds(n)'
  <2>1. git \in Commit \cup {None} /\ Holds(git)
    BY DEF SerialInv, StoreInv
  <2>2. landed' = landed /\ git' = git
    BY <1>2
  <2>3. PICK g : g = git
    OBVIOUS
  <2>4. Holds(g)'
    BY <1>6, <1>10, <2>1, <2>2, <2>3, HoldsStays
  <2>5. Holds(n)'
    BY <1>1, <1>3, <1>6, <1>10, <2>2, HoldsAbove DEF Commit
  <2> QED BY <2>2, <2>3, <2>4, <2>5 DEF Holds
<1>12. StoreInv'
  <2>1. 1 .. Len(commits) \subseteq 1 .. Len(commits')
    <3>1. DOMAIN commits = 1 .. Len(commits) /\ DOMAIN commits' = 1 .. Len(commits')
      BY <1>6, <1>10, StoreShape
    <3> QED BY <1>10, <3>1 DEF Commit
  <2> QED BY <1>2, <1>10, <2>1 DEF SerialInv, StoreInv
<1>13. PICK hs : hs = HeadsOf(r.cs, r.view.heads \cup {n})
  OBVIOUS
<1>14. hs \subseteq Commit'
  BY <1>8, <1>9, <1>10, <1>13 DEF HeadsOf, Commit
<1>15. PICK view : view = [heads |-> hs, main |-> {n}, git |-> {n}]
  OBVIOUS
<1>16. view = MoveMain([r.view EXCEPT !.heads = HeadsOf(r.cs, @ \cup {n})], n)
  <2>1. r.view = [heads |-> r.view.heads, main |-> r.view.main, git |-> r.view.git]
    BY <1>8
  <2>2. MoveMain([r.view EXCEPT !.heads = hs], n) = [heads |-> hs, main |-> {n}, git |-> {n}]
    BY <2>1, MoveMainIs
  <2> QED BY <1>13, <1>15, <2>2
<1>17. Publish({Len(ops)}, "integrate", view)
  BY <1>1, <1>3, <1>4, <1>5, <1>16 DEF IntegrateRebase
<1>18. calls' = [calls EXCEPT ![c].pc = "mirroring", ![c].target = n]
  BY <1>3 DEF IntegrateRebase
<1>19. "integrate" \in OpKinds /\ view.heads \subseteq Commit'
       /\ view = [heads |-> view.heads, main |-> {n}, git |-> {n}]
  BY <1>14, <1>15 DEF OpKinds
<1> QED BY <1>1, <1>10, <1>11, <1>12, <1>17, <1>18, <1>19, GoesOnToMirror

\* Transaction::commit of a new commit, which main follows if it is built on main.
LEMMA CommitCallKeeps ==
  ASSUME SerialInv, NEW c \in Callers, CommitCall(c)
  PROVE  SerialInv'
<1>1. /\ calls[c] \in Call /\ calls \in [Callers -> Call] /\ Begun(calls[c])
      /\ calls[c].op = Len(ops) /\ calls[c].kind = "commit" /\ calls[c].arg \in Commit \cup {None}
      /\ SettledView(Loaded(c)) /\ Main(c) \in Commit \cup {None} /\ Holds(Main(c))
  BY WhenReady DEF CommitCall
<1>2. UNCHANGED <<git, pushed, mishaps>>
  BY DEF CommitCall
<1>3. PICK m, n, parents : m = Main(c) /\ n = Len(commits) + 1 /\ parents = ParentsFor(c)
  OBVIOUS
<1>4. WellFormed(commits) /\ TreesFollow(commits) /\ Len(commits) \in Nat /\ Commit = 1 .. Len(commits)
  BY StoreShape DEF SerialInv, StoreInv, Commit
<1>5. parents \subseteq DOMAIN commits
  BY <1>1, <1>3 DEF ParentsFor, SettledView, Commit
<1>6. PICK tree : /\ tree \in IF parents = {} THEN {{}} ELSE {commits[p].edits : p \in parents}
                  /\ commits' = WithCommit(commits, parents, n, tree \cup {n})
  BY <1>3 DEF CommitCall
<1>7. tree \subseteq 1 .. Len(commits)
  BY <1>4, <1>5, <1>6 DEF WellFormed
<1>8. OneMore(commits', commits, parents, n, tree \cup {n})
  <2>1. n \in 1 .. (Len(commits) + 1) /\ tree \cup {n} \subseteq 1 .. (Len(commits) + 1)
    <3>1. n \in 1 .. (Len(commits) + 1)
      BY <1>3, <1>4
    <3>2. tree \subseteq 1 .. (Len(commits) + 1)
      BY <1>4, <1>7
    <3> QED BY <3>1, <3>2
  <2>2. PICK edits : edits = tree \cup {n}
    OBVIOUS
  <2>3. n \in 1 .. (Len(commits) + 1) /\ edits \subseteq 1 .. (Len(commits) + 1)
        /\ commits' = WithCommit(commits, parents, n, edits)
    BY <1>6, <2>1, <2>2
  <2>4. OneMore(commits', commits, parents, n, edits)
    BY <1>4, <1>5, <2>3, WithCommitKeeps, ZenonT(30)
  <2> QED BY <2>2, <2>4
<1>9. TreesFollow(commits')
  <2> SUFFICES ASSUME Plain(commits'), NEW d \in DOMAIN commits'
               PROVE  commits'[d].edits = History(commits', d)
    BY DEF TreesFollow
  <2>1. /\ Plain(commits) /\ \A a \in DOMAIN commits : /\ History(commits', a) = History(commits, a)
                                                     /\ commits'[a] = commits[a]
                                                     /\ commits[a].edits = History(commits, a)
    <3>1. WellFormed(commits') /\ Extends(commits', commits)
      BY <1>8 DEF OneMore
    <3>2. /\ Plain(commits)
          /\ \A a \in DOMAIN commits : History(commits', a) = History(commits, a)
      BY <1>4, <3>1, ExtendsMeans
    <3> QED BY <1>4, <3>1, <3>2 DEF Extends, TreesFollow
  <2>2. CASE d \in DOMAIN commits
    BY <2>1, <2>2
  <2>3. CASE d = n
    <3>1. parents = {} \/ \E p \in DOMAIN commits : parents = {p}
      <4>1. Cardinality(parents) <= 1
        BY <1>3, <1>8, <2>3 DEF OneMore, Plain
      <4> QED BY <1>4, <1>5, <4>1, AtMostOne DEF Commit
    <3>2. History(commits', n) = {commits'[a].change : a \in Below(commits, parents)} \cup {n}
      BY <1>3, <1>8 DEF History, OneMore
    <3>3. CASE parents = {}
      <4>1. commits'[n].edits = {n}
        <5>1. tree = {}
          BY <1>6, <3>3
        <5> QED BY <1>3, <1>8, <5>1 DEF OneMore
      <4>2. Below(commits, parents) = {}
        BY <3>3 DEF Below
      <4>3. History(commits', n) = {n}
        BY <3>2, <4>2
      <4> QED BY <2>3, <4>1, <4>3
    <3>4. ASSUME NEW p \in DOMAIN commits, parents = {p}
          PROVE  commits'[n].edits = History(commits', n)
      <4>1. tree = History(commits, p)
        BY <1>6, <2>1, <3>4
      <4>2. Below(commits, parents) = commits[p].anc /\ commits[p].anc \subseteq DOMAIN commits
        BY <1>4, <3>4 DEF Below, WellFormed, Commit
      <4>3. History(commits', n) = History(commits, p) \cup {n}
        BY <2>1, <3>2, <4>2 DEF History
      <4> QED BY <1>3, <1>8, <4>1, <4>3 DEF OneMore
    <3> QED BY <2>3, <3>1, <3>3, <3>4
  <2> QED BY <1>3, <1>8, <2>2, <2>3 DEF OneMore
<1>10. /\ WellFormed(commits') /\ Extends(commits', commits) /\ Commit \subseteq Commit' /\ n \in Commit'
  BY <1>3, <1>8 DEF OneMore, Extends, Commit
<1>11. /\ landed' = landed /\ acked' \subseteq acked \cup {n} /\ turn' \in {turn, None}
  BY <1>1, <1>3 DEF CommitCall, Acknowledge, Return
<1>12. StoreInv'
  <2>1. 1 .. Len(commits) \subseteq 1 .. Len(commits') /\ n \in 1 .. Len(commits')
    <3>1. DOMAIN commits' = 1 .. Len(commits')
      BY <1>10, StoreShape
    <3> QED BY <1>4, <1>10, <3>1 DEF Commit
  <2> QED BY <1>2, <1>9, <1>10, <1>11, <2>1 DEF SerialInv, StoreInv
<1>13. Holds(git)'
  <2>1. PICK g \in Commit \cup {None} : g = git /\ Holds(g)
    BY DEF SerialInv, StoreInv
  <2>2. Holds(g)'
    BY <1>4, <1>10, <1>11, <2>1, HoldsStays
  <2> QED BY <1>2, <2>1, <2>2 DEF Holds
<1>14. PICK hs, loaded : hs = HeadsOf(commits', Loaded(c).heads \cup {n}) /\ loaded = Loaded(c)
  OBVIOUS
<1>15. hs \subseteq Commit' /\ loaded = [heads |-> loaded.heads, main |-> loaded.main, git |-> loaded.git]
  BY <1>1, <1>10, <1>14 DEF HeadsOf, SettledView
<1>16. PICK heads : heads = [loaded EXCEPT !.heads = hs]
  OBVIOUS
<1>17. heads = [Loaded(c) EXCEPT !.heads = HeadsOf(commits', @ \cup {n})]
  BY <1>14, <1>16
<1>18. CASE Main(c) = None \/ IsAncestor(commits', Main(c), n)
  <2>1. PICK view : view = [heads |-> hs, main |-> {n}, git |-> {n}]
    OBVIOUS
  <2>2. view = MoveMain(heads, n)
    BY <1>15, <1>16, <2>1, MoveMainIs
  <2>3. Publish({Len(ops)}, "commit", view)
    BY <1>1, <1>3, <1>17, <1>18, <2>2 DEF CommitCall
  <2>4. calls' = [calls EXCEPT ![c].pc = "mirroring", ![c].target = n]
    BY <1>3, <1>18 DEF CommitCall
  <2>5. Holds(n)'
    <3>1. m \in Commit \cup {None} /\ Holds(m) /\ (m = None \/ m \in commits'[n].anc)
      BY <1>1, <1>3, <1>18 DEF IsAncestor
    <3> QED BY <1>4, <1>10, <1>11, <3>1, HoldsAbove DEF Commit
  <2>6. "commit" \in OpKinds /\ view.heads \subseteq Commit'
        /\ view = [heads |-> view.heads, main |-> {n}, git |-> {n}]
        /\ calls[c].kind \in {"commit", "integrate"}
    BY <1>1, <1>15, <2>1 DEF OpKinds
  <2> QED BY <1>1, <1>10, <1>12, <1>13, <2>3, <2>4, <2>5, <2>6, GoesOnToMirror
<1>19. CASE ~(Main(c) = None \/ IsAncestor(commits', Main(c), n))
  <2>1. SettledView(heads)'
    <3>1. PICK x \in Commit \cup {None} : loaded.main = {x} /\ loaded.git = {x}
      BY <1>1, <1>14 DEF SettledView
    <3>2. heads = [heads |-> hs, main |-> {x}, git |-> {x}]
      BY <1>15, <1>16, <3>1
    <3> QED BY <1>10, <1>15, <3>1, <3>2 DEF SettledView
  <2>2. LineInv'
    <3>1. Publish({Len(ops)}, "commit", heads)
      BY <1>1, <1>3, <1>17, <1>19 DEF CommitCall
    <3>2. "commit" \in OpKinds /\ LineInv
      BY DEF OpKinds, SerialInv
    <3> QED BY <1>10, <2>1, <3>1, <3>2, PublishInLine
  <2>3. PICK call : call = [calls[c] EXCEPT !.pc = "done"]
    OBVIOUS
  <2>4. call \in Call' /\ calls' = [calls EXCEPT ![c] = call] /\ call.pc = "done"
    <3>1. call \in Call /\ call.pc = "done"
      BY <1>1, <2>3 DEF Call
    <3>2. calls' = [calls EXCEPT ![c] = call]
      BY <1>1, <1>3, <1>19, <2>3 DEF CommitCall, Return
    <3> QED BY <1>10, <3>1, <3>2, CallGrows
  <2>5. Sound(call)'
    BY <2>4 DEF Sound, Begun
  <2> QED BY <1>1, <1>10, <1>12, <1>13, <2>2, <2>4, <2>5, CallActs
<1> QED BY <1>18, <1>19

\* A push on top of plain git's main: what the engine has under way still holds.
LEMMA PushKeeps == ASSUME SerialInv, Push PROVE SerialInv'
<1>1. PICK n, below : n = Len(commits) + 1 /\ below = {git} \ {None}
  OBVIOUS
<1>2. /\ commits' = WithCommit(commits, below, n, MergedEdits(commits, below) \cup {n})
      /\ git' = n /\ pushed' = pushed \cup {n}
      /\ UNCHANGED <<ops, opHeads, calls, turn, acked, landed, mishaps>>
  BY <1>1 DEF Push
<1>3. WellFormed(commits) /\ TreesFollow(commits) /\ Len(commits) \in Nat /\ Commit = 1 .. Len(commits)
      /\ git \in Commit \cup {None} /\ None \notin Nat
  BY StoreShape, NoCommitAssumption DEF SerialInv, StoreInv, Commit
<1>4. below \subseteq DOMAIN commits
  BY <1>1, <1>3 DEF Commit
<1>5. PICK edits : edits = MergedEdits(commits, below) \cup {n}
  OBVIOUS
<1>6. OneMore(commits', commits, below, n, edits)
  <2>1. MergedEdits(commits, below) \subseteq 1 .. Len(commits)
    BY <1>3, <1>4 DEF MergedEdits, WellFormed
  <2>2. n \in 1 .. (Len(commits) + 1) /\ 1 .. Len(commits) \subseteq 1 .. (Len(commits) + 1)
    BY <1>1, <1>3
  <2>3. edits \subseteq 1 .. (Len(commits) + 1)
    BY <1>5, <2>1, <2>2
  <2>4. commits' = WithCommit(commits, below, n, edits)
    BY <1>2, <1>5
  <2> QED BY <1>3, <1>4, <2>2, <2>3, <2>4, WithCommitKeeps, ZenonT(30)
<1>7. /\ WellFormed(commits') /\ Extends(commits', commits) /\ Commit \subseteq Commit' /\ n \in Commit'
  BY <1>1, <1>6 DEF OneMore, Extends, Commit
<1>8. TreesFollow(commits')
  <2> SUFFICES ASSUME Plain(commits'), NEW d \in DOMAIN commits'
               PROVE  commits'[d].edits = History(commits', d)
    BY DEF TreesFollow
  <2>1. \A a \in DOMAIN commits : /\ History(commits', a) = History(commits, a)
                                 /\ commits'[a] = commits[a]
                                 /\ commits[a].edits = History(commits, a)
    <3>1. /\ Plain(commits)
          /\ \A a \in DOMAIN commits : History(commits', a) = History(commits, a)
      BY <1>3, <1>7, ExtendsMeans
    <3> QED BY <1>3, <1>7, <3>1 DEF Extends, TreesFollow
  <2>2. CASE d \in DOMAIN commits
    BY <2>1, <2>2
  <2>3. CASE d = n
    <3>1. History(commits', n) = {commits'[a].change : a \in Below(commits, below)} \cup {n}
      BY <1>1, <1>6 DEF History, OneMore
    <3>2. commits'[n].edits = edits
      BY <1>1, <1>6 DEF OneMore
    <3>3. CASE git = None
      <4>1. below = {}
        BY <1>1, <3>3
      <4>2. Below(commits, below) = {} /\ MergedEdits(commits, below) = {}
        BY <4>1 DEF Below, MergedEdits
      <4>3. History(commits', n) = {n} /\ edits = {n}
        BY <1>5, <3>1, <4>2
      <4> QED BY <2>3, <3>2, <4>3
    <3>4. CASE git \in DOMAIN commits
      <4>1. below = {git}
        BY <1>1, <1>3, <3>4
      <4>2. Below(commits, below) = commits[git].anc /\ commits[git].anc \subseteq DOMAIN commits
        BY <1>3, <3>4, <4>1 DEF Below, WellFormed, Commit
      <4>3. History(commits', n) = History(commits, git) \cup {n}
        BY <2>1, <3>1, <4>2 DEF History
      <4>4. MergedEdits(commits, below) = History(commits, git)
        BY <2>1, <3>4, <4>1 DEF MergedEdits
      <4> QED BY <1>5, <2>3, <3>2, <4>3, <4>4
    <3> QED BY <1>3, <3>3, <3>4 DEF Commit
  <2> QED BY <1>1, <1>6, <2>2, <2>3 DEF OneMore
<1>9. StoreInv'
  <2>1. 1 .. Len(commits) \subseteq 1 .. Len(commits')
    <3>1. DOMAIN commits' = 1 .. Len(commits')
      BY <1>7, StoreShape
    <3> QED BY <1>3, <1>7, <3>1 DEF Commit
  <2> QED BY <1>2, <1>7, <1>8, <2>1 DEF SerialInv, StoreInv
<1>10. \A x \in Commit \cup {None} : Holds(x) => Holds(x)'
  BY <1>2, <1>3, <1>7, HoldsStays
<1>11. Holds(git)'
  <2>1. PICK g \in Commit \cup {None} : g = git /\ Holds(g)
    BY <1>3 DEF SerialInv
  <2>2. g = None \/ g \in commits'[n].anc
    <3>1. g # None => g \in commits[g].anc /\ g \in below
      BY <1>1, <1>3, <2>1 DEF WellFormed, Commit
    <3> QED BY <1>1, <1>6, <3>1 DEF OneMore, Below
  <2>3. Holds(n)'
    BY <1>2, <1>3, <1>7, <2>1, <2>2, HoldsAbove DEF Commit
  <2> QED BY <1>2, <2>3 DEF Holds
<1>12. LineInv'
  BY <1>2, <1>7, LineStays DEF SerialInv
<1>13. CallsInv'
  <2>1. Call \subseteq Call'
    BY <1>7, CallGrows
  <2>2. ASSUME NEW d \in Callers PROVE Sound(calls[d])'
    <3>1. Sound(calls[d]) /\ calls'[d] = calls[d] /\ ops' = ops /\ landed' = landed
      BY <1>2 DEF SerialInv, CallsInv
    <3>2. calls[d].pc = "ready" => AsNormal(ops[calls[d].op].view.main) \in Commit \cup {None}
      <4> SUFFICES ASSUME calls[d].pc = "ready"
                   PROVE  AsNormal(ops[calls[d].op].view.main) \in Commit \cup {None}
        OBVIOUS
      <4>1. calls[d].op \in DOMAIN ops
        BY <3>1 DEF Sound, SerialInv, LineInv
      <4> QED BY <4>1, Settled DEF SerialInv
    <3>3. PICK m : m = AsNormal(ops[calls[d].op].view.main)
      OBVIOUS
    <3>4. calls[d].pc = "ready" /\ Holds(m) => Holds(m)'
      BY <1>10, <3>2, <3>3
    <3>5. calls[d].target \in Commit /\ Holds(calls[d].target) => Holds(calls[d].target)'
      <4>1. PICK t : t = calls[d].target
        OBVIOUS
      <4>2. t \in Commit /\ Holds(t) => Holds(t)'
        BY <1>10
      <4> QED BY <3>1, <4>1, <4>2 DEF Holds
    <3>6. Holds(AsNormal(ops[calls[d].op].view.main))' <=> Holds(m)'
      BY <3>1, <3>3 DEF Holds, AsNormal
    <3> QED BY <1>7, <3>1, <3>3, <3>4, <3>5, <3>6 DEF Sound, Begun
  <2> QED BY <1>2, <2>1, <2>2 DEF SerialInv, CallsInv, Begun
<1> QED BY <1>9, <1>11, <1>12, <1>13 DEF SerialInv

LEMMA CrashKeeps == ASSUME SerialInv, Crash PROVE SerialInv'
<1>1. UNCHANGED <<commits, ops, opHeads, git, pushed, acked, landed>> /\ turn' = None
  BY DEF Crash
<1>2. mishaps' \in 0 .. MaxMishaps
  BY BoundsAssumption DEF Crash, Mishap, SerialInv, StoreInv
<1>3. Commit' = Commit /\ StoreInv' /\ Holds(git)'
  <2>1. Commit' = Commit
    BY <1>1 DEF Commit
  <2> QED BY <1>1, <1>2, <2>1 DEF SerialInv, StoreInv, Holds
<1>4. LineInv'
  BY <1>1, <1>3, LineStays DEF SerialInv
<1>5. calls' = [c \in Callers |-> IF UnderWay(c) THEN [calls[c] EXCEPT !.pc = "done"] ELSE calls[c]]
  BY DEF Crash
<1>6. ASSUME NEW c \in Callers
      PROVE  /\ calls'[c] \in Call
             /\ calls'[c] = calls[c] \/ calls'[c].pc = "done"
  <2>1. calls[c] \in Call
    BY DEF SerialInv, CallsInv
  <2>2. PICK done : done = [calls[c] EXCEPT !.pc = "done"]
    OBVIOUS
  <2>3. done \in Call /\ done.pc = "done"
    BY <2>1, <2>2 DEF Call
  <2>4. calls'[c] = IF UnderWay(c) THEN done ELSE calls[c]
    BY <1>5, <2>2
  <2> QED BY <2>1, <2>3, <2>4
<1>7. calls' \in [Callers -> Call']
  BY <1>3, <1>5, <1>6, CallGrows
<1>8. ASSUME NEW c \in Callers PROVE Sound(calls[c])'
  <2>1. CASE calls'[c] = calls[c]
    <3>1. Sound(calls[c])
      BY DEF SerialInv, CallsInv
    <3> QED BY <1>1, <1>3, <2>1, <3>1 DEF Sound, Begun, Holds, AsNormal
  <2>2. CASE calls'[c].pc = "done"
    BY <2>2 DEF Sound, Begun
  <2> QED BY <1>6, <2>1, <2>2
<1>9. \A c, d \in Callers : Begun(calls[c])' /\ Begun(calls[d])' => c = d
  BY <1>6 DEF SerialInv, CallsInv, Begun
<1>10. CallsInv'
  BY <1>7, <1>8, <1>9 DEF CallsInv
<1> QED BY <1>3, <1>4, <1>10 DEF SerialInv

\* The graph of a repository with a commit on main and a side commit.
LEMMA ForkedIsSound ==
  /\ WellFormed(Forked) /\ TreesFollow(Forked) /\ DOMAIN Forked = 1 .. 3
  /\ Forked[2].anc = {1, 2} /\ Forked[3].anc = {1, 3}
  /\ \A c \in DOMAIN Forked : \A p, q \in Forked[c].parents : p = q
<1>1. PICK a, b, d : /\ a = [change |-> 1, parents |-> {}, edits |-> {1}, anc |-> {1}]
                     /\ b = [change |-> 2, parents |-> {1}, edits |-> {1, 2}, anc |-> {1, 2}]
                     /\ d = [change |-> 3, parents |-> {1}, edits |-> {1, 3}, anc |-> {1, 3}]
  OBVIOUS
<1>2. WithCommit(<<>>, {}, 1, {1}) = <<a>>
  BY <1>1 DEF WithCommit
<1>3. WithCommit(<<a>>, {1}, 2, {1, 2}) = <<a, b>>
  <2>1. UNION {<<a>>[p].anc : p \in {1}} = {1} /\ Len(<<a>>) + 1 = 2
    BY <1>1
  <2>2. (UNION {<<a>>[p].anc : p \in {1}}) \cup {Len(<<a>>) + 1} = {1, 2}
    BY <2>1
  <2>3. WithCommit(<<a>>, {1}, 2, {1, 2}) = Append(<<a>>, b)
    BY <1>1, <2>2 DEF WithCommit
  <2> QED BY <2>3
<1>4. WithCommit(<<a, b>>, {1}, 3, {1, 3}) = <<a, b, d>>
  <2>1. UNION {<<a, b>>[p].anc : p \in {1}} = {1} /\ Len(<<a, b>>) + 1 = 3
    BY <1>1
  <2>2. (UNION {<<a, b>>[p].anc : p \in {1}}) \cup {Len(<<a, b>>) + 1} = {1, 3}
    BY <2>1
  <2>3. WithCommit(<<a, b>>, {1}, 3, {1, 3}) = Append(<<a, b>>, d)
    BY <1>1, <2>2 DEF WithCommit
  <2> QED BY <2>3
<1>5. PICK cs : cs = <<a, b, d>> /\ Forked = cs
  BY <1>2, <1>3, <1>4 DEF Forked
<1>6. /\ DOMAIN cs = 1 .. 3 /\ Len(cs) = 3
      /\ cs[1] = a /\ cs[2] = b /\ cs[3] = d
  BY <1>5
<1>7. cs \in Seq(CommitRecord)
  <2>1. a \in CommitRecord /\ b \in CommitRecord /\ d \in CommitRecord
    BY <1>1 DEF CommitRecord
  <2> QED BY <1>5, <2>1
<1>8. WellFormed(cs)
  BY <1>1, <1>6, <1>7 DEF WellFormed
<1>9. TreesFollow(cs)
  BY <1>1, <1>6 DEF TreesFollow, History
<1>10. \A c \in DOMAIN cs : \A p, q \in cs[c].parents : p = q
  BY <1>1, <1>6
<1> QED BY <1>1, <1>5, <1>6, <1>8, <1>9, <1>10

LEMMA EmptyIsSound == WellFormed(<<>>) /\ TreesFollow(<<>>) /\ DOMAIN <<>> = {}
  BY DEF WellFormed, TreesFollow, History

LEMMA InitSerial == VcsInit => SerialInv
<1> SUFFICES ASSUME VcsInit PROVE SerialInv
  OBVIOUS
<1>1. PICK cs, heads, main : /\ Repo(cs, heads, main) /\ WellFormed(cs) /\ TreesFollow(cs)
                             /\ heads \subseteq DOMAIN cs /\ main \in DOMAIN cs \cup {None}
  BY ForkedIsSound, EmptyIsSound DEF VcsInit
<1>2. PICK view : view = [heads |-> heads, main |-> {main}, git |-> {main}]
  OBVIOUS
<1>3. PICK op : op = [kind |-> "init", anc |-> {1}, view |-> view]
  OBVIOUS
<1>4. commits = cs /\ ops = <<op>> /\ git = main
  BY <1>1, <1>2, <1>3 DEF Repo
<1>5. StoreInv /\ Holds(git)
  BY <1>1, <1>4, BoundsAssumption DEF VcsInit, StoreInv, Holds, Commit
<1>6. DOMAIN ops = {1} /\ Len(ops) = 1 /\ ops[1] = op /\ ops # <<>>
  BY <1>4
<1>7. SettledOp(op)
  <2>1. SettledView(view)
    BY <1>1, <1>2, <1>4 DEF SettledView, Commit
  <2>2. op = [kind |-> op.kind, view |-> op.view, anc |-> op.anc]
    BY <1>3
  <2> QED BY <1>3, <1>6, <2>1, <2>2 DEF SettledOp, OpKinds
<1>8. LineInv
  <2>1. ops \in Seq({ops[o] : o \in DOMAIN ops})
    BY <1>4
  <2> QED BY <1>6, <1>7, <2>1 DEF LineInv, VcsInit
<1>9. CallsInv
  <2>1. \A c \in Callers : calls[c] = [pc |-> "idle", kind |-> "none", arg |-> None,
                                      op |-> 0, target |-> None, client |-> TRUE]
    BY DEF VcsInit
  <2>2. \A c \in Callers : calls[c] \in Call
    <3> SUFFICES ASSUME NEW c \in Callers PROVE calls[c] \in Call
      OBVIOUS
    <3>1. PICK call : call = [pc |-> "idle", kind |-> "none", arg |-> None,
                              op |-> 0, target |-> None, client |-> TRUE]
      OBVIOUS
    <3>2. call \in Call
      BY <3>1 DEF Call
    <3> QED BY <2>1, <3>1, <3>2
  <2>3. calls \in [Callers -> Call]
    BY <2>2 DEF VcsInit
  <2> QED BY <2>1, <2>3 DEF CallsInv, Sound, Begun
<1> QED BY <1>5, <1>8, <1>9 DEF SerialInv

LEMMA StutterSerial == SerialInv /\ UNCHANGED vcsVars => SerialInv'
<1> SUFFICES ASSUME SerialInv, UNCHANGED vcsVars PROVE SerialInv'
  OBVIOUS
<1>1. Commit' = Commit /\ StoreInv' /\ Holds(git)'
  BY DEF vcsVars, SerialInv, StoreInv, Holds, Commit
<1>2. LineInv'
  BY <1>1, LineStays DEF vcsVars, SerialInv
<1>3. Call' = Call
  BY <1>1 DEF Call
<1>4. CallsInv'
  BY <1>1, <1>3 DEF vcsVars, SerialInv, CallsInv, Sound, Begun, Holds, AsNormal
<1> QED BY <1>1, <1>2, <1>4 DEF SerialInv

LEMMA StepSerial == ~Overlap /\ SerialInv /\ [VcsNext]_vcsVars => SerialInv'
<1> SUFFICES ASSUME ~Overlap, SerialInv, [VcsNext]_vcsVars PROVE SerialInv'
  OBVIOUS
<1>1. CASE UNCHANGED vcsVars
  BY <1>1, StutterSerial
<1>2. CASE Push
  BY <1>2, PushKeeps
<1>3. CASE Crash
  BY <1>3, CrashKeeps
<1>4. ASSUME NEW c \in Callers, Step(c) PROVE SerialInv'
  <2>1. ASSUME NEW kind \in Kinds, NEW arg \in Args(kind), Begin(c, kind, arg) PROVE SerialInv'
    BY <2>1, BeginKeeps
  <2>2. ~LoadMerging(c)
    BY NoMerging DEF SerialInv
  <2> QED BY <1>4, <2>1, <2>2, TurnsKeep, LoadAtHeadKeeps, NothingToImportKeeps, ImportKeeps,
             CheckpointKeeps, CommitCallKeeps, RestoreKeeps, FastForwardKeeps, RebaseCallKeeps,
             MirrorKeeps DEF Step
<1> QED BY <1>1, <1>2, <1>3, <1>4 DEF VcsNext

LEMMA SerialIsTyped == SerialInv => VcsTypeOK
<1> SUFFICES ASSUME SerialInv PROVE VcsTypeOK
  OBVIOUS
<1>1. \A c \in Commit : /\ commits[c].change \in 1 .. c
                        /\ commits[c].parents \subseteq commits[c].anc \ {c}
                        /\ commits[c].edits \subseteq 1 .. Len(commits)
  BY DEF SerialInv, StoreInv, WellFormed, Commit
<1>2. ASSUME NEW o \in DOMAIN ops PROVE ops[o] \in Operation
  <2>1. SettledOp(ops[o])
    BY DEF SerialInv, LineInv
  <2>2. ops[o].view \in View
    <3>1. PICK x \in Commit \cup {None} : ops[o].view.main = {x} /\ ops[o].view.git = {x}
      BY <2>1 DEF SettledOp, SettledView
    <3>2. {x} \in Ref
      BY DEF Ref
    <3>3. /\ ops[o].view = [heads |-> ops[o].view.heads, main |-> ops[o].view.main, git |-> ops[o].view.git]
          /\ ops[o].view.heads \in SUBSET Commit
      BY <2>1 DEF SettledOp, SettledView
    <3> QED BY <3>1, <3>2, <3>3 DEF View
  <2> QED BY <2>1, <2>2 DEF SettledOp, Operation, OpKinds
<1>3. opHeads \in (SUBSET DOMAIN ops) \ {{}}
  BY DEF SerialInv, LineInv
<1>4. /\ git \in Commit \cup {None} /\ turn \in Callers \cup {None} /\ pushed \subseteq Commit
      /\ landed \subseteq 1 .. Len(commits) /\ acked \subseteq 1 .. Len(commits)
      /\ mishaps \in 0 .. MaxMishaps
  BY DEF SerialInv, StoreInv
<1>5. calls \in [Callers -> Call]
  BY DEF SerialInv, CallsInv
<1> QED BY <1>1, <1>2, <1>3, <1>4, <1>5 DEF VcsTypeOK

\* Between calls that do not overlap, whatever crashes, fails or is pushed,
\* the state is typed, every operation agrees with the git ref it records, and
\* plain git's main holds every landed change. (integrate_commit,
\* record_main_git_ref, load_repo)
THEOREM MainTheorem == ~Overlap => (VcsSpec => []MainKeepsLandings)
<1> SUFFICES ASSUME ~Overlap PROVE VcsSpec => []MainKeepsLandings
  OBVIOUS
<1>1. VcsInit => SerialInv
  BY InitSerial
<1>2. SerialInv /\ [VcsNext]_vcsVars => SerialInv'
  BY StepSerial
<1>3. SerialInv => MainKeepsLandings
  <2> SUFFICES ASSUME SerialInv PROVE MainKeepsLandings
    OBVIOUS
  <2>1. MainMatchesRecord
    BY Settled DEF MainMatchesRecord, SerialInv
  <2>2. LandedStaysOnMain
    BY DEF LandedStaysOnMain, SerialInv, Holds
  <2> QED BY <2>1, <2>2, SerialIsTyped DEF MainKeepsLandings
<1> QED BY <1>1, <1>2, <1>3, PTL DEF VcsSpec

\* And main's tree has the edits of every landed change, as long as the graph
\* is plain. (commit, integrate_commit)
THEOREM EditsTheorem == ~Overlap => (VcsSpec => []LandedEditsStay)
<1> SUFFICES ASSUME ~Overlap PROVE VcsSpec => []LandedEditsStay
  OBVIOUS
<1>1. VcsInit => SerialInv
  BY InitSerial
<1>2. SerialInv /\ [VcsNext]_vcsVars => SerialInv'
  BY StepSerial
<1>3. SerialInv => LandedEditsStay
  BY DEF SerialInv, StoreInv, TreesFollow, LandedEditsStay, Holds, Commit
<1> QED BY <1>1, <1>2, <1>3, PTL DEF VcsSpec

-----------------------------------------------------------------------------
(* VcsEngine: commits, heads and what lies below them *)

\* None of them is built on another.
Antichain(cs, S) == \A h, g \in S : h \in cs[g].anc => h = g

LEMMA HasLeast ==
  ASSUME NEW S, S \subseteq Nat, S # {}
  PROVE  \E x \in S : \A y \in S : x <= y
<1>1. IsWellFoundedOn(OpToRel(<, Nat), Nat)
  BY NatLessThanWellFounded
<1>2. PICK x \in S : \A y \in S : ~(<<y, x>> \in OpToRel(<, Nat))
  BY <1>1, WFMin
<1>3. ASSUME NEW y \in S PROVE x <= y
  <2>1. x \in Nat /\ y \in Nat
    OBVIOUS
  <2>2. ~(y < x)
    <3>1. y < x => <<y, x>> \in OpToRel(<, Nat)
      BY <2>1 DEF OpToRel
    <3> QED BY <1>2, <3>1
  <2> QED BY ONLY <2>1, <2>2
<1> QED BY <1>2, <1>3

LEMMA HasGreatest ==
  ASSUME NEW n \in Nat, NEW S, S \subseteq 1 .. n, S # {}
  PROVE  \E x \in S : \A y \in S : y <= x
<1> DEFINE T == {k \in Nat : \A y \in S : y <= k}
<1>1. n \in T
  OBVIOUS
<1>2. PICK k \in T : \A j \in T : k <= j
  BY <1>1, HasLeast
<1>3. CASE k \in S
  BY <1>2, <1>3
<1>4. CASE k \notin S
  <2>1. PICK x \in S : TRUE
    OBVIOUS
  <2>2. k # 0
    BY <1>2, <2>1
  <2>3. \A y \in S : y <= k - 1
    BY <1>2, <1>4
  <2>4. k - 1 \in T
    BY <1>2, <2>2, <2>3
  <2> QED BY <1>2, <2>4
<1> QED BY <1>3, <1>4

\* What a well-formed graph says of a commit and those it is built on.
LEMMA GraphShape ==
  ASSUME NEW cs, WellFormed(cs)
  PROVE  /\ DOMAIN cs = 1 .. Len(cs) /\ Len(cs) \in Nat
         /\ \A c \in DOMAIN cs : /\ c \in cs[c].anc /\ cs[c].anc \subseteq DOMAIN cs
                                 /\ cs[c].parents \subseteq DOMAIN cs
                                 /\ \A a \in cs[c].anc : a <= c /\ cs[a].anc \subseteq cs[c].anc
                                 /\ \A p \in cs[c].parents : p < c /\ p \in cs[c].anc
                                 /\ \A a \in cs[c].anc \ {c} : \E p \in cs[c].parents : a \in cs[p].anc
<1>1. DOMAIN cs = 1 .. Len(cs) /\ Len(cs) \in Nat
  BY StoreShape
<1>2. ASSUME NEW c \in DOMAIN cs
      PROVE  /\ c \in cs[c].anc /\ cs[c].anc \subseteq DOMAIN cs
             /\ cs[c].parents \subseteq DOMAIN cs
             /\ \A a \in cs[c].anc : a <= c /\ cs[a].anc \subseteq cs[c].anc
             /\ \A p \in cs[c].parents : p < c /\ p \in cs[c].anc
             /\ \A a \in cs[c].anc \ {c} : \E p \in cs[c].parents : a \in cs[p].anc
  <2>1. /\ cs[c].parents \subseteq cs[c].anc \ {c}
        /\ cs[c].anc = (UNION {cs[p].anc : p \in cs[c].parents}) \cup {c}
        /\ cs[c].anc \subseteq 1 .. c
        /\ \A a \in cs[c].anc : cs[a].anc \subseteq cs[c].anc
    BY DEF WellFormed
  <2>2. PICK anc, parents : anc = cs[c].anc /\ parents = cs[c].parents
    OBVIOUS
  <2>3. c \in anc
    BY <2>1, <2>2
  <2>4. c \in Nat /\ 1 .. c \subseteq DOMAIN cs
    BY <1>1
  <2>5. parents \subseteq anc \ {c} /\ anc \subseteq 1 .. c
    BY <2>1, <2>2
  <2>c. \A a \in anc : cs[a].anc \subseteq anc
    BY <2>1, <2>2
  <2>a. \A p \in parents : p < c /\ p \in anc /\ p \in DOMAIN cs
    BY ONLY <2>4, <2>5
  <2>b. anc \subseteq DOMAIN cs /\ \A a \in anc : a <= c /\ cs[a].anc \subseteq anc
    BY ONLY <2>4, <2>5, <2>c
  <2>6. \A a \in cs[c].anc \ {c} : \E p \in cs[c].parents : a \in cs[p].anc
    BY <2>1
  <2> QED BY <2>2, <2>3, <2>a, <2>b, <2>6
<1> QED BY <1>1, <1>2

\* Between a commit outside of X and one of X above it, a parent is left behind.
LEMMA LeftBehind ==
  ASSUME NEW cs, WellFormed(cs), NEW X, NEW h \in DOMAIN cs, h \in X,
         NEW a \in cs[h].anc, a \notin X
  PROVE  \E d \in X : /\ d \in cs[h].anc /\ a \in cs[d].anc
                      /\ \E p \in cs[d].parents : p \notin X /\ a \in cs[p].anc
<1> DEFINE D == {d \in X : d \in cs[h].anc /\ a \in cs[d].anc}
<1>1. h \in D
  BY GraphShape
<1>2. D \subseteq DOMAIN cs /\ DOMAIN cs \subseteq Nat
  BY GraphShape
<1>3. PICK d \in D : \A e \in D : d <= e
  <2> HIDE DEF D
  <2> QED BY <1>1, <1>2, HasLeast
<1>4. PICK p \in cs[d].parents : a \in cs[p].anc
  BY <1>2, <1>3, GraphShape
<1>5. p < d /\ p \in cs[h].anc /\ p \in Nat
  BY <1>2, <1>3, GraphShape
<1>6. p \notin X
  BY <1>2, <1>3, <1>4, <1>5
<1> QED BY <1>3, <1>4, <1>6

\* Every commit of a set is below a head of the set.
LEMMA BelowAHead ==
  ASSUME NEW cs, WellFormed(cs), NEW X, X \subseteq DOMAIN cs, NEW x \in X
  PROVE  \E h \in HeadsOf(cs, X) : x \in cs[h].anc
<1> DEFINE Y == {y \in X : x \in cs[y].anc}
<1>1. x \in Y /\ Y \subseteq 1 .. Len(cs) /\ Len(cs) \in Nat
  BY GraphShape
<1>2. PICK h \in Y : \A y \in Y : y <= h
  <2> HIDE DEF Y
  <2> QED BY <1>1, HasGreatest
<1>3. ASSUME NEW d \in X \ {h} PROVE h \notin cs[d].anc
  <2> SUFFICES ASSUME h \in cs[d].anc PROVE FALSE
    OBVIOUS
  <2>1. d \in DOMAIN cs /\ h <= d /\ x \in cs[d].anc
    BY <1>2, GraphShape
  <2>2. d <= h
    BY <1>2, <2>1
  <2> QED BY <1>1, <1>2, <2>1, <2>2, GraphShape
<1>4. h \in HeadsOf(cs, X)
  BY <1>2, <1>3 DEF HeadsOf
<1> QED BY <1>2, <1>4

LEMMA HeadsAreApart == \A cs, X : Antichain(cs, HeadsOf(cs, X)) /\ HeadsOf(cs, X) \subseteq X
  BY DEF Antichain, HeadsOf

\* In a larger graph the commits of the smaller one are as they were.
LEMMA SeenTheSame ==
  ASSUME NEW cs, NEW ds, WellFormed(cs), WellFormed(ds), Extends(ds, cs)
  PROVE  /\ \A v : v.heads \subseteq DOMAIN cs => /\ Visible(ds, v) = Visible(cs, v)
                                                  /\ Visible(cs, v) \subseteq DOMAIN cs
         /\ \A S : S \subseteq DOMAIN cs /\ Antichain(cs, S) => Antichain(ds, S)
<1>1. /\ DOMAIN cs \subseteq DOMAIN ds
      /\ \A c \in DOMAIN cs : ds[c] = cs[c] /\ cs[c].anc \subseteq DOMAIN cs
  BY GraphShape DEF Extends
<1>2. \A v : v.heads \subseteq DOMAIN cs => /\ Visible(ds, v) = Visible(cs, v)
                                            /\ Visible(cs, v) \subseteq DOMAIN cs
  BY <1>1 DEF Visible
<1>4. \A S : S \subseteq DOMAIN cs /\ Antichain(cs, S) => Antichain(ds, S)
  BY <1>1 DEF Antichain
<1> QED BY <1>2, <1>4

-----------------------------------------------------------------------------
(* VcsEngine: what rewriting keeps in sight *)

\* What a commit that moves has become by the time "acc" is written.
HasMoved(cs, acc, c) ==
  \E e \in DOMAIN acc.cs :
    /\ acc.map[c] = {e} /\ e >= c /\ (e = c \/ e > Len(cs))
    /\ acc.cs[e].change = cs[c].change
    /\ \A p \in cs[c].parents : \A q \in acc.map[p] : acc.cs[q].anc \subseteq acc.cs[e].anc

\* The first k commits have been looked at.
LookedAt(cs, gone, moving, acc, k) ==
  /\ RewriteSound(cs, acc)
  /\ \A c \in DOMAIN cs : c \notin gone \cup moving => acc.map[c] = {c}
  /\ \A c \in DOMAIN cs : c > k => acc.map[c] = {c}
  /\ \A c \in moving : c <= k => HasMoved(cs, acc, c)

LEMMA LookedAtNext ==
  ASSUME NEW cs, WellFormed(cs), NEW gone, NEW moving, moving \cap gone = {}, moving \subseteq DOMAIN cs,
         NEW new, new \subseteq DOMAIN cs, NEW acc, NEW k \in Nat, k + 1 \in DOMAIN cs,
         LookedAt(cs, gone, moving, acc, k)
  PROVE  LookedAt(cs, gone, moving, MoveCommit(cs, gone, moving, new, acc, k + 1), k + 1)
<1>1. PICK c, after : c = k + 1 /\ after = MoveCommit(cs, gone, moving, new, acc, c)
  OBVIOUS
<1>2. PICK onto : onto = UNION {acc.map[p] : p \in cs[c].parents}
  OBVIOUS
<1>3. /\ DOMAIN cs = 1 .. Len(cs) /\ Len(cs) \in Nat /\ c \in DOMAIN cs
      /\ \A d \in DOMAIN cs : \A p \in cs[d].parents : p < d /\ p \in DOMAIN cs
  BY <1>1, GraphShape
<1>4. /\ RewriteSound(cs, acc) /\ WellFormed(acc.cs) /\ Extends(acc.cs, cs)
      /\ DOMAIN acc.map = DOMAIN cs
      /\ \A d \in DOMAIN cs : acc.map[d] \subseteq DOMAIN acc.cs
      /\ acc = [cs |-> acc.cs, map |-> acc.map]
  BY DEF LookedAt, RewriteSound
<1>5. RewriteSound(cs, after)
  BY <1>1, <1>3, <1>4, MoveCommitKeeps
<1>6. Extends(after.cs, acc.cs) /\ \A d \in DOMAIN cs : d # c => after.map[d] = acc.map[d]
  <2>1. CASE c \in moving /\ onto # cs[c].parents
    <3>1. after = [cs |-> Rebase(acc.cs, c, onto), map |-> [acc.map EXCEPT ![c] = {Len(acc.cs) + 1}]]
      BY <1>1, <1>2, <2>1 DEF MoveCommit
    <3>2. PICK as, ds : as = acc.cs /\ ds = Rebase(as, c, onto)
      OBVIOUS
    <3>3. WellFormed(as) /\ c \in DOMAIN as /\ onto \subseteq DOMAIN as
      BY <1>2, <1>3, <1>4, <3>2 DEF Extends
    <3>4. OneMore(ds, as, onto, as[c].change, ds[Len(as) + 1].edits)
      BY ONLY <3>2, <3>3, RebaseKeeps, ZenonT(30)
    <3> QED BY <1>4, <3>1, <3>2, <3>4 DEF OneMore
  <2>2. CASE c \in gone
    <3>1. \E now : after = [acc EXCEPT !.map[c] = now]
      BY <1>1, <2>2 DEF MoveCommit
    <3>2. PICK now : after = [cs |-> acc.cs, map |-> [acc.map EXCEPT ![c] = now]]
      BY <1>4, <3>1
    <3> QED BY <1>4, <3>2, ExtendsItself
  <2>3. CASE c \notin gone /\ (c \notin moving \/ onto = cs[c].parents)
    BY <1>1, <1>2, <2>3, ExtendsItself DEF MoveCommit
  <2> QED BY <2>1, <2>2, <2>3
<1>7. c \notin gone \cup moving => after.map[c] = {c}
  <2>1. c \notin gone \cup moving => after = acc
    BY <1>1 DEF MoveCommit
  <2> QED BY <1>3, <2>1 DEF LookedAt
<1>8. ASSUME NEW d \in moving, d <= k PROVE HasMoved(cs, after, d)
  <2>1. PICK e \in DOMAIN acc.cs :
          /\ acc.map[d] = {e} /\ e >= d /\ (e = d \/ e > Len(cs))
          /\ acc.cs[e].change = cs[d].change
          /\ \A p \in cs[d].parents : \A q \in acc.map[p] : acc.cs[q].anc \subseteq acc.cs[e].anc
    BY <1>8 DEF LookedAt, HasMoved
  <2>2. d # c /\ d \in DOMAIN cs
    BY <1>1, <1>3, <1>8
  <2>3. after.map[d] = {e} /\ e \in DOMAIN after.cs /\ after.cs[e] = acc.cs[e]
    BY <1>6, <2>1, <2>2 DEF Extends
  <2>4. ASSUME NEW p \in cs[d].parents, NEW q \in after.map[p]
        PROVE  after.cs[q].anc \subseteq after.cs[e].anc
    <3>1. p # c /\ p \in DOMAIN cs
      BY <1>1, <1>3, <1>8, <2>2
    <3>2. q \in acc.map[p] /\ q \in DOMAIN acc.cs
      BY <1>4, <1>6, <2>4, <3>1
    <3>3. after.cs[q] = acc.cs[q]
      BY <1>6, <3>2 DEF Extends
    <3> QED BY <2>1, <2>3, <3>2, <3>3
  <2> QED BY <2>1, <2>3, <2>4 DEF HasMoved
<1>9. ASSUME c \in moving PROVE HasMoved(cs, after, c)
  <2>1. acc.map[c] = {c} /\ acc.cs[c] = cs[c] /\ c \in DOMAIN acc.cs
    BY <1>1, <1>3, <1>4 DEF LookedAt, Extends
  <2>2. \A p \in cs[c].parents : /\ p \in DOMAIN cs /\ p # c /\ after.map[p] = acc.map[p]
                                /\ acc.map[p] \subseteq onto /\ acc.map[p] \subseteq DOMAIN acc.cs
    BY <1>2, <1>3, <1>4, <1>6
  <2>3. CASE onto # cs[c].parents
    <3>1. after = [cs |-> Rebase(acc.cs, c, onto), map |-> [acc.map EXCEPT ![c] = {Len(acc.cs) + 1}]]
      BY <1>1, <1>2, <1>9, <2>3 DEF MoveCommit
    <3>2. PICK as, ds, n : as = acc.cs /\ ds = Rebase(as, c, onto) /\ n = Len(as) + 1
      OBVIOUS
    <3>3. WellFormed(as) /\ c \in DOMAIN as /\ onto \subseteq DOMAIN as
      BY <1>2, <1>3, <1>4, <3>2 DEF Extends
    <3>4. OneMore(ds, as, onto, as[c].change, ds[Len(as) + 1].edits)
      BY ONLY <3>2, <3>3, RebaseKeeps, ZenonT(30)
    <3>5. /\ n \in DOMAIN ds /\ ds[n].change = cs[c].change
          /\ ds[n].anc = Below(as, onto) \cup {n} /\ Extends(ds, as)
      BY <2>1, <3>2, <3>4 DEF OneMore
    <3>6. after.cs = ds /\ after.map[c] = {n}
      BY <1>3, <1>4, <3>1, <3>2
    <3>7. n > Len(cs) /\ n >= c
      <4>1. DOMAIN as = 1 .. Len(as) /\ Len(as) \in Nat
        BY <3>3, GraphShape
      <4>2. Len(cs) <= Len(as)
        <5>1. Len(cs) = 0 \/ Len(cs) \in DOMAIN cs
          BY <1>3
        <5> QED BY <1>3, <1>4, <3>2, <4>1, <5>1 DEF Extends
      <4> QED BY <1>3, <3>2, <4>1, <4>2
    <3>8. ASSUME NEW p \in cs[c].parents, NEW q \in after.map[p]
          PROVE  after.cs[q].anc \subseteq after.cs[n].anc
      <4>1. q \in onto /\ q \in DOMAIN as
        BY <2>2, <3>2, <3>8
      <4>2. ds[q] = as[q]
        BY <3>5, <4>1 DEF Extends
      <4>3. as[q].anc \subseteq Below(as, onto)
        BY <4>1 DEF Below
      <4> QED BY <3>5, <3>6, <4>2, <4>3
    <3> QED BY <3>5, <3>6, <3>7, <3>8 DEF HasMoved
  <2>4. CASE onto = cs[c].parents
    <3>1. after = acc
      BY <1>1, <1>2, <1>9, <2>4 DEF MoveCommit
    <3>2. ASSUME NEW p \in cs[c].parents, NEW q \in acc.map[p]
          PROVE  acc.cs[q].anc \subseteq acc.cs[c].anc
      <4>1. q \in cs[c].parents
        BY <2>2, <2>4, <3>2
      <4>2. q \in acc.cs[c].anc
        BY <1>4, <2>1, <4>1, GraphShape
      <4> QED BY <1>4, <2>1, <4>2, GraphShape
    <3> QED BY <1>3, <2>1, <3>1, <3>2 DEF HasMoved
  <2> QED BY <2>3, <2>4
<1>10. \A d \in moving : d <= c => HasMoved(cs, after, d)
  <2>1. \A d \in moving : d <= c => d <= k \/ d = c
    BY <1>1, <1>3
  <2> QED BY <1>8, <1>9, <2>1
<1>11. \A d \in DOMAIN cs : d > c => after.map[d] = {d}
  BY <1>1, <1>3, <1>6 DEF LookedAt
<1>12. \A d \in DOMAIN cs : d \notin gone \cup moving => after.map[d] = {d}
  BY <1>6, <1>7 DEF LookedAt
<1> QED BY <1>1, <1>5, <1>10, <1>11, <1>12 DEF LookedAt

\* When all have been moved.
LEMMA AllLookedAt ==
  ASSUME NEW cs, WellFormed(cs), NEW gone, NEW moving, moving \cap gone = {}, moving \subseteq DOMAIN cs,
         NEW new, new \subseteq DOMAIN cs
  PROVE  LookedAt(cs, gone, moving, MoveAll(cs, gone, moving, new), Len(cs))
<1>1. Len(cs) \in Nat /\ DOMAIN cs = 1 .. Len(cs)
  BY StoreShape
<1>2. PICK moved : moved = Moved(cs, gone, moving, new)
  OBVIOUS
<1>3. /\ moved[0] = [cs |-> cs, map |-> [d \in DOMAIN cs |-> {d}]]
      /\ \A c \in 1 .. Len(cs) : moved[c] = MoveCommit(cs, gone, moving, new, moved[c - 1], c)
  BY <1>1, <1>2, MovedIs
<1> DEFINE S == {k \in 0 .. Len(cs) : LookedAt(cs, gone, moving, moved[k], k)}
<1>4. 0 \in S
  <2>1. RewriteSound(cs, moved[0])
    BY <1>1, <1>3, ExtendsItself DEF RewriteSound
  <2>2. moved[0].map = [d \in DOMAIN cs |-> {d}]
    BY <1>3
  <2> QED BY <1>1, <2>1, <2>2 DEF LookedAt
<1>5. ASSUME NEW k \in 0 .. Len(cs), k < Len(cs), k \in S PROVE k + 1 \in S
  <2>1. k + 1 \in 1 .. Len(cs) /\ (k + 1) - 1 = k /\ k + 1 \in 0 .. Len(cs)
        /\ k + 1 \in DOMAIN cs /\ k \in Nat
    BY <1>1, <1>5
  <2>2. moved[k + 1] = MoveCommit(cs, gone, moving, new, moved[k], k + 1)
    BY <1>3, <2>1
  <2>3. LookedAt(cs, gone, moving, moved[k], k)
    BY <1>5
  <2>4. LookedAt(cs, gone, moving, moved[k + 1], k + 1)
    BY <2>1, <2>2, <2>3, LookedAtNext
  <2> QED BY <2>1, <2>4
<1>6. Len(cs) \in S
  <2> HIDE DEF S
  <2>1. \A k \in 0 .. Len(cs) : k < Len(cs) /\ k \in S => k + 1 \in S
    BY <1>5
  <2>2. \A k \in 0 .. Len(cs) : k \in S
    BY <1>1, <1>4, <2>1, CountUp
  <2> QED BY <1>1, <2>2
<1> QED BY <1>2, <1>6, MoveAllIs

\* The graph and the view after rebase_descendants.
EndsAs(r, cs, view, lost, new, moving, end, heads) ==
  /\ end = MoveAll(cs, Gone(cs, lost, new), moving, new)
  /\ r.cs = end.cs /\ r.view.git = view.git /\ r.view.heads = HeadsOf(end.cs, heads)
  /\ heads = ((UNION {end.map[h] : h \in view.heads}) \ lost)
               \cup ((UNION {cs[c].parents : c \in lost \cup moving}) \ (lost \cup moving))
  /\ r.view.main = UNION {IF c = None THEN {None}
                          ELSE IF c \in lost \ Gone(cs, lost, new) THEN Successors(cs, new, c)
                          ELSE end.map[c] : c \in view.main}

LEMMA RebaseDescendantsIs ==
  ASSUME NEW cs, NEW view, view = [heads |-> view.heads, main |-> view.main, git |-> view.git],
         NEW lost, NEW new, NEW r, r = RebaseDescendants(cs, view, lost, new),
         NEW moving, moving = Moving(cs, view, lost, Gone(cs, lost, new))
  PROVE  \E end, heads : EndsAs(r, cs, view, lost, new, moving, end, heads)
<1>1. PICK end : end = MoveAll(cs, Gone(cs, lost, new), moving, new)
  OBVIOUS
<1>2. PICK heads, left : 
        /\ left = (UNION {cs[c].parents : c \in lost \cup moving}) \ (lost \cup moving)
        /\ heads = ((UNION {end.map[h] : h \in view.heads}) \ lost) \cup left
  OBVIOUS
<1>3. PICK main : main = UNION {IF c = None THEN {None}
                                ELSE IF c \in lost \ Gone(cs, lost, new) THEN Successors(cs, new, c)
                                ELSE end.map[c] : c \in view.main}
  OBVIOUS
<1>4. PICK hs : hs = HeadsOf(end.cs, heads)
  OBVIOUS
<1>5. r = [cs |-> end.cs, view |-> [view EXCEPT !.heads = hs, !.main = main]]
  BY <1>1, <1>2, <1>3, <1>4 DEF RebaseDescendants
<1>6. [view EXCEPT !.heads = hs, !.main = main] = [heads |-> hs, main |-> main, git |-> view.git]
  <2>1. PICK h, m, g : view = [heads |-> h, main |-> m, git |-> g]
    OBVIOUS
  <2>2. PICK w : w = [view EXCEPT !.heads = hs, !.main = main]
    OBVIOUS
  <2>3. w = [heads |-> hs, main |-> main, git |-> g] /\ view.git = g
    BY <2>1, <2>2
  <2> QED BY <2>2, <2>3
<1>7. r.cs = end.cs /\ r.view.git = view.git /\ r.view.heads = hs /\ r.view.main = main
  BY ONLY <1>5, <1>6
<1>8. heads = ((UNION {end.map[h] : h \in view.heads}) \ lost)
                \cup ((UNION {cs[c].parents : c \in lost \cup moving}) \ (lost \cup moving))
  BY <1>2
<1>9. /\ r.view.heads = HeadsOf(end.cs, heads)
      /\ r.view.main = UNION {IF c = None THEN {None}
                              ELSE IF c \in lost \ Gone(cs, lost, new) THEN Successors(cs, new, c)
                              ELSE end.map[c] : c \in view.main}
  BY <1>3, <1>4, <1>7
<1>10. r.cs = end.cs /\ r.view.git = view.git
  BY <1>7
<1>11. EndsAs(r, cs, view, lost, new, moving, end, heads)
  BY <1>1, <1>8, <1>9, <1>10 DEF EndsAs
<1> QED BY <1>11

\* A commit is in sight after a rewrite: it stayed, or moved.
InSight(r, cs, m, stays) ==
  \E n \in Visible(r.cs, r.view) :
    n >= m /\ r.cs[n].change = cs[m].change /\ (stays => n = m)

\* It was visible, or is below what goes or moves.
InReach(cs, view, lost, moving, m) ==
  /\ m \in DOMAIN cs /\ m \notin lost
  /\ \/ m \in Visible(cs, view)
     \/ m \notin moving /\ \E x \in lost \cup moving : m \in cs[x].anc

\* A rewrite in which what moves takes all that is visible above it along.
Rewriting(cs, view, lost, new, moving, r) ==
  /\ WellFormed(cs)
  /\ view = [heads |-> view.heads, main |-> view.main, git |-> view.git]
  /\ view.heads \subseteq DOMAIN cs /\ lost \subseteq DOMAIN cs /\ new \subseteq DOMAIN cs
  /\ r = RebaseDescendants(cs, view, lost, new)
  /\ moving = Moving(cs, view, lost, Gone(cs, lost, new))
  /\ \A d \in moving, c \in Visible(cs, view) : d \in cs[c].anc => c \in moving

\* What is visible stays so, as it was or moved, unless it is lost.
\* (rebase_descendants)
LEMMA KeptInSight ==
  ASSUME NEW cs, NEW view, NEW lost, NEW new, NEW moving, NEW r,
         Rewriting(cs, view, lost, new, moving, r),
         NEW m, InReach(cs, view, lost, moving, m)
  PROVE  InSight(r, cs, m, m \notin moving)
<1>0. /\ WellFormed(cs)
      /\ view = [heads |-> view.heads, main |-> view.main, git |-> view.git]
      /\ view.heads \subseteq DOMAIN cs /\ lost \subseteq DOMAIN cs /\ new \subseteq DOMAIN cs
      /\ r = RebaseDescendants(cs, view, lost, new)
      /\ moving = Moving(cs, view, lost, Gone(cs, lost, new))
      /\ \A d \in moving, c \in Visible(cs, view) : d \in cs[c].anc => c \in moving
      /\ m \in DOMAIN cs /\ m \notin lost
  BY DEF Rewriting, InReach
<1>r. m \notin moving => m \in Visible(cs, view) \/ \E x \in lost \cup moving : m \in cs[x].anc
  BY DEF InReach
<1>1. PICK gone, X : gone = Gone(cs, lost, new) /\ X = lost \cup moving
  OBVIOUS
<1>e. PICK end, heads : EndsAs(r, cs, view, lost, new, moving, end, heads)
  BY <1>0, RebaseDescendantsIs
<1>2. /\ end = MoveAll(cs, gone, moving, new)
      /\ r.cs = end.cs /\ r.view.heads = HeadsOf(end.cs, heads)
      /\ heads = ((UNION {end.map[h] : h \in view.heads}) \ lost)
                   \cup ((UNION {cs[c].parents : c \in X}) \ X)
  BY <1>1, <1>e DEF EndsAs
<1>3. /\ DOMAIN cs = 1 .. Len(cs) /\ Len(cs) \in Nat
      /\ \A c \in DOMAIN cs : /\ c \in cs[c].anc /\ cs[c].anc \subseteq DOMAIN cs
                              /\ cs[c].parents \subseteq DOMAIN cs
                              /\ \A a \in cs[c].anc : cs[a].anc \subseteq cs[c].anc
  BY <1>0, GraphShape
<1>4. /\ moving \subseteq Visible(cs, view) /\ Visible(cs, view) \subseteq DOMAIN cs
      /\ gone \subseteq lost /\ moving \cap lost = {} /\ moving \cap gone = {}
  BY <1>0, <1>1, <1>3 DEF Moving, Visible, Gone
<1>5. LookedAt(cs, gone, moving, end, Len(cs))
  BY <1>0, <1>2, <1>3, <1>4, AllLookedAt
<1>6. /\ WellFormed(end.cs) /\ Extends(end.cs, cs)
      /\ \A c \in DOMAIN cs : end.map[c] \subseteq DOMAIN end.cs
      /\ \A c \in DOMAIN cs : c \notin gone \cup moving => end.map[c] = {c}
      /\ \A c \in moving : HasMoved(cs, end, c)
  BY <1>3, <1>4, <1>5 DEF LookedAt, RewriteSound
<1>7. heads \subseteq DOMAIN end.cs
  BY <1>0, <1>1, <1>2, <1>3, <1>4, <1>6 DEF Extends
<1>8. ASSUME NEW z \in heads, NEW n \in end.cs[z].anc PROVE n \in Visible(r.cs, r.view)
  <2>1. PICK h \in HeadsOf(end.cs, heads) : z \in end.cs[h].anc
    BY <1>6, <1>7, BelowAHead
  <2>2. h \in DOMAIN end.cs
    BY <1>7, <2>1 DEF HeadsOf
  <2>3. n \in end.cs[h].anc
    BY <1>6, <2>1, <2>2, GraphShape
  <2> QED BY <1>2, <2>1, <2>3 DEF Visible
<1>9. CASE m \in moving
  <2>1. PICK n \in DOMAIN end.cs : /\ end.map[m] = {n} /\ n >= m /\ end.cs[n].change = cs[m].change
    BY <1>6, <1>9 DEF HasMoved
  <2> DEFINE Bad == {c \in moving : m \in cs[c].anc /\ \E e : end.map[c] = {e} /\ n \notin end.cs[e].anc}
  <2>2. Bad = {}
    <3> SUFFICES ASSUME Bad # {} PROVE FALSE
      OBVIOUS
    <3>1. PICK c \in Bad : \A d \in Bad : c <= d
      <4>1. Bad \subseteq Nat
        BY <1>3, <1>4
      <4> HIDE DEF Bad
      <4> QED BY <4>1, HasLeast
    <3>2. PICK e : end.map[c] = {e} /\ n \notin end.cs[e].anc
      BY <3>1
    <3>3. c \in moving /\ m \in cs[c].anc /\ c \in DOMAIN cs /\ c \in Nat
      BY <1>3, <1>4, <3>1
    <3>4. c # m
      <4>1. e \in DOMAIN end.cs /\ e \in end.cs[e].anc
        BY <1>6, <3>2, <3>3, GraphShape
      <4> QED BY <2>1, <3>2, <4>1
    <3>5. PICK p \in cs[c].parents : m \in cs[p].anc
      BY <1>0, <3>3, <3>4, GraphShape
    <3>6. p \in cs[c].anc /\ p < c /\ p \in DOMAIN cs /\ p \in Nat
      BY <1>0, <1>3, <3>3, <3>5, GraphShape
    <3>7. p \in Visible(cs, view)
      <4>1. PICK h \in view.heads : c \in cs[h].anc
        BY <1>4, <3>3 DEF Visible
      <4>2. c \in cs[h].anc /\ h \in DOMAIN cs
        BY <1>0, <4>1
      <4>3. cs[c].anc \subseteq cs[h].anc
        BY <1>3, <4>2
      <4>4. p \in cs[h].anc
        BY <3>6, <4>3
      <4> QED BY <4>1, <4>4 DEF Visible
    <3>8. p \in moving
      BY <1>0, <1>9, <3>5, <3>7
    <3>9. PICK q : end.map[p] = {q}
      BY <1>6, <3>8 DEF HasMoved
    <3>10. n \in end.cs[q].anc
      <4>1. p \notin Bad
        BY <3>1, <3>3, <3>6
      <4> QED BY <3>5, <3>8, <3>9, <4>1
    <3>11. end.cs[q].anc \subseteq end.cs[e].anc
      BY <1>6, <3>2, <3>3, <3>5, <3>9 DEF HasMoved
    <3> QED BY <3>2, <3>10, <3>11
  <2>3. PICK h \in view.heads : m \in cs[h].anc
    BY <1>4, <1>9 DEF Visible
  <2>4. h \in moving
    <3>1. h \in Visible(cs, view)
      BY <1>0, <1>3, <2>3 DEF Visible
    <3> QED BY <1>0, <1>9, <2>3, <3>1
  <2>5. PICK e \in DOMAIN end.cs : end.map[h] = {e} /\ (e = h \/ e > Len(cs))
    BY <1>6, <2>4 DEF HasMoved
  <2>6. e \notin lost
    BY <1>0, <1>3, <1>4, <2>4, <2>5
  <2>7. e \in heads
    BY <1>2, <2>3, <2>5, <2>6
  <2>8. n \in end.cs[e].anc
    BY <2>2, <2>3, <2>4, <2>5
  <2> QED BY <1>2, <1>8, <1>9, <2>1, <2>7, <2>8 DEF InSight
<1>10. CASE m \notin moving
  <2>1. SUFFICES \E z \in heads : m \in end.cs[z].anc
    <3>1. end.cs[m] = cs[m] /\ m >= m
      BY <1>0, <1>3, <1>6 DEF Extends
    <3> QED BY <1>2, <1>8, <2>1, <3>1 DEF InSight
  <2>2. ASSUME NEW x \in X, m \in cs[x].anc PROVE \E z \in heads : m \in end.cs[z].anc
    <3>1. x \in DOMAIN cs /\ m \notin X
      BY <1>0, <1>1, <1>3, <1>4, <1>10, <2>2
    <3>2. PICK d \in X : \E p \in cs[d].parents : p \notin X /\ m \in cs[p].anc
      BY <1>0, <2>2, <3>1, LeftBehind
    <3>3. PICK p \in cs[d].parents : p \notin X /\ m \in cs[p].anc
      BY <3>2
    <3>4. p \in heads
      BY <1>2, <3>2, <3>3
    <3>5. p \in DOMAIN cs
      BY <1>0, <1>1, <1>3, <1>4, <3>2, <3>3
    <3> QED BY <1>6, <3>3, <3>4, <3>5 DEF Extends
  <2>3. CASE \E x \in X : m \in cs[x].anc
    BY <2>2, <2>3
  <2>4. CASE ~ \E x \in X : m \in cs[x].anc
    <3>1. PICK h \in view.heads : m \in cs[h].anc
      BY <1>1, <1>10, <1>r, <2>4 DEF Visible
    <3>2. h \notin X
      BY <2>4, <3>1
    <3>3. end.map[h] = {h} /\ h \notin lost /\ end.cs[h] = cs[h]
      BY <1>0, <1>1, <1>4, <1>6, <3>1, <3>2 DEF Extends
    <3> QED BY <1>2, <3>1, <3>3
  <2> QED BY <2>3, <2>4
<1> QED BY <1>9, <1>10

\* A view of the graph, with heads of which none is built on another.
GoodView(cs, v) ==
  /\ v = [heads |-> v.heads, main |-> v.main, git |-> v.git]
  /\ v.heads \subseteq DOMAIN cs /\ Antichain(cs, v.heads)
  /\ v.main \subseteq DOMAIN cs \cup {None}

LEMMA GoodViewAfter ==
  ASSUME NEW cs, WellFormed(cs), NEW view, GoodView(cs, view),
         NEW lost, lost \subseteq DOMAIN cs, NEW new, new \subseteq DOMAIN cs,
         NEW r, r = RebaseDescendants(cs, view, lost, new)
  PROVE  WellFormed(r.cs) /\ Extends(r.cs, cs) /\ GoodView(r.cs, r.view)
<1>1. Rewritten(r, cs)
  <2>1. view = [heads |-> view.heads, main |-> view.main, git |-> view.git] /\ view.heads \subseteq DOMAIN cs
    BY DEF GoodView
  <2> QED BY <2>1, RebaseDescendantsKeeps, ZenonT(30)
<1>2. PICK gone, moving : gone = Gone(cs, lost, new) /\ moving = Moving(cs, view, lost, gone)
  OBVIOUS
<1>3. PICK end, heads : EndsAs(r, cs, view, lost, new, moving, end, heads)
  BY <1>2, RebaseDescendantsIs DEF GoodView
<1>4. Antichain(r.cs, r.view.heads)
  BY <1>3, HeadsAreApart DEF EndsAs
<1>5. moving \cap gone = {} /\ moving \subseteq DOMAIN cs
  <2>1. Visible(cs, view) \subseteq DOMAIN cs
    BY GraphShape DEF Visible, GoodView
  <2> QED BY <1>2, <2>1 DEF Moving, Gone
<1>6. /\ \A c \in DOMAIN cs : end.map[c] \subseteq DOMAIN r.cs
      /\ DOMAIN cs \subseteq DOMAIN r.cs
  <2>1. RewriteSound(cs, end)
    BY <1>2, <1>3, <1>5, MoveAllKeeps DEF EndsAs
  <2> QED BY <1>3, <2>1 DEF EndsAs, RewriteSound, Extends
<1>7. r.view.main \subseteq DOMAIN r.cs \cup {None}
  <2>1. \A c : Successors(cs, new, c) \subseteq DOMAIN cs
    BY DEF Successors
  <2>2. \A c \in view.main : (IF c = None THEN {None}
                              ELSE IF c \in lost \ Gone(cs, lost, new) THEN Successors(cs, new, c)
                              ELSE end.map[c]) \subseteq DOMAIN r.cs \cup {None}
    BY <1>6, <2>1 DEF GoodView
  <2> QED BY <1>3, <2>2 DEF EndsAs
<1> QED BY <1>1, <1>4, <1>7 DEF Rewritten, GoodView

LEMMA MergeRefWithin ==
  ASSUME NEW cs, NEW left, NEW base, NEW right
  PROVE  MergeRef(cs, left, base, right) \subseteq left \cup right
  BY DEF MergeRef

\* What one of two merged views sees and neither has lost stays visible, as it
\* was or moved. (merge_operation)
LEMMA MergeKeepsSight ==
  ASSUME NEW cs, WellFormed(cs), NEW left, NEW base, NEW right,
         GoodView(cs, left), GoodView(cs, base), GoodView(cs, right),
         NEW lost, lost = (Visible(cs, base) \ Visible(cs, left))
                            \cup (Visible(cs, base) \ Visible(cs, right)),
         NEW r, r = MergeViews(cs, left, base, right)
  PROVE  /\ WellFormed(r.cs) /\ Extends(r.cs, cs) /\ GoodView(r.cs, r.view)
         /\ \A m \in Visible(cs, left) \cup Visible(cs, right) : m \notin lost =>
              InSight(r, cs, m, cs[m].anc \cap lost = {})
<1>1. PICK L, B, R, VL, VB, VR :
        /\ L = left.heads /\ B = base.heads /\ R = right.heads
        /\ VL = Visible(cs, left) /\ VB = Visible(cs, base) /\ VR = Visible(cs, right)
  OBVIOUS
<1>2. PICK new : new = (VL \ VB) \cup (VR \ VB)
  OBVIOUS
<1>3. PICK tops : tops = (L \ (B \ R)) \cup (R \ B)
  OBVIOUS
<1>4. PICK view : view = [heads |-> HeadsOf(cs, tops),
                          main |-> MergeRef(cs, left.main, base.main, right.main),
                          git |-> MergeRef(cs, left.git, base.git, right.git)]
  OBVIOUS
<1>5. r = RebaseDescendants(cs, view, lost, new)
  BY <1>1, <1>2, <1>3, <1>4 DEF MergeViews
<1>6. /\ \A c \in DOMAIN cs : /\ c \in cs[c].anc /\ cs[c].anc \subseteq DOMAIN cs
                              /\ \A a \in cs[c].anc : cs[a].anc \subseteq cs[c].anc
      /\ DOMAIN cs \subseteq Nat
  BY GraphShape
<1>7. L \subseteq DOMAIN cs /\ B \subseteq DOMAIN cs /\ R \subseteq DOMAIN cs /\ Antichain(cs, B)
  BY <1>1 DEF GoodView
<1>8. /\ VL \subseteq DOMAIN cs /\ VB \subseteq DOMAIN cs /\ VR \subseteq DOMAIN cs
      /\ \A c \in VL : cs[c].anc \subseteq VL
      /\ \A c \in VB : cs[c].anc \subseteq VB
      /\ \A c \in VR : cs[c].anc \subseteq VR
  BY <1>1, <1>6, <1>7 DEF Visible
<1>9. tops \subseteq DOMAIN cs /\ tops \subseteq L \cup R
  BY <1>3, <1>7
<1>10. GoodView(cs, view)
  <2>1. view.heads = HeadsOf(cs, tops) /\ view.main = MergeRef(cs, left.main, base.main, right.main)
        /\ view = [heads |-> view.heads, main |-> view.main, git |-> view.git]
    BY <1>4
  <2>2. view.heads \subseteq DOMAIN cs /\ Antichain(cs, view.heads)
    BY <1>9, <2>1, HeadsAreApart
  <2>3. view.main \subseteq DOMAIN cs \cup {None}
    BY <2>1, MergeRefWithin DEF GoodView
  <2> QED BY <2>1, <2>2, <2>3 DEF GoodView
<1>11. lost = (VB \ VL) \cup (VB \ VR) /\ lost \subseteq DOMAIN cs /\ new \subseteq DOMAIN cs
  BY <1>1, <1>2, <1>8
<1>12. WellFormed(r.cs) /\ Extends(r.cs, cs) /\ GoodView(r.cs, r.view)
  BY <1>5, <1>10, <1>11, GoodViewAfter
<1>13. PICK gone, moving : gone = Gone(cs, lost, new) /\ moving = Moving(cs, view, lost, gone)
  OBVIOUS
<1>14. PICK V : V = Visible(cs, view)
  OBVIOUS
<1>15. \A z \in tops, m \in DOMAIN cs : m \in cs[z].anc => m \in V
  <2> TAKE z \in tops, m \in DOMAIN cs
  <2> HAVE m \in cs[z].anc
  <2>1. PICK h \in HeadsOf(cs, tops) : z \in cs[h].anc
    BY <1>9, BelowAHead
  <2>2. h \in DOMAIN cs
    BY <1>9, <2>1 DEF HeadsOf
  <2>3. m \in cs[h].anc
    BY <1>6, <2>1, <2>2
  <2> QED BY <1>4, <1>14, <2>1, <2>3 DEF Visible
<1>16. V \subseteq VL \cup VR
  <2>1. HeadsOf(cs, tops) \subseteq L \cup R
    BY <1>9, HeadsAreApart
  <2> QED BY <1>1, <1>4, <1>14, <2>1 DEF Visible
<1>17. moving \subseteq V /\ moving \cap lost = {} /\ \A d \in moving : cs[d].anc \cap lost # {}
  BY <1>13, <1>14 DEF Moving, Gone
<1>18. ASSUME NEW d \in moving, NEW c \in V, d \in cs[c].anc PROVE c \in moving
  <2>1. c \in DOMAIN cs /\ d \in DOMAIN cs
    BY <1>8, <1>16, <1>17
  <2>2. PICK g \in gone : g \in cs[d].anc
    BY <1>13 DEF Moving
  <2>3. g \in lost
    BY <1>13, <2>2 DEF Gone
  <2>4. d \notin VB
    <3> SUFFICES ASSUME d \in VB PROVE FALSE
      OBVIOUS
    <3>1. d \in VL /\ d \in VR
      BY <1>11, <1>17
    <3>2. g \in VL /\ g \in VR
      BY <1>8, <2>2, <3>1
    <3> QED BY <1>11, <2>3, <3>2
  <2>5. c \notin VB
    BY <1>8, <1>18, <2>4
  <2>6. g \in cs[c].anc
    BY <1>6, <1>18, <2>1, <2>2
  <2> QED BY <1>11, <1>13, <1>14, <2>2, <2>5, <2>6 DEF Moving
<1>19. ASSUME NEW m \in VL \cup VR, m \notin lost
       PROVE  m \in V \/ (m \notin moving /\ \E x \in lost \cup moving : m \in cs[x].anc)
  <2>1. SUFFICES ASSUME ~ \E x \in lost : m \in cs[x].anc PROVE m \in V
    BY <1>17
  <2>2. m \in DOMAIN cs
    BY <1>8
  <2>3. SUFFICES \E z \in tops : m \in cs[z].anc
    BY <1>15, <2>2
  <2>4. ASSUME NEW g \in L, m \in cs[g].anc PROVE \E z \in tops : m \in cs[z].anc
    <3>1. CASE g \in tops
      BY <2>4, <3>1
    <3>2. CASE g \notin tops
      <4>1. g \in B /\ g \notin R
        BY <1>3, <3>2
      <4>2. g \in VR
        <5>1. g \in VB /\ g \notin lost
          BY <1>1, <1>6, <1>7, <2>1, <2>4, <4>1 DEF Visible
        <5> QED BY <1>11, <5>1
      <4>3. PICK h \in R : g \in cs[h].anc
        BY <1>1, <4>2 DEF Visible
      <4>4. h \notin B
        BY <1>7, <4>1, <4>3 DEF Antichain
      <4>5. h \in tops /\ m \in cs[h].anc
        BY <1>3, <1>6, <1>7, <2>4, <4>3, <4>4
      <4> QED BY <4>5
    <3> QED BY <3>1, <3>2
  <2>5. ASSUME NEW g \in R, m \in cs[g].anc PROVE \E z \in tops : m \in cs[z].anc
    <3>1. CASE g \in tops
      BY <2>5, <3>1
    <3>2. CASE g \notin tops
      <4>1. g \in B /\ g \notin L
        BY <1>3, <3>2
      <4>2. g \in VL
        <5>1. g \in VB /\ g \notin lost
          BY <1>1, <1>6, <1>7, <2>1, <2>5, <4>1 DEF Visible
        <5> QED BY <1>11, <5>1
      <4>3. PICK h \in L : g \in cs[h].anc
        BY <1>1, <4>2 DEF Visible
      <4>4. h \notin B
        BY <1>7, <4>1, <4>3 DEF Antichain
      <4>5. h \in tops /\ m \in cs[h].anc
        BY <1>3, <1>6, <1>7, <2>5, <4>3, <4>4
      <4> QED BY <4>5
    <3> QED BY <3>1, <3>2
  <2> QED BY <1>1, <2>4, <2>5 DEF Visible
<1>20. ASSUME NEW m \in VL \cup VR, m \notin lost
       PROVE  InSight(r, cs, m, cs[m].anc \cap lost = {})
  <2>1. m \in DOMAIN cs
    BY <1>8
  <2>2. InSight(r, cs, m, m \notin moving)
    <3>1. Rewriting(cs, view, lost, new, moving, r)
      BY <1>5, <1>10, <1>11, <1>13, <1>14, <1>18 DEF Rewriting, GoodView
    <3>2. InReach(cs, view, lost, moving, m)
      BY <1>14, <1>19, <1>20, <2>1 DEF InReach
    <3> QED BY ONLY <3>1, <3>2, KeptInSight, Zenon
  <2>3. cs[m].anc \cap lost = {} => m \notin moving
    BY <1>17
  <2> QED BY <2>2, <2>3 DEF InSight
<1> QED BY <1>1, <1>12, <1>20

-----------------------------------------------------------------------------
(* VcsEngine: every operation shows what the ones before it showed *)

\* The view w shows what v shows: the commits, or newer ones of their changes.
Keeps(cs, v, w) ==
  \A a \in Visible(cs, v) : \E n \in Visible(cs, w) : n >= a /\ cs[n].change = cs[a].change

LEMMA KeepsStays ==
  ASSUME NEW cs, NEW ds, WellFormed(cs), WellFormed(ds), Extends(ds, cs),
         NEW v, v.heads \subseteq DOMAIN cs, NEW w, w.heads \subseteq DOMAIN cs, Keeps(cs, v, w)
  PROVE  Keeps(ds, v, w)
<1>1. /\ Visible(ds, v) = Visible(cs, v) /\ Visible(cs, v) \subseteq DOMAIN cs
      /\ Visible(ds, w) = Visible(cs, w) /\ Visible(cs, w) \subseteq DOMAIN cs
  BY SeenTheSame
<1>2. \A c \in DOMAIN cs : ds[c] = cs[c]
  BY DEF Extends
<1> QED BY <1>1, <1>2 DEF Keeps

LEMMA KeepsTransitive ==
  ASSUME NEW cs, WellFormed(cs), NEW u, NEW v, NEW w,
         u.heads \subseteq DOMAIN cs, v.heads \subseteq DOMAIN cs, w.heads \subseteq DOMAIN cs,
         Keeps(cs, u, v), Keeps(cs, v, w)
  PROVE  Keeps(cs, u, w)
<1> SUFFICES ASSUME NEW a \in Visible(cs, u)
             PROVE  \E n \in Visible(cs, w) : n >= a /\ cs[n].change = cs[a].change
  BY DEF Keeps
<1>1. /\ Visible(cs, u) \subseteq DOMAIN cs /\ Visible(cs, v) \subseteq DOMAIN cs
      /\ Visible(cs, w) \subseteq DOMAIN cs /\ DOMAIN cs \subseteq Nat
  BY GraphShape DEF Visible
<1>2. PICK m \in Visible(cs, v) : m >= a /\ cs[m].change = cs[a].change
  BY DEF Keeps
<1>3. PICK n \in Visible(cs, w) : n >= m /\ cs[n].change = cs[m].change
  BY DEF Keeps
<1>4. n >= a
  BY <1>1, <1>2, <1>3
<1> QED BY <1>2, <1>3, <1>4

\* With more heads, and those built upon dropped, a view shows at least as much.
LEMMA HeadsShow ==
  ASSUME NEW cs, WellFormed(cs), NEW X, X \subseteq DOMAIN cs, NEW w, w.heads = HeadsOf(cs, X)
  PROVE  /\ w.heads \subseteq DOMAIN cs /\ Antichain(cs, w.heads) /\ X \subseteq Visible(cs, w)
         /\ \A v : v.heads \subseteq X => /\ Visible(cs, v) \subseteq Visible(cs, w)
                                          /\ Keeps(cs, v, w)
<1>1. w.heads \subseteq DOMAIN cs /\ Antichain(cs, w.heads)
  BY HeadsAreApart
<1>2. ASSUME NEW x \in X, NEW a \in cs[x].anc PROVE a \in Visible(cs, w)
  <2>1. PICK h \in HeadsOf(cs, X) : x \in cs[h].anc
    BY BelowAHead
  <2>2. h \in DOMAIN cs
    BY <1>1, <2>1
  <2>3. a \in cs[h].anc
    BY <1>2, <2>1, <2>2, GraphShape
  <2> QED BY <2>1, <2>3 DEF Visible
<1>3. \A x \in X : x \in cs[x].anc
  BY GraphShape
<1>4. \A v : v.heads \subseteq X => Visible(cs, v) \subseteq Visible(cs, w)
  BY <1>2 DEF Visible
<1>5. ASSUME NEW v, v.heads \subseteq X PROVE Keeps(cs, v, w)
  <2>1. Visible(cs, v) \subseteq Visible(cs, w)
    BY <1>4, <1>5
  <2>2. Visible(cs, w) \subseteq DOMAIN cs /\ DOMAIN cs \subseteq Nat
    BY <1>1, GraphShape DEF Visible
  <2> QED BY <2>1, <2>2 DEF Keeps
<1> QED BY <1>1, <1>2, <1>3, <1>4, <1>5

\* The newest visible commit of a change survives a merge: the merged view shows
\* what either side shows. (merge_operation)
LEMMA MergeShows ==
  ASSUME NEW cs, WellFormed(cs), NEW left, NEW base, NEW right,
         GoodView(cs, left), GoodView(cs, base), GoodView(cs, right),
         Keeps(cs, base, left), Keeps(cs, base, right),
         NEW r, r = MergeViews(cs, left, base, right)
  PROVE  /\ WellFormed(r.cs) /\ Extends(r.cs, cs) /\ GoodView(r.cs, r.view)
         /\ Keeps(r.cs, left, r.view) /\ Keeps(r.cs, right, r.view)
<1>1. PICK lost : lost = (Visible(cs, base) \ Visible(cs, left))
                            \cup (Visible(cs, base) \ Visible(cs, right))
  OBVIOUS
<1>2. /\ WellFormed(r.cs) /\ Extends(r.cs, cs) /\ GoodView(r.cs, r.view)
      /\ \A m \in Visible(cs, left) \cup Visible(cs, right) : m \notin lost =>
           InSight(r, cs, m, cs[m].anc \cap lost = {})
  BY <1>1, MergeKeepsSight
<1>3. PICK S : S = Visible(cs, left) \cup Visible(cs, right)
  OBVIOUS
<1>4. /\ left.heads \subseteq DOMAIN cs /\ right.heads \subseteq DOMAIN cs
      /\ S \subseteq DOMAIN cs /\ DOMAIN cs = 1 .. Len(cs) /\ Len(cs) \in Nat
  BY <1>3, GraphShape DEF Visible, GoodView
<1>5. ASSUME NEW a \in S
      PROVE  \E n \in Visible(r.cs, r.view) : n >= a /\ r.cs[n].change = r.cs[a].change
  <2> DEFINE T == {n \in S : cs[n].change = cs[a].change}
  <2>1. a \in T /\ T \subseteq 1 .. Len(cs)
    BY <1>4
  <2>2. PICK m \in T : \A n \in T : n <= m
    <3> HIDE DEF T
    <3> QED BY <1>4, <2>1, HasGreatest
  <2>3. m \in S /\ cs[m].change = cs[a].change /\ m \in Nat /\ m \in DOMAIN cs /\ a \in Nat
    BY <1>4, <2>2
  <2>4. ASSUME NEW v, v = left \/ v = right, m \in Visible(cs, base) \ Visible(cs, v) PROVE FALSE
    <3>1. PICK n \in Visible(cs, v) : n >= m /\ cs[n].change = cs[m].change
      BY <2>4 DEF Keeps
    <3>2. n \in T /\ n \in Nat
      BY <1>3, <1>4, <2>3, <2>4, <3>1
    <3>3. n <= m
      BY <2>2, <3>2
    <3>4. n = m
      BY <2>3, <3>1, <3>2, <3>3
    <3> QED BY <2>4, <3>1, <3>4
  <2>5. m \notin lost
    BY <1>1, <2>4
  <2>6. InSight(r, cs, m, cs[m].anc \cap lost = {})
    BY <1>2, <1>3, <2>3, <2>5
  <2>7. PICK n \in Visible(r.cs, r.view) : n >= m /\ r.cs[n].change = cs[m].change
    BY <2>6 DEF InSight
  <2>8. n \in Nat
    BY <1>2, <2>7, GraphShape DEF Visible, GoodView
  <2>9. a <= m
    BY <2>1, <2>2
  <2>10. n >= a
    BY <2>3, <2>7, <2>8, <2>9
  <2>11. r.cs[a] = cs[a]
    BY <1>2, <1>4 DEF Extends
  <2> QED BY <2>3, <2>7, <2>10, <2>11
<1>6. Visible(r.cs, left) \subseteq S /\ Visible(r.cs, right) \subseteq S
  BY <1>2, <1>3, <1>4, SeenTheSame
<1>7. Keeps(r.cs, left, r.view) /\ Keeps(r.cs, right, r.view)
  BY <1>5, <1>6 DEF Keeps
<1> QED BY <1>2, <1>7

\* One commit is lost: what is visible above a commit that moves moves too.
LEMMA LosingOne ==
  ASSUME NEW cs, WellFormed(cs), NEW view, GoodView(cs, view),
         NEW x \in DOMAIN cs, NEW n \in DOMAIN cs, NEW lost, lost = {x}, NEW new, new = {n},
         NEW r, r = RebaseDescendants(cs, view, lost, new),
         NEW gone, gone = Gone(cs, lost, new), NEW moving, moving = Moving(cs, view, lost, gone)
  PROVE  Rewriting(cs, view, lost, new, moving, r) /\ \A a \in moving : x \in cs[a].anc
<1>1. gone \subseteq {x}
  BY DEF Gone
<1>2. view.heads \subseteq DOMAIN cs /\ Visible(cs, view) \subseteq DOMAIN cs /\ DOMAIN cs \subseteq Nat
  BY GraphShape DEF GoodView, Visible
<1>3. \A a \in moving : a \in Visible(cs, view) /\ a # x /\ x \in cs[a].anc /\ x \in gone
  BY <1>1 DEF Moving
<1>4. ASSUME NEW d \in moving, NEW c \in Visible(cs, view), d \in cs[c].anc PROVE c \in moving
  <2>1. d \in Visible(cs, view) /\ d # x /\ x \in cs[d].anc /\ x \in gone
    BY <1>3
  <2>2. c \in DOMAIN cs /\ d \in DOMAIN cs
    BY <1>2, <2>1
  <2>3. x \in cs[c].anc
    BY <1>4, <2>1, <2>2, GraphShape
  <2>4. c # x
    <3> SUFFICES ASSUME c = x PROVE FALSE
      OBVIOUS
    <3>1. d <= x /\ x <= d
      BY <1>4, <2>1, <2>2, GraphShape
    <3> QED BY <1>2, <2>1, <2>2, <3>1
  <2> QED BY <2>1, <2>3, <2>4 DEF Moving
<1> QED BY <1>2, <1>3, <1>4 DEF Rewriting, GoodView

\* integrate_commit's rewrite of x as n: the view shows what it showed.
LEMMA RewriteShows ==
  ASSUME NEW cs, WellFormed(cs), NEW view, GoodView(cs, view),
         NEW x \in DOMAIN cs, NEW n \in DOMAIN cs, n >= x, cs[n].change = cs[x].change,
         NEW r, r = RebaseDescendants(cs, view, {x}, {n}),
         NEW w, w.heads = HeadsOf(r.cs, r.view.heads \cup {n})
  PROVE  /\ WellFormed(r.cs) /\ Extends(r.cs, cs) /\ w.heads \subseteq DOMAIN r.cs
         /\ Antichain(r.cs, w.heads) /\ Keeps(r.cs, view, w) /\ n \in Visible(r.cs, w)
<1>1. PICK lost, new : lost = {x} /\ new = {n}
  OBVIOUS
<1>2. WellFormed(r.cs) /\ Extends(r.cs, cs) /\ GoodView(r.cs, r.view)
  BY <1>1, GoodViewAfter
<1>3. PICK X : X = r.view.heads \cup {n}
  OBVIOUS
<1>4. X \subseteq DOMAIN r.cs /\ r.view.heads \subseteq X /\ n \in X
  BY <1>2, <1>3 DEF GoodView, Extends
<1>5. /\ w.heads \subseteq DOMAIN r.cs /\ Antichain(r.cs, w.heads) /\ X \subseteq Visible(r.cs, w)
      /\ Visible(r.cs, r.view) \subseteq Visible(r.cs, w)
  <2>1. PICK ds, v : ds = r.cs /\ v = r.view
    OBVIOUS
  <2>2. WellFormed(ds) /\ X \subseteq DOMAIN ds /\ w.heads = HeadsOf(ds, X) /\ v.heads \subseteq X
    BY <1>2, <1>3, <1>4, <2>1
  <2>3. /\ w.heads \subseteq DOMAIN ds /\ Antichain(ds, w.heads) /\ X \subseteq Visible(ds, w)
        /\ Visible(ds, v) \subseteq Visible(ds, w)
    BY ONLY <2>2, HeadsShow
  <2> QED BY <2>1, <2>3
<1>6. PICK gone, moving : gone = Gone(cs, lost, new) /\ moving = Moving(cs, view, lost, gone)
  OBVIOUS
<1>7. gone \subseteq {x}
  BY <1>1, <1>6 DEF Gone
<1>8. view.heads \subseteq DOMAIN cs /\ Visible(cs, view) \subseteq DOMAIN cs /\ DOMAIN cs \subseteq Nat
  BY GraphShape DEF GoodView, Visible
<1>9. Rewriting(cs, view, lost, new, moving, r)
  BY <1>1, <1>6, LosingOne
<1>10. Keeps(r.cs, view, w)
  <2> SUFFICES ASSUME NEW a \in Visible(r.cs, view)
               PROVE  \E m \in Visible(r.cs, w) : m >= a /\ r.cs[m].change = r.cs[a].change
    BY DEF Keeps
  <2>1. a \in Visible(cs, view) /\ a \in DOMAIN cs
    BY <1>2, <1>8, SeenTheSame
  <2>2. r.cs[a] = cs[a] /\ r.cs[x] = cs[x] /\ r.cs[n] = cs[n]
    BY <1>2, <2>1 DEF Extends
  <2>3. CASE a = x
    BY <1>4, <1>5, <2>2, <2>3
  <2>4. CASE a # x
    <3>1. InReach(cs, view, lost, moving, a)
      BY <1>1, <2>1, <2>4 DEF InReach
    <3>2. InSight(r, cs, a, a \notin moving)
      BY ONLY <1>9, <3>1, KeptInSight, Zenon
    <3> QED BY <1>5, <2>2, <3>2 DEF InSight
  <2> QED BY <2>3, <2>4
<1> QED BY <1>2, <1>4, <1>5, <1>10

-----------------------------------------------------------------------------
(* VcsEngine: the heads of the operation log, merged one after the other *)

LEMMA CountFrom ==
  ASSUME NEW first \in Nat, NEW last \in Nat, first <= last, NEW S, first \in S,
         \A k \in first .. last : k < last /\ k \in S => k + 1 \in S
  PROVE  \A k \in first .. last : k \in S
<1> DEFINE T == {j \in 0 .. (last - first) : first + j \in S}
           n == last - first
<1>1. n \in Nat
  OBVIOUS
<1>2. 0 \in T
  OBVIOUS
<1>3. ASSUME NEW j \in 0 .. n, j < n, j \in T PROVE j + 1 \in T
  <2>1. first + j \in first .. last /\ first + j < last /\ first + j \in S
        /\ (first + j) + 1 = first + (j + 1) /\ j + 1 \in 0 .. n
    BY <1>3
  <2> QED BY <2>1
<1>4. \A j \in 0 .. n : j \in T
  <2> HIDE DEF T, n
  <2> QED BY <1>1, <1>2, <1>3, CountUp
<1>5. ASSUME NEW k \in first .. last PROVE k \in S
  <2>1. k - first \in 0 .. n /\ first + (k - first) = k
    OBVIOUS
  <2> QED BY <1>4, <2>1
<1> QED BY <1>5

\* What has been merged when the heads up to operation o have been looked at.
Merging ==
  CHOOSE merged : merged = [o \in Min(opHeads) .. Len(ops) |->
    IF o = Min(opHeads) THEN [cs |-> commits, view |-> ops[o].view, anc |-> ops[o].anc]
    ELSE IF o \in opHeads THEN MergeIn(merged[o - 1], o) ELSE merged[o - 1]]

LEMMA MergedHeadsIs == MergedHeads = Merging[Len(ops)]
  BY DEF MergedHeads, Merging

LEMMA MergingIs ==
  ASSUME NEW first \in Nat, first = Min(opHeads), NEW last \in Nat, last = Len(ops), first <= last
  PROVE  /\ Merging[first] = [cs |-> commits, view |-> ops[first].view, anc |-> ops[first].anc]
         /\ \A o \in (first + 1) .. last :
              Merging[o] = IF o \in opHeads THEN MergeIn(Merging[o - 1], o) ELSE Merging[o - 1]
<1> DEFINE start == [cs |-> commits, view |-> ops[first].view, anc |-> ops[first].anc]
           Step1(acc, o) == IF o \in opHeads THEN MergeIn(acc, o) ELSE acc
           F(m, k) == [o \in first .. k |-> IF o = first THEN start ELSE Step1(m[o - 1], o)]
           S == {k \in first .. last : \E m : m = F(m, k)}
<1>0. Merging = CHOOSE merged : merged = F(merged, last)
  <2>1. Merging = CHOOSE merged : merged = [o \in first .. last |->
          IF o = first THEN [cs |-> commits, view |-> ops[o].view, anc |-> ops[o].anc]
          ELSE IF o \in opHeads THEN MergeIn(merged[o - 1], o) ELSE merged[o - 1]]
    BY DEF Merging
  <2>2. \A merged : F(merged, last) = [o \in first .. last |->
          IF o = first THEN [cs |-> commits, view |-> ops[o].view, anc |-> ops[o].anc]
          ELSE IF o \in opHeads THEN MergeIn(merged[o - 1], o) ELSE merged[o - 1]]
    OBVIOUS
  <2> HIDE DEF F
  <2> QED BY <2>1, <2>2, ZenonT(60)
<1> HIDE DEF start, Step1
<1>1. first \in S
  <2>1. [o \in first .. first |-> start] = F([o \in first .. first |-> start], first)
    OBVIOUS
  <2> HIDE DEF F
  <2>2. \E m : m = F(m, first)
    BY <2>1
  <2> QED BY <2>2
<1>2. ASSUME NEW k \in first .. last, k < last, k \in S PROVE k + 1 \in S
  <2>1. PICK f : f = F(f, k)
    BY <1>2
  <2>2. PICK g : g = [o \in first .. (k + 1) |-> IF o = k + 1 THEN Step1(f[k], k + 1) ELSE f[o]]
    OBVIOUS
  <2>3. \A o \in first .. k : f[o] = IF o = first THEN start ELSE Step1(f[o - 1], o)
    BY <2>1
  <2>4. \A o \in first .. (k + 1) : g[o] = IF o = first THEN start ELSE Step1(g[o - 1], o)
    <3> SUFFICES ASSUME NEW o \in first .. (k + 1)
                 PROVE  g[o] = IF o = first THEN start ELSE Step1(g[o - 1], o)
      OBVIOUS
    <3>1. CASE o = k + 1
      <4>1. o # first /\ o - 1 = k /\ k \in first .. (k + 1) /\ k # k + 1
        BY <3>1
      <4>2. g[o - 1] = f[k] /\ g[o] = Step1(f[k], o)
        BY <2>2, <3>1, <4>1
      <4> QED BY <4>1, <4>2
    <3>2. CASE o \in first .. k
      <4>1. o # k + 1 /\ (o # first => o - 1 \in first .. (k + 1) /\ o - 1 # k + 1)
        BY <3>2
      <4>2. g[o] = f[o] /\ (o # first => g[o - 1] = f[o - 1])
        BY <2>2, <4>1
      <4> QED BY <2>3, <3>2, <4>2
    <3> QED BY <3>1, <3>2
  <2>5. g = F(g, k + 1)
    BY <2>2, <2>4
  <2> HIDE DEF F
  <2>6. \E m : m = F(m, k + 1)
    BY <2>5
  <2>7. k + 1 \in first .. last
    BY <1>2
  <2> QED BY <2>6, <2>7
<1>3. last \in S
  <2> HIDE DEF S
  <2>1. \A k \in first .. last : k < last /\ k \in S => k + 1 \in S
    BY <1>2
  <2>2. \A k \in first .. last : k \in S
    BY <1>1, <2>1, CountFrom
  <2> QED BY <2>2
<1>4. PICK h : h = F(h, last)
  BY <1>3
<1>5. PICK merged : merged = Merging
  OBVIOUS
<1>6. merged = F(merged, last)
  <2> HIDE DEF F
  <2> QED BY <1>0, <1>4, <1>5
<1>7. merged[first] = start
  BY <1>6
<1>8. ASSUME NEW o \in (first + 1) .. last PROVE merged[o] = Step1(merged[o - 1], o)
  <2>1. o \in first .. last /\ o # first
    OBVIOUS
  <2> QED BY <1>6, <2>1
<1> QED BY <1>5, <1>7, <1>8 DEF start, Step1

-----------------------------------------------------------------------------
(* VcsEngine: acknowledged commits stay in sight, whatever calls overlap *)

NoRestores == \A o \in DOMAIN ops : ops[o].kind # "restore"

\* Every operation shows what the ones before it showed.
LogShows ==
  /\ WellFormed(commits) /\ git \in Commit \cup {None}
  /\ \A o \in DOMAIN ops :
       /\ GoodView(commits, ops[o].view) /\ 1 \in ops[o].anc
       /\ \A b \in ops[o].anc : Keeps(commits, ops[b].view, ops[o].view)

\* Some operation shows a commit of the change.
Shown(change) ==
  \E o \in DOMAIN ops : \E a \in Visible(commits, ops[o].view) : commits[a].change = change

\* A call names commits that are there, and the one it is about to acknowledge
\* has been shown.
CallShows(call) ==
  /\ call.pc # "idle" /\ call.kind = "commit" => call.arg \in Commit \cup {None}
  /\ call.pc # "idle" /\ call.kind = "integrate" => call.arg \in Commit
  /\ call.pc = "mirroring" => /\ call.target \in Commit
                              /\ call.kind = "commit" => Shown(commits[call.target].change)

SightInv ==
  /\ LogShows
  /\ \A c \in Callers : CallShows(calls[c])
  /\ \A e \in acked : Shown(e)

LEMMA GoodViewStays ==
  ASSUME NEW cs, NEW ds, WellFormed(cs), WellFormed(ds), Extends(ds, cs), NEW v, GoodView(cs, v)
  PROVE  GoodView(ds, v)
<1>1. Antichain(ds, v.heads)
  BY SeenTheSame DEF GoodView
<1> QED BY <1>1 DEF GoodView, Extends

LEMMA KeepsItself ==
  ASSUME NEW cs, WellFormed(cs), NEW v, v.heads \subseteq DOMAIN cs
  PROVE  Keeps(cs, v, v)
<1>1. Visible(cs, v) \subseteq Nat
  BY GraphShape DEF Visible
<1> QED BY <1>1 DEF Keeps

\* The merge of some heads: it shows what the operations below them showed.
MergeShown(acc) ==
  /\ WellFormed(acc.cs) /\ Extends(acc.cs, commits) /\ GoodView(acc.cs, acc.view)
  /\ 1 \in acc.anc /\ acc.anc \subseteq DOMAIN ops
  /\ \A b \in acc.anc : Keeps(acc.cs, ops[b].view, acc.view)

LEMMA MergeInShows ==
  ASSUME LogShape, LogShows, NEW acc, MergeShown(acc), NEW o \in DOMAIN ops
  PROVE  MergeShown(MergeIn(acc, o)) /\ MergeIn(acc, o).anc = acc.anc \cup ops[o].anc
<1>1. PICK cs, left, anc : cs = acc.cs /\ left = acc.view /\ anc = acc.anc
  OBVIOUS
<1>2. PICK B, base : B = anc \cap ops[o].anc /\ base = Max(B)
  OBVIOUS
<1>3. base \in B
  <2>1. 1 \in B /\ B \subseteq 1 .. Len(ops) /\ Len(ops) \in Nat
    BY <1>1, <1>2 DEF MergeShown, LogShows, LogShape
  <2>2. \E x \in B : \A y \in B : y <= x
    BY <2>1, HasGreatest
  <2>3. \E x \in B : \A y \in B : x >= y
    BY <2>1, <2>2
  <2> QED BY <1>2, <2>3 DEF Max
<1>4. PICK down, right : down = ops[base].view /\ right = ops[o].view
  OBVIOUS
<1>5. PICK r : r = MergeViews(cs, left, down, right)
  OBVIOUS
<1>6. /\ base \in DOMAIN ops /\ base \in anc /\ base \in ops[o].anc
      /\ WellFormed(commits) /\ WellFormed(cs) /\ Extends(cs, commits)
  BY <1>1, <1>2, <1>3 DEF MergeShown, LogShows
<1>7. \A b \in DOMAIN ops : GoodView(commits, ops[b].view) /\ GoodView(cs, ops[b].view)
  BY <1>6, GoodViewStays DEF LogShows
<1>8. \A b \in ops[o].anc : b \in DOMAIN ops /\ Keeps(cs, ops[b].view, right)
  <2> TAKE b \in ops[o].anc
  <2>1. b \in DOMAIN ops /\ Keeps(commits, ops[b].view, right)
    BY <1>4 DEF LogShows, LogShape
  <2>2. ops[b].view.heads \subseteq DOMAIN commits /\ right.heads \subseteq DOMAIN commits
    BY <1>4, <1>7, <2>1 DEF GoodView
  <2> QED BY <1>6, <2>1, <2>2, KeepsStays
<1>9. \A b \in anc : b \in DOMAIN ops /\ Keeps(cs, ops[b].view, left)
  BY <1>1 DEF MergeShown
<1>10. /\ WellFormed(r.cs) /\ Extends(r.cs, cs) /\ GoodView(r.cs, r.view)
       /\ Keeps(r.cs, left, r.view) /\ Keeps(r.cs, right, r.view)
  <2>1. GoodView(cs, left) /\ GoodView(cs, down) /\ GoodView(cs, right)
    BY <1>1, <1>4, <1>6, <1>7 DEF MergeShown
  <2>2. Keeps(cs, down, left) /\ Keeps(cs, down, right)
    BY <1>4, <1>6, <1>8, <1>9
  <2> QED BY <1>5, <1>6, <2>1, <2>2, MergeShows
<1>11. Extends(r.cs, commits)
  BY <1>6, <1>10, ExtendsTransitive
<1>12. ASSUME NEW side, side = left \/ side = right, NEW b \in DOMAIN ops,
              Keeps(cs, ops[b].view, side)
       PROVE  Keeps(r.cs, ops[b].view, r.view)
  <2>1. PICK ds, v, w : ds = r.cs /\ v = ops[b].view /\ w = r.view
    OBVIOUS
  <2>2. /\ v.heads \subseteq DOMAIN cs /\ side.heads \subseteq DOMAIN cs
        /\ w.heads \subseteq DOMAIN ds /\ DOMAIN cs \subseteq DOMAIN ds
        /\ WellFormed(ds) /\ WellFormed(cs) /\ Extends(ds, cs)
    BY <1>1, <1>4, <1>6, <1>7, <1>10, <1>12, <2>1 DEF GoodView, MergeShown, Extends
  <2>3. Keeps(ds, v, side)
    BY <1>12, <2>1, <2>2, KeepsStays
  <2>4. Keeps(ds, side, w)
    BY <1>10, <1>12, <2>1
  <2>5. v.heads \subseteq DOMAIN ds /\ side.heads \subseteq DOMAIN ds
    BY <2>2
  <2>6. Keeps(ds, v, w)
    BY <2>2, <2>3, <2>4, <2>5, KeepsTransitive
  <2> QED BY <2>1, <2>6
<1>13. PICK after : after = MergeIn(acc, o)
  OBVIOUS
<1>14. after.cs = r.cs /\ after.view = r.view /\ after.anc = anc \cup ops[o].anc
  BY <1>1, <1>2, <1>4, <1>5, <1>13 DEF MergeIn
<1>15. \A b \in after.anc : Keeps(r.cs, ops[b].view, r.view)
  BY <1>8, <1>9, <1>12, <1>14
<1>16. 1 \in after.anc /\ after.anc \subseteq DOMAIN ops
  BY <1>1, <1>8, <1>9, <1>14 DEF MergeShown
<1> QED BY <1>1, <1>10, <1>11, <1>13, <1>14, <1>15, <1>16 DEF MergeShown

\* All the heads merged: the view shows what the whole log showed. (load_at_head)
LEMMA MergedHeadsShow ==
  ASSUME LogShape, LogShows, opHeads # {}
  PROVE  /\ MergeShown(MergedHeads)
         /\ \A h \in opHeads : ops[h].anc \subseteq MergedHeads.anc
<1>1. PICK first, last : first = Min(opHeads) /\ last = Len(ops)
  OBVIOUS
<1>2. /\ DOMAIN ops = 1 .. last /\ last \in Nat /\ opHeads \subseteq 1 .. last
  BY <1>1 DEF LogShape
<1>3. first \in opHeads /\ \A h \in opHeads : first <= h
  <2>1. opHeads \subseteq Nat
    BY <1>2
  <2>2. \E x \in opHeads : \A y \in opHeads : x <= y
    BY ONLY <2>1, opHeads # {}, HasLeast
  <2> QED BY <1>1, <2>2 DEF Min
<1>4. first \in Nat /\ first <= last /\ first \in DOMAIN ops
  BY <1>2, <1>3
<1>5. PICK merged : merged = Merging
  OBVIOUS
<1>6. /\ merged[first] = [cs |-> commits, view |-> ops[first].view, anc |-> ops[first].anc]
      /\ \A o \in (first + 1) .. last :
           merged[o] = IF o \in opHeads THEN MergeIn(merged[o - 1], o) ELSE merged[o - 1]
  BY <1>1, <1>2, <1>4, <1>5, MergingIs
<1> DEFINE Good(k) == /\ MergeShown(merged[k])
                      /\ \A h \in opHeads : h <= k => ops[h].anc \subseteq merged[k].anc
           S == {k \in first .. last : Good(k)}
<1>7. first \in S
  <2>1. /\ merged[first].cs = commits /\ merged[first].view = ops[first].view
        /\ merged[first].anc = ops[first].anc
    BY <1>6
  <2>2. MergeShown(merged[first])
    BY <1>4, <2>1, ExtendsItself DEF MergeShown, LogShows, LogShape
  <2>3. \A h \in opHeads : h <= first => h = first
    BY <1>2, <1>3
  <2> QED BY <1>4, <2>1, <2>2, <2>3
<1>8. ASSUME NEW k \in first .. last, k < last, Good(k) PROVE Good(k + 1)
  <2>1. k + 1 \in (first + 1) .. last /\ (k + 1) - 1 = k /\ k + 1 \in DOMAIN ops
    BY <1>2, <1>4, <1>8
  <2>2. PICK o, acc : o = k + 1 /\ acc = merged[k]
    OBVIOUS
  <2>3. merged[o] = IF o \in opHeads THEN MergeIn(acc, o) ELSE acc
    BY <1>6, <2>1, <2>2
  <2>4. MergeShown(acc) /\ \A h \in opHeads : h <= k => ops[h].anc \subseteq acc.anc
    BY <1>8, <2>2
  <2>5. \A h \in opHeads : h <= o => h <= k \/ h = o
    BY <1>2, <1>4, <2>2
  <2>6. CASE o \in opHeads
    <3>1. MergeShown(MergeIn(acc, o)) /\ MergeIn(acc, o).anc = acc.anc \cup ops[o].anc
      BY <2>1, <2>2, <2>4, MergeInShows
    <3> QED BY <2>2, <2>3, <2>4, <2>5, <2>6, <3>1
  <2>7. CASE o \notin opHeads
    BY <2>2, <2>3, <2>4, <2>5, <2>7
  <2> QED BY <2>6, <2>7
<1>9. last \in S
  <2> HIDE DEF Good
  <2>1. \A k \in first .. last : k < last /\ k \in S => k + 1 \in S
    BY <1>2, <1>4, <1>8
  <2> HIDE DEF S
  <2>2. \A k \in first .. last : k \in S
    BY <1>2, <1>4, <1>7, <2>1, CountFrom
  <2> QED BY <1>2, <1>4, <2>2
<1>10. Good(last)
  BY <1>9
<1>11. MergedHeads = merged[last] /\ \A h \in opHeads : h <= last
  BY <1>1, <1>2, <1>5, MergedHeadsIs
<1> QED BY <1>10, <1>11

\* An operation published on some others, whose view shows what they showed.
LEMMA PublishShows ==
  ASSUME LogShape, LogShows, NEW parents, parents \subseteq DOMAIN ops, parents # {},
         NEW kind, NEW view, Publish(parents, kind, view),
         WellFormed(commits'), Extends(commits', commits), git' \in Commit' \cup {None},
         GoodView(commits', view),
         \A p \in parents : \A b \in ops[p].anc : Keeps(commits', ops[b].view, view)
  PROVE  /\ LogShows'
         /\ \A e : Shown(e) => Shown(e)'
         /\ \A a \in Visible(commits', view) : Shown(commits[a].change)'
<1>n. PICK n : n = Len(ops) + 1
  OBVIOUS
<1>0. PICK new : new = [kind |-> kind, view |-> view,
                        anc |-> (UNION {ops[p].anc : p \in parents}) \cup {n}]
  OBVIOUS
<1>1. ops' = Append(ops, new)
  BY <1>n, <1>0 DEF Publish
<1>2. /\ DOMAIN ops' = DOMAIN ops \cup {n}
      /\ \A i \in DOMAIN ops : ops'[i] = ops[i]
      /\ ops'[n] = new
  BY <1>n, <1>1, AppendGrows DEF LogShape
<1>3. new.view = view /\ new.anc = (UNION {ops[p].anc : p \in parents}) \cup {n}
  BY <1>0
<1>4. \A o \in DOMAIN ops : /\ ops[o].view.heads \subseteq DOMAIN commits /\ ops[o].anc \subseteq DOMAIN ops
                            /\ GoodView(commits', ops[o].view)
  BY GoodViewStays DEF LogShows, LogShape, GoodView
<1>5. ASSUME NEW o \in DOMAIN ops, NEW b \in ops[o].anc
      PROVE  Keeps(commits', ops'[b].view, ops'[o].view)
  <2>1. b \in DOMAIN ops /\ ops'[b] = ops[b] /\ ops'[o] = ops[o]
    BY <1>2, <1>4
  <2>2. Keeps(commits, ops[b].view, ops[o].view)
    BY DEF LogShows
  <2> QED BY <1>4, <2>1, <2>2, KeepsStays DEF LogShows
<1>6. ASSUME NEW b \in new.anc PROVE Keeps(commits', ops'[b].view, view)
  <2>1. CASE b = n
    BY <1>2, <1>3, <2>1, KeepsItself DEF GoodView
  <2>2. CASE b # n
    <3>1. PICK p \in parents : b \in ops[p].anc
      BY <1>3, <1>6, <2>2
    <3>2. b \in DOMAIN ops
      BY <1>4, <3>1
    <3> QED BY <1>2, <3>1, <3>2
  <2> QED BY <2>1, <2>2
<1>7. 1 \in new.anc
  <2>1. PICK p \in parents : TRUE
    OBVIOUS
  <2>2. 1 \in ops[p].anc
    BY DEF LogShows
  <2> QED BY <1>3, <2>2
<1>8. ASSUME NEW o \in DOMAIN ops'
      PROVE  /\ GoodView(commits', ops'[o].view) /\ 1 \in ops'[o].anc
             /\ \A b \in ops'[o].anc : Keeps(commits', ops'[b].view, ops'[o].view)
  <2>1. CASE o = n
    BY <1>2, <1>3, <1>6, <1>7, <2>1
  <2>2. CASE o \in DOMAIN ops
    BY <1>2, <1>4, <1>5, <2>2 DEF LogShows
  <2> QED BY <1>2, <2>1, <2>2
<1>9. LogShows'
  BY <1>8 DEF LogShows
<1>10. ASSUME NEW e, Shown(e) PROVE Shown(e)'
  <2>1. PICK o \in DOMAIN ops : \E a \in Visible(commits, ops[o].view) : commits[a].change = e
    BY <1>10 DEF Shown
  <2>2. PICK a \in Visible(commits, ops[o].view) : commits[a].change = e
    BY <2>1
  <2>3. /\ Visible(commits', ops[o].view) = Visible(commits, ops[o].view)
        /\ Visible(commits, ops[o].view) \subseteq DOMAIN commits
    BY <1>4, SeenTheSame DEF LogShows
  <2>4. commits'[a] = commits[a] /\ ops'[o] = ops[o] /\ o \in DOMAIN ops'
    BY <1>2, <2>2, <2>3 DEF Extends
  <2> QED BY <2>2, <2>3, <2>4 DEF Shown
<1>11. ASSUME NEW a \in Visible(commits', view) PROVE Shown(commits[a].change)'
  <2>1. n \in DOMAIN ops' /\ ops'[n].view = view
    BY <1>2, <1>3
  <2> QED BY <1>11, <2>1 DEF Shown
<1> QED BY <1>9, <1>10, <1>11

\* An operation published on one other.
LEMMA PublishOnShows ==
  ASSUME LogShape, LogShows, NEW p \in DOMAIN ops, NEW kind, NEW view, Publish({p}, kind, view),
         WellFormed(commits'), Extends(commits', commits), git' \in Commit' \cup {None},
         GoodView(commits', view), Keeps(commits', ops[p].view, view)
  PROVE  /\ LogShows'
         /\ \A e : Shown(e) => Shown(e)'
         /\ \A a \in Visible(commits', view) : Shown(commits[a].change)'
<1>1. \A o \in DOMAIN ops : /\ ops[o].view.heads \subseteq DOMAIN commits
                            /\ ops[o].view.heads \subseteq DOMAIN commits'
  BY DEF LogShows, GoodView, Extends
<1>2. \A q \in {p} : \A b \in ops[q].anc : Keeps(commits', ops[b].view, view)
  <2> SUFFICES ASSUME NEW b \in ops[p].anc PROVE Keeps(commits', ops[b].view, view)
    OBVIOUS
  <2>1. b \in DOMAIN ops /\ Keeps(commits, ops[b].view, ops[p].view)
    BY DEF LogShows, LogShape
  <2>2. PICK u, v : u = ops[b].view /\ v = ops[p].view
    OBVIOUS
  <2>3. /\ u.heads \subseteq DOMAIN commits /\ v.heads \subseteq DOMAIN commits
        /\ u.heads \subseteq DOMAIN commits' /\ v.heads \subseteq DOMAIN commits'
        /\ view.heads \subseteq DOMAIN commits'
    BY <1>1, <2>1, <2>2 DEF GoodView
  <2>4. Keeps(commits', u, v)
    BY <2>1, <2>2, <2>3, KeepsStays DEF LogShows
  <2>5. Keeps(commits', u, view)
    BY <2>2, <2>3, <2>4, KeepsTransitive
  <2> QED BY <2>2, <2>5
<1>3. {p} \subseteq DOMAIN ops /\ {p} # {}
  OBVIOUS
<1> QED BY <1>2, <1>3, PublishShows

\* The commits may have grown, nothing published.
LEMMA LogStays ==
  ASSUME LogShape, LogShows, UNCHANGED ops, WellFormed(commits'), Extends(commits', commits),
         git' \in Commit' \cup {None}
  PROVE  LogShows' /\ \A e : Shown(e) => Shown(e)'
<1>1. \A o \in DOMAIN ops : /\ ops[o].view.heads \subseteq DOMAIN commits
                            /\ GoodView(commits', ops[o].view)
  BY GoodViewStays DEF LogShows, GoodView
<1>2. ASSUME NEW o \in DOMAIN ops, NEW b \in ops[o].anc
      PROVE  Keeps(commits', ops[b].view, ops[o].view)
  <2>1. Keeps(commits, ops[b].view, ops[o].view) /\ b \in DOMAIN ops
    BY DEF LogShows, LogShape
  <2> QED BY <1>1, <2>1, KeepsStays DEF LogShows
<1>3. ASSUME NEW e, Shown(e) PROVE Shown(e)'
  <2>1. PICK o \in DOMAIN ops : \E a \in Visible(commits, ops[o].view) : commits[a].change = e
    BY <1>3 DEF Shown
  <2>2. PICK a \in Visible(commits, ops[o].view) : commits[a].change = e
    BY <2>1
  <2>3. /\ Visible(commits', ops[o].view) = Visible(commits, ops[o].view)
        /\ Visible(commits, ops[o].view) \subseteq DOMAIN commits
    BY <1>1, SeenTheSame DEF LogShows
  <2>4. commits'[a] = commits[a]
    BY <2>2, <2>3 DEF Extends
  <2> QED BY <2>2, <2>3, <2>4 DEF Shown
<1> QED BY <1>1, <1>2, <1>3 DEF LogShows

\* What a call shows it goes on showing.
LEMMA CallGoesOn ==
  ASSUME Extends(commits', commits), \A e : Shown(e) => Shown(e)', NEW call, CallShows(call)
  PROVE  CallShows(call)'
<1>1. Commit \subseteq Commit' /\ \A c \in Commit : commits'[c] = commits[c]
  BY DEF Extends, Commit
<1>2. call.target \in Commit => commits'[call.target].change = commits[call.target].change
  BY <1>1
<1> QED BY <1>1, <1>2 DEF CallShows

\* A step of one call, and what it does to the repository.
LEMMA CallStepsShow ==
  ASSUME CallShape, SightInv, Extends(commits', commits),
         LogShows', \A e : Shown(e) => Shown(e)',
         NEW c \in Callers, NEW call, calls' = [calls EXCEPT ![c] = call], CallShows(call)',
         \A e \in acked' : e \in acked \/ Shown(e)'
  PROVE  SightInv'
<1>1. calls'[c] = call /\ \A d \in Callers : d # c => calls'[d] = calls[d]
  BY DEF CallShape
<1>2. ASSUME NEW d \in Callers PROVE CallShows(calls[d])'
  <2>1. CASE d = c
    BY <1>1, <2>1 DEF CallShows
  <2>2. CASE d # c
    <3>1. PICK other : other = calls[d]
      OBVIOUS
    <3>2. CallShows(other)'
      BY <3>1, CallGoesOn DEF SightInv
    <3> QED BY <1>1, <2>2, <3>1, <3>2 DEF CallShows
  <2> QED BY <2>1, <2>2
<1> QED BY <1>2 DEF SightInv

\* The fields of a call that takes a step.
LEMMA CallFieldsAfter ==
  ASSUME NEW call, DOMAIN call = CallFields, NEW pc, NEW x, NEW y
  PROVE  /\ LET after == [call EXCEPT !.pc = pc] IN
            /\ after.pc = pc /\ after.kind = call.kind
            /\ after.arg = call.arg /\ after.target = call.target
         /\ LET after == [call EXCEPT !.pc = pc, !.op = x] IN
            /\ after.pc = pc /\ after.kind = call.kind
            /\ after.arg = call.arg /\ after.target = call.target
         /\ LET after == [call EXCEPT !.pc = pc, !.target = x] IN
            /\ after.pc = pc /\ after.kind = call.kind
            /\ after.arg = call.arg /\ after.target = x
         /\ LET after == [call EXCEPT !.pc = pc, !.kind = x, !.arg = y] IN
            /\ after.pc = pc /\ after.kind = x
            /\ after.arg = y /\ after.target = call.target
         /\ LET after == [call EXCEPT !.client = x] IN
            /\ after.pc = call.pc /\ after.kind = call.kind
            /\ after.arg = call.arg /\ after.target = call.target
  BY DEF CallFields

\* A step that only moves a call along.
LEMMA CallMovesShow ==
  ASSUME LogInv, SightInv, UNCHANGED <<commits, ops, git, acked>>,
         NEW c \in Callers, NEW call, calls' = [calls EXCEPT ![c] = call],
         call.kind = calls[c].kind /\ call.arg = calls[c].arg /\ call.target = calls[c].target,
         call.pc = calls[c].pc \/ (calls[c].pc # "idle" /\ call.pc # "mirroring")
  PROVE  SightInv'
<1>1. LogShape /\ CallShape /\ LogShows
  BY DEF LogInv, SightInv
<1>2. WellFormed(commits') /\ Extends(commits', commits) /\ git' \in Commit' \cup {None}
  BY <1>1, ExtendsItself DEF LogShows, Commit
<1>3. LogShows' /\ \A e : Shown(e) => Shown(e)'
  BY <1>1, <1>2, LogStays
<1>4. CallShows(call)'
  <2>1. CallShows(calls[c])
    BY DEF SightInv
  <2>2. CallShows(call)
    BY <2>1 DEF CallShows
  <2> QED BY <1>2, <1>3, <2>2, CallGoesOn
<1>5. \A e \in acked' : e \in acked \/ Shown(e)'
  OBVIOUS
<1> QED BY <1>1, <1>2, <1>3, <1>4, <1>5, CallStepsShow

LEMMA MovesShow ==
  ASSUME LogInv, SightInv, NEW c \in Callers,
         \/ TakeTurn(c) \/ LoadAtHead(c) \/ NothingToImport(c) \/ Read(c)
         \/ IntegrateOutOfScope(c) \/ MirrorFails(c) \/ CancelSubmission(c)
  PROVE  SightInv'
<1>1. UNCHANGED <<commits, ops, git, acked>>
  BY DEF TakeTurn, LoadAtHead, NothingToImport, Read, IntegrateOutOfScope, MirrorFails,
         CancelSubmission
<1>2. DOMAIN calls = Callers /\ DOMAIN calls[c] = CallFields
  BY DEF LogInv, CallShape
<1>3. CASE CancelSubmission(c)
  <2>1. PICK call : call = [calls[c] EXCEPT !.client = FALSE]
    OBVIOUS
  <2>2. calls' = [calls EXCEPT ![c] = call]
    BY <1>3, <2>1 DEF CancelSubmission
  <2>3. call.kind = calls[c].kind /\ call.arg = calls[c].arg /\ call.target = calls[c].target
        /\ call.pc = calls[c].pc
    BY <1>2, <2>1, CallFieldsAfter
  <2> QED BY <1>1, <2>2, <2>3, CallMovesShow
<1>4. CASE LoadAtHead(c)
  <2>1. PICK o : o = CHOOSE head \in opHeads : TRUE
    OBVIOUS
  <2>2. PICK call : call = [calls[c] EXCEPT !.pc = "loaded", !.op = o]
    OBVIOUS
  <2>3. calls' = [calls EXCEPT ![c] = call] /\ calls[c].pc # "idle"
    <3>1. calls' = [calls EXCEPT ![c].pc = "loaded", ![c].op = o]
      BY <1>4, <2>1 DEF LoadAtHead
    <3>2. calls' = [calls EXCEPT ![c] = call]
      BY <1>2, <2>2, <3>1
    <3>3. calls[c].pc # "idle"
      BY <1>4 DEF LoadAtHead
    <3> QED BY <3>2, <3>3
  <2>4. call.kind = calls[c].kind /\ call.arg = calls[c].arg /\ call.target = calls[c].target
        /\ call.pc = "loaded"
    BY <1>2, <2>2, CallFieldsAfter
  <2> QED BY <1>1, <2>3, <2>4, CallMovesShow
<1>5. CASE TakeTurn(c) \/ NothingToImport(c) \/ Read(c) \/ IntegrateOutOfScope(c) \/ MirrorFails(c)
  <2>1. PICK pc : /\ calls' = [calls EXCEPT ![c].pc = pc] /\ pc \in {"called", "ready", "done"}
                  /\ calls[c].pc # "idle"
    BY <1>5 DEF TakeTurn, NothingToImport, Read, IntegrateOutOfScope, MirrorFails, Return
  <2>2. PICK call : call = [calls[c] EXCEPT !.pc = pc]
    OBVIOUS
  <2>3. calls' = [calls EXCEPT ![c] = call]
    BY <2>1, <2>2
  <2>4. call.kind = calls[c].kind /\ call.arg = calls[c].arg /\ call.target = calls[c].target
        /\ call.pc = pc
    BY <1>2, <2>2, CallFieldsAfter
  <2> QED BY <1>1, <2>1, <2>3, <2>4, CallMovesShow
<1> QED BY <1>3, <1>4, <1>5

LEMMA BeginShows ==
  ASSUME LogInv, SightInv, NEW c \in Callers, NEW kind, NEW arg \in Args(kind), Begin(c, kind, arg)
  PROVE  SightInv'
<1>1. LogShape /\ CallShape /\ LogShows /\ DOMAIN calls[c] = CallFields
  BY DEF LogInv, SightInv, CallShape
<1>2. UNCHANGED <<commits, ops, git, acked>>
  BY DEF Begin
<1>3. WellFormed(commits') /\ Extends(commits', commits) /\ git' \in Commit' \cup {None}
  BY <1>1, <1>2, ExtendsItself DEF LogShows, Commit
<1>4. LogShows' /\ \A e : Shown(e) => Shown(e)'
  BY <1>1, <1>2, <1>3, LogStays
<1>5. PICK pc : pc = IF kind = "integrate" THEN "queued" ELSE "called"
  OBVIOUS
<1>6. PICK call : call = [calls[c] EXCEPT !.pc = pc, !.kind = kind, !.arg = arg]
  OBVIOUS
<1>7. calls' = [calls EXCEPT ![c] = call]
  BY <1>5, <1>6 DEF Begin
<1>8. call.pc = pc /\ call.kind = kind /\ call.arg = arg
  BY <1>1, <1>6, CallFieldsAfter
<1>9. /\ kind = "commit" => arg \in Commit \cup {None}
      /\ kind = "integrate" => arg \in Commit
  BY DEF Args
<1>10. CallShows(call)
  BY <1>5, <1>8, <1>9 DEF CallShows
<1>11. CallShows(call)'
  BY <1>3, <1>4, <1>10, CallGoesOn
<1>12. \A e \in acked' : e \in acked \/ Shown(e)'
  BY <1>2
<1> QED BY <1>1, <1>3, <1>4, <1>7, <1>11, <1>12, CallStepsShow

LEMMA CrashShows == ASSUME LogInv, SightInv, Crash PROVE SightInv'
<1>1. LogShape /\ CallShape /\ LogShows
  BY DEF LogInv, SightInv
<1>2. UNCHANGED <<commits, ops, git, acked>>
  BY DEF Crash
<1>3. WellFormed(commits') /\ Extends(commits', commits) /\ git' \in Commit' \cup {None}
  BY <1>1, <1>2, ExtendsItself DEF LogShows, Commit
<1>4. LogShows' /\ \A e : Shown(e) => Shown(e)'
  BY <1>1, <1>2, <1>3, LogStays
<1>5. ASSUME NEW c \in Callers PROVE CallShows(calls[c])'
  <2>1. PICK call : call = IF UnderWay(c) THEN [calls[c] EXCEPT !.pc = "done"] ELSE calls[c]
    OBVIOUS
  <2>2. calls'[c] = call
    BY <2>1 DEF Crash
  <2>3. CallShows(calls[c]) /\ DOMAIN calls[c] = CallFields
    BY <1>1 DEF SightInv, CallShape
  <2>4. CallShows(call)
    <3>1. CASE UnderWay(c)
      <4>1. call.kind = calls[c].kind /\ call.arg = calls[c].arg /\ call.pc = "done"
        BY <2>1, <2>3, <3>1, CallFieldsAfter
      <4>2. calls[c].pc # "idle"
        BY <3>1 DEF UnderWay
      <4> QED BY <2>3, <4>1, <4>2 DEF CallShows
    <3>2. CASE ~UnderWay(c)
      BY <2>1, <2>3, <3>2
    <3> QED BY <3>1, <3>2
  <2>5. CallShows(call)'
    BY <1>3, <1>4, <2>4, CallGoesOn
  <2> QED BY <2>2, <2>5 DEF CallShows
<1> QED BY <1>2, <1>4, <1>5 DEF SightInv

\* A push adds a commit to the graph and moves plain git's main.
LEMMA PushShows == ASSUME LogInv, SightInv, Push PROVE SightInv'
<1>1. LogShape /\ CallShape /\ LogShows /\ WellFormed(commits) /\ git \in Commit \cup {None}
  BY DEF LogInv, SightInv, LogShows
<1>2. UNCHANGED <<ops, calls, acked>>
  BY DEF Push
<1>3. /\ WellFormed(commits') /\ Extends(commits', commits) /\ git' \in Commit'
  <2>1. PICK n, below, edits : /\ n = Len(commits) + 1 /\ below = {git} \ {None}
                               /\ edits = MergedEdits(commits, below) \cup {n}
    OBVIOUS
  <2>2. commits' = WithCommit(commits, below, n, edits) /\ git' = n
    BY <2>1 DEF Push
  <2>3. Len(commits) \in Nat /\ DOMAIN commits = 1 .. Len(commits)
    BY <1>1, StoreShape
  <2>4. below \subseteq DOMAIN commits
    BY <1>1, <2>1 DEF Commit
  <2>5. n \in 1 .. (Len(commits) + 1) /\ edits \subseteq 1 .. (Len(commits) + 1)
    <3>1. MergedEdits(commits, below) \subseteq 1 .. Len(commits)
      BY <1>1, <2>4 DEF MergedEdits, WellFormed
    <3>2. n \in 1 .. (Len(commits) + 1) /\ 1 .. Len(commits) \subseteq 1 .. (Len(commits) + 1)
      BY <2>1, <2>3
    <3> QED BY <2>1, <3>1, <3>2
  <2>6. OneMore(commits', commits, below, n, edits)
    BY <1>1, <2>2, <2>4, <2>5, WithCommitKeeps, ZenonT(30)
  <2> QED BY <2>1, <2>2, <2>6 DEF OneMore, Commit
<1>4. LogShows' /\ \A e : Shown(e) => Shown(e)'
  BY <1>1, <1>2, <1>3, LogStays
<1>5. ASSUME NEW c \in Callers PROVE CallShows(calls[c])'
  <2>1. PICK call : call = calls[c]
    OBVIOUS
  <2>2. CallShows(call)'
    BY <1>3, <1>4, <2>1, CallGoesOn DEF SightInv
  <2> QED BY <1>2, <2>1, <2>2 DEF CallShows
<1> QED BY <1>2, <1>4, <1>5 DEF SightInv

\* What is acknowledged now is in the view.
AcksShown(view) ==
  \A e \in acked' : e \in acked \/ \E a \in Visible(commits', view) : e = commits'[a].change

\* The step of a call that publishes an operation on the one it works on, and is
\* about to mirror main, or done.
LEMMA ActionShows ==
  ASSUME LogInv, SightInv, NEW c \in Callers, NEW p \in DOMAIN ops, NEW kind, NEW view,
         Publish({p}, kind, view),
         WellFormed(commits'), Extends(commits', commits), git' = git,
         GoodView(commits', view), Keeps(commits', ops[p].view, view),
         NEW call, calls' = [calls EXCEPT ![c] = call],
         call.kind = calls[c].kind, call.arg = calls[c].arg, calls[c].pc # "idle",
         call.pc = "mirroring" => call.target \in Visible(commits', view),
         AcksShown(view)
  PROVE  SightInv'
<1>1. LogShape /\ CallShape /\ LogShows
  BY DEF LogInv, SightInv
<1>2. git' \in Commit' \cup {None}
  BY <1>1 DEF LogShows, Commit, Extends
<1>3. /\ LogShows'
      /\ \A e : Shown(e) => Shown(e)'
      /\ \A a \in Visible(commits', view) : Shown(commits[a].change)'
  BY <1>1, <1>2, PublishOnShows
<1>4. CallShows(call)'
  <2>1. CallShows(calls[c]) /\ Commit \subseteq Commit'
    BY DEF SightInv, Extends, Commit
  <2>2. Visible(commits', view) \subseteq Commit'
    BY GraphShape DEF Visible, GoodView, Commit
  <2>3. call.pc = "mirroring" => call.target \in Commit' /\ Shown(commits[call.target].change)'
    BY <1>3, <2>2
  <2> QED BY <2>1, <2>3 DEF CallShows
<1>5. ASSUME NEW e \in acked' PROVE e \in acked \/ Shown(e)'
  <2>1. CASE e \in acked
    BY <2>1
  <2>2. ASSUME NEW a \in Visible(commits', view), e = commits'[a].change PROVE Shown(e)'
    <3>1. Shown(commits[a].change)'
      BY <1>3
    <3> QED BY <2>2, <3>1 DEF Shown
  <2> QED BY <2>1, <2>2 DEF AcksShown
<1> QED BY <1>1, <1>3, <1>4, <1>5, CallStepsShow

LEMMA CheckpointShows ==
  ASSUME LogInv, SightInv, NEW c \in Callers, CheckpointCall(c)
  PROVE  SightInv'
<1>1. LogShape /\ CallShape /\ LogShows /\ DOMAIN calls[c] = CallFields
  BY DEF LogInv, SightInv, CallShape
<1>2. PICK p, view : p = calls[c].op /\ view = Loaded(c)
  OBVIOUS
<1>3. UNCHANGED <<commits, git, acked>> /\ calls[c].pc = "ready" /\ Publish({p}, "checkpoint", view)
  BY <1>2 DEF CheckpointCall
<1>4. p \in DOMAIN ops /\ view = ops[p].view
  BY <1>1, <1>2, <1>3 DEF CallShape, Loaded
<1>5. WellFormed(commits') /\ Extends(commits', commits)
  BY <1>1, <1>3, ExtendsItself DEF LogShows
<1>6. GoodView(commits', view) /\ Keeps(commits', ops[p].view, view)
  <2>1. GoodView(commits', view)
    BY <1>1, <1>3, <1>4 DEF LogShows
  <2> QED BY <1>4, <1>5, <2>1, KeepsItself DEF GoodView
<1>7. PICK call : call = [calls[c] EXCEPT !.pc = "done"]
  OBVIOUS
<1>8. calls' = [calls EXCEPT ![c] = call]
  BY <1>7 DEF CheckpointCall, Return
<1>9. call.pc = "done" /\ call.kind = calls[c].kind /\ call.arg = calls[c].arg
  BY <1>1, <1>7, CallFieldsAfter
<1> QED BY <1>3, <1>4, <1>5, <1>6, <1>8, <1>9, ActionShows DEF AcksShown

\* The heads and what git holds: what was visible stays so. (import_refs)
LEMMA ImportShows ==
  ASSUME LogInv, SightInv, NEW c \in Callers, Import(c)
  PROVE  SightInv'
<1>1. LogShape /\ CallShape /\ LogShows /\ DOMAIN calls[c] = CallFields
  BY DEF LogInv, SightInv, CallShape
<1>2. PICK p, old, X : p = calls[c].op /\ old = Loaded(c) /\ X = old.heads \cup ({git} \ {None})
  OBVIOUS
<1>3. UNCHANGED <<commits, git, acked>> /\ calls[c].pc = "loaded"
  BY DEF Import
<1>4. p \in DOMAIN ops /\ old = ops[p].view
  BY <1>1, <1>2, <1>3 DEF CallShape, Loaded
<1>5. WellFormed(commits') /\ Extends(commits', commits)
  BY <1>1, <1>3, ExtendsItself DEF LogShows
<1>6. GoodView(commits, old) /\ git \in DOMAIN commits \cup {None}
  BY <1>1, <1>4 DEF LogShows, Commit
<1>7. PICK main, hs : main = MergeRef(commits, old.main, old.git, {git}) /\ hs = HeadsOf(commits, X)
  OBVIOUS
<1>8. PICK view : view = [heads |-> hs, main |-> main, git |-> {git}]
  OBVIOUS
<1>9. Publish({p}, "import", view)
  BY <1>2, <1>7, <1>8 DEF Import
<1>10. GoodView(commits', view) /\ Keeps(commits', ops[p].view, view)
  <2>1. X \subseteq DOMAIN commits /\ old.heads \subseteq X /\ view.heads = HeadsOf(commits, X)
    BY <1>2, <1>6, <1>7, <1>8 DEF GoodView
  <2>2. /\ view.heads \subseteq DOMAIN commits /\ Antichain(commits, view.heads)
        /\ Keeps(commits, old, view)
    BY <1>1, <2>1, HeadsShow DEF LogShows
  <2>3. main \subseteq DOMAIN commits \cup {None}
    <3>1. main \subseteq old.main \cup {git}
      BY <1>7, MergeRefWithin
    <3> QED BY <1>6, <3>1 DEF GoodView
  <2>4. view = [heads |-> view.heads, main |-> view.main, git |-> view.git] /\ view.main = main
    BY <1>8
  <2>5. GoodView(commits, view)
    BY <2>2, <2>3, <2>4 DEF GoodView
  <2> QED BY <1>3, <1>4, <2>2, <2>5
<1>11. PICK n, call : n = Len(ops) + 1 /\ call = [calls[c] EXCEPT !.pc = "ready", !.op = n]
  OBVIOUS
<1>12. calls' = [calls EXCEPT ![c] = call]
  <2>1. calls' = [calls EXCEPT ![c].pc = "ready", ![c].op = n]
    BY <1>11 DEF Import
  <2> QED BY <1>1, <1>11, <2>1 DEF CallShape
<1>13. call.pc = "ready" /\ call.kind = calls[c].kind /\ call.arg = calls[c].arg
  BY <1>1, <1>11, CallFieldsAfter
<1> QED BY <1>3, <1>4, <1>5, <1>9, <1>10, <1>12, <1>13, ActionShows DEF AcksShown

\* integrate_commit, fast-forward: the submitted commit is shown as well.
LEMMA FastForwardShows ==
  ASSUME LogInv, SightInv, NEW c \in Callers, IntegrateFastForward(c)
  PROVE  SightInv'
<1>1. LogShape /\ CallShape /\ LogShows /\ DOMAIN calls[c] = CallFields
  BY DEF LogInv, SightInv, CallShape
<1>2. PICK p, old, x : p = calls[c].op /\ old = Loaded(c) /\ x = calls[c].arg
  OBVIOUS
<1>3. /\ UNCHANGED <<commits, git, acked>> /\ calls[c].pc = "ready" /\ calls[c].kind = "integrate"
      /\ Publish({p}, "integrate", MoveMain([old EXCEPT !.heads = HeadsOf(commits, @ \cup {x})], x))
      /\ calls' = [calls EXCEPT ![c].pc = "mirroring", ![c].target = x]
  BY <1>2 DEF IntegrateFastForward
<1>4. p \in DOMAIN ops /\ old = ops[p].view /\ x \in DOMAIN commits
  <2>1. CallShows(calls[c])
    BY DEF SightInv
  <2> QED BY <1>1, <1>2, <1>3, <2>1 DEF CallShape, CallShows, Loaded, Commit
<1>5. WellFormed(commits') /\ Extends(commits', commits)
  BY <1>1, <1>3, ExtendsItself DEF LogShows
<1>6. GoodView(commits, old)
  BY <1>1, <1>4 DEF LogShows
<1>7. PICK X, hs : X = old.heads \cup {x} /\ hs = HeadsOf(commits, X)
  OBVIOUS
<1>8. PICK view : view = [heads |-> hs, main |-> {x}, git |-> {x}]
  OBVIOUS
<1>9. Publish({p}, "integrate", view)
  <2>1. MoveMain([old EXCEPT !.heads = hs], x) = view
    BY <1>6, <1>8, MoveMainIs DEF GoodView
  <2> QED BY <1>3, <1>7, <2>1
<1>10. GoodView(commits', view) /\ Keeps(commits', ops[p].view, view) /\ x \in Visible(commits', view)
  <2>1. X \subseteq DOMAIN commits /\ old.heads \subseteq X /\ x \in X /\ view.heads = HeadsOf(commits, X)
    BY <1>4, <1>6, <1>7, <1>8 DEF GoodView
  <2>2. /\ view.heads \subseteq DOMAIN commits /\ Antichain(commits, view.heads)
        /\ Keeps(commits, old, view) /\ X \subseteq Visible(commits, view)
    BY <1>1, <2>1, HeadsShow DEF LogShows
  <2>3. view = [heads |-> view.heads, main |-> view.main, git |-> view.git] /\ view.main = {x}
    BY <1>8
  <2>4. GoodView(commits, view)
    BY <1>4, <2>2, <2>3 DEF GoodView
  <2> QED BY <1>3, <1>4, <2>1, <2>2, <2>4
<1>11. PICK call : call = [calls[c] EXCEPT !.pc = "mirroring", !.target = x]
  OBVIOUS
<1>12. calls' = [calls EXCEPT ![c] = call]
  BY <1>1, <1>3, <1>11 DEF CallShape
<1>13. call.pc = "mirroring" /\ call.kind = calls[c].kind /\ call.arg = calls[c].arg /\ call.target = x
  BY <1>1, <1>11, CallFieldsAfter
<1> QED BY <1>3, <1>4, <1>5, <1>9, <1>10, <1>12, <1>13, ActionShows,
           ZenonT(60) DEF AcksShown

\* integrate_commit, rebase: what is rewritten is shown as rewritten.
LEMMA RebaseShows ==
  ASSUME LogInv, SightInv, NEW c \in Callers, IntegrateRebase(c)
  PROVE  SightInv'
<1>1. LogShape /\ CallShape /\ LogShows /\ DOMAIN calls[c] = CallFields /\ WellFormed(commits)
  BY DEF LogInv, SightInv, CallShape, LogShows
<1>2. PICK p, old, x, m, n : /\ p = calls[c].op /\ old = Loaded(c) /\ x = calls[c].arg
                             /\ m = Main(c) /\ n = Len(commits) + 1
  OBVIOUS
<1>3. PICK cs, r : cs = Rebase(commits, x, {m}) /\ r = RebaseDescendants(cs, old, {x}, {n})
  OBVIOUS
<1>4. /\ UNCHANGED <<git, acked>> /\ calls[c].pc = "ready" /\ calls[c].kind = "integrate"
      /\ m # None /\ commits' = r.cs
      /\ Publish({p}, "integrate", MoveMain([r.view EXCEPT !.heads = HeadsOf(r.cs, @ \cup {n})], n))
      /\ calls' = [calls EXCEPT ![c].pc = "mirroring", ![c].target = n]
  BY <1>2, <1>3 DEF IntegrateRebase
<1>5. p \in DOMAIN ops /\ old = ops[p].view /\ x \in DOMAIN commits
  <2>1. CallShows(calls[c])
    BY DEF SightInv
  <2> QED BY <1>1, <1>2, <1>4, <2>1 DEF CallShape, CallShows, Loaded, Commit
<1>6. GoodView(commits, old)
  BY <1>1, <1>5 DEF LogShows
<1>7. m \in DOMAIN commits
  <2>1. Cardinality(old.main) = 1 /\ m \in old.main
    <3>1. m = AsNormal(old.main)
      BY <1>2 DEF Main
    <3>2. Cardinality(old.main) = 1 /\ m = CHOOSE y \in old.main : TRUE
      BY <1>4, <3>1 DEF AsNormal
    <3>3. old.main # {}
      BY <3>2, FS_EmptySet
    <3> QED BY <3>2, <3>3
  <2> QED BY <1>4, <1>6, <2>1 DEF GoodView
<1>8. OneMore(cs, commits, {m}, commits[x].change, cs[Len(commits) + 1].edits)
  <2>1. {m} \subseteq DOMAIN commits
    BY <1>7
  <2> QED BY <1>1, <1>3, <1>5, <2>1, RebaseKeeps, ZenonT(30)
<1>9. /\ WellFormed(cs) /\ Extends(cs, commits) /\ n \in DOMAIN cs /\ x \in DOMAIN cs
      /\ cs[n].change = cs[x].change /\ n >= x
  <2>1. DOMAIN commits = 1 .. Len(commits) /\ Len(commits) \in Nat
    BY <1>1, StoreShape
  <2>2. n >= x
    BY <1>2, <1>5, <2>1
  <2> QED BY <1>2, <1>5, <1>8, <2>2 DEF OneMore, Extends
<1>10. GoodView(cs, old)
  BY <1>1, <1>6, <1>9, GoodViewStays
<1>11. PICK ds, hs : ds = r.cs /\ hs = HeadsOf(ds, r.view.heads \cup {n})
  OBVIOUS
<1>12. PICK view : view = [heads |-> hs, main |-> {n}, git |-> {n}]
  OBVIOUS
<1>13. /\ WellFormed(ds) /\ Extends(ds, cs) /\ view.heads \subseteq DOMAIN ds
       /\ Antichain(ds, view.heads) /\ Keeps(ds, old, view) /\ n \in Visible(ds, view)
  <2>1. view.heads = HeadsOf(r.cs, r.view.heads \cup {n})
    BY <1>11, <1>12
  <2> QED BY <1>3, <1>9, <1>10, <1>11, <2>1, RewriteShows, ZenonT(60)
<1>14. Publish({p}, "integrate", view)
  <2>1. GoodView(r.cs, r.view)
    <3>1. {x} \subseteq DOMAIN cs /\ {n} \subseteq DOMAIN cs
      BY <1>9
    <3> QED BY <1>3, <1>9, <1>10, <3>1, GoodViewAfter
  <2>2. PICK u : u = r.view /\ u = [heads |-> u.heads, main |-> u.main, git |-> u.git]
    BY <2>1 DEF GoodView
  <2>3. MoveMain([u EXCEPT !.heads = hs], n) = view
    BY <1>12, <2>2, MoveMainIs
  <2> QED BY <1>4, <1>11, <2>2, <2>3
<1>15. WellFormed(commits') /\ Extends(commits', commits)
  BY <1>4, <1>9, <1>11, <1>13, ExtendsTransitive
<1>16. GoodView(commits', view) /\ Keeps(commits', ops[p].view, view) /\ n \in Visible(commits', view)
  <2>1. view = [heads |-> view.heads, main |-> view.main, git |-> view.git] /\ view.main = {n}
    BY <1>12
  <2>2. n \in DOMAIN ds
    BY <1>9, <1>13 DEF Extends
  <2>3. GoodView(ds, view)
    BY <1>13, <2>1, <2>2 DEF GoodView
  <2> QED BY <1>4, <1>5, <1>11, <1>13, <2>3
<1>17. PICK call : call = [calls[c] EXCEPT !.pc = "mirroring", !.target = n]
  OBVIOUS
<1>18. calls' = [calls EXCEPT ![c] = call]
  BY <1>1, <1>4, <1>17 DEF CallShape
<1>19. call.pc = "mirroring" /\ call.kind = calls[c].kind /\ call.arg = calls[c].arg /\ call.target = n
  BY <1>1, <1>17, CallFieldsAfter
<1> QED BY <1>4, <1>5, <1>14, <1>15, <1>16, <1>18, <1>19, ActionShows,
           ZenonT(60) DEF AcksShown

\* commit: the new commit is shown with the heads, whether main follows or not.
LEMMA CommitShows ==
  ASSUME LogInv, SightInv, NEW c \in Callers, CommitCall(c)
  PROVE  SightInv'
<1>1. LogShape /\ CallShape /\ LogShows /\ DOMAIN calls[c] = CallFields /\ WellFormed(commits)
  BY DEF LogInv, SightInv, CallShape, LogShows
<1>2. PICK p, old, parents, n : /\ p = calls[c].op /\ old = Loaded(c)
                                /\ parents = ParentsFor(c) /\ n = Len(commits) + 1
  OBVIOUS
<1>3. UNCHANGED <<git>> /\ calls[c].pc = "ready" /\ calls[c].kind = "commit"
  BY DEF CommitCall
<1>4. p \in DOMAIN ops /\ old = ops[p].view /\ calls[c].arg \in Commit \cup {None}
  <2>1. CallShows(calls[c])
    BY DEF SightInv
  <2> QED BY <1>1, <1>2, <1>3, <2>1 DEF CallShape, CallShows, Loaded
<1>5. GoodView(commits, old)
  BY <1>1, <1>4 DEF LogShows
<1>6. PICK tree, edits : /\ tree \in IF parents = {} THEN {{}} ELSE {commits[q].edits : q \in parents}
                         /\ edits = tree \cup {n}
                         /\ commits' = WithCommit(commits, parents, n, edits)
  BY <1>2 DEF CommitCall
<1>7. OneMore(commits', commits, parents, n, edits)
  <2>1. Len(commits) \in Nat /\ DOMAIN commits = 1 .. Len(commits)
    BY <1>1, StoreShape
  <2>2. parents \subseteq DOMAIN commits
    BY <1>2, <1>4, <1>5 DEF ParentsFor, GoodView, Commit
  <2>3. tree \subseteq 1 .. Len(commits)
    BY <1>1, <1>6, <2>1, <2>2 DEF WellFormed
  <2>4. n \in 1 .. (Len(commits) + 1) /\ edits \subseteq 1 .. (Len(commits) + 1)
    <3>1. n \in 1 .. (Len(commits) + 1) /\ 1 .. Len(commits) \subseteq 1 .. (Len(commits) + 1)
      BY <1>2, <2>1
    <3> QED BY <1>6, <2>3, <3>1
  <2> QED BY <1>1, <1>6, <2>2, <2>4, WithCommitKeeps, ZenonT(30)
<1>8. /\ WellFormed(commits') /\ Extends(commits', commits)
      /\ n \in DOMAIN commits' /\ commits'[n].change = n
  BY <1>2, <1>7 DEF OneMore
<1>9. PICK X, hs : X = old.heads \cup {n} /\ hs = HeadsOf(commits', X)
  OBVIOUS
<1>10. PICK heads : heads = [old EXCEPT !.heads = hs]
  OBVIOUS
<1>11. /\ heads = [heads |-> hs, main |-> old.main, git |-> old.git]
       /\ heads = [Loaded(c) EXCEPT !.heads = HeadsOf(commits', @ \cup {n})]
  <2>1. heads = [Loaded(c) EXCEPT !.heads = HeadsOf(commits', @ \cup {n})]
    BY <1>2, <1>9, <1>10
  <2>2. PICK h, m, g : old = [heads |-> h, main |-> m, git |-> g]
    BY <1>5 DEF GoodView
  <2> QED BY <1>10, <2>1, <2>2
<1>12. ASSUME NEW view, view.heads = hs, view.main \subseteq old.main \cup {n},
              view = [heads |-> view.heads, main |-> view.main, git |-> view.git]
       PROVE  /\ GoodView(commits', view) /\ Keeps(commits', ops[p].view, view)
              /\ n \in Visible(commits', view)
  <2>1. X \subseteq DOMAIN commits' /\ old.heads \subseteq X /\ n \in X
    BY <1>5, <1>8, <1>9 DEF GoodView, Extends
  <2>2. /\ view.heads \subseteq DOMAIN commits' /\ Antichain(commits', view.heads)
        /\ Keeps(commits', old, view) /\ X \subseteq Visible(commits', view)
    BY <1>8, <1>9, <1>12, <2>1, HeadsShow
  <2>3. view.main \subseteq DOMAIN commits' \cup {None}
    BY <1>5, <1>8, <1>12 DEF GoodView, Extends
  <2>4. GoodView(commits', view)
    BY <1>12, <2>2, <2>3 DEF GoodView
  <2> QED BY <1>4, <2>1, <2>2, <2>4
<1>13. CASE Main(c) = None \/ IsAncestor(commits', Main(c), n)
  <2>1. PICK view : view = [heads |-> hs, main |-> {n}, git |-> {n}]
    OBVIOUS
  <2>2. Publish({p}, "commit", view)
    <3>1. MoveMain(heads, n) = view
      BY <1>5, <1>10, <2>1, MoveMainIs DEF GoodView
    <3>2. Publish({p}, "commit", MoveMain(heads, n))
      BY <1>2, <1>11, <1>13 DEF CommitCall
    <3> QED BY <3>1, <3>2
  <2>3. /\ GoodView(commits', view) /\ Keeps(commits', ops[p].view, view)
        /\ n \in Visible(commits', view)
    <3>1. view.heads = hs /\ view.main \subseteq old.main \cup {n}
          /\ view = [heads |-> view.heads, main |-> view.main, git |-> view.git]
      BY <2>1
    <3> QED BY <1>12, <3>1
  <2>4. PICK call : call = [calls[c] EXCEPT !.pc = "mirroring", !.target = n]
    OBVIOUS
  <2>5. calls' = [calls EXCEPT ![c] = call] /\ acked' = acked
    <3>1. calls' = [calls EXCEPT ![c].pc = "mirroring", ![c].target = n] /\ acked' = acked
      BY <1>2, <1>13 DEF CommitCall
    <3> QED BY <1>1, <2>4, <3>1 DEF CallShape
  <2>6. call.pc = "mirroring" /\ call.kind = calls[c].kind /\ call.arg = calls[c].arg /\ call.target = n
    BY <1>1, <2>4, CallFieldsAfter
  <2>7. /\ call.pc = "mirroring" => call.target \in Visible(commits', view)
        /\ AcksShown(view)
    BY <2>3, <2>5, <2>6 DEF AcksShown
  <2> QED BY <1>3, <1>4, <1>8, <2>2, <2>3, <2>5, <2>6, <2>7, ActionShows
<1>14. CASE ~(Main(c) = None \/ IsAncestor(commits', Main(c), n))
  <2>1. Publish({p}, "commit", heads) /\ git' = git /\ calls[c].pc # "idle"
    BY <1>2, <1>3, <1>11, <1>14 DEF CommitCall
  <2>2. /\ GoodView(commits', heads) /\ Keeps(commits', ops[p].view, heads)
        /\ n \in Visible(commits', heads)
    <3>1. heads.heads = hs /\ heads.main \subseteq old.main \cup {n}
          /\ heads = [heads |-> heads.heads, main |-> heads.main, git |-> heads.git]
      BY <1>11
    <3> QED BY <1>12, <3>1
  <2>3. PICK call : call = [calls[c] EXCEPT !.pc = "done"]
    OBVIOUS
  <2>4. calls' = [calls EXCEPT ![c] = call] /\ acked' \subseteq acked \cup {n}
    <3>1. Return(c) /\ Acknowledge(c, n)
      BY <1>2, <1>14 DEF CommitCall
    <3> QED BY <2>3, <3>1 DEF Return, Acknowledge
  <2>5. call.pc = "done" /\ call.kind = calls[c].kind /\ call.arg = calls[c].arg
    BY <1>1, <2>3, CallFieldsAfter
  <2>6. /\ call.pc = "mirroring" => call.target \in Visible(commits', heads)
        /\ AcksShown(heads)
    BY <1>8, <2>2, <2>4, <2>5 DEF AcksShown
  <2> QED BY <1>3, <1>4, <1>8, <2>1, <2>2, <2>4, <2>5, <2>6, ActionShows
<1> QED BY <1>13, <1>14

\* The mirror is written, and the call's commit acknowledged.
LEMMA MirrorShows ==
  ASSUME LogInv, SightInv, NEW c \in Callers, Mirror(c)
  PROVE  SightInv'
<1>1. LogShape /\ CallShape /\ LogShows /\ DOMAIN calls[c] = CallFields
  BY DEF LogInv, SightInv, CallShape
<1>2. UNCHANGED <<commits, ops>> /\ git' = calls[c].target /\ calls[c].pc = "mirroring"
  BY DEF Mirror
<1>3. CallShows(calls[c])
  BY DEF SightInv
<1>4. WellFormed(commits') /\ Extends(commits', commits) /\ git' \in Commit' \cup {None}
  BY <1>1, <1>2, <1>3, ExtendsItself DEF LogShows, CallShows, Commit
<1>5. LogShows' /\ \A e : Shown(e) => Shown(e)'
  BY <1>1, <1>2, <1>4, LogStays
<1>6. PICK call : call = [calls[c] EXCEPT !.pc = "done"]
  OBVIOUS
<1>7. calls' = [calls EXCEPT ![c] = call]
  BY <1>6 DEF Mirror, Return
<1>8. CallShows(call)'
  <2>1. call.pc = "done" /\ call.kind = calls[c].kind /\ call.arg = calls[c].arg
    BY <1>1, <1>6, CallFieldsAfter
  <2>2. CallShows(call)
    BY <1>2, <1>3, <2>1 DEF CallShows
  <2> QED BY <1>4, <1>5, <2>2, CallGoesOn
<1>9. \A e \in acked' : e \in acked \/ Shown(e)'
  <2>1. acked' = acked \/ (calls[c].kind = "commit" /\ acked' = acked \cup {commits[calls[c].target].change})
    BY DEF Mirror, Acknowledge
  <2>2. calls[c].kind = "commit" => Shown(commits[calls[c].target].change)
    BY <1>2, <1>3 DEF CallShows
  <2> QED BY <1>5, <2>1, <2>2
<1> QED BY <1>1, <1>4, <1>5, <1>7, <1>8, <1>9, CallStepsShow

\* load_at_head of diverged heads.
LEMMA LoadMergingShows ==
  ASSUME LogInv, SightInv, NEW c \in Callers, LoadMerging(c)
  PROVE  SightInv'
<1>1. LogShape /\ CallShape /\ LogShows /\ DOMAIN calls[c] = CallFields
  BY DEF LogInv, SightInv, CallShape
<1>2. PICK r : r = MergedHeads
  OBVIOUS
<1>3. /\ UNCHANGED <<git, acked>> /\ calls[c].pc = "called" /\ commits' = r.cs
      /\ Publish(opHeads, "merge", r.view)
  BY <1>2 DEF LoadMerging
<1>4. opHeads # {} /\ opHeads \subseteq DOMAIN ops
  <2>1. Cardinality(opHeads) > 1
    BY DEF LoadMerging
  <2>2. Cardinality({}) = 0
    BY FS_EmptySet
  <2>3. opHeads # {}
    BY ONLY <2>1, <2>2
  <2> QED BY <1>1, <2>3 DEF LogShape
<1>5. MergeShown(r) /\ \A h \in opHeads : ops[h].anc \subseteq r.anc
  BY <1>1, <1>2, <1>4, MergedHeadsShow
<1>6. PICK view : view = r.view
  OBVIOUS
<1>7. /\ WellFormed(commits') /\ Extends(commits', commits) /\ GoodView(commits', view)
      /\ \A p \in opHeads : \A b \in ops[p].anc : Keeps(commits', ops[b].view, view)
  BY <1>3, <1>5, <1>6 DEF MergeShown
<1>8. git' \in Commit' \cup {None} /\ Publish(opHeads, "merge", view)
  BY <1>1, <1>3, <1>6, <1>7 DEF LogShows, Extends, Commit
<1>9. LogShows' /\ \A e : Shown(e) => Shown(e)'
  BY <1>1, <1>4, <1>7, <1>8, PublishShows
<1>10. PICK n, call : n = Len(ops) + 1 /\ call = [calls[c] EXCEPT !.pc = "loaded", !.op = n]
  OBVIOUS
<1>11. calls' = [calls EXCEPT ![c] = call]
  <2>1. calls' = [calls EXCEPT ![c].pc = "loaded", ![c].op = n]
    BY <1>10 DEF LoadMerging
  <2> QED BY <1>1, <1>10, <2>1 DEF CallShape
<1>12. CallShows(call)'
  <2>1. call.pc = "loaded" /\ call.kind = calls[c].kind /\ call.arg = calls[c].arg
    BY <1>1, <1>10, CallFieldsAfter
  <2>2. CallShows(calls[c])
    BY DEF SightInv
  <2>3. CallShows(call)
    BY <1>3, <2>1, <2>2 DEF CallShows
  <2> QED BY <1>7, <1>9, <2>3, CallGoesOn
<1>13. \A e \in acked' : e \in acked \/ Shown(e)'
  BY <1>3
<1> QED BY <1>1, <1>7, <1>9, <1>11, <1>12, <1>13, CallStepsShow

LEMMA InitShows == VcsInit => SightInv
<1> SUFFICES ASSUME VcsInit PROVE SightInv
  OBVIOUS
<1>1. PICK cs, heads, main : /\ Repo(cs, heads, main) /\ WellFormed(cs) /\ Antichain(cs, heads)
                             /\ heads \subseteq DOMAIN cs /\ main \in DOMAIN cs \cup {None}
  <2>1. Antichain(Forked, {2, 3}) /\ Antichain(<<>>, {})
    BY ForkedIsSound DEF Antichain
  <2> QED BY <2>1, ForkedIsSound, EmptyIsSound DEF VcsInit
<1>2. PICK view : view = [heads |-> heads, main |-> {main}, git |-> {main}]
  OBVIOUS
<1>3. PICK op : op = [kind |-> "init", anc |-> {1}, view |-> view]
  OBVIOUS
<1>4. commits = cs /\ ops = <<op>> /\ git = main
  BY <1>1, <1>2, <1>3 DEF Repo
<1>5. DOMAIN ops = {1} /\ ops[1] = op /\ op.view = view /\ op.anc = {1}
  BY <1>3, <1>4
<1>6. GoodView(cs, view)
  BY <1>1, <1>2 DEF GoodView
<1>7. Keeps(cs, view, view)
  BY <1>1, <1>6, KeepsItself DEF GoodView
<1>8. LogShows
  BY <1>1, <1>4, <1>5, <1>6, <1>7 DEF LogShows, Commit
<1>9. acked = {} /\ \A c \in Callers : calls[c].pc = "idle"
  BY DEF VcsInit
<1> QED BY <1>8, <1>9 DEF SightInv, CallShows

\* Operations are added, never changed.
LEMMA LogGrows ==
  ASSUME LogInv, [VcsNext]_vcsVars
  PROVE  UNCHANGED ops \/ \E parents, kind, view : Publish(parents, kind, view)
<1>1. CASE UNCHANGED vcsVars
  BY <1>1 DEF vcsVars
<1>2. CASE Push \/ Crash
  BY <1>2 DEF Push, Crash
<1>3. ASSUME NEW c \in Callers, Step(c)
      PROVE  UNCHANGED ops \/ \E parents, kind, view : Publish(parents, kind, view)
  <2>1. ASSUME NEW kind \in Kinds, NEW arg, Begin(c, kind, arg) PROVE UNCHANGED ops
    BY <2>1 DEF Begin
  <2>2. CASE \/ TakeTurn(c) \/ LoadAtHead(c) \/ NothingToImport(c) \/ Read(c)
             \/ IntegrateOutOfScope(c) \/ Mirror(c) \/ MirrorFails(c) \/ CancelSubmission(c)
    BY <2>2 DEF TakeTurn, LoadAtHead, NothingToImport, Read, IntegrateOutOfScope, Mirror,
                MirrorFails, CancelSubmission
  <2>3. CASE \/ LoadMerging(c) \/ Import(c) \/ CheckpointCall(c) \/ CommitCall(c)
             \/ RestoreCall(c) \/ IntegrateFastForward(c) \/ IntegrateRebase(c)
    BY <2>3 DEF LoadMerging, Import, CheckpointCall, CommitCall, RestoreCall,
                IntegrateFastForward, IntegrateRebase
  <2> QED BY <1>3, <2>1, <2>2, <2>3 DEF Step
<1> QED BY <1>1, <1>2, <1>3 DEF VcsNext

\* Without a restore now, there was none before.
LEMMA RestoresStay ==
  ASSUME LogInv, [VcsNext]_vcsVars, NoRestores'
  PROVE  NoRestores /\ \A c \in Callers : ~RestoreCall(c)
<1>1. ASSUME NEW parents, NEW kind, NEW view, Publish(parents, kind, view)
      PROVE  NoRestores /\ kind # "restore"
  <2>1. PICK n, new : /\ n = Len(ops) + 1
                      /\ new = [kind |-> kind, view |-> view,
                                anc |-> (UNION {ops[p].anc : p \in parents}) \cup {n}]
    OBVIOUS
  <2>2. ops' = Append(ops, new)
    BY <1>1, <2>1 DEF Publish
  <2>3. /\ DOMAIN ops' = DOMAIN ops \cup {n}
        /\ \A i \in DOMAIN ops : ops'[i] = ops[i]
        /\ ops'[n] = new
    BY <2>1, <2>2, AppendGrows DEF LogInv, LogShape
  <2>4. new.kind = kind
    BY <2>1
  <2> QED BY <2>3, <2>4 DEF NoRestores
<1>2. NoRestores
  <2>1. CASE UNCHANGED ops
    BY <2>1 DEF NoRestores
  <2>2. CASE \E parents, kind, view : Publish(parents, kind, view)
    BY <1>1, <2>2
  <2> QED BY <2>1, <2>2, LogGrows
<1>3. ASSUME NEW c \in Callers, RestoreCall(c) PROVE FALSE
  <2>1. \E view : Publish({calls[c].op}, "restore", view)
    BY <1>3 DEF RestoreCall
  <2> QED BY <1>1, <2>1
<1> QED BY <1>2, <1>3

\* The inductive invariant of overlapping calls: until somebody restores, every
\* operation shows what the ones before it showed, and some operation shows what
\* was acknowledged.
VisibleInv == LogInv /\ (NoRestores => SightInv)

LEMMA StepVisible == VisibleInv /\ [VcsNext]_vcsVars => VisibleInv'
<1> SUFFICES ASSUME VisibleInv, [VcsNext]_vcsVars PROVE VisibleInv'
  OBVIOUS
<1>1. LogInv /\ LogInv'
  BY StepLog DEF VisibleInv
<1> SUFFICES ASSUME NoRestores' PROVE SightInv'
  BY <1>1 DEF VisibleInv
<1>2. NoRestores /\ \A c \in Callers : ~RestoreCall(c)
  BY <1>1, RestoresStay
<1>3. SightInv
  BY <1>2 DEF VisibleInv
<1>4. CASE UNCHANGED vcsVars
  <2>1. \A d : CallShows(d)' <=> CallShows(d)
    BY <1>4 DEF vcsVars, CallShows, Shown, Commit
  <2>2. LogShows'
    BY <1>3, <1>4 DEF vcsVars, SightInv, LogShows, Commit
  <2> QED BY <1>3, <1>4, <2>1, <2>2 DEF vcsVars, SightInv, Shown, CallShows, Commit
<1>5. CASE Push
  BY <1>1, <1>3, <1>5, PushShows
<1>6. CASE Crash
  BY <1>1, <1>3, <1>6, CrashShows
<1>7. ASSUME NEW c \in Callers, Step(c) PROVE SightInv'
  <2>1. ASSUME NEW kind \in Kinds, NEW arg \in Args(kind), Begin(c, kind, arg) PROVE SightInv'
    BY <1>1, <1>3, <2>1, BeginShows
  <2>2. CASE TakeTurn(c) \/ LoadAtHead(c) \/ NothingToImport(c) \/ Read(c)
             \/ IntegrateOutOfScope(c) \/ MirrorFails(c) \/ CancelSubmission(c)
    BY <1>1, <1>3, <2>2, MovesShow
  <2>3. CASE LoadMerging(c)
    BY <1>1, <1>3, <2>3, LoadMergingShows
  <2>4. CASE Import(c)
    BY <1>1, <1>3, <2>4, ImportShows
  <2>5. CASE CheckpointCall(c)
    BY <1>1, <1>3, <2>5, CheckpointShows
  <2>6. CASE CommitCall(c)
    BY <1>1, <1>3, <2>6, CommitShows
  <2>7. CASE IntegrateFastForward(c)
    BY <1>1, <1>3, <2>7, FastForwardShows
  <2>8. CASE IntegrateRebase(c)
    BY <1>1, <1>3, <2>8, RebaseShows
  <2>9. CASE Mirror(c)
    BY <1>1, <1>3, <2>9, MirrorShows
  <2> QED BY <1>2, <1>7, <2>1, <2>2, <2>3, <2>4, <2>5, <2>6, <2>7, <2>8, <2>9 DEF Step
<1> QED BY <1>4, <1>5, <1>6, <1>7 DEF VcsNext

\* A commit that was acknowledged is never lost from sight, however calls
\* overlap, crash and import pushes: until somebody restores, its change is
\* visible at a head of the operation log. (commit, integrate_commit, load_repo)
THEOREM VisibleTheorem == VcsSpec => []CommitsStayVisible
<1>1. VcsInit => VisibleInv
  BY InitLog, InitShows DEF VisibleInv
<1>2. VisibleInv /\ [VcsNext]_vcsVars => VisibleInv'
  BY StepVisible
<1>3. VisibleInv => CommitsStayVisible
  <2> SUFFICES ASSUME VisibleInv, NoRestores, NEW e \in acked
               PROVE  \E h \in opHeads : \E n \in Visible(commits, ops[h].view) : commits[n].change = e
    BY DEF CommitsStayVisible, NoRestores
  <2>1. LogInv /\ SightInv
    BY DEF VisibleInv
  <2>2. PICK o \in DOMAIN ops : \E a \in Visible(commits, ops[o].view) : commits[a].change = e
    BY <2>1 DEF SightInv, Shown
  <2>3. PICK a \in Visible(commits, ops[o].view) : commits[a].change = e
    BY <2>2
  <2>4. PICK h \in opHeads : o \in ops[h].anc
    BY <2>1 DEF LogInv, OpLogComplete
  <2>5. Keeps(commits, ops[o].view, ops[h].view)
    BY <2>1, <2>4 DEF LogInv, LogShape, SightInv, LogShows
  <2>6. PICK n \in Visible(commits, ops[h].view) : commits[n].change = e
    BY <2>3, <2>5 DEF Keeps
  <2> QED BY <2>6
<1> QED BY <1>1, <1>2, <1>3, PTL DEF VcsSpec

-----------------------------------------------------------------------------
(* VcsEngine: submissions run alone *)

\* What a step of call c makes of its pc, kind, operation and target.
Becomes(c, pc, kind, op, target) ==
  /\ calls'[c].pc = pc /\ calls'[c].kind = kind
  /\ calls'[c].op = op /\ calls'[c].target = target

LEMMA CallAfter ==
  ASSUME CallShape, NEW c \in Callers
  PROVE  /\ Step(c) => \A d \in Callers : d # c => calls'[d] = calls[d]
         /\ \A kind, arg : Begin(c, kind, arg) =>
              Becomes(c, IF kind = "integrate" THEN "queued" ELSE "called",
                      kind, calls[c].op, calls[c].target)
         /\ TakeTurn(c) => Becomes(c, "called", calls[c].kind, calls[c].op, calls[c].target)
         /\ LoadAtHead(c) => Becomes(c, "loaded", calls[c].kind, CHOOSE o \in opHeads : TRUE,
                                     calls[c].target)
         /\ LoadMerging(c) => Becomes(c, "loaded", calls[c].kind, Len(ops) + 1, calls[c].target)
         /\ NothingToImport(c) => Becomes(c, "ready", calls[c].kind, calls[c].op, calls[c].target)
         /\ Import(c) => Becomes(c, "ready", calls[c].kind, Len(ops) + 1, calls[c].target)
         /\ Return(c) => Becomes(c, "done", calls[c].kind, calls[c].op, calls[c].target)
         /\ IntegrateFastForward(c) => Becomes(c, "mirroring", calls[c].kind, calls[c].op, calls[c].arg)
         /\ IntegrateRebase(c) => Becomes(c, "mirroring", calls[c].kind, calls[c].op, Len(commits) + 1)
<1>1. DOMAIN calls = Callers /\ DOMAIN calls[c] = CallFields
  BY DEF CallShape
<1>2. ASSUME NEW call, calls' = [calls EXCEPT ![c] = call] PROVE calls'[c] = call
  BY <1>1, <1>2
<1>3. ASSUME Step(c), NEW d \in Callers, d # c PROVE calls'[d] = calls[d]
  <2>1. ASSUME NEW kind, NEW arg, Begin(c, kind, arg) PROVE calls'[d] = calls[d]
    BY <1>1, <1>3, <2>1 DEF Begin
  <2>2. CASE \/ TakeTurn(c) \/ LoadAtHead(c) \/ LoadMerging(c) \/ NothingToImport(c) \/ Import(c)
             \/ Read(c) \/ CheckpointCall(c) \/ RestoreCall(c)
             \/ IntegrateFastForward(c) \/ IntegrateRebase(c) \/ IntegrateOutOfScope(c)
             \/ Mirror(c) \/ MirrorFails(c) \/ CancelSubmission(c)
    BY <1>1, <1>3, <2>2 DEF TakeTurn, LoadAtHead, LoadMerging, NothingToImport, Import, Read,
         CheckpointCall, RestoreCall, IntegrateFastForward, IntegrateRebase,
         IntegrateOutOfScope, Mirror, MirrorFails, CancelSubmission, Return
  <2>3. CASE CommitCall(c)
    <3>1. \E call : calls' = [calls EXCEPT ![c] = call]
      BY <1>1, <2>3 DEF CommitCall, Return
    <3> QED BY <1>1, <1>3, <3>1
  <2> QED BY <1>3, <2>1, <2>2, <2>3 DEF Step
<1>4. ASSUME NEW kind, NEW arg, Begin(c, kind, arg)
      PROVE  Becomes(c, IF kind = "integrate" THEN "queued" ELSE "called",
                     kind, calls[c].op, calls[c].target)
  <2>1. PICK pc : pc = IF kind = "integrate" THEN "queued" ELSE "called"
    OBVIOUS
  <2>2. calls' = [calls EXCEPT ![c] = [calls[c] EXCEPT !.pc = pc, !.kind = kind, !.arg = arg]]
    BY <1>4, <2>1 DEF Begin
  <2>3. calls'[c] = [calls[c] EXCEPT !.pc = pc, !.kind = kind, !.arg = arg]
    BY <1>1, <2>2
  <2> QED BY <1>1, <2>1, <2>3 DEF Becomes, CallFields
<1>5. ASSUME NEW pc, calls' = [calls EXCEPT ![c].pc = pc]
      PROVE  Becomes(c, pc, calls[c].kind, calls[c].op, calls[c].target)
  BY <1>1, <1>5 DEF Becomes, CallFields
<1>6. ASSUME NEW pc, NEW op, calls' = [calls EXCEPT ![c].pc = pc, ![c].op = op]
      PROVE  Becomes(c, pc, calls[c].kind, op, calls[c].target)
  BY <1>1, <1>6 DEF Becomes, CallFields
<1>7. ASSUME NEW pc, NEW x, calls' = [calls EXCEPT ![c].pc = pc, ![c].target = x]
      PROVE  Becomes(c, pc, calls[c].kind, calls[c].op, x)
  BY <1>1, <1>7 DEF Becomes, CallFields
<1>8. TakeTurn(c) => Becomes(c, "called", calls[c].kind, calls[c].op, calls[c].target)
  BY <1>5 DEF TakeTurn
<1>9. NothingToImport(c) => Becomes(c, "ready", calls[c].kind, calls[c].op, calls[c].target)
  BY <1>5 DEF NothingToImport
<1>10. Return(c) => Becomes(c, "done", calls[c].kind, calls[c].op, calls[c].target)
  BY <1>5 DEF Return
<1>11. LoadAtHead(c) => Becomes(c, "loaded", calls[c].kind, CHOOSE o \in opHeads : TRUE,
                                calls[c].target)
  BY <1>6 DEF LoadAtHead
<1>12. LoadMerging(c) => Becomes(c, "loaded", calls[c].kind, Len(ops) + 1, calls[c].target)
  BY <1>6 DEF LoadMerging
<1>13. Import(c) => Becomes(c, "ready", calls[c].kind, Len(ops) + 1, calls[c].target)
  BY <1>6 DEF Import
<1>14. IntegrateFastForward(c) => Becomes(c, "mirroring", calls[c].kind, calls[c].op, calls[c].arg)
  BY <1>7 DEF IntegrateFastForward
<1>15. IntegrateRebase(c) => Becomes(c, "mirroring", calls[c].kind, calls[c].op, Len(commits) + 1)
  BY <1>7 DEF IntegrateRebase
<1> QED BY <1>3, <1>4, <1>8, <1>9, <1>10, <1>11, <1>12, <1>13, <1>14, <1>15

\* A submission that is under way holds the turn.
TurnInv == \A c \in Callers : calls[c].kind = "integrate" /\ UnderWay(c) => turn = c

\* Mishaps are counted, and a call has no kind before it is made.
FreshInv == mishaps \in Nat /\ \A c \in Callers : calls[c].pc = "idle" => calls[c].kind = "none"

AloneInv == CallShape /\ FreshInv /\ (mishaps = 0 => TurnInv)

\* Without a mishap now, there was none before, and nobody was stopped.
LEMMA NoMishaps ==
  ASSUME mishaps \in Nat, VcsNext, mishaps' = 0
  PROVE  /\ mishaps = 0 /\ ~Crash
         /\ \A c \in Callers : ~MirrorFails(c) /\ ~CancelSubmission(c)
<1>1. ~Mishap
  BY DEF Mishap
<1>2. ~Crash /\ \A c \in Callers : ~MirrorFails(c) /\ ~CancelSubmission(c)
  BY <1>1 DEF Crash, MirrorFails, CancelSubmission
<1>3. Push => mishaps' = mishaps
  BY DEF Push
<1>4. ASSUME NEW c \in Callers, Step(c) PROVE mishaps' = mishaps
  <2>1. ASSUME NEW kind, NEW arg, Begin(c, kind, arg) PROVE mishaps' = mishaps
    BY <2>1 DEF Begin
  <2>2. CASE \/ TakeTurn(c) \/ LoadAtHead(c) \/ LoadMerging(c) \/ NothingToImport(c) \/ Import(c)
             \/ Read(c) \/ CheckpointCall(c) \/ CommitCall(c) \/ RestoreCall(c)
             \/ IntegrateFastForward(c) \/ IntegrateRebase(c) \/ IntegrateOutOfScope(c) \/ Mirror(c)
    BY <2>2 DEF TakeTurn, LoadAtHead, LoadMerging, NothingToImport, Import, Read,
         CheckpointCall, CommitCall, RestoreCall, IntegrateFastForward, IntegrateRebase,
         IntegrateOutOfScope, Mirror
  <2> QED BY <1>2, <1>4, <2>1, <2>2 DEF Step
<1> QED BY <1>2, <1>3, <1>4 DEF VcsNext

\* Calls other than c are as they were, and c is not under way anew.
LEMMA TurnsStay ==
  ASSUME TurnInv, NEW c \in Callers, \A d \in Callers : d # c => calls'[d] = calls[d],
         calls'[c].kind = calls[c].kind, UnderWay(c)' => UnderWay(c) /\ turn' = turn,
         turn' = turn \/ (turn = c /\ turn' = None)
  PROVE  TurnInv'
<1> SUFFICES ASSUME NEW d \in Callers, calls'[d].kind = "integrate", UnderWay(d)' PROVE turn' = d
  BY DEF TurnInv
<1>1. CASE d = c
  BY <1>1 DEF TurnInv
<1>2. CASE d # c
  <2>1. turn = d
    BY <1>2 DEF TurnInv, UnderWay
  <2> QED BY <1>2, <2>1
<1> QED BY <1>1, <1>2

LEMMA StepAlone == AloneInv /\ CallShape' /\ [VcsNext]_vcsVars => AloneInv'
<1> SUFFICES ASSUME AloneInv, CallShape', [VcsNext]_vcsVars PROVE AloneInv'
  OBVIOUS
<1>0. CallShape /\ FreshInv /\ mishaps \in Nat
  BY DEF AloneInv, FreshInv
<1>1. CASE UNCHANGED vcsVars
  BY <1>1 DEF vcsVars, AloneInv, FreshInv, TurnInv, UnderWay, CallShape
<1>2. CASE Push
  BY <1>2 DEF Push, AloneInv, FreshInv, TurnInv, UnderWay, CallShape
<1>3. CASE Crash
  <2>1. mishaps' \in Nat /\ mishaps' # 0
    BY <1>0, <1>3 DEF Crash, Mishap
  <2>2. ASSUME NEW c \in Callers, calls'[c].pc = "idle" PROVE calls'[c].kind = "none"
    <3>1. calls'[c] = IF UnderWay(c) THEN [calls[c] EXCEPT !.pc = "done"] ELSE calls[c]
      BY <1>3 DEF Crash
    <3>2. calls[c].pc = "idle" /\ calls'[c] = calls[c]
      BY <1>0, <2>2, <3>1 DEF CallShape, CallFields
    <3> QED BY <1>0, <3>2 DEF FreshInv
  <2> QED BY <2>1, <2>2 DEF AloneInv, FreshInv
<1>4. ASSUME NEW c \in Callers, Step(c) PROVE AloneInv'
  <2>1. \A d \in Callers : d # c => calls'[d] = calls[d]
    BY <1>0, <1>4, CallAfter
  <2>2. FreshInv'
    <3>1. mishaps' \in Nat
      <4>1. mishaps' = mishaps \/ mishaps' = mishaps + 1
        <5>1. ASSUME NEW kind, NEW arg, Begin(c, kind, arg) PROVE mishaps' = mishaps
          BY <5>1 DEF Begin
        <5>2. CASE \/ TakeTurn(c) \/ LoadAtHead(c) \/ LoadMerging(c) \/ NothingToImport(c)
                   \/ Import(c) \/ Read(c) \/ CheckpointCall(c) \/ CommitCall(c) \/ RestoreCall(c)
                   \/ IntegrateFastForward(c) \/ IntegrateRebase(c) \/ IntegrateOutOfScope(c)
                   \/ Mirror(c) \/ MirrorFails(c) \/ CancelSubmission(c)
          BY <5>2 DEF TakeTurn, LoadAtHead, LoadMerging, NothingToImport, Import, Read,
               CheckpointCall, CommitCall, RestoreCall, IntegrateFastForward, IntegrateRebase,
               IntegrateOutOfScope, Mirror, MirrorFails, CancelSubmission, Mishap
        <5> QED BY <1>4, <5>1, <5>2 DEF Step
      <4> QED BY <1>0, <4>1
    <3>2. calls'[c].pc = "idle" => calls'[c].kind = "none"
      <4>1. CASE CancelSubmission(c)
        <5>1. calls' = [calls EXCEPT ![c].client = FALSE]
          BY <4>1 DEF CancelSubmission
        <5>2. calls'[c].pc = calls[c].pc /\ calls'[c].kind = calls[c].kind
          BY <1>0, <5>1 DEF CallShape, CallFields
        <5> QED BY <1>0, <5>2 DEF FreshInv
      <4>2. CASE CommitCall(c) \/ RestoreCall(c)
        <5>1. \/ \E pc, x : pc # "idle" /\ calls' = [calls EXCEPT ![c].pc = pc, ![c].target = x]
              \/ Return(c)
          BY <4>2 DEF CommitCall, RestoreCall
        <5>2. ASSUME NEW pc, NEW x, calls' = [calls EXCEPT ![c].pc = pc, ![c].target = x]
              PROVE  calls'[c].pc = pc
          BY <1>0, <5>2 DEF CallShape, CallFields
        <5>3. Return(c) => calls'[c].pc = "done"
          BY <1>0, CallAfter DEF Becomes
        <5> QED BY <5>1, <5>2, <5>3
      <4>3. ASSUME NEW kind, NEW arg, Begin(c, kind, arg) PROVE calls'[c].pc # "idle"
        BY <1>0, <4>3, CallAfter DEF Becomes
      <4>4. CASE \/ TakeTurn(c) \/ LoadAtHead(c) \/ LoadMerging(c) \/ NothingToImport(c) \/ Import(c)
                 \/ IntegrateFastForward(c) \/ IntegrateRebase(c)
        BY <1>0, <4>4, CallAfter DEF Becomes
      <4>5. CASE Read(c) \/ CheckpointCall(c) \/ IntegrateOutOfScope(c) \/ Mirror(c) \/ MirrorFails(c)
        <5>1. Return(c)
          BY <4>5 DEF Read, CheckpointCall, IntegrateOutOfScope, Mirror, MirrorFails
        <5> QED BY <1>0, <5>1, CallAfter DEF Becomes
      <4> QED BY <1>4, <4>1, <4>2, <4>3, <4>4, <4>5 DEF Step
    <3> QED BY <1>0, <2>1, <3>1, <3>2 DEF FreshInv
  <2>3. ASSUME mishaps' = 0 PROVE TurnInv'
    <3>1. TurnInv /\ ~MirrorFails(c) /\ ~CancelSubmission(c)
      BY <1>0, <1>4, <2>3, NoMishaps DEF VcsNext, AloneInv
    <3>2. ASSUME NEW kind, NEW arg, Begin(c, kind, arg) PROVE TurnInv'
      <4>1. Becomes(c, IF kind = "integrate" THEN "queued" ELSE "called",
                    kind, calls[c].op, calls[c].target) /\ turn' = turn
        BY <1>0, <3>2, CallAfter DEF Begin
      <4> QED BY <2>1, <3>1, <4>1 DEF TurnInv, Becomes, UnderWay
    <3>3. CASE TakeTurn(c)
      <4>1. turn = None /\ turn' = c
        BY <3>3 DEF TakeTurn
      <4> QED BY <2>1, <3>1, <4>1, CallersAssumption DEF TurnInv, UnderWay
    <3>4. CASE LoadAtHead(c) \/ LoadMerging(c) \/ NothingToImport(c) \/ Import(c)
      <4>1. turn' = turn /\ UnderWay(c) /\ calls'[c].kind = calls[c].kind
        BY <1>0, <3>4, CallAfter DEF LoadAtHead, LoadMerging, NothingToImport, Import, Becomes,
             UnderWay
      <4> QED BY <2>1, <3>1, <4>1, TurnsStay
    <3>5. CASE IntegrateFastForward(c) \/ IntegrateRebase(c)
      <4>1. turn' = turn /\ UnderWay(c) /\ calls'[c].kind = calls[c].kind
        BY <1>0, <3>5, CallAfter DEF IntegrateFastForward, IntegrateRebase, Becomes, UnderWay
      <4> QED BY <2>1, <3>1, <4>1, TurnsStay
    <3>6. ASSUME NEW x, calls' = [calls EXCEPT ![c].pc = "mirroring", ![c].target = x],
                 calls[c].pc = "ready", turn' = turn
          PROVE  TurnInv'
      <4>1. UnderWay(c) /\ calls'[c].kind = calls[c].kind
        BY <1>0, <3>6 DEF CallShape, CallFields, UnderWay
      <4> QED BY <2>1, <3>1, <3>6, <4>1, TurnsStay
    <3>7. ASSUME Return(c) PROVE TurnInv'
      <4>1. Becomes(c, "done", calls[c].kind, calls[c].op, calls[c].target)
        BY <1>0, <3>7, CallAfter
      <4>2. calls'[c].kind = calls[c].kind /\ ~UnderWay(c)'
        BY <4>1 DEF Becomes, UnderWay
      <4>3. turn' = turn \/ (turn = c /\ turn' = None)
        BY <3>7 DEF Return
      <4> QED BY <2>1, <3>1, <4>2, <4>3, TurnsStay
    <3>8. CASE CommitCall(c) \/ RestoreCall(c)
      <4>1. \/ /\ \E x : calls' = [calls EXCEPT ![c].pc = "mirroring", ![c].target = x]
               /\ calls[c].pc = "ready" /\ turn' = turn
            \/ Return(c)
        BY <3>8 DEF CommitCall, RestoreCall
      <4> QED BY <3>6, <3>7, <4>1
    <3>9. CASE Read(c) \/ CheckpointCall(c) \/ IntegrateOutOfScope(c) \/ Mirror(c)
      BY <3>7, <3>9 DEF Read, CheckpointCall, IntegrateOutOfScope, Mirror
    <3> QED BY <1>4, <3>1, <3>2, <3>3, <3>4, <3>5, <3>8, <3>9 DEF Step
  <2> QED BY <2>2, <2>3 DEF AloneInv
<1> QED BY <1>1, <1>2, <1>3, <1>4 DEF VcsNext

LEMMA InitAlone == VcsInit => AloneInv
<1> SUFFICES ASSUME VcsInit PROVE AloneInv
  OBVIOUS
<1>1. LogInv
  BY InitLog
<1>2. mishaps = 0 /\ \A c \in Callers : calls[c].kind = "none" /\ calls[c].pc = "idle"
  BY DEF VcsInit
<1> QED BY <1>1, <1>2 DEF AloneInv, LogInv, FreshInv, TurnInv, UnderWay

-----------------------------------------------------------------------------
(* VcsEngine: commits of one parent *)

\* No commit has two parents.
Tree(cs) == \A c \in DOMAIN cs : \A p, q \in cs[c].parents : p = q

\* One of the two is built on the other; no commit is below every commit.
OnLine(cs, x, y) == x = None \/ y = None \/ x \in cs[y].anc \/ y \in cs[x].anc

\* Without merge commits, what two commits have below a third is on one line.
LEMMA Comparable ==
  ASSUME NEW cs, WellFormed(cs), Tree(cs), NEW z \in DOMAIN cs,
         NEW x \in cs[z].anc, NEW y \in cs[z].anc
  PROVE  x \in cs[y].anc \/ y \in cs[x].anc
<1> DEFINE P(c) == \A a, b \in cs[c].anc : a \in cs[b].anc \/ b \in cs[a].anc
           T == {c \in DOMAIN cs : ~P(c)}
<1> SUFFICES T = {}
  OBVIOUS
<1> SUFFICES ASSUME T # {} PROVE FALSE
  OBVIOUS
<1>1. DOMAIN cs \subseteq Nat
  BY GraphShape
<1>2. PICK c \in T : \A d \in T : c <= d
  <2>1. T \subseteq Nat
    BY <1>1
  <2> HIDE DEF T
  <2> QED BY <2>1, HasLeast
<1>3. PICK a, b \in cs[c].anc : ~(a \in cs[b].anc \/ b \in cs[a].anc)
  BY <1>2
<1>4. a # c /\ b # c
  BY <1>3
<1>5. PICK p \in cs[c].parents : a \in cs[p].anc
  BY <1>2, <1>4, GraphShape
<1>6. PICK q \in cs[c].parents : b \in cs[q].anc
  BY <1>2, <1>4, GraphShape
<1>7. p = q
  BY <1>2 DEF Tree
<1>8. p \in DOMAIN cs /\ p < c
  BY <1>2, GraphShape
<1>9. ~P(p)
  BY <1>3, <1>5, <1>6, <1>7
<1>10. c <= p
  BY <1>2, <1>8, <1>9
<1> QED BY <1>1, <1>2, <1>8, <1>10

\* What is built on something off the line of m is off that line as well.
LEMMA OffLineAbove ==
  ASSUME NEW cs, WellFormed(cs), Tree(cs), NEW m \in DOMAIN cs \cup {None},
         NEW b \in DOMAIN cs, NEW a \in cs[b].anc, ~OnLine(cs, a, m)
  PROVE  ~OnLine(cs, b, m)
<1> SUFFICES ASSUME OnLine(cs, b, m) PROVE FALSE
  OBVIOUS
<1>1. m # None /\ m \in DOMAIN cs /\ a # None /\ b # None
  BY NoCommitAssumption, GraphShape DEF OnLine
<1>2. CASE b \in cs[m].anc
  <2>1. a \in cs[m].anc
    BY <1>1, <1>2, GraphShape
  <2> QED BY <2>1 DEF OnLine
<1>3. CASE m \in cs[b].anc
  BY <1>3, Comparable DEF OnLine
<1> QED BY <1>1, <1>2, <1>3 DEF OnLine

LEMMA TreeWithCommit ==
  ASSUME NEW cs, NEW ds, Tree(cs), NEW parents, NEW change, NEW edits,
         OneMore(ds, cs, parents, change, edits), \A p, q \in parents : p = q
  PROVE  Tree(ds)
  BY DEF OneMore, Extends, Tree

\* No commit moves to several places.
Slim(cs, acc) ==
  /\ Tree(acc.cs)
  /\ \A c \in DOMAIN cs : \A p, q \in acc.map[c] : p = q

LEMMA MoveCommitSlim ==
  ASSUME NEW cs, WellFormed(cs), Tree(cs), NEW acc, RewriteSound(cs, acc), Slim(cs, acc),
         NEW gone, NEW moving, moving \cap gone = {}, NEW new, new \subseteq DOMAIN cs,
         \A d \in gone : \A p, q \in Successors(cs, new, d) : p = q,
         NEW c \in DOMAIN cs
  PROVE  Slim(cs, MoveCommit(cs, gone, moving, new, acc, c))
<1>1. PICK onto, after : /\ onto = UNION {acc.map[p] : p \in cs[c].parents}
                         /\ after = MoveCommit(cs, gone, moving, new, acc, c)
  OBVIOUS
<1>2. /\ WellFormed(acc.cs) /\ Extends(acc.cs, cs) /\ DOMAIN acc.map = DOMAIN cs
      /\ \A d \in DOMAIN cs : acc.map[d] \subseteq DOMAIN acc.cs
      /\ acc = [cs |-> acc.cs, map |-> acc.map]
      /\ cs[c].parents \subseteq DOMAIN cs
  BY GraphShape DEF RewriteSound
<1>3. onto \subseteq DOMAIN acc.cs /\ \A p, q \in onto : p = q
  <2>1. \A p, q \in cs[c].parents : p = q
    BY DEF Tree
  <2> QED BY <1>1, <1>2, <2>1 DEF Slim
<1>4. CASE c \in moving /\ onto # cs[c].parents
  <2>1. after = [cs |-> Rebase(acc.cs, c, onto), map |-> [acc.map EXCEPT ![c] = {Len(acc.cs) + 1}]]
    BY <1>1, <1>4 DEF MoveCommit
  <2>2. PICK as, ds : as = acc.cs /\ ds = Rebase(as, c, onto)
    OBVIOUS
  <2>3. WellFormed(as) /\ c \in DOMAIN as /\ onto \subseteq DOMAIN as /\ Tree(as)
    BY <1>2, <1>3, <2>2 DEF Extends, Slim
  <2>4. OneMore(ds, as, onto, as[c].change, ds[Len(as) + 1].edits)
    BY ONLY <2>2, <2>3, RebaseKeeps, ZenonT(30)
  <2>5. Tree(ds)
    <3>1. PICK change, edits : change = as[c].change /\ edits = ds[Len(as) + 1].edits
      OBVIOUS
    <3>2. OneMore(ds, as, onto, change, edits)
      BY <2>4, <3>1
    <3>3. Tree(as) /\ \A p, q \in onto : p = q
      BY <1>3, <2>3
    <3> QED BY ONLY <3>2, <3>3 DEF OneMore, Extends, Tree
  <2> QED BY <1>1, <1>2, <2>1, <2>2, <2>5 DEF Slim
<1>5. CASE c \in gone
  <2>1. PICK now : now = IF Successors(cs, new, c) = {} THEN onto ELSE Successors(cs, new, c)
    OBVIOUS
  <2>2. after = [acc EXCEPT !.map[c] = now]
    <3>1. c \notin moving
      BY <1>5
    <3> QED BY <1>1, <1>5, <2>1, <3>1 DEF MoveCommit
  <2>3. after = [cs |-> acc.cs, map |-> [acc.map EXCEPT ![c] = now]]
    BY <1>2, <2>2
  <2>4. \A p, q \in now : p = q
    BY <1>3, <1>5, <2>1
  <2> QED BY <1>1, <1>2, <2>3, <2>4 DEF Slim
<1>6. CASE c \notin gone /\ (c \notin moving \/ onto = cs[c].parents)
  BY <1>1, <1>6 DEF MoveCommit
<1> QED BY <1>4, <1>5, <1>6

LEMMA MoveAllSlim ==
  ASSUME NEW cs, WellFormed(cs), Tree(cs),
         NEW gone, NEW moving, moving \cap gone = {}, NEW new, new \subseteq DOMAIN cs,
         \A d \in gone : \A p, q \in Successors(cs, new, d) : p = q
  PROVE  Slim(cs, MoveAll(cs, gone, moving, new))
<1>1. Len(cs) \in Nat /\ DOMAIN cs = 1 .. Len(cs)
  BY StoreShape
<1>2. PICK moved : moved = Moved(cs, gone, moving, new)
  OBVIOUS
<1>3. /\ moved[0] = [cs |-> cs, map |-> [d \in DOMAIN cs |-> {d}]]
      /\ \A c \in 1 .. Len(cs) : moved[c] = MoveCommit(cs, gone, moving, new, moved[c - 1], c)
  BY <1>1, <1>2, MovedIs
<1> DEFINE S == {k \in 0 .. Len(cs) : RewriteSound(cs, moved[k]) /\ Slim(cs, moved[k])}
<1>4. 0 \in S
  BY <1>1, <1>3, ExtendsItself DEF RewriteSound, Slim
<1>5. ASSUME NEW k \in 0 .. Len(cs), k < Len(cs), k \in S PROVE k + 1 \in S
  <2>1. k + 1 \in 1 .. Len(cs) /\ (k + 1) - 1 = k /\ k + 1 \in 0 .. Len(cs) /\ k + 1 \in DOMAIN cs
    BY <1>1, <1>5
  <2>2. moved[k + 1] = MoveCommit(cs, gone, moving, new, moved[k], k + 1)
    BY <1>3, <2>1
  <2>3. RewriteSound(cs, moved[k]) /\ Slim(cs, moved[k])
    BY <1>5
  <2>4. RewriteSound(cs, moved[k + 1])
    BY <2>1, <2>2, <2>3, MoveCommitKeeps
  <2>5. Slim(cs, moved[k + 1])
    BY <2>1, <2>2, <2>3, MoveCommitSlim
  <2> QED BY <2>1, <2>4, <2>5
<1>6. Len(cs) \in S
  <2> HIDE DEF S
  <2>1. \A k \in 0 .. Len(cs) : k < Len(cs) /\ k \in S => k + 1 \in S
    BY <1>5
  <2>2. \A k \in 0 .. Len(cs) : k \in S
    BY <1>1, <1>4, <2>1, CountUp
  <2> QED BY <1>1, <2>2
<1> QED BY <1>2, <1>6, MoveAllIs

\* Without merge commits, rebase_descendants makes none.
LEMMA RewriteSlim ==
  ASSUME NEW cs, WellFormed(cs), Tree(cs), NEW view, GoodView(cs, view),
         NEW lost, lost \subseteq DOMAIN cs, NEW new, new \subseteq DOMAIN cs,
         NEW r, r = RebaseDescendants(cs, view, lost, new)
  PROVE  Tree(r.cs)
<1>1. PICK gone, moving : gone = Gone(cs, lost, new) /\ moving = Moving(cs, view, lost, gone)
  OBVIOUS
<1>2. PICK end, heads : EndsAs(r, cs, view, lost, new, moving, end, heads)
  BY <1>1, RebaseDescendantsIs DEF GoodView
<1>3. moving \cap gone = {}
  BY <1>1 DEF Moving, Gone
<1>4. ASSUME NEW d \in gone, NEW p \in Successors(cs, new, d), NEW q \in Successors(cs, new, d)
      PROVE  p = q
  <2>1. Cardinality(Successors(cs, new, d)) <= 1
    BY <1>1 DEF Gone
  <2>2. Successors(cs, new, d) \subseteq 1 .. Len(cs) /\ Len(cs) \in Nat
    BY StoreShape DEF Successors
  <2> QED BY <2>1, <2>2, AtMostOne
<1>5. Slim(cs, end)
  BY <1>1, <1>2, <1>3, <1>4, MoveAllSlim DEF EndsAs
<1> QED BY <1>2, <1>5 DEF EndsAs, Slim

\* Main stays where it is when nothing is lost below it.
LEMMA MainStays ==
  ASSUME NEW cs, WellFormed(cs), NEW view, GoodView(cs, view),
         NEW lost, lost \subseteq DOMAIN cs, NEW new, new \subseteq DOMAIN cs,
         \A x \in view.main \ {None} : cs[x].anc \cap lost = {},
         NEW r, r = RebaseDescendants(cs, view, lost, new)
  PROVE  r.view.main = view.main /\ r.view.git = view.git
<1>1. PICK gone, moving : gone = Gone(cs, lost, new) /\ moving = Moving(cs, view, lost, gone)
  OBVIOUS
<1>2. PICK end, heads : EndsAs(r, cs, view, lost, new, moving, end, heads)
  BY <1>1, RebaseDescendantsIs DEF GoodView
<1>3. moving \cap gone = {} /\ moving \subseteq DOMAIN cs /\ gone \subseteq lost
  <2>1. Visible(cs, view) \subseteq DOMAIN cs
    BY GraphShape DEF Visible, GoodView
  <2> QED BY <1>1, <2>1 DEF Moving, Gone
<1>4. LookedAt(cs, gone, moving, end, Len(cs))
  BY <1>1, <1>2, <1>3, AllLookedAt DEF EndsAs
<1>5. ASSUME NEW x \in view.main
      PROVE  (IF x = None THEN {None}
              ELSE IF x \in lost \ Gone(cs, lost, new) THEN Successors(cs, new, x)
              ELSE end.map[x]) = {x}
  <2>1. SUFFICES ASSUME x # None PROVE x \notin lost /\ end.map[x] = {x}
    OBVIOUS
  <2>2. x \in DOMAIN cs /\ cs[x].anc \cap lost = {} /\ x \in cs[x].anc
    BY <2>1, GraphShape DEF GoodView
  <2>3. x \notin lost /\ x \notin gone /\ x \notin moving
    BY <1>1, <1>3, <2>2 DEF Moving
  <2> QED BY <1>4, <2>2, <2>3 DEF LookedAt
<1>6. r.view.main = view.main
  <2>1. r.view.main = UNION {IF x = None THEN {None}
                             ELSE IF x \in lost \ Gone(cs, lost, new) THEN Successors(cs, new, x)
                             ELSE end.map[x] : x \in view.main}
    BY <1>2 DEF EndsAs
  <2>2. r.view.main = UNION {{x} : x \in view.main}
    BY <1>5, <2>1
  <2> QED BY <2>2
<1> QED BY <1>2, <1>6 DEF EndsAs

\* In a larger graph what was on one line is, and nothing else of it.
LEMMA OnLineStays ==
  ASSUME NEW cs, NEW ds, WellFormed(cs), Extends(ds, cs),
         NEW x \in DOMAIN cs \cup {None}, NEW y \in DOMAIN cs \cup {None}
  PROVE  OnLine(ds, x, y) <=> OnLine(cs, x, y)
  BY DEF OnLine, Extends

-----------------------------------------------------------------------------
(* VcsEngine: the operation log of a calm queue *)

\* The hypothesis of QueueKeepsLandings.
Calm ==
  /\ mishaps = 0
  /\ \A c \in Callers : calls[c].kind \notin {"commit", "restore"}
  /\ pushed = {} \/ \A c \in Callers : calls[c].kind # "checkpoint"

\* Commit y is x or built on it; no commit is below every commit.
Under(x, y) == x = None \/ (y # None /\ x \in commits[y].anc)

MainOf(o) == AsNormal(ops[o].view.main)

\* The operation records one main.
Single(o) == ops[o].view.main = {MainOf(o)}

\* Everything published before the operation is below it.
Total(o) == ops[o].anc = 1 .. o

\* Operation o was published on r alone.
BuiltOn(o, r) == r \in DOMAIN ops /\ r < o /\ ops[o].anc = ops[r].anc \cup {o}

\* A call imports on what it loaded, and writes its own operation on that.
Shape(o) ==
  /\ o \in ops[o].anc /\ ops[o].anc \subseteq 1 .. o
  /\ ops[o].kind \in {"init", "merge", "import", "integrate", "checkpoint"}
  /\ ops[o].kind \in {"init", "merge"} => Total(o)
  /\ ops[o].kind = "import" => Single(o) /\ \E t \in DOMAIN ops : BuiltOn(o, t) /\ Total(t)
  /\ ops[o].kind \in {"integrate", "checkpoint"} =>
       Single(o) /\ \E r \in DOMAIN ops : /\ BuiltOn(o, r) /\ (Total(r) \/ ops[r].kind = "import")
                                          /\ Under(MainOf(r), MainOf(o))
  /\ ops[o].view.main = ops[o].view.git

\* A head of the log is below no other operation.
TailInv == \A h \in opHeads : \A o \in DOMAIN ops : h \in ops[o].anc => o = h

\* A submission among A rewrote commits off the line of its main, and a is one.
Cut(a, A) ==
  \E k \in A, r \in A : /\ ops[k].kind = "integrate" /\ BuiltOn(k, r)
                        /\ ~OnLine(commits, a, MainOf(r))

\* What is no longer visible was cut.
Seen(o) ==
  \A b \in ops[o].anc : \A a \in Visible(commits, ops[b].view) :
    a \in Visible(commits, ops[o].view) \/ Cut(a, ops[o].anc)

CalmLog == Tree(commits) /\ (\A o \in DOMAIN ops : Shape(o) /\ Seen(o)) /\ TailInv

\* The main of r does not move away from that of o: only a merge of what r was
\* imported on may still show a main that r has left.
InLine(o, r) ==
  \A x \in ops[o].view.main :
    \/ OnLine(commits, x, MainOf(r))
    \/ /\ Total(o) /\ r \notin ops[o].anc
       /\ \E t \in DOMAIN ops : BuiltOn(r, t) /\ Total(t) /\ x \in ops[t].view.main

LEMMA MainIs ==
  ASSUME LogShows, NEW o \in DOMAIN ops
  PROVE  /\ MainOf(o) \in Commit \cup {None} /\ (MainOf(o) # None => Single(o))
         /\ \A x : ops[o].view.main = {x} => MainOf(o) = x /\ Single(o)
<1>1. ops[o].view.main \subseteq Commit \cup {None}
  BY DEF LogShows, GoodView, Commit
<1>2. ASSUME MainOf(o) # None PROVE Single(o) /\ MainOf(o) \in ops[o].view.main
  <2>1. Cardinality(ops[o].view.main) = 1 /\ MainOf(o) = CHOOSE x \in ops[o].view.main : TRUE
    BY <1>2 DEF MainOf, AsNormal
  <2>2. \E x : ops[o].view.main = {x}
    <3>1. PICK n, S : S = ops[o].view.main /\ n = Len(commits)
      OBVIOUS
    <3>2. n \in Nat /\ Commit = 1 .. n
      BY <3>1, StoreShape DEF LogShows, Commit
    <3>3. IsFiniteSet(1 .. n)
      BY <3>2, FS_Interval
    <3>4. IsFiniteSet((1 .. n) \cup {None})
      BY <3>3, FS_AddElement
    <3>5. IsFiniteSet(S)
      BY <1>1, <3>1, <3>2, <3>4, FS_Subset
    <3>6. \E x : S = {x}
      BY <2>1, <3>1, <3>5, FS_Singleton
    <3> QED BY <3>1, <3>6
  <2> QED BY <2>1, <2>2 DEF Single
<1>3. ASSUME NEW x, ops[o].view.main = {x} PROVE MainOf(o) = x /\ Single(o)
  BY <1>3, NormalOne DEF MainOf, Single
<1> QED BY <1>1, <1>2, <1>3

\* The log and the graph have grown.
Grown ==
  /\ WellFormed(commits) /\ WellFormed(commits') /\ Extends(commits', commits)
  /\ LogShape /\ LogShape' /\ LogShows /\ LogShows'
  /\ DOMAIN ops \subseteq DOMAIN ops' /\ \A o \in DOMAIN ops : ops'[o] = ops[o]
  /\ \A o \in DOMAIN ops' \ DOMAIN ops : \A p \in DOMAIN ops : p < o

\* What the old operations say of each other stays true.
LEMMA OldStays ==
  ASSUME Grown
  PROVE  /\ \A x, y \in Commit \cup {None} : /\ OnLine(commits', x, y) <=> OnLine(commits, x, y)
                                             /\ Under(x, y)' <=> Under(x, y)
         /\ \A o \in DOMAIN ops : /\ MainOf(o)' = MainOf(o)
                                  /\ Single(o)' <=> Single(o)
                                  /\ Total(o)' <=> Total(o)
                                  /\ \A r : BuiltOn(o, r)' <=> BuiltOn(o, r)
         /\ \A o \in DOMAIN ops : Shape(o) => Shape(o)'
<1>1. \A x, y \in Commit \cup {None} : OnLine(commits', x, y) <=> OnLine(commits, x, y)
  BY OnLineStays DEF Grown, Commit
<1>2. ASSUME NEW x \in Commit \cup {None}, NEW y \in Commit \cup {None}
      PROVE  Under(x, y)' <=> Under(x, y)
  BY DEF Under, Grown, Extends, Commit
<1>3. ASSUME NEW o \in DOMAIN ops
      PROVE  MainOf(o)' = MainOf(o) /\ (Single(o)' <=> Single(o)) /\ (Total(o)' <=> Total(o))
  BY DEF Grown, MainOf, Single, Total
<1>4. ASSUME NEW o \in DOMAIN ops, NEW r PROVE BuiltOn(o, r)' <=> BuiltOn(o, r)
  <2>1. o \in Nat /\ DOMAIN ops' \subseteq Nat
    BY DEF Grown, LogShape
  <2>2. r \in DOMAIN ops' /\ r < o => r \in DOMAIN ops
    <3> SUFFICES ASSUME r \in DOMAIN ops', r < o, r \notin DOMAIN ops PROVE FALSE
      OBVIOUS
    <3>1. o < r
      BY DEF Grown
    <3> QED BY <2>1, <3>1
  <2> QED BY <2>2 DEF Grown, BuiltOn
<1>5. ASSUME NEW o \in DOMAIN ops, Shape(o) PROVE Shape(o)'
  <2>1. ops'[o] = ops[o] /\ DOMAIN ops \subseteq DOMAIN ops' /\ \A r \in DOMAIN ops : ops'[r] = ops[r]
    BY DEF Grown
  <2>2. ASSUME NEW r \in DOMAIN ops PROVE Under(MainOf(r), MainOf(o))' <=> Under(MainOf(r), MainOf(o))
    <3>1. PICK x, y : x = MainOf(r) /\ y = MainOf(o)
      OBVIOUS
    <3>2. x \in Commit \cup {None} /\ y \in Commit \cup {None}
      BY <3>1, MainIs DEF Grown
    <3>3. Under(x, y)' <=> Under(x, y)
      BY <1>2, <3>2
    <3>4. MainOf(r)' = x /\ MainOf(o)' = y
      BY <1>3, <3>1
    <3> QED BY <3>1, <3>3, <3>4 DEF Under
  <2>3. ASSUME ops[o].kind = "import"
        PROVE  Single(o)' /\ \E t \in DOMAIN ops' : BuiltOn(o, t)' /\ Total(t)'
    <3>1. PICK t \in DOMAIN ops : BuiltOn(o, t) /\ Total(t)
      BY <1>5, <2>3 DEF Shape
    <3> QED BY <1>3, <1>4, <1>5, <2>1, <2>3, <3>1 DEF Shape
  <2>4. ASSUME ops[o].kind \in {"integrate", "checkpoint"}
        PROVE  Single(o)' /\ \E r \in DOMAIN ops' :
                               /\ BuiltOn(o, r)' /\ (Total(r)' \/ ops'[r].kind = "import")
                               /\ Under(MainOf(r), MainOf(o))'
    <3>1. PICK r \in DOMAIN ops : /\ BuiltOn(o, r) /\ (Total(r) \/ ops[r].kind = "import")
                                  /\ Under(MainOf(r), MainOf(o))
      BY <1>5, <2>4 DEF Shape
    <3> QED BY <1>3, <1>4, <1>5, <2>1, <2>2, <2>4, <3>1 DEF Shape
  <2> QED BY <1>3, <1>5, <2>1, <2>3, <2>4 DEF Shape
<1> QED BY <1>1, <1>2, <1>3, <1>4, <1>5

LEMMA SeenStays ==
  ASSUME Grown
  PROVE  /\ \A A \in SUBSET DOMAIN ops, a \in Commit : Cut(a, A) => Cut(a, A)'
         /\ \A o \in DOMAIN ops : Seen(o) => Seen(o)'
         /\ \A o, r \in DOMAIN ops : InLine(o, r) => InLine(o, r)'
<1>0. \A o \in DOMAIN ops : /\ MainOf(o) \in Commit \cup {None} /\ ops'[o] = ops[o]
                            /\ ops[o].view.main \subseteq Commit \cup {None}
                            /\ ops[o].view.heads \subseteq Commit
                            /\ ops[o].anc \subseteq DOMAIN ops
  BY MainIs DEF Grown, LogShows, GoodView, LogShape, Commit
<1>1. ASSUME NEW A \in SUBSET DOMAIN ops, NEW a \in Commit, Cut(a, A) PROVE Cut(a, A)'
  <2>1. PICK k \in A, r \in A : /\ ops[k].kind = "integrate" /\ BuiltOn(k, r)
                                /\ ~OnLine(commits, a, MainOf(r))
    BY <1>1 DEF Cut
  <2>2. k \in DOMAIN ops /\ r \in DOMAIN ops
    OBVIOUS
  <2>3. PICK m : m = MainOf(r) /\ m \in Commit \cup {None}
    BY <1>0
  <2>4. ~OnLine(commits', a, m) /\ MainOf(r)' = m
    BY <2>1, <2>2, <2>3, OldStays
  <2>5. ops'[k].kind = "integrate" /\ BuiltOn(k, r)'
    BY <1>0, <2>1, <2>2, OldStays
  <2> QED BY <2>4, <2>5 DEF Cut
<1>2. ASSUME NEW o \in DOMAIN ops, Seen(o) PROVE Seen(o)'
  <2> SUFFICES ASSUME NEW b \in ops[o].anc, NEW a \in Visible(commits', ops[b].view)
               PROVE  a \in Visible(commits', ops[o].view) \/ Cut(a, ops[o].anc)'
    BY <1>0 DEF Seen
  <2>1. /\ Visible(commits', ops[b].view) = Visible(commits, ops[b].view)
        /\ Visible(commits', ops[o].view) = Visible(commits, ops[o].view)
        /\ Visible(commits, ops[b].view) \subseteq Commit
    BY <1>0, SeenTheSame DEF Grown, Commit
  <2>2. a \in Visible(commits, ops[o].view) \/ Cut(a, ops[o].anc)
    BY <1>2, <2>1 DEF Seen
  <2> QED BY <1>0, <1>1, <2>1, <2>2
<1>3. ASSUME NEW o \in DOMAIN ops, NEW r \in DOMAIN ops, InLine(o, r) PROVE InLine(o, r)'
  <2> SUFFICES ASSUME NEW x \in ops[o].view.main
               PROVE  \/ OnLine(commits', x, MainOf(r)')
                      \/ /\ Total(o)' /\ r \notin ops[o].anc
                         /\ \E t \in DOMAIN ops' : BuiltOn(r, t)' /\ Total(t)' /\ x \in ops'[t].view.main
    BY <1>0 DEF InLine
  <2>1. CASE OnLine(commits, x, MainOf(r))
    <3>1. MainOf(r)' = MainOf(r)
      BY OldStays
    <3> QED BY <1>0, <2>1, <3>1, OldStays
  <2>2. CASE /\ Total(o) /\ r \notin ops[o].anc
             /\ \E t \in DOMAIN ops : BuiltOn(r, t) /\ Total(t) /\ x \in ops[t].view.main
    <3>1. PICK t \in DOMAIN ops : BuiltOn(r, t) /\ Total(t) /\ x \in ops[t].view.main
      BY <2>2
    <3>2. Total(o)' /\ BuiltOn(r, t)' /\ Total(t)'
      BY <2>2, <3>1, OldStays
    <3>3. t \in DOMAIN ops' /\ ops'[t] = ops[t]
      BY DEF Grown
    <3> QED BY <2>2, <3>1, <3>2, <3>3
  <2> QED BY <1>3, <2>1, <2>2 DEF InLine
<1> QED BY <1>1, <1>2, <1>3

\* The new operation of a Publish.
Published(parents, kind, view) ==
  LET n == Len(ops) + 1 IN
  /\ DOMAIN ops' = DOMAIN ops \cup {n} /\ n \notin DOMAIN ops
  /\ DOMAIN ops = 1 .. Len(ops) /\ Len(ops) \in Nat
  /\ \A o \in DOMAIN ops : ops'[o] = ops[o]
  /\ ops'[n].kind = kind /\ ops'[n].view = view
  /\ ops'[n].anc = (UNION {ops[p].anc : p \in parents}) \cup {n}
  /\ opHeads' = (opHeads \ parents) \cup {n}

LEMMA PublishIs ==
  ASSUME LogShape, NEW parents, NEW kind, NEW view, Publish(parents, kind, view)
  PROVE  Published(parents, kind, view)
<1>1. PICK n, new : /\ n = Len(ops) + 1
                    /\ new = [kind |-> kind, view |-> view,
                              anc |-> (UNION {ops[p].anc : p \in parents}) \cup {n}]
  OBVIOUS
<1>2. ops' = Append(ops, new) /\ opHeads' = (opHeads \ parents) \cup {n}
  BY <1>1 DEF Publish
<1>3. /\ DOMAIN ops' = DOMAIN ops \cup {n} /\ n \notin DOMAIN ops
      /\ \A o \in DOMAIN ops : ops'[o] = ops[o]
      /\ ops'[n] = new
  BY <1>1, <1>2, AppendGrows DEF LogShape
<1>4. DOMAIN ops = 1 .. Len(ops) /\ Len(ops) \in Nat
  BY DEF LogShape
<1>5. new.kind = kind /\ new.view = view /\ new.anc = (UNION {ops[p].anc : p \in parents}) \cup {n}
  BY <1>1
<1> QED BY <1>1, <1>2, <1>3, <1>4, <1>5 DEF Published

\* The log stays calm when one operation of the right shape is published.
LEMMA PublishCalm ==
  ASSUME Grown, CalmLog, NEW parents, parents \subseteq DOMAIN ops, NEW kind, NEW view,
         Published(parents, kind, view), Tree(commits'),
         NEW n, n = Len(ops) + 1, Shape(n)', Seen(n)'
  PROVE  CalmLog'
<1>1. /\ DOMAIN ops' = DOMAIN ops \cup {n} /\ n \notin DOMAIN ops
      /\ \A o \in DOMAIN ops : ops'[o] = ops[o]
      /\ ops'[n].anc = (UNION {ops[p].anc : p \in parents}) \cup {n}
      /\ opHeads' = (opHeads \ parents) \cup {n}
  BY DEF Published
<1>2. \A o \in DOMAIN ops : ops[o].anc \subseteq DOMAIN ops
  BY DEF Grown, LogShape
<1>3. \A o \in DOMAIN ops' : Shape(o)' /\ Seen(o)'
  BY <1>1, OldStays, SeenStays DEF CalmLog
<1>4. ASSUME NEW h \in opHeads', NEW o \in DOMAIN ops', h \in ops'[o].anc PROVE o = h
  <2>1. CASE h = n
    BY <1>1, <1>2, <1>4, <2>1
  <2>2. CASE h # n
    <3>1. h \in opHeads /\ h \notin parents /\ h \in DOMAIN ops
      BY <1>1, <2>2 DEF Grown, LogShape
    <3>2. CASE o = n
      <4>1. PICK p \in parents : h \in ops[p].anc
        BY <1>1, <1>4, <2>2, <3>2
      <4>2. p = h
        BY <3>1, <4>1 DEF CalmLog, TailInv
      <4> QED BY <3>1, <4>2
    <3>3. CASE o # n
      BY <1>1, <1>4, <3>1, <3>3 DEF CalmLog, TailInv
    <3> QED BY <3>2, <3>3
  <2> QED BY <2>1, <2>2
<1> QED BY <1>3, <1>4 DEF CalmLog, TailInv

-----------------------------------------------------------------------------
(* VcsEngine: merging the heads of a calm log *)

Working(c) == calls[c].kind = "integrate" /\ calls[c].pc = "ready"

\* A submission rewrites commits, or may do so, because of the main of r.
Pinned(r) ==
  /\ r \in DOMAIN ops
  /\ \/ \E k \in DOMAIN ops : ops[k].kind = "integrate" /\ BuiltOn(k, r)
     \/ \E c \in Callers : Working(c) /\ calls[c].op = r

PinInv == \A r, o \in DOMAIN ops : Pinned(r) /\ o \notin ops[r].anc => InLine(o, r)

\* What the heads up to k have been merged to.
MergeCalm(acc, k) ==
  /\ Tree(acc.cs) /\ acc.view.main = acc.view.git
  /\ acc.anc = UNION {ops[h].anc : h \in {g \in opHeads : g <= k}}
  /\ \A x \in acc.view.main : \E h \in opHeads : h <= k /\ x \in ops[h].view.main
  /\ \A r \in acc.anc : Pinned(r) => \A x \in acc.view.main : OnLine(commits, x, MainOf(r))
  /\ \A b \in acc.anc : \A a \in Visible(commits, ops[b].view) :
       a \in Visible(acc.cs, acc.view) \/ Cut(a, acc.anc)

LEMMA MergeRefTakes ==
  ASSUME NEW cs, NEW left, NEW base, NEW right, NEW x \in MergeRef(cs, left, base, right)
  PROVE  x \in left \cup right /\ (x \in base => x \in right)
  BY DEF MergeRef

LEMMA LogOrder ==
  ASSUME LogShape, LogShows, CalmLog
  PROVE  /\ opHeads \subseteq DOMAIN ops /\ DOMAIN ops \subseteq Nat \ {0}
         /\ \A p \in DOMAIN ops : p \in ops[p].anc /\ ops[p].anc \subseteq DOMAIN ops
         /\ \A p \in DOMAIN ops : \A x \in ops[p].view.main :
              x # None => x \in DOMAIN commits /\ x \in commits[x].anc
<1>1. opHeads \subseteq DOMAIN ops /\ DOMAIN ops \subseteq Nat \ {0}
  BY DEF LogShape
<1>2. \A p \in DOMAIN ops : p \in ops[p].anc /\ ops[p].anc \subseteq DOMAIN ops
  BY DEF LogShape, CalmLog, Shape
<1>3. ASSUME NEW p \in DOMAIN ops, NEW x \in ops[p].view.main, x # None
      PROVE  x \in DOMAIN commits /\ x \in commits[x].anc
  <2>1. x \in DOMAIN commits
    BY <1>3 DEF LogShows, GoodView
  <2> QED BY <2>1, GraphShape DEF LogShows
<1> QED BY <1>1, <1>2, <1>3

\* A head of a calm log that is not the only one and not the first has been
\* written by a call, on a main of its own.
LEMMA LaterHeads ==
  ASSUME LogShape, LogShows, CalmLog, NEW f \in opHeads, NEW o \in opHeads, f < o
  PROVE  /\ ~Total(o) /\ Single(o)
         /\ \/ \E t \in DOMAIN ops : BuiltOn(o, t) /\ Total(t)
            \/ \E r, t \in DOMAIN ops : /\ BuiltOn(o, r) /\ BuiltOn(r, t) /\ Total(t)
                                        /\ Under(MainOf(r), MainOf(o))
<1>1. f \in DOMAIN ops /\ o \in DOMAIN ops /\ DOMAIN ops \subseteq Nat \ {0}
  BY DEF LogShape
<1>2. ~Total(o)
  <2> SUFFICES ASSUME Total(o) PROVE FALSE
    OBVIOUS
  <2>1. f \in ops[o].anc
    BY <1>1 DEF Total
  <2> QED BY <1>1, <2>1 DEF CalmLog, TailInv
<1>3. Shape(o)
  BY <1>1 DEF CalmLog
<1>4. CASE ops[o].kind = "import"
  BY <1>2, <1>3, <1>4 DEF Shape
<1>5. CASE ops[o].kind \in {"integrate", "checkpoint"}
  <2>1. PICK r \in DOMAIN ops : /\ BuiltOn(o, r) /\ (Total(r) \/ ops[r].kind = "import")
                                /\ Under(MainOf(r), MainOf(o))
    BY <1>3, <1>5 DEF Shape
  <2>2. Single(o)
    BY <1>3, <1>5 DEF Shape
  <2>3. CASE Total(r)
    BY <1>2, <2>1, <2>2, <2>3
  <2>4. CASE ops[r].kind = "import"
    <3>1. PICK t \in DOMAIN ops : BuiltOn(r, t) /\ Total(t)
      BY <2>4 DEF CalmLog, Shape
    <3> QED BY <1>2, <2>1, <2>2, <3>1
  <2> QED BY <2>1, <2>3, <2>4
<1> QED BY <1>2, <1>3, <1>4, <1>5 DEF Shape

\* A main that all but "r" has left is not in the merge with the head of "r".
LEMMA LeftForGood ==
  ASSUME LogShape, LogShows, CalmLog, NEW k, NEW acc, MergeCalm(acc, k),
         NEW f \in opHeads, f <= k, k \in Nat, NEW o \in opHeads, k < o,
         NEW h \in opHeads, h <= k, Total(h),
         NEW r \in ops[o].anc, r \notin acc.anc,
         NEW t \in DOMAIN ops, BuiltOn(r, t), Total(t),
         NEW x \in ops[t].view.main,
         NEW cs, x \in MergeRef(cs, acc.view.main, ops[Max(acc.anc \cap ops[o].anc)].view.main,
                                ops[o].view.main)
  PROVE  OnLine(commits, x, MainOf(r))
<1>1. /\ h \in DOMAIN ops /\ o \in DOMAIN ops /\ r \in DOMAIN ops /\ DOMAIN ops \subseteq Nat \ {0}
      /\ \A p \in DOMAIN ops : p \in ops[p].anc /\ ops[p].anc \subseteq DOMAIN ops
  BY LogOrder
<1>2. \A p \in DOMAIN ops : h \in ops[p].anc => p = h
  BY DEF CalmLog, TailInv
<1>3. ops[h].anc = 1 .. h /\ 1 .. h \subseteq acc.anc
  BY <1>1 DEF Total, MergeCalm
<1>4. \A p \in DOMAIN ops : Total(p) /\ p # h => p < h
  <2> SUFFICES ASSUME NEW p \in DOMAIN ops, Total(p), p # h, ~(p < h) PROVE FALSE
    OBVIOUS
  <2>1. h \in ops[p].anc
    BY <1>1 DEF Total
  <2> QED BY <1>2, <2>1
<1>5. h # o /\ h < o
  BY <1>1
<1>6. \A p, q \in DOMAIN ops : BuiltOn(p, q) /\ Total(q) /\ p # h => ops[p].anc \subseteq acc.anc \cup {p}
  <2> SUFFICES ASSUME NEW p \in DOMAIN ops, NEW q \in DOMAIN ops, BuiltOn(p, q), Total(q), p # h
               PROVE  ops[p].anc \subseteq acc.anc \cup {p}
    OBVIOUS
  <2>1. q # h
    <3>1. q \in ops[p].anc
      BY <1>1 DEF BuiltOn
    <3> QED BY <1>2, <3>1
  <2>2. q < h /\ ops[p].anc = (1 .. q) \cup {p}
    BY <1>4, <2>1 DEF Total, BuiltOn
  <2>3. 1 .. q \subseteq 1 .. h
    BY <1>1, <2>2
  <2> QED BY <1>3, <2>2, <2>3
<1>7. r # h
  BY <1>1, <1>3
<1>8. Single(o) /\ (r = o \/ (BuiltOn(o, r) /\ Under(MainOf(r), MainOf(o))))
  <2>1. CASE \E q \in DOMAIN ops : BuiltOn(o, q) /\ Total(q)
    <3>1. ops[o].anc \subseteq acc.anc \cup {o}
      BY <1>1, <1>5, <1>6, <2>1
    <3>2. r = o
      BY <3>1
    <3> QED BY <1>1, <3>2, LaterHeads
  <2>2. ASSUME NEW s \in DOMAIN ops, NEW q \in DOMAIN ops, BuiltOn(o, s), BuiltOn(s, q), Total(q),
               Under(MainOf(s), MainOf(o))
        PROVE  r = o \/ (BuiltOn(o, r) /\ Under(MainOf(r), MainOf(o)))
    <3>1. ops[s].anc \subseteq acc.anc \cup {s}
      <4>1. CASE s = h
        BY <1>3, <4>1
      <4>2. CASE s # h
        BY <1>6, <2>2, <4>2
      <4> QED BY <4>1, <4>2
    <3>2. ops[o].anc = ops[s].anc \cup {o}
      BY <2>2 DEF BuiltOn
    <3>3. r = o \/ r = s
      BY <3>1, <3>2
    <3> QED BY <2>2, <3>3
  <2>3. f < o
    BY <1>1 DEF LogShape
  <2>4. /\ Single(o)
        /\ \/ \E q \in DOMAIN ops : BuiltOn(o, q) /\ Total(q)
           \/ \E s, q \in DOMAIN ops : /\ BuiltOn(o, s) /\ BuiltOn(s, q) /\ Total(q)
                                       /\ Under(MainOf(s), MainOf(o))
    BY <2>3, LaterHeads
  <2> QED BY <2>1, <2>2, <2>4
<1>9. /\ ops[r].anc = (1 .. t) \cup {r} /\ 1 .. t \subseteq acc.anc
      /\ ops[o].anc = (1 .. t) \cup {r, o} /\ o \notin acc.anc /\ t \in 1 .. t
  <2>1. ops[r].anc = (1 .. t) \cup {r}
    BY DEF BuiltOn, Total
  <2>2. 1 .. t \subseteq acc.anc
    <3>1. t # h
      <4>1. t \in ops[r].anc
        BY <1>1 DEF BuiltOn
      <4> QED BY <1>1, <1>2, <1>7, <4>1
    <3>2. t < h
      BY <1>4, <3>1
    <3>3. 1 .. t \subseteq 1 .. h
      BY <1>1, <3>2
    <3> QED BY <1>3, <3>3
  <2>3. ops[o].anc = (1 .. t) \cup {r, o}
    BY <1>8, <2>1 DEF BuiltOn
  <2>4. o \notin acc.anc
    <3> SUFFICES ASSUME o \in acc.anc PROVE FALSE
      OBVIOUS
    <3>1. PICK g \in opHeads : g <= k /\ o \in ops[g].anc
      BY DEF MergeCalm
    <3>2. g = o /\ g \in Nat
      BY <1>1, <3>1 DEF CalmLog, TailInv, LogShape
    <3> QED BY <3>1, <3>2
  <2> QED BY <1>1, <2>1, <2>2, <2>3, <2>4
<1>10. Max(acc.anc \cap ops[o].anc) = t
  <2>1. PICK B : B = acc.anc \cap ops[o].anc
    OBVIOUS
  <2>2. B = 1 .. t /\ t \in Nat \ {0}
    BY <1>1, <1>9, <2>1
  <2>3. \A y \in 1 .. t : y \in Nat /\ y <= t /\ t >= y
    BY <2>2
  <2>4. t \in B /\ \A y \in B : t >= y
    BY <1>9, <2>2, <2>3
  <2>5. \A z \in B : (\A y \in B : z >= y) => z = t
    BY <2>2, <2>3, <2>4
  <2>6. Max(B) = CHOOSE z \in B : \A y \in B : z >= y
    BY DEF Max
  <2> QED BY <2>1, <2>4, <2>5, <2>6
<1>11. x \in ops[o].view.main
  BY <1>10, MergeRefTakes
<1>12. x = MainOf(o)
  BY <1>8, <1>11 DEF Single
<1>13. x # None => x \in DOMAIN commits /\ x \in commits[x].anc
  BY <1>1, <1>11, LogOrder
<1> QED BY <1>8, <1>12, <1>13 DEF OnLine, Under

\* The merged main has not moved off the line of any pinned main.
LEMMA MergedInLine ==
  ASSUME LogShape, LogShows, CalmLog, PinInv, NEW k, NEW acc, MergeCalm(acc, k),
         NEW f \in opHeads, f <= k, k \in Nat, NEW o \in opHeads, k < o,
         NEW cs, NEW x \in MergeRef(cs, acc.view.main, ops[Max(acc.anc \cap ops[o].anc)].view.main,
                                    ops[o].view.main),
         NEW r \in acc.anc \cup ops[o].anc, Pinned(r)
  PROVE  OnLine(commits, x, MainOf(r))
<1>1. /\ o \in DOMAIN ops /\ r \in DOMAIN ops /\ DOMAIN ops \subseteq Nat \ {0} /\ f < o
      /\ \A p \in DOMAIN ops : p \in ops[p].anc
  BY LogOrder DEF Pinned
<1>2. x \in acc.view.main \cup ops[o].view.main
  BY MergeRefTakes
<1>3. CASE x \in ops[o].view.main
  <2>1. CASE o \in ops[r].anc
    <3>1. r = o
      BY <1>1, <2>1 DEF CalmLog, TailInv
    <3>2. x = MainOf(r)
      BY <1>1, <1>3, <3>1, LaterHeads DEF Single
    <3>3. x # None => x \in DOMAIN commits /\ x \in commits[x].anc
      BY <1>1, <1>3, LogOrder
    <3> QED BY <3>2, <3>3 DEF OnLine
  <2>2. CASE o \notin ops[r].anc
    <3>1. InLine(o, r)
      BY <1>1, <2>2 DEF PinInv
    <3>2. ~Total(o)
      BY <1>1, LaterHeads
    <3> QED BY <1>3, <3>1, <3>2 DEF InLine
  <2> QED BY <2>1, <2>2
<1>4. CASE x \in acc.view.main
  <2>1. CASE r \in acc.anc
    BY <1>4, <2>1 DEF MergeCalm
  <2>2. CASE r \notin acc.anc
    <3>1. PICK h \in opHeads : h <= k /\ x \in ops[h].view.main
      BY <1>4 DEF MergeCalm
    <3>2. h \in DOMAIN ops /\ ops[h].anc \subseteq acc.anc
      BY <3>1 DEF LogShape, MergeCalm
    <3>3. h \notin ops[r].anc
      BY <1>1, <2>2, <3>2 DEF CalmLog, TailInv
    <3>4. InLine(h, r)
      BY <1>1, <3>2, <3>3 DEF PinInv
    <3>5. CASE OnLine(commits, x, MainOf(r))
      BY <3>5
    <3>6. CASE /\ Total(h) /\ r \notin ops[h].anc
               /\ \E t \in DOMAIN ops : BuiltOn(r, t) /\ Total(t) /\ x \in ops[t].view.main
      <4>1. PICK t \in DOMAIN ops : BuiltOn(r, t) /\ Total(t) /\ x \in ops[t].view.main
        BY <3>6
      <4>2. r \in ops[o].anc
        BY <2>2
      <4> QED BY <2>2, <3>1, <3>6, <4>1, <4>2, LeftForGood
    <3> QED BY <3>1, <3>4, <3>5, <3>6 DEF InLine
  <2> QED BY <2>1, <2>2
<1> QED BY <1>2, <1>3, <1>4

\* A merge is a rewrite of what the views have in common, main and the git ref
\* merged first.
LEMMA MergeIsRewrite ==
  ASSUME NEW cs, WellFormed(cs), NEW left, NEW base, NEW right,
         GoodView(cs, left), GoodView(cs, base), GoodView(cs, right),
         NEW lost, lost = (Visible(cs, base) \ Visible(cs, left))
                            \cup (Visible(cs, base) \ Visible(cs, right)),
         NEW r, r = MergeViews(cs, left, base, right)
  PROVE  \E view, new :
           /\ GoodView(cs, view) /\ lost \subseteq DOMAIN cs /\ new \subseteq DOMAIN cs
           /\ view.main = MergeRef(cs, left.main, base.main, right.main)
           /\ view.git = MergeRef(cs, left.git, base.git, right.git)
           /\ r = RebaseDescendants(cs, view, lost, new)
<1>1. PICK VL, VB, VR : VL = Visible(cs, left) /\ VB = Visible(cs, base) /\ VR = Visible(cs, right)
  OBVIOUS
<1>2. PICK new : new = (VL \ VB) \cup (VR \ VB)
  OBVIOUS
<1>3. PICK tops : tops = (left.heads \ (base.heads \ right.heads)) \cup (right.heads \ base.heads)
  OBVIOUS
<1>4. PICK view : view = [heads |-> HeadsOf(cs, tops),
                          main |-> MergeRef(cs, left.main, base.main, right.main),
                          git |-> MergeRef(cs, left.git, base.git, right.git)]
  OBVIOUS
<1>5. r = RebaseDescendants(cs, view, lost, new)
  BY <1>1, <1>2, <1>3, <1>4 DEF MergeViews
<1>6. VL \subseteq DOMAIN cs /\ VB \subseteq DOMAIN cs /\ VR \subseteq DOMAIN cs
  BY <1>1, GraphShape DEF GoodView, Visible
<1>7. tops \subseteq DOMAIN cs
  BY <1>3 DEF GoodView
<1>8. /\ view.heads = HeadsOf(cs, tops) /\ view.main = MergeRef(cs, left.main, base.main, right.main)
      /\ view.git = MergeRef(cs, left.git, base.git, right.git)
      /\ view = [heads |-> view.heads, main |-> view.main, git |-> view.git]
  BY <1>4
<1>9. GoodView(cs, view)
  <2>1. view.heads \subseteq DOMAIN cs /\ Antichain(cs, view.heads)
    BY <1>7, <1>8, HeadsAreApart
  <2>2. view.main \subseteq DOMAIN cs \cup {None}
    BY <1>8, MergeRefWithin DEF GoodView
  <2> QED BY <1>8, <2>1, <2>2 DEF GoodView
<1>10. lost \subseteq DOMAIN cs /\ new \subseteq DOMAIN cs
  BY <1>1, <1>2, <1>6
<1> QED BY <1>5, <1>8, <1>9, <1>10

\* What is built on a commit that was cut was cut.
LEMMA CutAbove ==
  ASSUME LogShows, CalmLog, NEW A, A \subseteq DOMAIN ops,
         NEW b \in Commit, NEW a \in commits[b].anc, Cut(a, A)
  PROVE  Cut(b, A)
<1>1. PICK k \in A, r \in A : /\ ops[k].kind = "integrate" /\ BuiltOn(k, r)
                              /\ ~OnLine(commits, a, MainOf(r))
  BY DEF Cut
<1>2. MainOf(r) \in DOMAIN commits \cup {None}
  BY MainIs DEF Commit
<1>3. ~OnLine(commits, b, MainOf(r))
  BY <1>1, <1>2, OffLineAbove DEF LogShows, CalmLog, Commit
<1> QED BY <1>1, <1>3 DEF Cut

LEMMA CutMore == \A a, A, B : Cut(a, A) /\ A \subseteq B => Cut(a, B)
  BY DEF Cut

\* One more head: main is merged and stays, and what is lost from sight was cut.
LEMMA MergeInCalm ==
  ASSUME LogShape, LogShows, CalmLog, PinInv, NEW k, NEW acc, MergeShown(acc), MergeCalm(acc, k),
         NEW f \in opHeads, f <= k, k \in Nat, k + 1 \in opHeads
  PROVE  MergeCalm(MergeIn(acc, k + 1), k + 1)
<1>0. PICK o : o = k + 1
  OBVIOUS
<1>1. /\ o \in opHeads /\ o \in DOMAIN ops /\ k < o /\ DOMAIN ops \subseteq Nat \ {0}
      /\ opHeads \subseteq DOMAIN ops /\ ops[o].anc \subseteq DOMAIN ops
      /\ acc.anc \subseteq DOMAIN ops
  BY <1>0, LogOrder DEF MergeShown
<1>2. PICK cs, left, anc : cs = acc.cs /\ left = acc.view /\ anc = acc.anc
  OBVIOUS
<1>3. PICK B, base : B = anc \cap ops[o].anc /\ base = Max(B)
  OBVIOUS
<1>4. base \in B
  <2>1. 1 \in B /\ B \subseteq 1 .. Len(ops) /\ Len(ops) \in Nat
    BY <1>1, <1>2, <1>3 DEF MergeShown, LogShows, LogShape
  <2>2. \E x \in B : \A y \in B : y <= x
    BY <2>1, HasGreatest
  <2>3. \E x \in B : \A y \in B : x >= y
    BY <2>1, <2>2
  <2> QED BY <1>3, <2>3 DEF Max
<1>5. PICK down, right : down = ops[base].view /\ right = ops[o].view
  OBVIOUS
<1>6. PICK r, after : r = MergeViews(cs, left, down, right) /\ after = MergeIn(acc, o)
  OBVIOUS
<1>7. after.cs = r.cs /\ after.view = r.view /\ after.anc = anc \cup ops[o].anc
  BY <1>2, <1>3, <1>5, <1>6 DEF MergeIn
<1>8. /\ base \in DOMAIN ops /\ base \in anc /\ base \in ops[o].anc
      /\ WellFormed(commits) /\ WellFormed(cs) /\ Extends(cs, commits) /\ Tree(cs) /\ Tree(commits)
      /\ left.main = left.git /\ down.main = down.git /\ right.main = right.git
  BY <1>1, <1>2, <1>3, <1>4, <1>5 DEF MergeShown, LogShows, MergeCalm, CalmLog, Shape
<1>9. /\ \A b \in DOMAIN ops : GoodView(commits, ops[b].view) /\ GoodView(cs, ops[b].view)
      /\ GoodView(cs, left) /\ GoodView(cs, down) /\ GoodView(cs, right)
  <2>1. \A b \in DOMAIN ops : GoodView(commits, ops[b].view) /\ GoodView(cs, ops[b].view)
    BY <1>8, GoodViewStays DEF LogShows
  <2> QED BY <1>1, <1>2, <1>5, <1>8, <2>1 DEF MergeShown
<1>10. PICK lost : lost = (Visible(cs, down) \ Visible(cs, left))
                            \cup (Visible(cs, down) \ Visible(cs, right))
  OBVIOUS
<1>11. PICK view, new :
         /\ GoodView(cs, view) /\ lost \subseteq DOMAIN cs /\ new \subseteq DOMAIN cs
         /\ view.main = MergeRef(cs, left.main, down.main, right.main)
         /\ view.git = MergeRef(cs, left.git, down.git, right.git)
         /\ r = RebaseDescendants(cs, view, lost, new)
  BY <1>6, <1>8, <1>9, <1>10, MergeIsRewrite
<1>12. \A b \in DOMAIN ops : /\ Visible(cs, ops[b].view) = Visible(commits, ops[b].view)
                             /\ Visible(commits, ops[b].view) \subseteq Commit
  BY <1>8, <1>9, SeenTheSame DEF GoodView, Commit
<1>13. \A a \in lost : Cut(a, after.anc) /\ a \in Commit
  <2> TAKE a \in lost
  <2>1. a \in Visible(commits, down) /\ a \in Commit
    BY <1>5, <1>8, <1>10, <1>12
  <2>2. CASE a \notin Visible(cs, left)
    <3>1. Cut(a, anc)
      BY <1>2, <1>5, <1>8, <2>1, <2>2 DEF MergeCalm
    <3> QED BY <1>7, <2>1, <3>1, CutMore
  <2>3. CASE a \notin Visible(cs, right)
    <3>1. a \notin Visible(commits, right)
      BY <1>1, <1>5, <1>12, <2>3
    <3>2. Cut(a, ops[o].anc)
      BY <1>1, <1>5, <1>8, <2>1, <3>1 DEF CalmLog, Seen
    <3> QED BY <1>7, <2>1, <3>2, CutMore
  <2> QED BY <1>10, <2>2, <2>3
<1>14. \A q \in after.anc : Pinned(q) => \A x \in view.main : OnLine(commits, x, MainOf(q))
  <2>1. \A x \in view.main : x \in MergeRef(cs, acc.view.main,
                                           ops[Max(acc.anc \cap ops[o].anc)].view.main,
                                           ops[o].view.main)
    BY <1>2, <1>3, <1>5, <1>11
  <2> QED BY <1>1, <1>2, <1>7, <2>1, MergedInLine
<1>15. \A x \in view.main : \E h \in opHeads : h <= o /\ x \in ops[h].view.main
  <2> TAKE x \in view.main
  <2>1. x \in left.main \cup right.main
    BY <1>11, MergeRefTakes
  <2>2. CASE x \in right.main
    BY <1>1, <1>5, <2>2
  <2>3. CASE x \in left.main
    <3>1. PICK h \in opHeads : h <= k /\ x \in ops[h].view.main
      BY <1>2, <2>3 DEF MergeCalm
    <3>2. h <= o
      BY <1>1, <3>1
    <3> QED BY <3>1, <3>2
  <2> QED BY <2>1, <2>2, <2>3
<1>16. \A x \in view.main : x # None => x \in Commit
  <2> TAKE x \in view.main
  <2>1. PICK h \in opHeads : x \in ops[h].view.main
    BY <1>15
  <2> QED BY <1>1, <1>9, <2>1 DEF GoodView, Commit
<1>17. r.view.main = view.main /\ r.view.git = view.git
  <2>1. ASSUME NEW x \in view.main \ {None}, NEW a \in cs[x].anc \cap lost PROVE FALSE
    <3>1. x \in Commit /\ cs[x] = commits[x] /\ a \in commits[x].anc
      BY <1>8, <1>16, <2>1 DEF Extends, Commit
    <3>2. Cut(x, after.anc)
      <4>1. after.anc \subseteq DOMAIN ops
        BY <1>1, <1>2, <1>7
      <4> QED BY <1>13, <3>1, <4>1, CutAbove
    <3>3. PICK j \in after.anc, q \in after.anc : /\ ops[j].kind = "integrate" /\ BuiltOn(j, q)
                                                 /\ ~OnLine(commits, x, MainOf(q))
      BY <3>2 DEF Cut
    <3>4. Pinned(q)
      BY <1>1, <1>2, <1>7, <3>3 DEF Pinned
    <3> QED BY <1>14, <2>1, <3>3, <3>4
  <2>2. \A x \in view.main \ {None} : cs[x].anc \cap lost = {}
    BY <2>1
  <2> QED BY <1>8, <1>11, <2>2, MainStays
<1>18. Tree(r.cs)
  BY <1>8, <1>11, RewriteSlim
<1>19. ASSUME NEW b \in after.anc, NEW a \in Visible(commits, ops[b].view)
       PROVE  a \in Visible(r.cs, r.view) \/ Cut(a, after.anc)
  <2>1. b \in DOMAIN ops /\ a \in Commit /\ a \in DOMAIN cs
    BY <1>1, <1>2, <1>7, <1>8, <1>12, <1>19 DEF Extends, Commit
  <2>2. SUFFICES ASSUME ~Cut(a, after.anc) PROVE a \in Visible(r.cs, r.view)
    OBVIOUS
  <2>3. a \in Visible(cs, left) \cup Visible(cs, right)
    <3>1. CASE b \in anc
      <4>1. a \in Visible(cs, left) \/ Cut(a, anc)
        BY <1>2, <1>19, <3>1 DEF MergeCalm
      <4> QED BY <1>7, <2>2, <4>1, CutMore
    <3>2. CASE b \in ops[o].anc
      <4>1. a \in Visible(commits, right) \/ Cut(a, ops[o].anc)
        BY <1>1, <1>5, <1>19, <3>2 DEF CalmLog, Seen
      <4> QED BY <1>1, <1>5, <1>7, <1>12, <2>2, <4>1, CutMore
    <3> QED BY <1>7, <3>1, <3>2
  <2>4. a \notin lost
    BY <1>13, <2>2
  <2>5. cs[a].anc \cap lost = {}
    <3> SUFFICES ASSUME NEW g \in cs[a].anc \cap lost PROVE FALSE
      OBVIOUS
    <3>1. g \in commits[a].anc
      BY <1>8, <2>1 DEF Extends, Commit
    <3>2. after.anc \subseteq DOMAIN ops
      BY <1>1, <1>2, <1>7
    <3> QED BY <1>13, <2>1, <2>2, <3>1, <3>2, CutAbove
  <2>6. InSight(r, cs, a, cs[a].anc \cap lost = {})
    BY <1>6, <1>8, <1>9, <1>10, <2>3, <2>4, MergeKeepsSight
  <2> QED BY <2>5, <2>6 DEF InSight
<1>20. after.anc = UNION {ops[h].anc : h \in {g \in opHeads : g <= o}}
  <2>1. anc = UNION {ops[h].anc : h \in {g \in opHeads : g <= k}}
    BY <1>2 DEF MergeCalm
  <2>2. \A g \in opHeads : g <= o <=> g <= k \/ g = o
    BY <1>0, <1>1
  <2> QED BY <1>1, <1>7, <2>1, <2>2
<1>21. r.view.main = r.view.git
  BY <1>8, <1>11, <1>17
<1> QED BY <1>0, <1>6, <1>7, <1>14, <1>15, <1>17, <1>18, <1>19, <1>20, <1>21 DEF MergeCalm

\* All the heads merged.
LEMMA MergedHeadsCalm ==
  ASSUME LogShape, LogShows, CalmLog, PinInv, opHeads # {}
  PROVE  MergeCalm(MergedHeads, Len(ops))
<1>1. PICK first, last : first = Min(opHeads) /\ last = Len(ops)
  OBVIOUS
<1>2. /\ DOMAIN ops = 1 .. last /\ last \in Nat /\ opHeads \subseteq 1 .. last
  BY <1>1 DEF LogShape
<1>3. first \in opHeads /\ \A h \in opHeads : first <= h
  <2>1. opHeads \subseteq Nat
    BY <1>2
  <2>2. \E x \in opHeads : \A y \in opHeads : x <= y
    BY ONLY <2>1, opHeads # {}, HasLeast
  <2> QED BY <1>1, <2>2 DEF Min
<1>4. first \in Nat /\ first <= last /\ first \in DOMAIN ops
  BY <1>2, <1>3
<1>5. PICK merged : merged = Merging
  OBVIOUS
<1>6. /\ merged[first] = [cs |-> commits, view |-> ops[first].view, anc |-> ops[first].anc]
      /\ \A o \in (first + 1) .. last :
           merged[o] = IF o \in opHeads THEN MergeIn(merged[o - 1], o) ELSE merged[o - 1]
  BY <1>1, <1>2, <1>4, <1>5, MergingIs
<1> DEFINE Good(k) == MergeShown(merged[k]) /\ MergeCalm(merged[k], k)
           S == {k \in first .. last : Good(k)}
<1>7. first \in S
  <2>1. PICK acc : acc = merged[first]
    OBVIOUS
  <2>2. acc.cs = commits /\ acc.view = ops[first].view /\ acc.anc = ops[first].anc
    BY <1>6, <2>1
  <2>3. MergeShown(acc)
    BY <1>4, <2>2, ExtendsItself DEF MergeShown, LogShows, LogShape
  <2>4. \A h \in opHeads : h <= first <=> h = first
    BY <1>2, <1>3
  <2>5. acc.anc = UNION {ops[h].anc : h \in {g \in opHeads : g <= first}}
    BY <1>3, <2>2, <2>4
  <2>6. \A x \in acc.view.main : \E h \in opHeads : h <= first /\ x \in ops[h].view.main
    BY <1>3, <1>4, <2>2
  <2>7. ASSUME NEW r \in ops[first].anc, Pinned(r), NEW x \in ops[first].view.main
        PROVE  OnLine(commits, x, MainOf(r))
    <3>1. r \in DOMAIN ops
      BY <2>7 DEF Pinned
    <3>2. CASE first \in ops[r].anc
      <4>1. r = first
        BY <1>3, <3>1, <3>2 DEF CalmLog, TailInv
      <4>2. MainOf(first) = None \/ x = MainOf(first)
        BY <1>4, <2>7, MainIs DEF Single
      <4>3. x # None => x \in commits[x].anc
        BY <1>4, <2>7, LogOrder
      <4> QED BY <4>1, <4>2, <4>3 DEF OnLine
    <3>3. CASE first \notin ops[r].anc
      <4>1. InLine(first, r)
        BY <1>4, <2>7, <3>1, <3>3 DEF PinInv
      <4> QED BY <2>7, <4>1 DEF InLine
    <3> QED BY <3>2, <3>3
  <2>8. Tree(acc.cs) /\ acc.view.main = acc.view.git
        /\ \A b \in acc.anc : \A a \in Visible(commits, ops[b].view) :
             a \in Visible(acc.cs, acc.view) \/ Cut(a, acc.anc)
    BY <1>4, <2>2 DEF CalmLog, Shape, Seen
  <2>9. MergeCalm(acc, first)
    BY <2>2, <2>5, <2>6, <2>7, <2>8 DEF MergeCalm
  <2> QED BY <1>4, <2>1, <2>3, <2>9
<1>8. ASSUME NEW k \in first .. last, k < last, Good(k) PROVE Good(k + 1)
  <2>1. /\ k + 1 \in (first + 1) .. last /\ (k + 1) - 1 = k /\ k + 1 \in DOMAIN ops
        /\ k \in Nat /\ first <= k
    BY <1>2, <1>4, <1>8
  <2>2. PICK acc : acc = merged[k]
    OBVIOUS
  <2>3. merged[k + 1] = IF k + 1 \in opHeads THEN MergeIn(acc, k + 1) ELSE acc
    BY <1>6, <2>1, <2>2
  <2>4. MergeShown(acc) /\ MergeCalm(acc, k)
    BY <1>8, <2>2
  <2>5. CASE k + 1 \in opHeads
    <3>1. MergeShown(MergeIn(acc, k + 1))
      BY <2>1, <2>4, MergeInShows
    <3>2. MergeCalm(MergeIn(acc, k + 1), k + 1)
      BY <1>3, <2>1, <2>4, <2>5, MergeInCalm
    <3> QED BY <2>3, <2>5, <3>1, <3>2
  <2>6. CASE k + 1 \notin opHeads
    <3>1. \A h \in opHeads : h <= k + 1 <=> h <= k
      BY <1>2, <2>1, <2>6
    <3>2. MergeCalm(acc, k + 1)
      BY <2>4, <3>1 DEF MergeCalm
    <3> QED BY <2>3, <2>4, <2>6, <3>2
  <2> QED BY <2>5, <2>6
<1>9. last \in S
  <2> HIDE DEF Good
  <2>1. \A k \in first .. last : k < last /\ k \in S => k + 1 \in S
    BY <1>2, <1>4, <1>8
  <2> HIDE DEF S
  <2>2. \A k \in first .. last : k \in S
    BY <1>2, <1>4, <1>7, <2>1, CountFrom
  <2> QED BY <1>2, <1>4, <2>2
<1>10. MergedHeads = merged[last]
  BY <1>1, <1>5, MergedHeadsIs
<1> QED BY <1>1, <1>9, <1>10

-----------------------------------------------------------------------------
(* VcsEngine: the invariant of a calm queue *)

\* Every pinned main is below y.
Above(y) == \A r \in DOMAIN ops : Pinned(r) => Under(MainOf(r), y)

\* A submission has loaded p. What was published since shows a main that plain
\* git has built on, or one that p shows as well.
LoadOK(p) ==
  \A o \in DOMAIN ops : o > p =>
    \A x \in ops[o].view.main : Under(x, git) \/ (Total(o) /\ x \in ops[p].view.main)

\* A submission works on p.
WorkOK(p) ==
  /\ Above(MainOf(p)) /\ Under(MainOf(p), git) /\ Holds(MainOf(p))
  /\ pushed = {} => MainOf(p) = git

\* A submission is about to mirror y.
MirrorOK(y) == Above(y) /\ Holds(y) /\ (pushed = {} => Under(git, y))

\* What every call works on.
CallLog(d) ==
  /\ calls[d].pc = "loaded" => Total(calls[d].op)
  /\ calls[d].pc = "ready" => /\ Single(calls[d].op)
                              /\ Total(calls[d].op) \/ ops[calls[d].op].kind = "import"
  /\ calls[d].pc = "mirroring" => calls[d].kind = "integrate"

\* What a submission knows.
Holder(d) ==
  calls[d].kind = "integrate" =>
    /\ calls[d].pc = "loaded" => LoadOK(calls[d].op)
    /\ calls[d].pc = "ready" => WorkOK(calls[d].op)
    /\ calls[d].pc = "mirroring" => MirrorOK(calls[d].target)

\* Commit x is about to be mirrored.
Mirroring(x) == \E d \in Callers : calls[d].pc = "mirroring" /\ x = calls[d].target

\* Without pushes no operation is ahead of plain git but by what is mirrored.
LineOnly ==
  pushed = {} => \A o \in DOMAIN ops : \A x \in ops[o].view.main : Under(x, git) \/ Mirroring(x)

Core ==
  /\ CalmLog /\ TurnInv /\ PinInv /\ LineOnly /\ Above(git) /\ Holds(git)
  /\ \A d \in Callers : CallLog(d) /\ Holder(d)

LEMMA UnderLaws ==
  ASSUME WellFormed(commits)
  PROVE  /\ \A x \in Commit \cup {None} : Under(x, x)
         /\ \A x, y : Under(x, y) => OnLine(commits, x, y) /\ OnLine(commits, y, x)
         /\ \A x : \A y, z \in Commit \cup {None} : Under(x, y) /\ Under(y, z) => Under(x, z)
         /\ Tree(commits) => \A x, y, z \in Commit \cup {None} :
                               Under(x, z) /\ Under(y, z) => OnLine(commits, x, y)
<1>1. /\ \A c \in Commit : c \in commits[c].anc
      /\ \A c \in Commit : \A a \in commits[c].anc : commits[a].anc \subseteq commits[c].anc
  BY GraphShape DEF Commit
<1>2. \A x \in Commit \cup {None} : Under(x, x)
  BY <1>1 DEF Under
<1>3. \A x, y : Under(x, y) => OnLine(commits, x, y) /\ OnLine(commits, y, x)
  BY DEF Under, OnLine
<1>4. ASSUME NEW x, NEW y \in Commit \cup {None}, NEW z \in Commit \cup {None},
             Under(x, y), Under(y, z)
      PROVE  Under(x, z)
  BY <1>1, <1>4 DEF Under
<1>5. ASSUME Tree(commits), NEW x \in Commit \cup {None}, NEW y \in Commit \cup {None},
             NEW z \in Commit \cup {None}, Under(x, z), Under(y, z)
      PROVE  OnLine(commits, x, y)
  <2>1. CASE x = None \/ y = None
    BY <2>1 DEF OnLine
  <2>2. CASE x # None /\ y # None
    <3>1. z # None /\ x \in commits[z].anc /\ y \in commits[z].anc /\ z \in DOMAIN commits
      BY <1>5, <2>2 DEF Under, Commit
    <3> QED BY <1>5, <3>1, Comparable DEF OnLine
  <2> QED BY <2>1, <2>2
<1> QED BY <1>2, <1>3, <1>4, <1>5

\* The step pins no other main.
PinsFew == \A r : Pinned(r)' => Pinned(r)

\* A new submission is built on a pinned main.
LEMMA FewPins ==
  ASSUME Grown, CallShape,
         \A n \in DOMAIN ops' \ DOMAIN ops : \A r :
           ops'[n].kind = "integrate" /\ BuiltOn(n, r)' => Pinned(r),
         \A d \in Callers : Working(d)' => Working(d) /\ calls'[d].op = calls[d].op
  PROVE  PinsFew
<1> SUFFICES ASSUME NEW r, Pinned(r)' PROVE Pinned(r)
  BY DEF PinsFew
<1>1. ASSUME NEW k \in DOMAIN ops', ops'[k].kind = "integrate", BuiltOn(k, r)' PROVE Pinned(r)
  <2>1. CASE k \in DOMAIN ops
    <3>1. BuiltOn(k, r) /\ ops[k].kind = "integrate"
      BY <1>1, <2>1, OldStays DEF Grown
    <3> QED BY <2>1, <3>1 DEF Pinned, BuiltOn
  <2>2. CASE k \notin DOMAIN ops
    BY <1>1, <2>2
  <2> QED BY <2>1, <2>2
<1>2. ASSUME NEW d \in Callers, Working(d)', calls'[d].op = r PROVE Pinned(r)
  <2>1. Working(d) /\ calls[d].op = r
    BY <1>2
  <2> QED BY <2>1 DEF CallShape, Working, Pinned
<1> QED BY <1>1, <1>2 DEF Pinned

\* What is published is in line with the pinned mains.
PinsMet ==
  \A n \in DOMAIN ops' \ DOMAIN ops, r \in DOMAIN ops :
    Pinned(r) => \A x \in ops'[n].view.main : OnLine(commits', x, MainOf(r))

LEMMA PinsStay ==
  ASSUME Grown, PinInv, PinsFew, PinsMet
  PROVE  PinInv' /\ \A y \in Commit \cup {None} : Above(y) => Above(y)'
<1>0. \A r : Pinned(r)' => Pinned(r) /\ r \in DOMAIN ops
  BY DEF PinsFew, Pinned
<1>1. ASSUME NEW r, NEW o \in DOMAIN ops', Pinned(r)', o \notin ops'[r].anc PROVE InLine(o, r)'
  <2>1. Pinned(r) /\ r \in DOMAIN ops /\ ops'[r] = ops[r]
    BY <1>0, <1>1 DEF Grown
  <2>2. CASE o \in DOMAIN ops
    <3>1. InLine(o, r)
      BY <1>1, <2>1, <2>2 DEF PinInv
    <3> QED BY <2>1, <2>2, <3>1, SeenStays
  <2>3. CASE o \notin DOMAIN ops
    <3>1. MainOf(r)' = MainOf(r)
      BY <2>1, OldStays
    <3>2. \A x \in ops'[o].view.main : OnLine(commits', x, MainOf(r))
      BY <1>1, <2>1, <2>3 DEF PinsMet
    <3> QED BY <3>1, <3>2 DEF InLine
  <2> QED BY <2>2, <2>3
<1>2. ASSUME NEW y \in Commit \cup {None}, Above(y) PROVE Above(y)'
  <2> SUFFICES ASSUME NEW r \in DOMAIN ops', Pinned(r)' PROVE Under(MainOf(r), y)'
    BY DEF Above
  <2>1. Pinned(r) /\ r \in DOMAIN ops
    BY <1>0
  <2>2. PICK m : m = MainOf(r) /\ m \in Commit \cup {None}
    BY <2>1, MainIs DEF Grown
  <2>3. Under(m, y)
    BY <1>2, <2>1, <2>2 DEF Above
  <2>4. Under(m, y)' /\ MainOf(r)' = m
    BY <2>1, <2>2, <2>3, OldStays
  <2> QED BY <2>4
<1> QED BY <1>1, <1>2 DEF PinInv

\* Plain git moves on, or stays while nothing was pushed.
Onward ==
  /\ \A x \in Commit \cup {None} : Under(x, git) => Under(x, git)'
  /\ pushed' = {} => pushed = {} /\ git' = git

\* What is published since a submission has loaded p shows nothing else.
LoadsMet(p) ==
  \A n \in DOMAIN ops' \ DOMAIN ops : \A x \in ops'[n].view.main :
    Under(x, git)' \/ (Total(n)' /\ x \in ops[p].view.main)

LEMMA HolderStays ==
  ASSUME Grown, CallShape, SightInv, Core, PinsFew, PinsMet, Onward, landed' \subseteq landed,
         NEW d \in Callers, calls'[d] = calls[d],
         calls[d].kind = "integrate" /\ calls[d].pc = "loaded" => LoadsMet(calls[d].op)
  PROVE  Holder(d)'
<1>0. /\ WellFormed(commits) /\ WellFormed(commits') /\ Extends(commits', commits)
      /\ git \in Commit \cup {None}
      /\ \A y \in Commit \cup {None} : (Above(y) => Above(y)') /\ (Holds(y) => Holds(y)')
  BY PinsStay, HoldsStays DEF Grown, LogShows, Core
<1> SUFFICES ASSUME calls[d].kind = "integrate" PROVE Holder(d)'
  BY DEF Holder
<1>1. ASSUME calls[d].pc = "loaded" PROVE LoadOK(calls[d].op)'
  <2>1. PICK p : p = calls[d].op
    OBVIOUS
  <2>2. p \in DOMAIN ops /\ LoadOK(p) /\ LoadsMet(p)
    BY <1>1, <2>1 DEF CallShape, Core, Holder
  <2>3. ASSUME NEW o \in DOMAIN ops', o > p, NEW x \in ops'[o].view.main
        PROVE  Under(x, git)' \/ (Total(o)' /\ x \in ops'[p].view.main)
    <3>1. ops'[p] = ops[p]
      BY <2>2 DEF Grown
    <3>2. CASE o \in DOMAIN ops
      <4>1. ops'[o] = ops[o] /\ (Total(o) => Total(o)')
        BY <3>2, OldStays DEF Grown
      <4>2. x \in Commit \cup {None}
        BY <2>3, <3>2, <4>1 DEF Grown, LogShows, GoodView, Commit
      <4>3. Under(x, git) \/ (Total(o) /\ x \in ops[p].view.main)
        BY <2>2, <2>3, <3>2, <4>1 DEF LoadOK
      <4> QED BY <3>1, <4>1, <4>2, <4>3 DEF Onward
    <3>3. CASE o \notin DOMAIN ops
      BY <2>2, <2>3, <3>1, <3>3 DEF LoadsMet
    <3> QED BY <3>2, <3>3
  <2>4. LoadOK(p)'
    BY <2>3 DEF LoadOK
  <2> QED BY <2>1, <2>4 DEF LoadOK
<1>2. ASSUME calls[d].pc = "ready" PROVE WorkOK(calls[d].op)'
  <2>1. PICK p, m : p = calls[d].op /\ m = MainOf(p)
    OBVIOUS
  <2>2. p \in DOMAIN ops /\ WorkOK(p)
    BY <1>2, <2>1 DEF CallShape, Core, Holder
  <2>3. m \in Commit \cup {None} /\ MainOf(p)' = m
    BY <2>1, <2>2, MainIs, OldStays DEF Grown
  <2>4. Above(m) /\ Under(m, git) /\ Holds(m) /\ (pushed = {} => m = git)
    BY <2>1, <2>2 DEF WorkOK
  <2>5. Above(m)' /\ Holds(m)'
    BY <1>0, <2>3, <2>4
  <2>6. Under(m, git)' /\ (pushed' = {} => m = git')
    BY <2>3, <2>4 DEF Onward
  <2>7. WorkOK(p)'
    BY <2>3, <2>5, <2>6 DEF WorkOK, Above, Holds
  <2> QED BY <2>1, <2>7 DEF WorkOK
<1>3. ASSUME calls[d].pc = "mirroring" PROVE MirrorOK(calls[d].target)'
  <2>1. PICK y, g : y = calls[d].target /\ g = git
    OBVIOUS
  <2>2. y \in Commit /\ MirrorOK(y)
    BY <1>3, <2>1 DEF SightInv, CallShows, Core, Holder
  <2>3. Above(y)' /\ Holds(y)'
    BY <1>0, <2>2 DEF MirrorOK
  <2>4. ASSUME pushed' = {} PROVE Under(git, y)'
    <3>1. Under(g, y) /\ git' = g
      BY <2>1, <2>2, <2>4 DEF MirrorOK, Onward
    <3>2. Under(g, y)'
      BY <1>0, <2>1, <2>2, <3>1, OldStays
    <3> QED BY <3>1, <3>2 DEF Under
  <2>5. MirrorOK(y)'
    BY <2>3, <2>4 DEF MirrorOK
  <2> QED BY <2>1, <2>5 DEF MirrorOK, Above, Holds, Under
<1> QED BY <1>1, <1>2, <1>3 DEF Holder

\* What the other calls work on stays what it is.
LEMMA CallLogStays ==
  ASSUME Grown, CallShape, NEW d \in Callers, calls'[d] = calls[d], CallLog(d)
  PROVE  CallLog(d)'
<1>1. PICK p : p = calls[d].op
  OBVIOUS
<1>2. calls[d].pc \in {"loaded", "ready"} =>
        /\ p \in DOMAIN ops /\ ops'[p] = ops[p]
        /\ (Total(p)' <=> Total(p)) /\ (Single(p)' <=> Single(p))
  BY <1>1, OldStays DEF CallShape, Grown
<1>3. calls[d].pc = "loaded" => Total(calls[d].op)'
  <2>1. calls[d].pc = "loaded" => Total(p)'
    BY <1>1, <1>2 DEF CallLog
  <2> QED BY <1>1, <2>1 DEF Total
<1>4. calls[d].pc = "ready" =>
        Single(calls[d].op)' /\ (Total(calls[d].op)' \/ ops'[calls[d].op].kind = "import")
  <2>1. calls[d].pc = "ready" => Single(p)' /\ (Total(p)' \/ ops'[p].kind = "import")
    BY <1>1, <1>2 DEF CallLog
  <2> QED BY <1>1, <2>1 DEF Total, Single, MainOf
<1> QED BY <1>3, <1>4 DEF CallLog, Total, Single, MainOf

-----------------------------------------------------------------------------
(* VcsEngine: steps that pin no main *)

Ground == LogInv /\ SightInv /\ TurnInv

LEMMA GrownAfter ==
  ASSUME Ground, Ground', Extends(commits', commits),
         \/ UNCHANGED ops
         \/ \E parents, kind, view : Published(parents, kind, view)
  PROVE  Grown
<1>1. /\ WellFormed(commits) /\ WellFormed(commits')
      /\ LogShape /\ LogShape' /\ LogShows /\ LogShows'
  BY DEF Ground, LogInv, SightInv, LogShows
<1>2. /\ DOMAIN ops \subseteq DOMAIN ops' /\ \A o \in DOMAIN ops : ops'[o] = ops[o]
      /\ \A o \in DOMAIN ops' \ DOMAIN ops : \A p \in DOMAIN ops : p < o
  BY DEF Published
<1> QED BY <1>1, <1>2 DEF Grown

LEMMA CalmStays ==
  ASSUME Grown, CalmLog, Tree(commits'), UNCHANGED <<ops, opHeads>>
  PROVE  CalmLog'
<1>1. \A o \in DOMAIN ops : Shape(o)' /\ Seen(o)'
  BY OldStays, SeenStays DEF CalmLog
<1> QED BY <1>1 DEF CalmLog, TailInv

\* What is published shows plain git's main, or what is about to be mirrored.
LinesMet ==
  pushed' = {} => \A n \in DOMAIN ops' \ DOMAIN ops : \A x \in ops'[n].view.main :
                    Under(x, git)' \/ Mirroring(x)'

LEMMA LinesStay ==
  ASSUME Grown, LineOnly, Onward, \A x : Mirroring(x) => Mirroring(x)', LinesMet
  PROVE  LineOnly'
<1> SUFFICES ASSUME pushed' = {}, NEW o \in DOMAIN ops', NEW x \in ops'[o].view.main
             PROVE  Under(x, git)' \/ Mirroring(x)'
  BY DEF LineOnly
<1>1. CASE o \in DOMAIN ops
  <2>1. x \in ops[o].view.main /\ x \in Commit \cup {None}
    BY <1>1 DEF Grown, LogShows, GoodView, Commit
  <2>2. Under(x, git) \/ Mirroring(x)
    BY <1>1, <2>1 DEF LineOnly, Onward
  <2> QED BY <2>1, <2>2 DEF Onward
<1>2. CASE o \notin DOMAIN ops
  BY <1>2 DEF LinesMet
<1> QED BY <1>1, <1>2

\* The call is as it was, or what is known of it now is right.
CallMet(d) ==
  \/ /\ calls'[d] = calls[d]
     /\ calls[d].kind = "integrate" /\ calls[d].pc = "loaded" => LoadsMet(calls[d].op)
  \/ CallLog(d)' /\ Holder(d)'

LEMMA QuietStep ==
  ASSUME Ground, Ground', Grown, Core, CalmLog', PinsFew, PinsMet, LinesMet, Onward,
         landed' = landed, Holds(git)',
         \A x : Mirroring(x) => Mirroring(x)', \A d \in Callers : CallMet(d)
  PROVE  Core'
<1>1. CallShape /\ SightInv /\ TurnInv' /\ landed' \subseteq landed
  BY DEF Ground, LogInv
<1>2. CalmLog /\ PinInv /\ LineOnly /\ Above(git) /\ \A d \in Callers : CallLog(d) /\ Holder(d)
  BY DEF Core
<1>3. PinInv' /\ LineOnly'
  BY <1>2, PinsStay, LinesStay
<1>4. Above(git)'
  <2> SUFFICES ASSUME NEW r \in DOMAIN ops', Pinned(r)' PROVE Under(MainOf(r), git)'
    BY DEF Above
  <2>1. Pinned(r) /\ r \in DOMAIN ops
    BY DEF PinsFew, Pinned
  <2>2. PICK m : m = MainOf(r) /\ m \in Commit \cup {None}
    BY <2>1, MainIs DEF Grown
  <2>3. Under(m, git)
    BY <1>2, <2>1, <2>2 DEF Above
  <2>4. Under(m, git)' /\ MainOf(r)' = m
    BY <2>1, <2>2, <2>3, OldStays DEF Onward
  <2> QED BY <2>4 DEF Under
<1>5. ASSUME NEW d \in Callers PROVE CallLog(d)' /\ Holder(d)'
  <2>1. CASE CallLog(d)' /\ Holder(d)'
    BY <2>1
  <2>2. CASE /\ calls'[d] = calls[d]
             /\ calls[d].kind = "integrate" /\ calls[d].pc = "loaded" => LoadsMet(calls[d].op)
    BY <1>1, <1>2, <2>2, HolderStays, CallLogStays
  <2>3. CallMet(d)
    OBVIOUS
  <2> QED BY <2>1, <2>2, <2>3 DEF CallMet
<1> QED BY <1>1, <1>3, <1>4, <1>5 DEF Core

\* Git and its main stay.
LEMMA GitStays ==
  ASSUME Grown, UNCHANGED <<git, pushed, landed>>, Holds(git)
  PROVE  Onward /\ Holds(git)'
<1>1. \A x \in Commit \cup {None} : Under(x, git) => Under(x, git)'
  <2>1. PICK g : g = git /\ g \in Commit \cup {None}
    BY DEF Grown, LogShows
  <2>2. \A x \in Commit \cup {None} : Under(x, g) => Under(x, g)'
    BY <2>1, OldStays
  <2> QED BY <2>1, <2>2 DEF Under
<1>2. Holds(git)'
  <2>1. PICK g : g = git /\ g \in Commit \cup {None}
    BY DEF Grown, LogShows
  <2>2. Holds(g)'
    BY <2>1, HoldsStays DEF Grown
  <2> QED BY <2>1, <2>2 DEF Holds
<1> QED BY <1>1, <1>2 DEF Onward

\* A call moves on, and nothing else changes.
LEMMA MovesCalm ==
  ASSUME Ground, Ground', Core, UNCHANGED <<commits, ops, opHeads, git, pushed, landed>>,
         NEW c \in Callers, \A d \in Callers : d # c => calls'[d] = calls[d],
         calls[c].pc # "mirroring", ~Working(c)', CallLog(c)', Holder(c)'
  PROVE  Core'
<1>1. Extends(commits', commits)
  BY ExtendsItself
<1>2. Grown
  BY <1>1, GrownAfter
<1>3. CalmLog'
  BY <1>2, CalmStays DEF Core, CalmLog
<1>4. DOMAIN ops' \ DOMAIN ops = {}
  OBVIOUS
<1>5. PinsMet /\ LinesMet /\ \A p : LoadsMet(p)
  BY <1>4 DEF PinsMet, LinesMet, LoadsMet
<1>6. PinsFew
  <2>1. \A d \in Callers : Working(d)' => Working(d) /\ calls'[d].op = calls[d].op
    BY DEF Working
  <2> QED BY <1>2, <1>4, <2>1, FewPins DEF Ground, LogInv
<1>7. Onward /\ Holds(git)'
  BY <1>2, GitStays DEF Core
<1>8. \A x : Mirroring(x) => Mirroring(x)'
  BY DEF Mirroring
<1>9. \A d \in Callers : CallMet(d)
  BY <1>5 DEF CallMet
<1> QED BY <1>2, <1>3, <1>5, <1>6, <1>7, <1>8, <1>9, QuietStep

LEMMA StutterCalm == Ground /\ Core /\ UNCHANGED vcsVars => Core'
<1> SUFFICES ASSUME Ground, Core, UNCHANGED vcsVars PROVE Core'
  OBVIOUS
<1>0. UNCHANGED <<commits, ops, opHeads, git, calls, turn, pushed, acked, landed, mishaps>>
  BY DEF vcsVars
<1>1. Ground'
  <2>1. \A d : CallShows(d)' <=> CallShows(d)
    BY <1>0 DEF CallShows, Shown, Commit
  <2>2. LogShows' /\ \A e : Shown(e) => Shown(e)'
    BY <1>0 DEF Ground, SightInv, LogShows, Commit, Shown
  <2>3. SightInv'
    BY <1>0, <2>1, <2>2 DEF Ground, SightInv, CallShows, Shown, Commit
  <2>4. LogInv'
    BY StepLog DEF Ground
  <2> QED BY <1>0, <2>3, <2>4 DEF Ground, TurnInv, UnderWay
<1>2. Extends(commits', commits)
  BY <1>0, ExtendsItself
<1>3. Grown
  BY <1>0, <1>1, <1>2, GrownAfter
<1>4. CalmLog'
  BY <1>0, <1>3, CalmStays DEF Core, CalmLog
<1>5. DOMAIN ops' \ DOMAIN ops = {}
  BY <1>0
<1>6. PinsMet /\ LinesMet /\ \A p : LoadsMet(p)
  BY <1>5 DEF PinsMet, LinesMet, LoadsMet
<1>7. PinsFew
  <2>1. \A d \in Callers : Working(d)' => Working(d) /\ calls'[d].op = calls[d].op
    BY <1>0 DEF Working
  <2> QED BY <1>3, <1>5, <2>1, FewPins DEF Ground, LogInv
<1>8. Onward /\ Holds(git)'
  BY <1>0, <1>3, GitStays DEF Core
<1>9. \A x : Mirroring(x) => Mirroring(x)'
  BY <1>0 DEF Mirroring
<1>10. \A d \in Callers : CallMet(d)
  BY <1>0, <1>6 DEF CallMet
<1>11. landed' = landed
  BY <1>0
<1> QED BY <1>1, <1>3, <1>4, <1>6, <1>7, <1>8, <1>9, <1>10, <1>11, QuietStep

\* What has only started, or is over, works on nothing.
LEMMA IdleIsMet ==
  \A c \in Callers : calls'[c].pc \in {"queued", "called", "done"} =>
    ~Working(c)' /\ CallLog(c)' /\ Holder(c)'
  BY DEF Working, CallLog, Holder

LEMMA StartsCalm ==
  ASSUME Ground, Ground', Core, NEW c \in Callers,
         \/ \E kind, arg : Begin(c, kind, arg)
         \/ TakeTurn(c) \/ Read(c) \/ IntegrateOutOfScope(c)
  PROVE  Core'
<1>1. CallShape
  BY DEF Ground, LogInv
<1>2. \A d \in Callers : d # c => calls'[d] = calls[d]
  <2>1. ASSUME NEW kind, NEW arg, Begin(c, kind, arg), NEW d \in Callers, d # c
        PROVE  calls'[d] = calls[d]
    BY <1>1, <2>1 DEF Begin, CallShape
  <2>2. ASSUME TakeTurn(c) \/ Return(c), NEW d \in Callers, d # c PROVE calls'[d] = calls[d]
    BY <1>1, <2>2 DEF TakeTurn, Return, CallShape
  <2> QED BY <2>1, <2>2 DEF Read, IntegrateOutOfScope
<1>3. /\ UNCHANGED <<commits, ops, opHeads, git, pushed, landed>>
      /\ calls[c].pc # "mirroring" /\ calls'[c].pc \in {"queued", "called", "done"}
  <2>1. ASSUME NEW kind, NEW arg, Begin(c, kind, arg)
        PROVE  /\ UNCHANGED <<commits, ops, opHeads, git, pushed, landed>>
               /\ calls[c].pc # "mirroring" /\ calls'[c].pc \in {"queued", "called", "done"}
    <3>1. Becomes(c, IF kind = "integrate" THEN "queued" ELSE "called",
                  kind, calls[c].op, calls[c].target)
      BY <1>1, <2>1, CallAfter
    <3> QED BY <2>1, <3>1 DEF Begin, Becomes
  <2>2. CASE TakeTurn(c)
    BY <1>1, <2>2, CallAfter DEF TakeTurn, Becomes
  <2>3. CASE Read(c) \/ IntegrateOutOfScope(c)
    <3>1. Return(c) /\ UNCHANGED <<commits, ops, opHeads, git, pushed, landed>>
          /\ calls[c].pc # "mirroring"
      BY <2>3 DEF Read, IntegrateOutOfScope
    <3> QED BY <1>1, <3>1, CallAfter DEF Becomes
  <2> QED BY <2>1, <2>2, <2>3
<1> QED BY <1>2, <1>3, IdleIsMet, MovesCalm

\* load_at_head, one head: it is the last operation, and everything is below it.
LEMMA LoadAtHeadCalm ==
  ASSUME Ground, Ground', Core, NEW c \in Callers, LoadAtHead(c)
  PROVE  Core'
<1>1. CallShape /\ LogShape /\ OpLogComplete
  BY DEF Ground, LogInv
<1>2. PICK h : h = CHOOSE o \in opHeads : TRUE
  OBVIOUS
<1>3. Becomes(c, "loaded", calls[c].kind, h, calls[c].target)
  BY <1>1, <1>2, CallAfter
<1>4. /\ UNCHANGED <<commits, ops, opHeads, git, pushed, landed>> /\ calls[c].pc = "called"
      /\ \A d \in Callers : d # c => calls'[d] = calls[d]
  BY <1>1 DEF LoadAtHead, CallShape
<1>5. opHeads = {h} /\ h \in DOMAIN ops
  <2>1. Cardinality(opHeads) = 1
    BY DEF LoadAtHead
  <2>2. IsFiniteSet(opHeads)
    <3>1. opHeads \subseteq 1 .. Len(ops) /\ Len(ops) \in Nat
      BY <1>1 DEF LogShape
    <3>2. IsFiniteSet(1 .. Len(ops))
      BY <3>1, FS_Interval
    <3> QED BY <3>1, <3>2, FS_Subset
  <2>3. \E x : opHeads = {x}
    BY <2>1, <2>2, FS_Singleton
  <2> QED BY <1>1, <1>2, <2>3 DEF LogShape
<1>6. Total(h) /\ \A o \in DOMAIN ops : ~(o > h)
  <2>1. ops[h].anc = DOMAIN ops
    BY <1>1, <1>5 DEF OpLogComplete
  <2>2. ops[h].anc \subseteq 1 .. h
    BY <1>5 DEF Core, CalmLog, Shape
  <2>3. DOMAIN ops = 1 .. Len(ops) /\ Len(ops) \in Nat
    BY <1>1 DEF LogShape
  <2>4. h = Len(ops)
    <3>1. Len(ops) \in DOMAIN ops
      BY <1>5, <2>3
    <3> QED BY <1>5, <2>1, <2>2, <2>3, <3>1
  <2> QED BY <2>1, <2>3, <2>4 DEF Total
<1>7. LoadOK(h)' /\ Total(h)'
  BY <1>4, <1>6 DEF LoadOK, Total
<1>8. ~Working(c)' /\ CallLog(c)' /\ Holder(c)'
  BY <1>3, <1>7 DEF Working, CallLog, Holder, Becomes, LoadOK, Total
<1> QED BY <1>4, <1>8, MovesCalm

-----------------------------------------------------------------------------
(* VcsEngine: the steps around a submission's own *)

\* Only the submission that holds the turn knows anything.
LEMMA OnlyHolder ==
  ASSUME TurnInv, NEW c \in Callers, calls[c].kind = "integrate", UnderWay(c),
         NEW d \in Callers, d # c
  PROVE  /\ ~(calls[d].kind = "integrate" /\ UnderWay(d))
         /\ calls'[d] = calls[d] => Holder(d)'
<1>1. ~(calls[d].kind = "integrate" /\ UnderWay(d))
  BY DEF TurnInv
<1> QED BY <1>1 DEF Holder, UnderWay

LEMMA CoreAfter ==
  ASSUME Ground, Ground', Grown, Core, CalmLog', PinInv', LineOnly', Above(git)', Holds(git)',
         NEW c \in Callers, \A d \in Callers : d # c => calls'[d] = calls[d],
         calls[c].kind = "integrate", UnderWay(c), CallLog(c)', Holder(c)'
  PROVE  Core'
<1>1. ASSUME NEW d \in Callers PROVE CallLog(d)' /\ Holder(d)'
  <2>1. CASE d = c
    BY <2>1
  <2>2. CASE d # c
    <3>1. CallShape /\ CallLog(d) /\ calls'[d] = calls[d] /\ TurnInv
      BY <2>2 DEF Ground, LogInv, Core
    <3>2. CallLog(d)'
      BY <3>1, CallLogStays
    <3>3. Holder(d)'
      BY <2>2, <3>1, OnlyHolder
    <3> QED BY <3>2, <3>3
  <2> QED BY <2>1, <2>2
<1> QED BY <1>1 DEF Core, Ground

\* import_refs found nothing moved: a submission is about to work on what plain
\* git holds.
LEMMA NothingToImportCalm ==
  ASSUME Ground, Ground', Core, NEW c \in Callers, NothingToImport(c)
  PROVE  Core'
<1>1. CallShape /\ LogShape /\ LogShows /\ TurnInv
  BY DEF Ground, LogInv, SightInv
<1>2. PICK p : p = calls[c].op
  OBVIOUS
<1>3. /\ UNCHANGED <<commits, ops, opHeads, git, pushed, landed>> /\ calls[c].pc = "loaded"
      /\ \A d \in Callers : d # c => calls'[d] = calls[d]
  BY <1>1 DEF NothingToImport, CallShape
<1>4. Becomes(c, "ready", calls[c].kind, p, calls[c].target)
  BY <1>1, <1>2, CallAfter
<1>5. p \in DOMAIN ops /\ Total(p) /\ CalmLog
  BY <1>1, <1>2, <1>3 DEF CallShape, Core, CallLog
<1>6. ops[p].view.main = {git} /\ MainOf(p) = git /\ Single(p)
  <2>1. ops[p].view.git = {git}
    BY <1>2 DEF NothingToImport, Loaded
  <2>2. ops[p].view.main = {git}
    BY <1>5, <2>1 DEF CalmLog, Shape
  <2> QED BY <1>1, <1>5, <2>2, MainIs
<1>7. Single(p)' /\ Total(p)'
  BY <1>3, <1>5, <1>6 DEF Single, MainOf, Total
<1>8. CallLog(c)'
  BY <1>4, <1>7 DEF Becomes, CallLog, Single, MainOf, Total
<1>9. CASE calls[c].kind # "integrate"
  <2>1. ~Working(c)' /\ Holder(c)'
    BY <1>4, <1>9 DEF Becomes, Working, Holder
  <2> QED BY <1>3, <1>8, <2>1, MovesCalm
<1>10. CASE calls[c].kind = "integrate"
  <2>1. Extends(commits', commits)
    BY <1>3, ExtendsItself
  <2>2. Grown
    BY <1>3, <2>1, GrownAfter
  <2>3. CalmLog' /\ Onward /\ Holds(git)'
    BY <1>3, <2>2, CalmStays, GitStays DEF Core, CalmLog
  <2>4. LineOnly'
    <3>1. \A x : Mirroring(x) => Mirroring(x)'
      BY <1>3 DEF Mirroring
    <3>2. LinesMet
      BY <1>3 DEF LinesMet
    <3> QED BY <2>2, <2>3, <3>1, <3>2, LinesStay DEF Core
  <2>5. \A r : Pinned(r)' => r \in DOMAIN ops /\ (Pinned(r) \/ r = p)
    <3> SUFFICES ASSUME NEW r, Pinned(r)', r # p PROVE Pinned(r)
      BY <1>3 DEF Pinned
    <3>1. r \in DOMAIN ops
      BY <1>3 DEF Pinned
    <3>2. CASE \E k \in DOMAIN ops' : ops'[k].kind = "integrate" /\ BuiltOn(k, r)'
      <4>1. \E k \in DOMAIN ops : ops[k].kind = "integrate" /\ BuiltOn(k, r)
        BY <1>3, <3>2 DEF BuiltOn
      <4> QED BY <3>1, <4>1 DEF Pinned
    <3>3. ASSUME NEW d \in Callers, Working(d)', calls'[d].op = r PROVE Pinned(r)
      <4>1. d # c
        BY <1>4, <3>3 DEF Becomes
      <4>2. Working(d) /\ calls[d].op = r
        BY <1>3, <3>3, <4>1 DEF Working
      <4> QED BY <3>1, <4>2 DEF Pinned
    <3> QED BY <3>2, <3>3 DEF Pinned
  <2>6. git \in Commit \cup {None} /\ WellFormed(commits)
    BY <1>1 DEF LogShows
  <2>7. Above(git)'
    <3> SUFFICES ASSUME NEW r \in DOMAIN ops', Pinned(r)' PROVE Under(MainOf(r), git)'
      BY DEF Above
    <3>1. Under(MainOf(r), git)
      <4>1. CASE Pinned(r)
        BY <1>3, <4>1 DEF Core, Above
      <4>2. CASE r = p
        BY <1>6, <2>6, <4>2, UnderLaws
      <4> QED BY <2>5, <4>1, <4>2
    <3> QED BY <1>3, <3>1 DEF Under, MainOf
  <2>8. PinInv'
    <3> SUFFICES ASSUME NEW r, NEW o \in DOMAIN ops', Pinned(r)', o \notin ops'[r].anc
                 PROVE  InLine(o, r)'
      BY DEF PinInv
    <3>1. r \in DOMAIN ops /\ o \in DOMAIN ops /\ o \notin ops[r].anc
      BY <1>3, <2>5
    <3>2. InLine(o, r)
      <4>1. CASE Pinned(r)
        BY <3>1, <4>1 DEF Core, PinInv
      <4>2. CASE r = p
        <5>1. LoadOK(p)
          BY <1>2, <1>3, <1>10 DEF Core, Holder
        <5>2. o > p
          BY <1>1, <1>5, <3>1, <4>2 DEF Total, LogShape
        <5>3. ASSUME NEW x \in ops[o].view.main PROVE OnLine(commits, x, MainOf(p))
          <6>1. Under(x, git) \/ x = git
            BY <1>6, <3>1, <5>1, <5>2 DEF LoadOK
          <6>2. Under(x, git)
            BY <2>6, <6>1, UnderLaws
          <6> QED BY <1>6, <2>6, <6>2, UnderLaws
        <5> QED BY <4>2, <5>3 DEF InLine
      <4> QED BY <2>5, <4>1, <4>2
    <3> QED BY <2>2, <3>1, <3>2, SeenStays
  <2>9. Holder(c)'
    <3>1. PICK g : g = git /\ git' = g /\ MainOf(p)' = g
      BY <1>3, <1>6 DEF MainOf
    <3>2. Above(g)' /\ Holds(g)'
      BY <2>3, <2>7, <3>1 DEF Above, Under, Holds
    <3>3. Under(g, g)'
      BY <1>3, <2>6, <3>1, UnderLaws DEF Under
    <3>4. WorkOK(p)'
      BY <3>1, <3>2, <3>3 DEF WorkOK, Above, Under, Holds
    <3> QED BY <1>4, <3>4 DEF Holder, Becomes, WorkOK
  <2>10. UnderWay(c)
    BY <1>3 DEF UnderWay
  <2> QED BY <1>3, <1>8, <1>10, <2>2, <2>3, <2>4, <2>7, <2>8, <2>9, <2>10, CoreAfter DEF Core
<1> QED BY <1>9, <1>10

\* Plain git takes the main of the submission, which holds what landed.
LEMMA MirrorCalm ==
  ASSUME Ground, Ground', Core, NEW c \in Callers, Mirror(c)
  PROVE  Core'
<1>1. CallShape /\ LogShape /\ LogShows /\ TurnInv
  BY DEF Ground, LogInv, SightInv
<1>2. PICK y : y = calls[c].target
  OBVIOUS
<1>3. /\ UNCHANGED <<commits, ops, opHeads, pushed>> /\ git' = y /\ calls[c].pc = "mirroring"
      /\ Return(c) /\ calls[c].kind = "integrate"
  BY <1>2 DEF Mirror, Core, CallLog
<1>4. \A d \in Callers : d # c => calls'[d] = calls[d]
  BY <1>1, <1>3 DEF Return, CallShape
<1>5. Becomes(c, "done", calls[c].kind, calls[c].op, calls[c].target)
  BY <1>1, <1>3, CallAfter
<1>6. y \in Commit /\ MirrorOK(y) /\ UnderWay(c)
  BY <1>2, <1>3 DEF Ground, SightInv, CallShows, Core, Holder, UnderWay
<1>7. Extends(commits', commits)
  BY <1>3, ExtendsItself
<1>8. Grown
  BY <1>3, <1>7, GrownAfter
<1>9. CalmLog'
  BY <1>3, <1>8, CalmStays DEF Core, CalmLog
<1>10. ~Working(c)' /\ CallLog(c)' /\ Holder(c)'
  BY <1>5, IdleIsMet DEF Becomes
<1>11. PinInv' /\ Above(git)'
  <2>1. PinsFew
    <3>1. \A d \in Callers : Working(d)' => Working(d) /\ calls'[d].op = calls[d].op
      BY <1>4, <1>10 DEF Working
    <3> QED BY <1>1, <1>3, <1>8, <3>1, FewPins
  <2>2. PinsMet
    BY <1>3 DEF PinsMet
  <2>3. PinInv' /\ Above(y)'
    BY <1>6, <1>8, <2>1, <2>2, PinsStay DEF Core, MirrorOK
  <2> QED BY <1>3, <2>3 DEF Above, Under
<1>12. Holds(git)'
  <2>1. landed' \subseteq landed \cup {commits[y].change}
    BY <1>2, <1>3 DEF Mirror, Acknowledge
  <2>2. y # None /\ y \in commits[y].anc
    <3>1. WellFormed(commits)
      BY <1>1 DEF LogShows
    <3> QED BY <1>6, <3>1, GraphShape, NoCommitAssumption DEF Commit
  <2>3. landed \subseteq History(commits, y)
    BY <1>6, <2>2 DEF MirrorOK, Holds
  <2>4. commits[y].change \in History(commits, y)
    BY <2>2 DEF History
  <2> QED BY <1>3, <2>1, <2>2, <2>3, <2>4 DEF Holds
<1>13. LineOnly'
  <2> SUFFICES ASSUME pushed' = {}, NEW o \in DOMAIN ops', NEW x \in ops'[o].view.main
               PROVE  Under(x, git)'
    BY DEF LineOnly
  <2>1. o \in DOMAIN ops /\ x \in ops[o].view.main /\ pushed = {}
    BY <1>3
  <2>2. Under(git, y) /\ WellFormed(commits) /\ git \in Commit \cup {None}
    BY <1>1, <1>6, <2>1 DEF MirrorOK, LogShows
  <2>3. Under(x, y)
    <3>1. CASE Under(x, git)
      BY <1>6, <2>2, <3>1, UnderLaws
    <3>2. ASSUME NEW d \in Callers, calls[d].pc = "mirroring", x = calls[d].target PROVE Under(x, y)
      <4>1. calls[d].kind = "integrate" /\ UnderWay(d)
        BY <3>2 DEF Core, CallLog, UnderWay
      <4>2. d = c
        BY <1>1, <1>3, <1>6, <4>1 DEF TurnInv
      <4> QED BY <1>2, <1>6, <2>2, <3>2, <4>2, UnderLaws
    <3> QED BY <2>1, <3>1, <3>2 DEF Core, LineOnly, Mirroring
  <2> QED BY <1>3, <2>3 DEF Under
<1> QED BY <1>3, <1>4, <1>6, <1>8, <1>9, <1>10, <1>11, <1>12, <1>13, CoreAfter

\* A push puts one commit on top of plain git's main.
LEMMA PushCalm == ASSUME Ground, Ground', Core, Push PROVE Core'
<1>1. CallShape /\ LogShape /\ LogShows /\ WellFormed(commits) /\ git \in Commit \cup {None}
  BY DEF Ground, LogInv, SightInv, LogShows
<1>2. UNCHANGED <<ops, opHeads, calls, landed>>
  BY DEF Push
<1>3. PICK n, below, edits : /\ n = Len(commits) + 1 /\ below = {git} \ {None}
                             /\ edits = MergedEdits(commits, below) \cup {n}
  OBVIOUS
<1>4. OneMore(commits', commits, below, n, edits) /\ git' = n /\ n \in pushed'
  <2>2. commits' = WithCommit(commits, below, n, edits) /\ git' = n /\ n \in pushed'
    BY <1>3 DEF Push
  <2>3. Len(commits) \in Nat /\ DOMAIN commits = 1 .. Len(commits)
    BY <1>1, StoreShape
  <2>4. below \subseteq DOMAIN commits
    BY <1>1, <1>3 DEF Commit
  <2>5. n \in 1 .. (Len(commits) + 1) /\ edits \subseteq 1 .. (Len(commits) + 1)
    <3>1. MergedEdits(commits, below) \subseteq 1 .. Len(commits)
      BY <1>1, <2>4 DEF MergedEdits, WellFormed
    <3>2. n \in 1 .. (Len(commits) + 1) /\ 1 .. Len(commits) \subseteq 1 .. (Len(commits) + 1)
      BY <1>3, <2>3
    <3> QED BY <1>3, <3>1, <3>2
  <2>6. OneMore(commits', commits, below, n, edits)
    BY <1>1, <2>2, <2>4, <2>5, WithCommitKeeps, ZenonT(30)
  <2> QED BY <2>2, <2>6
<1>5. /\ WellFormed(commits') /\ Extends(commits', commits)
      /\ n \in Commit' /\ n # None /\ commits'[n].anc = Below(commits, below) \cup {n}
  <2>1. /\ WellFormed(commits') /\ Extends(commits', commits) /\ n \in DOMAIN commits'
        /\ commits'[n].anc = Below(commits, below) \cup {n}
    BY <1>3, <1>4 DEF OneMore
  <2>2. n \in Nat
    BY <1>1, <1>3, StoreShape
  <2> QED BY <2>1, <2>2, NoCommitAssumption DEF Commit
<1>6. Tree(commits')
  <2>1. Tree(commits) /\ \A p, q \in below : p = q
    BY <1>3 DEF Core, CalmLog
  <2> QED BY ONLY <1>4, <2>1, TreeWithCommit
<1>7. Grown
  BY <1>2, <1>5, GrownAfter
<1>8. CalmLog'
  BY <1>2, <1>6, <1>7, CalmStays DEF Core
<1>9. git # None => commits'[n].anc = commits[git].anc \cup {n}
  BY <1>3, <1>5 DEF Below
<1>10. Onward
  <2>1. ASSUME NEW x \in Commit \cup {None}, Under(x, git) PROVE Under(x, git)'
    BY <1>4, <1>5, <1>9, <2>1 DEF Under
  <2> QED BY <1>4, <2>1 DEF Onward
<1>11. Holds(git)'
  <2>1. git = None \/ git \in commits'[n].anc
    <3>1. git # None => git \in commits[git].anc
      BY <1>1, GraphShape DEF Commit
    <3> QED BY <1>9, <3>1
  <2>2. Holds(git) /\ landed' = landed
    BY <1>2 DEF Core
  <2>3. PICK g : g = git
    OBVIOUS
  <2>4. Holds(n)'
    <3>1. g \in Commit \cup {None} /\ Holds(g) /\ (g = None \/ g \in commits'[n].anc)
      BY <1>1, <2>1, <2>2, <2>3 DEF Holds
    <3> QED BY <1>1, <1>5, <2>2, <3>1, HoldsAbove DEF Commit
  <2> QED BY <1>4, <2>4 DEF Holds
<1>12. DOMAIN ops' \ DOMAIN ops = {}
  BY <1>2
<1>13. PinsMet /\ LinesMet /\ \A p : LoadsMet(p)
  BY <1>12 DEF PinsMet, LinesMet, LoadsMet
<1>14. PinsFew
  <2>1. \A d \in Callers : Working(d)' => Working(d) /\ calls'[d].op = calls[d].op
    BY <1>2 DEF Working
  <2> QED BY <1>1, <1>7, <1>12, <2>1, FewPins
<1>15. \A x : Mirroring(x) => Mirroring(x)'
  BY <1>2 DEF Mirroring
<1>16. \A d \in Callers : CallMet(d)
  BY <1>2, <1>13 DEF CallMet
<1>17. landed' = landed
  BY <1>2
<1> QED BY <1>7, <1>8, <1>10, <1>11, <1>13, <1>14, <1>15, <1>16, <1>17, QuietStep

-----------------------------------------------------------------------------
(* VcsEngine: steps that publish an operation *)

\* The new operation n of a Publish on p alone.
OnTop(p, n, kind, view) ==
  /\ n \in DOMAIN ops' /\ DOMAIN ops' \ DOMAIN ops = {n}
  /\ ops'[n].kind = kind /\ ops'[n].view = view
  /\ BuiltOn(n, p)' /\ n \in ops'[n].anc /\ ops'[n].anc \subseteq 1 .. n
  /\ \A x : view.main = {x} => MainOf(n)' = x /\ Single(n)'
  /\ \A r : BuiltOn(n, r)' => r = p
  /\ (\A a \in Visible(commits, ops[p].view) :
        a \in Visible(commits', view) \/ Cut(a, {p, n})') => Seen(n)'

LEMMA PublishedOn ==
  ASSUME Grown, CalmLog, NEW p \in DOMAIN ops, NEW kind, NEW view, Published({p}, kind, view),
         NEW n, n = Len(ops) + 1
  PROVE  OnTop(p, n, kind, view)
<1>1. /\ DOMAIN ops' = DOMAIN ops \cup {n} /\ n \notin DOMAIN ops
      /\ DOMAIN ops = 1 .. Len(ops) /\ Len(ops) \in Nat
      /\ \A o \in DOMAIN ops : ops'[o] = ops[o]
      /\ ops'[n].kind = kind /\ ops'[n].view = view /\ ops'[n].anc = ops[p].anc \cup {n}
  BY DEF Published
<1>2. \A o \in DOMAIN ops : o \in ops[o].anc /\ ops[o].anc \subseteq 1 .. o /\ ops[o].anc \subseteq DOMAIN ops
  BY DEF CalmLog, Shape, Grown, LogShape
<1>3. BuiltOn(n, p)' /\ n \in ops'[n].anc /\ ops'[n].anc \subseteq 1 .. n
  BY <1>1, <1>2 DEF BuiltOn
<1>4. \A x : view.main = {x} => MainOf(n)' = x /\ Single(n)'
  BY <1>1, NormalOne DEF MainOf, Single
<1>5. ASSUME NEW r, BuiltOn(n, r)' PROVE r = p
  <2>1. r \in DOMAIN ops /\ ops'[n].anc = ops[r].anc \cup {n}
    BY <1>1, <1>5 DEF BuiltOn
  <2>2. r \in ops[p].anc /\ p \in ops[r].anc
    BY <1>1, <1>2, <2>1
  <2> QED BY <1>1, <1>2, <2>1, <2>2
<1>6. ASSUME \A a \in Visible(commits, ops[p].view) :
               a \in Visible(commits', view) \/ Cut(a, {p, n})'
      PROVE  Seen(n)'
  <2>0. PICK N : N = ops'[n].anc
    OBVIOUS
  <2> SUFFICES ASSUME NEW b \in N, NEW a \in Visible(commits', ops'[b].view)
               PROVE  a \in Visible(commits', view) \/ Cut(a, N)'
    <3>1. \A b \in ops'[n].anc : \A a \in Visible(commits', ops'[b].view) :
            a \in Visible(commits', ops'[n].view) \/ Cut(a, ops[n].anc)'
      BY <1>1, <2>0 DEF Cut
    <3> QED BY <3>1 DEF Seen
  <2>1. \A A : A \subseteq N /\ Cut(a, A)' => Cut(a, N)'
    BY DEF Cut
  <2>2. CASE b = n
    BY <1>1, <2>2
  <2>3. CASE b # n
    <3>1. b \in ops[p].anc /\ b \in DOMAIN ops /\ ops'[b] = ops[b]
      BY <1>1, <1>2, <2>0, <2>3
    <3>2. a \in Visible(commits, ops[b].view) /\ a \in Commit
      <4>1. /\ Visible(commits', ops[b].view) = Visible(commits, ops[b].view)
            /\ Visible(commits, ops[b].view) \subseteq Commit
        BY <3>1, SeenTheSame DEF Grown, LogShows, GoodView, Commit
      <4> QED BY <3>1, <4>1
    <3>3. a \in Visible(commits, ops[p].view) \/ Cut(a, ops[p].anc)
      BY <3>1, <3>2 DEF CalmLog, Seen
    <3>4. CASE Cut(a, ops[p].anc)
      <4>1. ops[p].anc \in SUBSET DOMAIN ops /\ ops[p].anc \subseteq N
        BY <1>1, <1>2, <2>0
      <4>2. PICK A : A = ops[p].anc
        OBVIOUS
      <4>3. Cut(a, A)'
        BY <3>2, <3>4, <4>1, <4>2, SeenStays
      <4> QED BY <2>1, <4>1, <4>2, <4>3
    <3>5. CASE a \in Visible(commits, ops[p].view)
      <4>1. {p, n} \subseteq N
        BY <1>1, <1>2, <2>0
      <4> QED BY <1>6, <2>1, <3>5, <4>1
    <3> QED BY <3>3, <3>4, <3>5
  <2> QED BY <2>2, <2>3
<1> QED BY <1>1, <1>3, <1>4, <1>5, <1>6 DEF OnTop

\* The new operation shows what the others allow it to show.
MainMet(c, n, view) ==
  \A x \in view.main :
    /\ \A r \in DOMAIN ops : Pinned(r) => OnLine(commits', x, MainOf(r))
    /\ pushed = {} => Under(x, git) \/ Mirroring(x) \/ Mirroring(x)'
    /\ \A d \in Callers : d # c /\ calls[d].kind = "integrate" /\ calls[d].pc = "loaded" =>
         Under(x, git) \/ (Total(n)' /\ x \in ops[calls[d].op].view.main)

LEMMA PublishQuiet ==
  ASSUME Ground, Ground', Grown, Core, CalmLog', PinsFew, UNCHANGED <<git, pushed, landed>>,
         NEW c \in Callers, \A d \in Callers : d # c => calls'[d] = calls[d],
         calls[c].pc # "mirroring", CallLog(c)', Holder(c)',
         NEW n, NEW view, DOMAIN ops' \ DOMAIN ops = {n}, ops'[n].view = view, MainMet(c, n, view)
  PROVE  Core'
<1>1. Onward /\ Holds(git)'
  BY GitStays DEF Core
<1>2. \A x : Mirroring(x) => Mirroring(x)'
  BY DEF Mirroring
<1>3. \A x : Under(x, git) => Under(x, git)'
  <2> SUFFICES ASSUME NEW x, Under(x, git) PROVE x \in Commit \cup {None}
    BY <1>1 DEF Onward
  <2>1. git \in Commit \cup {None} /\ WellFormed(commits)
    BY DEF Grown, LogShows
  <2> QED BY <2>1, GraphShape DEF Under, Commit
<1>4. PinsMet
  BY DEF PinsMet, MainMet
<1>5. LinesMet
  BY <1>2, <1>3 DEF LinesMet, MainMet
<1>6. \A d \in Callers : CallMet(d)
  <2> SUFFICES ASSUME NEW d \in Callers, d # c PROVE CallMet(d)
    BY DEF CallMet
  <2>1. ASSUME calls[d].kind = "integrate" /\ calls[d].pc = "loaded" PROVE LoadsMet(calls[d].op)
    BY <1>3, <2>1 DEF LoadsMet, MainMet
  <2> QED BY <2>1 DEF CallMet
<1> QED BY <1>1, <1>2, <1>4, <1>5, <1>6, QuietStep

LEMMA NoNewPins ==
  ASSUME Ground, Grown, NEW c \in Callers, \A d \in Callers : d # c => calls'[d] = calls[d],
         ~Working(c)', NEW n, DOMAIN ops' \ DOMAIN ops = {n},
         \A r : ops'[n].kind = "integrate" /\ BuiltOn(n, r)' => Pinned(r)
  PROVE  PinsFew
<1>1. \A d \in Callers : Working(d)' => Working(d) /\ calls'[d].op = calls[d].op
  BY DEF Working
<1> QED BY <1>1, FewPins DEF Ground, LogInv

\* A checkpoint publishes what it has loaded once more.
LEMMA CheckpointCalm ==
  ASSUME Ground, Ground', Core, NEW c \in Callers, CheckpointCall(c), pushed = {}
  PROVE  Core'
<1>1. CallShape /\ LogShape /\ LogShows /\ TurnInv /\ CalmLog /\ WellFormed(commits)
  BY DEF Ground, LogInv, SightInv, Core, LogShows
<1>2. PICK p, view, n : p = calls[c].op /\ view = Loaded(c) /\ n = Len(ops) + 1
  OBVIOUS
<1>3. /\ UNCHANGED <<commits, git, pushed, landed>> /\ calls[c].pc = "ready"
      /\ calls[c].kind = "checkpoint" /\ Publish({p}, "checkpoint", view) /\ Return(c)
  BY <1>2 DEF CheckpointCall
<1>4. /\ p \in DOMAIN ops /\ view = ops[p].view
      /\ Single(p) /\ (Total(p) \/ ops[p].kind = "import")
  BY <1>1, <1>2, <1>3 DEF CallShape, Loaded, Core, CallLog
<1>5. \A d \in Callers : d # c => calls'[d] = calls[d]
  BY <1>1, <1>3 DEF Return, CallShape
<1>6. ~Working(c)' /\ CallLog(c)' /\ Holder(c)'
  BY <1>1, <1>3, CallAfter, IdleIsMet DEF Becomes
<1>7. Published({p}, "checkpoint", view)
  BY <1>1, <1>3, PublishIs
<1>8. Extends(commits', commits)
  BY <1>3, ExtendsItself
<1>9. Grown
  BY <1>7, <1>8, GrownAfter
<1>10. PICK x : view.main = {x} /\ MainOf(p) = x /\ x \in Commit \cup {None}
  BY <1>1, <1>4, MainIs DEF Single
<1>11. OnTop(p, n, "checkpoint", view)
  BY <1>1, <1>2, <1>4, <1>7, <1>9, PublishedOn
<1>12. Seen(n)'
  BY <1>3, <1>4, <1>11 DEF OnTop
<1>13. Shape(n)'
  <2>1. p \in DOMAIN ops' /\ ops'[p] = ops[p] /\ (Total(p) => Total(p)') /\ MainOf(p)' = x
    BY <1>4, <1>9, <1>10, OldStays DEF Grown
  <2>2. Under(x, x)'
    BY <1>1, <1>3, <1>10, UnderLaws DEF Under
  <2>3. Under(MainOf(p), MainOf(n))'
    BY <1>10, <1>11, <2>1, <2>2 DEF Under, OnTop
  <2>4. ops'[n].view.main = ops'[n].view.git
    BY <1>1, <1>4, <1>11 DEF CalmLog, Shape, OnTop
  <2> QED BY <1>4, <1>10, <1>11, <2>1, <2>3, <2>4 DEF Shape, OnTop
<1>14. CalmLog'
  <2>1. Tree(commits')
    BY <1>1, <1>3 DEF CalmLog
  <2>2. {p} \subseteq DOMAIN ops
    BY <1>4
  <2> QED BY <1>1, <1>2, <1>7, <1>9, <1>12, <1>13, <2>1, <2>2, PublishCalm
<1>15. PinsFew
  BY <1>5, <1>6, <1>9, <1>11, NoNewPins DEF OnTop
<1>16. Under(x, git) \/ \E e \in Callers : /\ calls[e].pc = "mirroring" /\ x = calls[e].target
                                           /\ calls[e].kind = "integrate" /\ UnderWay(e) /\ Above(x)
  <2>1. Under(x, git) \/ Mirroring(x)
    BY <1>4, <1>10 DEF Core, LineOnly
  <2>2. ASSUME NEW e \in Callers, calls[e].pc = "mirroring", x = calls[e].target
        PROVE  calls[e].kind = "integrate" /\ UnderWay(e) /\ Above(x)
    BY <2>2 DEF Core, CallLog, Holder, MirrorOK, UnderWay
  <2> QED BY <2>1, <2>2 DEF Mirroring
<1>17. MainMet(c, n, view)
  <2>1. ASSUME NEW r \in DOMAIN ops, Pinned(r) PROVE OnLine(commits, x, MainOf(r))
    <3>1. PICK m : m = MainOf(r) /\ m \in Commit \cup {None}
      BY <1>1, MainIs
    <3>2. CASE Under(x, git)
      <4>1. Under(m, git) /\ git \in Commit \cup {None}
        BY <1>1, <2>1, <3>1 DEF Core, Above, LogShows
      <4> QED BY <1>1, <1>10, <3>1, <3>2, <4>1, UnderLaws DEF CalmLog
    <3>3. CASE Above(x)
      <4>1. Under(m, x)
        BY <2>1, <3>1, <3>3 DEF Above
      <4> QED BY <1>1, <3>1, <4>1, UnderLaws
    <3> QED BY <1>16, <3>2, <3>3
  <2>2. Under(x, git) \/ Mirroring(x)
    BY <1>16 DEF Mirroring
  <2>3. ASSUME NEW d \in Callers, calls[d].kind = "integrate", calls[d].pc = "loaded"
        PROVE  Under(x, git)
    <3>1. ASSUME NEW e \in Callers, calls[e].pc = "mirroring", calls[e].kind = "integrate", UnderWay(e)
          PROVE  FALSE
      <4>1. UnderWay(d)
        BY <2>3 DEF UnderWay
      <4>2. d = e
        BY <1>1, <2>3, <3>1, <4>1 DEF TurnInv
      <4> QED BY <2>3, <3>1, <4>2
    <3> QED BY <1>16, <3>1
  <2> QED BY <1>3, <1>10, <2>1, <2>2, <2>3 DEF MainMet
<1> QED BY <1>3, <1>5, <1>6, <1>9, <1>11, <1>14, <1>15, <1>17, PublishQuiet DEF OnTop

\* What the main of plain git is under, or is the main of, is in line with the
\* pinned mains.
LEMMA GitInLine ==
  ASSUME Ground, Core, NEW r \in DOMAIN ops, Pinned(r)
  PROVE  /\ OnLine(commits, git, MainOf(r))
         /\ \A x \in Commit \cup {None} : Under(x, git) => OnLine(commits, x, MainOf(r))
<1>1. LogShows /\ WellFormed(commits) /\ git \in Commit \cup {None} /\ Tree(commits)
  BY DEF Ground, SightInv, LogShows, Core, CalmLog
<1>2. PICK m : m = MainOf(r) /\ m \in Commit \cup {None}
  BY <1>1, MainIs
<1>3. Under(m, git)
  BY <1>2 DEF Core, Above
<1> QED BY <1>1, <1>2, <1>3, UnderLaws

\* import_refs merged the move of plain git's main into main, which had not
\* moved: both have one main, and a submission is about to work on it.
LEMMA ImportCalm ==
  ASSUME Ground, Ground', Core, NEW c \in Callers, Import(c)
  PROVE  Core'
<1>1. /\ CallShape /\ LogShape /\ LogShows /\ TurnInv /\ CalmLog
      /\ WellFormed(commits) /\ git \in Commit \cup {None}
  BY DEF Ground, LogInv, SightInv, Core, LogShows
<1>2. PICK p, n, old, X : /\ p = calls[c].op /\ n = Len(ops) + 1 /\ old = Loaded(c)
                          /\ X = old.heads \cup ({git} \ {None})
  OBVIOUS
<1>3. /\ UNCHANGED <<commits, git, pushed, landed>> /\ calls[c].pc = "loaded" /\ old.git # {git}
  BY <1>2 DEF Import
<1>4. p \in DOMAIN ops /\ old = ops[p].view /\ Total(p) /\ old.main = old.git
  BY <1>1, <1>2, <1>3 DEF CallShape, Loaded, Core, CallLog, CalmLog, Shape
<1>5. PICK view : view = [heads |-> HeadsOf(commits, X), main |-> {git}, git |-> {git}]
  OBVIOUS
<1>6. Publish({p}, "import", view)
  <2>1. MergeRef(commits, old.main, old.git, {git}) = {git}
    BY <1>3, <1>4 DEF MergeRef
  <2> QED BY <1>2, <1>5, <2>1 DEF Import
<1>7. \A d \in Callers : d # c => calls'[d] = calls[d]
  BY <1>1 DEF Import, CallShape
<1>8. Becomes(c, "ready", calls[c].kind, n, calls[c].target)
  BY <1>1, <1>2, CallAfter
<1>9. Published({p}, "import", view)
  BY <1>1, <1>6, PublishIs
<1>10. Extends(commits', commits)
  BY <1>3, ExtendsItself
<1>11. Grown
  BY <1>9, <1>10, GrownAfter
<1>12. OnTop(p, n, "import", view)
  BY <1>1, <1>2, <1>4, <1>9, <1>11, PublishedOn
<1>13. /\ n \in DOMAIN ops' /\ DOMAIN ops' \ DOMAIN ops = {n} /\ view.main = {git}
       /\ ops'[n].view = view /\ MainOf(n)' = git /\ Single(n)' /\ ops'[n].kind = "import"
       /\ BuiltOn(n, p)' /\ Total(p)' /\ p \in DOMAIN ops' /\ ops'[p] = ops[p]
  BY <1>4, <1>5, <1>11, <1>12, OldStays DEF OnTop, Grown
<1>14. Seen(n)'
  <2>1. X \subseteq DOMAIN commits /\ old.heads \subseteq X
    BY <1>1, <1>2, <1>4 DEF LogShows, GoodView, Commit
  <2>2. view.heads = HeadsOf(commits, X)
    BY <1>5
  <2>3. Visible(commits, old) \subseteq Visible(commits, view)
    BY <1>1, <2>1, <2>2, HeadsShow
  <2> QED BY <1>3, <1>4, <1>12, <2>3 DEF OnTop
<1>15. Shape(n)'
  <2>1. ops'[n].view.main = ops'[n].view.git
    BY <1>5, <1>13
  <2> QED BY <1>12, <1>13, <2>1 DEF Shape, OnTop
<1>16. CalmLog'
  <2>1. Tree(commits')
    BY <1>1, <1>3 DEF CalmLog
  <2>2. {p} \subseteq DOMAIN ops
    BY <1>4
  <2> QED BY <1>1, <1>2, <1>9, <1>11, <1>14, <1>15, <2>1, <2>2, PublishCalm
<1>17. CallLog(c)'
  BY <1>8, <1>13 DEF Becomes, CallLog, Single, MainOf, Total
<1>18. Under(git, git)
  BY <1>1, UnderLaws
<1>19. MainMet(c, n, view)
  BY <1>3, <1>13, <1>18, GitInLine DEF MainMet
<1>20. CASE calls[c].kind # "integrate"
  <2>1. ~Working(c)' /\ Holder(c)'
    BY <1>8, <1>20 DEF Becomes, Working, Holder
  <2>2. PinsFew
    BY <1>7, <1>11, <1>13, <2>1, NoNewPins
  <2> QED BY <1>3, <1>7, <1>11, <1>13, <1>16, <1>17, <1>19, <2>1, <2>2, PublishQuiet
<1>21. CASE calls[c].kind = "integrate"
  <2>1. Onward /\ Holds(git)'
    BY <1>3, <1>11, GitStays DEF Core
  <2>2. LineOnly'
    <3>1. \A x : Mirroring(x) => Mirroring(x)'
      BY <1>3, <1>7 DEF Mirroring
    <3>2. LinesMet
      BY <1>1, <1>13, <1>18, <2>1 DEF LinesMet, Onward
    <3> QED BY <1>11, <2>1, <3>1, <3>2, LinesStay DEF Core
  <2>3. \A r : Pinned(r)' => (r \in DOMAIN ops /\ Pinned(r)) \/ r = n
    <3> SUFFICES ASSUME NEW r, Pinned(r)', r # n PROVE Pinned(r)
      BY DEF Pinned
    <3>1. r \in DOMAIN ops
      BY <1>13 DEF Pinned
    <3>2. ASSUME NEW k \in DOMAIN ops', ops'[k].kind = "integrate", BuiltOn(k, r)' PROVE Pinned(r)
      <4>1. k \in DOMAIN ops /\ ops[k] = ops'[k]
        BY <1>11, <1>13, <3>2 DEF Grown
      <4>2. BuiltOn(k, r)
        BY <1>11, <3>2, <4>1, OldStays
      <4> QED BY <3>1, <3>2, <4>1, <4>2 DEF Pinned
    <3>3. ASSUME NEW d \in Callers, Working(d)', calls'[d].op = r PROVE Pinned(r)
      <4>1. d # c
        BY <1>8, <3>3 DEF Becomes
      <4>2. Working(d) /\ calls[d].op = r
        BY <1>7, <3>3, <4>1 DEF Working
      <4> QED BY <3>1, <4>2 DEF Pinned
    <3> QED BY <3>2, <3>3 DEF Pinned
  <2>4. Above(git)'
    <3> SUFFICES ASSUME NEW r \in DOMAIN ops', Pinned(r)' PROVE Under(MainOf(r), git)'
      BY DEF Above
    <3>1. CASE r \in DOMAIN ops /\ Pinned(r)
      <4>1. PICK m : m = MainOf(r) /\ m \in Commit \cup {None}
        BY <1>1, <3>1, MainIs
      <4>2. Under(m, git) /\ MainOf(r)' = m
        BY <1>11, <3>1, <4>1, OldStays DEF Core, Above
      <4>3. Under(m, git)'
        BY <2>1, <4>1, <4>2 DEF Onward
      <4> QED BY <4>2, <4>3 DEF Under
    <3>2. CASE r = n
      <4>1. PICK g : g = git /\ git' = g /\ MainOf(n)' = g
        BY <1>3, <1>13
      <4>2. Under(g, git)'
        BY <1>1, <1>18, <2>1, <4>1 DEF Onward
      <4> QED BY <3>2, <4>1, <4>2 DEF Under
    <3> QED BY <2>3, <3>1, <3>2
  <2>5. PinInv'
    <3> SUFFICES ASSUME NEW r, NEW o \in DOMAIN ops', Pinned(r)', o \notin ops'[r].anc
                 PROVE  InLine(o, r)'
      BY DEF PinInv
    <3>1. o = n \/ o \in DOMAIN ops
      BY <1>13
    <3>2. CASE r \in DOMAIN ops /\ Pinned(r)
      <4>1. CASE o \in DOMAIN ops
        <5>1. InLine(o, r)
          BY <1>11, <3>2, <4>1 DEF Core, PinInv, Grown
        <5> QED BY <1>11, <3>2, <4>1, <5>1, SeenStays
      <4>2. CASE o = n
        <5>1. PICK g, m : g = git /\ m = MainOf(r) /\ m \in Commit \cup {None}
          BY <1>1, <3>2, MainIs
        <5>2. OnLine(commits', g, m) /\ MainOf(r)' = m
          BY <1>3, <1>11, <3>2, <5>1, GitInLine, OldStays
        <5> QED BY <1>13, <4>2, <5>1, <5>2 DEF InLine
      <4> QED BY <3>1, <4>1, <4>2
    <3>3. CASE r = n
      <4>1. o \in DOMAIN ops /\ o > p
        <5>1. ops'[n].anc = ops'[p].anc \cup {n}
          BY <1>13 DEF BuiltOn
        <5>2. o # n /\ o \notin ops[p].anc
          BY <1>13, <3>3, <5>1
        <5> QED BY <1>1, <1>4, <3>1, <5>2 DEF Total, LogShape
      <4>2. LoadOK(p)
        BY <1>2, <1>3, <1>21 DEF Core, Holder
      <4> SUFFICES ASSUME NEW x \in ops'[o].view.main
                   PROVE  \/ OnLine(commits', x, MainOf(n)')
                          \/ /\ Total(o)' /\ n \notin ops'[o].anc
                             /\ \E t \in DOMAIN ops' : BuiltOn(n, t)' /\ Total(t)'
                                                       /\ x \in ops'[t].view.main
        BY <3>3 DEF InLine
      <4>3. ops'[o] = ops[o] /\ x \in ops[o].view.main /\ (Total(o) => Total(o)') /\ n \notin ops[o].anc
        BY <1>1, <1>11, <1>13, <4>1, OldStays DEF Grown, LogShape
      <4>4. CASE Under(x, git)
        <5>1. OnLine(commits, x, git)
          BY <1>1, <4>4, UnderLaws
        <5> QED BY <1>3, <1>13, <5>1
      <4>5. CASE Total(o) /\ x \in ops[p].view.main
        BY <1>13, <4>3, <4>5
      <4> QED BY <4>1, <4>2, <4>3, <4>4, <4>5 DEF LoadOK
    <3> QED BY <2>3, <3>2, <3>3
  <2>6. Holder(c)'
    <3>1. PICK g : g = git /\ git' = g /\ MainOf(n)' = g
      BY <1>3, <1>13
    <3>2. Above(g)' /\ Holds(g)'
      BY <2>1, <2>4, <3>1 DEF Above, Under, Holds
    <3>3. Under(g, git)'
      BY <1>1, <1>18, <2>1, <3>1 DEF Onward
    <3>4. WorkOK(n)'
      BY <3>1, <3>2, <3>3 DEF WorkOK, Above, Under, Holds
    <3> QED BY <1>8, <3>4 DEF Holder, Becomes, WorkOK
  <2>7. UnderWay(c)
    BY <1>3 DEF UnderWay
  <2> QED BY <1>7, <1>11, <1>16, <1>17, <1>21, <2>1, <2>2, <2>4, <2>5, <2>6, <2>7, CoreAfter
<1> QED BY <1>20, <1>21

\* load_at_head of diverged heads: the merge is above everything, and shows only
\* mains that some head shows.
LEMMA LoadMergingCalm ==
  ASSUME Ground, Ground', Core, NEW c \in Callers, LoadMerging(c)
  PROVE  Core'
<1>1. /\ CallShape /\ LogShape /\ LogShows /\ TurnInv /\ CalmLog /\ OpLogComplete /\ PinInv
      /\ WellFormed(commits) /\ git \in Commit \cup {None}
  BY DEF Ground, LogInv, SightInv, Core, LogShows
<1>2. PICK acc, view, n : acc = MergedHeads /\ view = acc.view /\ n = Len(ops) + 1
  OBVIOUS
<1>3. /\ UNCHANGED <<git, pushed, landed>> /\ calls[c].pc = "called" /\ commits' = acc.cs
      /\ Publish(opHeads, "merge", view)
  BY <1>2 DEF LoadMerging
<1>4. opHeads # {} /\ opHeads \subseteq DOMAIN ops
  <2>1. Cardinality(opHeads) > 1
    BY DEF LoadMerging
  <2>2. Cardinality({}) = 0
    BY FS_EmptySet
  <2>3. opHeads # {}
    BY ONLY <2>1, <2>2
  <2> QED BY <1>1, <2>3 DEF LogShape
<1>5. MergeShown(acc) /\ MergeCalm(acc, Len(ops))
  BY <1>1, <1>2, <1>4, MergedHeadsShow, MergedHeadsCalm
<1>6. \A d \in Callers : d # c => calls'[d] = calls[d]
  BY <1>1 DEF LoadMerging, CallShape
<1>7. Becomes(c, "loaded", calls[c].kind, n, calls[c].target)
  BY <1>1, <1>2, CallAfter
<1>8. Published(opHeads, "merge", view)
  BY <1>1, <1>3, PublishIs
<1>9. Extends(commits', commits)
  BY <1>3, <1>5 DEF MergeShown
<1>10. Grown
  BY <1>8, <1>9, GrownAfter
<1>11. /\ n \in DOMAIN ops' /\ DOMAIN ops' \ DOMAIN ops = {n}
       /\ ops'[n].view = view /\ ops'[n].kind = "merge"
       /\ DOMAIN ops' = 1 .. n /\ ops'[n].anc = 1 .. n
       /\ DOMAIN ops = 1 .. Len(ops) /\ Len(ops) \in Nat
       /\ \A o \in DOMAIN ops : ops'[o] = ops[o]
  <2>1. /\ DOMAIN ops' = DOMAIN ops \cup {n} /\ n \notin DOMAIN ops
        /\ DOMAIN ops = 1 .. Len(ops) /\ Len(ops) \in Nat
        /\ \A o \in DOMAIN ops : ops'[o] = ops[o]
        /\ ops'[n].kind = "merge" /\ ops'[n].view = view
        /\ ops'[n].anc = (UNION {ops[h].anc : h \in opHeads}) \cup {n}
    BY <1>2, <1>8 DEF Published
  <2>2. ops'[n].anc = DOMAIN ops'
    BY <1>1, <2>1 DEF OpLogComplete
  <2> QED BY <1>2, <2>1, <2>2
<1>12. Total(n)' /\ acc.anc = DOMAIN ops
  <2>1. {g \in opHeads : g <= Len(ops)} = opHeads
    BY <1>4, <1>11
  <2> QED BY <1>1, <1>5, <1>11, <2>1 DEF Total, MergeCalm, OpLogComplete
<1>13. Seen(n)'
  <2> SUFFICES ASSUME NEW b \in ops'[n].anc, NEW a \in Visible(commits', ops'[b].view)
               PROVE  a \in Visible(commits', view) \/ Cut(a, DOMAIN ops)'
    <3>1. \A a : Cut(a, DOMAIN ops)' => Cut(a, ops[n].anc)'
      BY <1>11 DEF Cut
    <3> QED BY <1>11, <3>1 DEF Seen
  <2>1. CASE b = n
    BY <1>11, <2>1
  <2>2. CASE b # n
    <3>1. b \in DOMAIN ops /\ ops'[b] = ops[b]
      BY <1>11, <2>2
    <3>2. a \in Visible(commits, ops[b].view) /\ a \in Commit
      <4>1. /\ Visible(commits', ops[b].view) = Visible(commits, ops[b].view)
            /\ Visible(commits, ops[b].view) \subseteq Commit
        BY <1>10, <3>1, SeenTheSame DEF Grown, LogShows, GoodView, Commit
      <4> QED BY <3>1, <4>1
    <3>3. a \in Visible(commits', view) \/ Cut(a, DOMAIN ops)
      BY <1>2, <1>3, <1>5, <1>12, <3>1, <3>2 DEF MergeCalm
    <3>4. Cut(a, DOMAIN ops) => Cut(a, DOMAIN ops)'
      <4>1. PICK A : A = DOMAIN ops
        OBVIOUS
      <4>2. Cut(a, A) => Cut(a, A)'
        BY <1>10, <3>2, <4>1, SeenStays
      <4>3. A \subseteq DOMAIN ops'
        BY <1>11, <4>1
      <4> QED BY <4>1, <4>2, <4>3 DEF Cut
    <3> QED BY <3>3, <3>4
  <2> QED BY <2>1, <2>2
<1>14. Shape(n)'
  <2>1. ops'[n].view.main = ops'[n].view.git
    BY <1>2, <1>5, <1>11 DEF MergeCalm
  <2> QED BY <1>2, <1>11, <1>12, <2>1 DEF Shape
<1>15. CalmLog'
  <2>1. Tree(commits')
    BY <1>3, <1>5 DEF MergeCalm
  <2> QED BY <1>1, <1>2, <1>4, <1>8, <1>10, <1>13, <1>14, <2>1, PublishCalm
<1>16. CallLog(c)' /\ Holder(c)' /\ ~Working(c)'
  <2>1. LoadOK(n)'
    <3>1. \A o \in DOMAIN ops' : ~(o > n)
      BY <1>2, <1>11
    <3> QED BY <3>1 DEF LoadOK
  <2> QED BY <1>7, <1>12, <2>1 DEF Becomes, CallLog, Holder, Working, Total, LoadOK
<1>17. PinsFew
  BY <1>6, <1>10, <1>11, <1>16, NoNewPins
<1>18. MainMet(c, n, view)
  <2> SUFFICES ASSUME NEW x \in view.main
               PROVE  /\ \A r \in DOMAIN ops : Pinned(r) => OnLine(commits', x, MainOf(r))
                      /\ pushed = {} => Under(x, git) \/ Mirroring(x)
                      /\ \A d \in Callers : calls[d].kind = "integrate" /\ calls[d].pc = "loaded" =>
                           Under(x, git) \/ (Total(n)' /\ x \in ops[calls[d].op].view.main)
    BY DEF MainMet
  <2>1. PICK h \in opHeads : x \in ops[h].view.main
    BY <1>2, <1>5 DEF MergeCalm
  <2>2. h \in DOMAIN ops /\ x \in Commit \cup {None}
    BY <1>1, <1>4, <2>1 DEF LogShows, GoodView, Commit
  <2>3. ASSUME NEW r \in DOMAIN ops, Pinned(r) PROVE OnLine(commits', x, MainOf(r))
    <3>1. OnLine(commits, x, MainOf(r))
      BY <1>2, <1>5, <1>12, <2>3 DEF MergeCalm
    <3>2. MainOf(r) \in Commit \cup {None}
      BY <1>1, MainIs
    <3> QED BY <1>10, <2>2, <3>1, <3>2, OldStays
  <2>4. pushed = {} => Under(x, git) \/ Mirroring(x)
    BY <2>1, <2>2 DEF Core, LineOnly
  <2>5. ASSUME NEW d \in Callers, calls[d].kind = "integrate", calls[d].pc = "loaded"
        PROVE  Under(x, git) \/ (Total(n)' /\ x \in ops[calls[d].op].view.main)
    <3>1. PICK p : p = calls[d].op
      OBVIOUS
    <3>2. p \in DOMAIN ops /\ LoadOK(p) /\ Total(p)
      BY <1>1, <2>5, <3>1 DEF CallShape, Core, Holder, CallLog
    <3>3. CASE h > p
      BY <1>12, <2>1, <2>2, <3>1, <3>2, <3>3 DEF LoadOK
    <3>4. CASE ~(h > p)
      <4>1. h \in ops[p].anc
        BY <1>11, <2>2, <3>2, <3>4 DEF Total
      <4>2. p = h
        BY <3>2, <4>1 DEF Core, CalmLog, TailInv
      <4> QED BY <1>12, <2>1, <3>1, <4>2
    <3> QED BY <3>3, <3>4
  <2> QED BY <2>3, <2>4, <2>5
<1>19. calls[c].pc # "mirroring"
  BY <1>3
<1> QED BY <1>3, <1>6, <1>10, <1>11, <1>15, <1>16, <1>17, <1>18, <1>19, PublishQuiet

-----------------------------------------------------------------------------
(* VcsEngine: a submission moves main *)

\* What a submission shows next, on top of its main: what it hides it has
\* rewritten, off the line of that main.
Lands(p, y, view) ==
  /\ y \in DOMAIN commits' /\ view.main = {y} /\ view.git = {y}
  /\ MainOf(p) = None \/ MainOf(p) \in commits'[y].anc
  /\ \A a \in Visible(commits, ops[p].view) :
       a \in Visible(commits', view) \/ ~OnLine(commits', a, MainOf(p))

LEMMA LandCalm ==
  ASSUME Ground, Ground', Grown, Core, Tree(commits'), UNCHANGED <<git, pushed, landed>>,
         NEW c \in Callers, calls[c].pc = "ready", calls[c].kind = "integrate",
         \A d \in Callers : d # c => calls'[d] = calls[d],
         NEW p, p = calls[c].op, NEW y, NEW view, Lands(p, y, view),
         Becomes(c, "mirroring", calls[c].kind, p, y), Published({p}, "integrate", view)
  PROVE  Core'
<1>1. CallShape /\ LogShape /\ LogShows /\ TurnInv /\ CalmLog /\ UnderWay(c)
  BY DEF Ground, LogInv, SightInv, Core, UnderWay
<1>2. /\ p \in DOMAIN ops /\ WorkOK(p) /\ Single(p) /\ (Total(p) \/ ops[p].kind = "import")
  BY <1>1 DEF CallShape, Core, CallLog, Holder
<1>3. PICK m, n : m = MainOf(p) /\ n = Len(ops) + 1 /\ m \in Commit \cup {None}
  BY <1>1, <1>2, MainIs
<1>4. OnTop(p, n, "integrate", view)
  BY <1>1, <1>2, <1>3, PublishedOn
<1>5. /\ p \in DOMAIN ops' /\ ops'[p] = ops[p] /\ MainOf(p)' = m /\ (Total(p) => Total(p)')
  BY <1>2, <1>3, OldStays DEF Grown
<1>6. /\ n \in DOMAIN ops' /\ DOMAIN ops' \ DOMAIN ops = {n}
      /\ ops'[n].kind = "integrate" /\ ops'[n].view = view /\ BuiltOn(n, p)'
      /\ MainOf(n)' = y /\ Single(n)' /\ view.main = {y} /\ \A r : BuiltOn(n, r)' => r = p
  BY <1>4 DEF OnTop, Lands
<1>7. /\ y \in DOMAIN commits' /\ y # None /\ y \in commits'[y].anc
      /\ m = None \/ m \in commits'[y].anc
  <2>1. WellFormed(commits')
    BY DEF Grown
  <2>2. y \in DOMAIN commits' /\ (m = None \/ m \in commits'[y].anc)
    BY <1>3 DEF Lands
  <2>3. DOMAIN commits' \subseteq Nat /\ y \in commits'[y].anc
    BY <2>1, <2>2, GraphShape
  <2> QED BY <2>2, <2>3, NoCommitAssumption
<1>8. Seen(n)'
  <2>1. ASSUME NEW a \in Visible(commits, ops[p].view), a \notin Visible(commits', view)
        PROVE  Cut(a, {p, n})'
    <3>1. ~OnLine(commits', a, m)
      BY <1>3, <2>1 DEF Lands
    <3> QED BY <1>5, <1>6, <3>1 DEF Cut
  <2> QED BY <1>4, <2>1 DEF OnTop
<1>9. Shape(n)'
  <2>1. Under(MainOf(p), MainOf(n))'
    <3>1. Under(m, y)'
      BY <1>7 DEF Under
    <3> QED BY <1>5, <1>6, <3>1 DEF Under
  <2>2. ops'[n].view.main = ops'[n].view.git
    BY <1>6 DEF Lands
  <2>3. n \in ops'[n].anc /\ ops'[n].anc \subseteq 1 .. n
    BY <1>4 DEF OnTop
  <2> QED BY <1>2, <1>5, <1>6, <2>1, <2>2, <2>3 DEF Shape
<1>10. CalmLog'
  <2>1. {p} \subseteq DOMAIN ops
    BY <1>2
  <2> QED BY <1>1, <1>3, <1>8, <1>9, <2>1, PublishCalm
<1>11. PinsFew
  <2>1. Pinned(p)
    BY <1>2 DEF Pinned, Working
  <2>2. ~Working(c)'
    BY DEF Becomes, Working
  <2> QED BY <1>6, <2>1, <2>2, NoNewPins
<1>12. ASSUME NEW r \in DOMAIN ops, Pinned(r)
       PROVE  MainOf(r) = None \/ MainOf(r) \in commits'[y].anc
  <2>1. Under(MainOf(r), m)
    BY <1>2, <1>3, <1>12 DEF WorkOK, Above
  <2>2. m # None => commits'[m].anc = commits[m].anc
    BY <1>3 DEF Grown, Extends, Commit
  <2>3. m # None => commits'[m].anc \subseteq commits'[y].anc
    <3>1. WellFormed(commits')
      BY DEF Grown
    <3> QED BY <1>7, <3>1, GraphShape
  <2> QED BY <2>1, <2>2, <2>3 DEF Under
<1>13. CallLog(c)'
  BY DEF Becomes, CallLog
<1>14. Holder(c)'
  <2>1. Above(y)'
    <3> SUFFICES ASSUME NEW r \in DOMAIN ops', Pinned(r)' PROVE Under(MainOf(r), y)'
      BY DEF Above
    <3>1. r \in DOMAIN ops /\ Pinned(r)
      BY <1>11 DEF PinsFew, Pinned
    <3>2. MainOf(r)' = MainOf(r)
      BY <3>1, OldStays
    <3> QED BY <1>7, <1>12, <3>1, <3>2 DEF Under
  <2>2. Holds(y)'
    BY <1>2, <1>3, <1>7, HoldsAbove DEF WorkOK, Grown
  <2>3. pushed' = {} => Under(git, y)'
    BY <1>2, <1>3, <1>7 DEF WorkOK, Under
  <2>4. MirrorOK(y)'
    BY <2>1, <2>2, <2>3 DEF MirrorOK
  <2> QED BY <2>4 DEF Holder, Becomes, MirrorOK, Above, Holds, Under
<1>15. MainMet(c, n, view)
  <2>1. \A r \in DOMAIN ops : Pinned(r) => OnLine(commits', y, MainOf(r))
    BY <1>12 DEF OnLine
  <2>2. Mirroring(y)'
    BY DEF Mirroring, Becomes
  <2>3. \A d \in Callers : d # c => ~(calls[d].kind = "integrate" /\ calls[d].pc = "loaded")
    BY <1>1, OnlyHolder DEF UnderWay
  <2> QED BY <1>6, <2>1, <2>2, <2>3 DEF MainMet
<1>16. calls[c].pc # "mirroring"
  OBVIOUS
<1> QED BY <1>6, <1>10, <1>11, <1>13, <1>14, <1>15, <1>16, PublishQuiet

\* What is not built on x stays visible.
HidesOnly(cs, x, v, ds, w) == \A a \in Visible(cs, v) : a \in Visible(ds, w) \/ x \in cs[a].anc

\* Only what is built on the lost commit is hidden.
LEMMA RewriteStays ==
  ASSUME NEW cs, WellFormed(cs), NEW view, GoodView(cs, view),
         NEW x \in DOMAIN cs, NEW n \in DOMAIN cs, NEW lost, lost = {x}, NEW new, new = {n},
         NEW r, r = RebaseDescendants(cs, view, lost, new),
         NEW X, X = r.view.heads \cup new, NEW w, w.heads = HeadsOf(r.cs, X),
         NEW ds, ds = r.cs
  PROVE  HidesOnly(cs, x, view, ds, w)
<1>1. PICK gone, moving : gone = Gone(cs, lost, new) /\ moving = Moving(cs, view, lost, gone)
  OBVIOUS
<1>2. Rewriting(cs, view, lost, new, moving, r) /\ \A b \in moving : x \in cs[b].anc
  BY <1>1, LosingOne
<1> SUFFICES ASSUME NEW a \in Visible(cs, view), x \notin cs[a].anc PROVE a \in Visible(ds, w)
  BY DEF HidesOnly
<1>3. InReach(cs, view, lost, moving, a)
  <2>1. Visible(cs, view) \subseteq DOMAIN cs
    BY GraphShape DEF GoodView, Visible
  <2>2. a # x
    BY <2>1, GraphShape
  <2> QED BY <2>1, <2>2 DEF InReach
<1>4. InSight(r, cs, a, a \notin moving)
  BY ONLY <1>2, <1>3, KeptInSight, Zenon
<1>5. a \in Visible(r.cs, r.view)
  BY <1>2, <1>4 DEF InSight
<1>6. Visible(r.cs, r.view) \subseteq Visible(r.cs, w)
  <2>1. PICK v : v = r.view
    OBVIOUS
  <2>2. WellFormed(ds) /\ X \subseteq DOMAIN ds /\ w.heads = HeadsOf(ds, X) /\ v.heads \subseteq X
    <3>1. WellFormed(r.cs) /\ Extends(r.cs, cs) /\ GoodView(r.cs, r.view)
      BY GoodViewAfter
    <3> QED BY <2>1, <3>1 DEF GoodView, Extends
  <2>3. Visible(ds, v) \subseteq Visible(ds, w)
    BY ONLY <2>2, HeadsShow
  <2> QED BY <2>1, <2>3
<1> QED BY <1>5, <1>6

\* integrate_commit, fast-forward: all that was shown stays so.
LEMMA FastForwardCalm ==
  ASSUME Ground, Ground', Core, NEW c \in Callers, IntegrateFastForward(c)
  PROVE  Core'
<1>1. CallShape /\ LogShape /\ LogShows /\ CalmLog /\ WellFormed(commits)
  BY DEF Ground, LogInv, SightInv, Core, LogShows
<1>2. PICK p, old, x, X : /\ p = calls[c].op /\ old = Loaded(c) /\ x = calls[c].arg
                          /\ X = old.heads \cup {x}
  OBVIOUS
<1>3. /\ UNCHANGED <<commits, git, pushed, landed>>
      /\ calls[c].pc = "ready" /\ calls[c].kind = "integrate"
      /\ Main(c) = None \/ IsAncestor(commits, Main(c), x)
      /\ Publish({p}, "integrate", MoveMain([old EXCEPT !.heads = HeadsOf(commits, @ \cup {x})], x))
  BY <1>2 DEF IntegrateFastForward
<1>4. /\ p \in DOMAIN ops /\ old = ops[p].view /\ x \in DOMAIN commits /\ GoodView(commits, old)
      /\ MainOf(p) = Main(c)
  <2>1. CallShows(calls[c])
    BY DEF Ground, SightInv
  <2> QED BY <1>1, <1>2, <1>3, <2>1 DEF CallShape, CallShows, Loaded, Commit, LogShows, Main, MainOf
<1>5. PICK hs : hs = HeadsOf(commits, X)
  OBVIOUS
<1>6. PICK view : view = [heads |-> hs, main |-> {x}, git |-> {x}]
  OBVIOUS
<1>7. Publish({p}, "integrate", view)
  <2>1. MoveMain([old EXCEPT !.heads = hs], x) = view
    BY <1>4, <1>6, MoveMainIs DEF GoodView
  <2> QED BY <1>2, <1>3, <1>5, <2>1
<1>8. Becomes(c, "mirroring", calls[c].kind, p, x) /\ \A d \in Callers : d # c => calls'[d] = calls[d]
  <2>1. Step(c)
    BY DEF Step
  <2> QED BY <1>1, <1>2, <2>1, CallAfter
<1>9. Published({p}, "integrate", view)
  BY <1>1, <1>7, PublishIs
<1>10. Extends(commits', commits)
  BY <1>3, ExtendsItself
<1>11. Grown
  BY <1>9, <1>10, GrownAfter
<1>12. Tree(commits')
  BY <1>1, <1>3 DEF CalmLog
<1>13. Lands(p, x, view)
  <2>1. X \subseteq DOMAIN commits /\ old.heads \subseteq X /\ view.heads = HeadsOf(commits, X)
    BY <1>2, <1>4, <1>5, <1>6 DEF GoodView
  <2>2. Visible(commits, old) \subseteq Visible(commits, view)
    BY <1>1, <2>1, HeadsShow
  <2>3. view.main = {x} /\ view.git = {x}
    BY <1>6
  <2> QED BY <1>3, <1>4, <2>2, <2>3 DEF Lands, IsAncestor
<1> QED BY <1>2, <1>3, <1>8, <1>9, <1>11, <1>12, <1>13, LandCalm

\* integrate_commit, rebase: what is hidden was built on the submitted commit.
LEMMA RebaseCalm ==
  ASSUME Ground, Ground', Core, NEW c \in Callers, IntegrateRebase(c)
  PROVE  Core'
<1>1. CallShape /\ LogShape /\ LogShows /\ CalmLog /\ WellFormed(commits)
  BY DEF Ground, LogInv, SightInv, Core, LogShows
<1>2. PICK p, old, x, m, n : /\ p = calls[c].op /\ old = Loaded(c) /\ x = calls[c].arg
                             /\ m = Main(c) /\ n = Len(commits) + 1
  OBVIOUS
<1>3. PICK cs, r : cs = Rebase(commits, x, {m}) /\ r = RebaseDescendants(cs, old, {x}, {n})
  OBVIOUS
<1>4. /\ UNCHANGED <<git, pushed, landed>> /\ calls[c].pc = "ready" /\ calls[c].kind = "integrate"
      /\ m # None /\ commits' = r.cs /\ m \notin commits[x].anc /\ x \notin commits[m].anc
      /\ Publish({p}, "integrate", MoveMain([r.view EXCEPT !.heads = HeadsOf(r.cs, @ \cup {n})], n))
  BY <1>2, <1>3 DEF IntegrateRebase, IsAncestor
<1>5. /\ p \in DOMAIN ops /\ old = ops[p].view /\ x \in DOMAIN commits /\ GoodView(commits, old)
      /\ MainOf(p) = m
  <2>1. CallShows(calls[c])
    BY DEF Ground, SightInv
  <2> QED BY <1>1, <1>2, <1>4, <2>1 DEF CallShape, CallShows, Loaded, Commit, LogShows, Main, MainOf
<1>6. m \in DOMAIN commits
  BY <1>1, <1>4, <1>5, MainIs DEF Commit
<1>7. PICK change, edits : change = commits[x].change /\ edits = cs[Len(commits) + 1].edits
  OBVIOUS
<1>8. OneMore(cs, commits, {m}, change, edits)
  <2>1. {m} \subseteq DOMAIN commits
    BY <1>6
  <2> QED BY <1>1, <1>3, <1>5, <1>7, <2>1, RebaseKeeps, ZenonT(30)
<1>9. /\ WellFormed(cs) /\ Extends(cs, commits) /\ n \in DOMAIN cs /\ x \in DOMAIN cs
      /\ Below(commits, {m}) \subseteq cs[n].anc
  BY <1>2, <1>5, <1>8 DEF OneMore, Extends
<1>10. GoodView(cs, old)
  BY <1>1, <1>5, <1>9, GoodViewStays
<1>11. Tree(cs)
  <2>1. Tree(commits) /\ \A q, s \in {m} : q = s
    BY <1>1 DEF CalmLog
  <2> QED BY ONLY <1>8, <2>1, TreeWithCommit
<1>12. PICK lost, new : lost = {x} /\ new = {n} /\ lost \subseteq DOMAIN cs /\ new \subseteq DOMAIN cs
  BY <1>9
<1>13. /\ WellFormed(r.cs) /\ Extends(r.cs, cs) /\ GoodView(r.cs, r.view) /\ Tree(r.cs)
  BY <1>3, <1>9, <1>10, <1>11, <1>12, GoodViewAfter, RewriteSlim
<1>14. PICK ds, hs : ds = r.cs /\ hs = HeadsOf(ds, r.view.heads \cup {n})
  OBVIOUS
<1>15. PICK view : view = [heads |-> hs, main |-> {n}, git |-> {n}]
  OBVIOUS
<1>16. Publish({p}, "integrate", view)
  <2>1. PICK u : u = r.view /\ u = [heads |-> u.heads, main |-> u.main, git |-> u.git]
    BY <1>13 DEF GoodView
  <2>2. MoveMain([u EXCEPT !.heads = hs], n) = view
    BY <1>15, <2>1, MoveMainIs
  <2> QED BY <1>4, <1>14, <2>1, <2>2
<1>17. Becomes(c, "mirroring", calls[c].kind, p, n) /\ \A d \in Callers : d # c => calls'[d] = calls[d]
  <2>1. Step(c)
    BY DEF Step
  <2> QED BY <1>1, <1>2, <2>1, CallAfter
<1>18. Published({p}, "integrate", view)
  BY <1>1, <1>16, PublishIs
<1>19. Extends(commits', commits)
  BY <1>4, <1>9, <1>13, ExtendsTransitive
<1>20. Grown
  BY <1>18, <1>19, GrownAfter
<1>21. ASSUME NEW a \in Visible(commits, old)
       PROVE  a \in Visible(commits', view) \/ ~OnLine(commits', a, m)
  <2>1. a \in DOMAIN commits /\ a \in Visible(cs, old) /\ cs[a] = commits[a]
    <3>1. old.heads \subseteq DOMAIN commits
      BY <1>5 DEF GoodView
    <3>2. Visible(cs, old) = Visible(commits, old) /\ Visible(commits, old) \subseteq DOMAIN commits
      BY <1>1, <1>9, <3>1, SeenTheSame
    <3> QED BY <1>9, <1>21, <3>2 DEF Extends
  <2>2. a \in Visible(ds, view) \/ x \in cs[a].anc
    <3>1. PICK Y : Y = r.view.heads \cup new
      OBVIOUS
    <3>2. /\ view.heads = HeadsOf(r.cs, Y) /\ r = RebaseDescendants(cs, old, lost, new)
          /\ WellFormed(cs) /\ GoodView(cs, old) /\ x \in DOMAIN cs /\ n \in DOMAIN cs
          /\ lost = {x} /\ new = {n} /\ ds = r.cs
      BY <1>3, <1>9, <1>10, <1>12, <1>14, <1>15, <3>1
    <3>3. HidesOnly(cs, x, old, ds, view)
      BY ONLY <3>1, <3>2, RewriteStays
    <3> QED BY <2>1, <3>3 DEF HidesOnly
  <2>3. CASE x \in commits[a].anc
    <3>1. ~OnLine(commits, x, m)
      <4>1. x # None
        BY <1>1, <1>5, StoreShape, NoCommitAssumption
      <4> QED BY <1>4, <4>1 DEF OnLine
    <3>2. ~OnLine(commits, a, m)
      BY <1>1, <1>6, <2>1, <2>3, <3>1, OffLineAbove DEF CalmLog
    <3> QED BY <1>1, <1>6, <1>19, <2>1, <3>2, OnLineStays
  <2> QED BY <1>4, <1>14, <2>1, <2>2, <2>3
<1>22. Lands(p, n, view)
  <2>1. n \in DOMAIN commits' /\ commits'[n] = cs[n]
    BY <1>4, <1>9, <1>13 DEF Extends
  <2>2. m \in commits[m].anc
    BY <1>1, <1>6, GraphShape
  <2>3. m \in commits'[n].anc
    BY <1>9, <2>1, <2>2 DEF Below
  <2>4. view.main = {n} /\ view.git = {n}
    BY <1>15
  <2> QED BY <1>5, <1>21, <2>1, <2>3, <2>4 DEF Lands
<1>23. Tree(commits')
  BY <1>4, <1>13
<1> QED BY <1>2, <1>4, <1>17, <1>18, <1>20, <1>22, <1>23, LandCalm

-----------------------------------------------------------------------------
(* VcsEngine: a calm queue *)

\* A call that was made stays of its kind.
LEMMA KindsStay ==
  ASSUME CallShape, FreshInv, NEW c \in Callers, Step(c), NEW d \in Callers
  PROVE  calls'[d].kind = calls[d].kind \/ calls[d].kind = "none"
<1>1. DOMAIN calls = Callers /\ DOMAIN calls[c] = CallFields
  BY DEF CallShape
<1>2. CASE d # c
  BY <1>2, CallAfter
<1>3. CASE d = c
  <2>1. ASSUME NEW kind, NEW arg, Begin(c, kind, arg) PROVE calls[c].kind = "none"
    BY <2>1 DEF Begin, FreshInv
  <2>2. CASE \/ TakeTurn(c) \/ LoadAtHead(c) \/ LoadMerging(c) \/ NothingToImport(c) \/ Import(c)
             \/ IntegrateFastForward(c) \/ IntegrateRebase(c)
    BY <1>3, <2>2, CallAfter DEF Becomes
  <2>3. Return(c) => calls'[c].kind = calls[c].kind
    BY CallAfter DEF Becomes
  <2>4. CASE \/ Read(c) \/ CheckpointCall(c) \/ IntegrateOutOfScope(c) \/ Mirror(c) \/ MirrorFails(c)
    BY <1>3, <2>3, <2>4 DEF Read, CheckpointCall, IntegrateOutOfScope, Mirror, MirrorFails
  <2>5. CASE CommitCall(c) \/ RestoreCall(c)
    <3>1. \/ \E pc, x : calls' = [calls EXCEPT ![c].pc = pc, ![c].target = x]
          \/ Return(c)
      BY <2>5 DEF CommitCall, RestoreCall
    <3>2. ASSUME NEW pc, NEW x, calls' = [calls EXCEPT ![c].pc = pc, ![c].target = x]
          PROVE  calls'[c].kind = calls[c].kind
      BY <1>1, <3>2 DEF CallFields
    <3> QED BY <1>3, <2>3, <3>1, <3>2
  <2>6. CASE CancelSubmission(c)
    <3>1. calls' = [calls EXCEPT ![c].client = FALSE]
      BY <2>6 DEF CancelSubmission
    <3> QED BY <1>1, <1>3, <3>1 DEF CallFields
  <2> QED BY <1>3, <2>1, <2>2, <2>4, <2>5, <2>6 DEF Step
<1> QED BY <1>2, <1>3

\* While the queue is calm, it was calm before.
LEMMA CalmBefore ==
  ASSUME AloneInv, VcsNext, Calm'
  PROVE  /\ Calm /\ ~Crash
         /\ \A c \in Callers : /\ ~MirrorFails(c) /\ ~CancelSubmission(c)
                               /\ ~CommitCall(c) /\ ~RestoreCall(c)
                               /\ CheckpointCall(c) => pushed = {}
<1>0. CallShape /\ FreshInv /\ mishaps \in Nat /\ mishaps' = 0
  BY DEF AloneInv, FreshInv, Calm
<1>1. mishaps = 0 /\ ~Crash /\ \A c \in Callers : ~MirrorFails(c) /\ ~CancelSubmission(c)
  BY <1>0, NoMishaps
<1>2. \A d \in Callers : calls'[d].kind = calls[d].kind \/ calls[d].kind = "none"
  <2>1. CASE Push
    BY <2>1 DEF Push
  <2>2. ASSUME NEW c \in Callers, Step(c), NEW d \in Callers
        PROVE  calls'[d].kind = calls[d].kind \/ calls[d].kind = "none"
    BY <1>0, <2>2, KindsStay
  <2> QED BY <1>1, <2>1, <2>2 DEF VcsNext
<1>3. pushed \subseteq pushed'
  <2>1. CASE Push
    BY <2>1 DEF Push
  <2>2. ASSUME NEW c \in Callers, Step(c) PROVE pushed' = pushed
    <3>1. ASSUME NEW kind, NEW arg, Begin(c, kind, arg) PROVE pushed' = pushed
      BY <3>1 DEF Begin
    <3>2. CASE \/ TakeTurn(c) \/ LoadAtHead(c) \/ LoadMerging(c) \/ NothingToImport(c)
               \/ Import(c) \/ Read(c) \/ CheckpointCall(c) \/ CommitCall(c) \/ RestoreCall(c)
               \/ IntegrateFastForward(c) \/ IntegrateRebase(c) \/ IntegrateOutOfScope(c)
               \/ Mirror(c) \/ MirrorFails(c) \/ CancelSubmission(c)
      BY <3>2 DEF TakeTurn, LoadAtHead, LoadMerging, NothingToImport, Import, Read,
           CheckpointCall, CommitCall, RestoreCall, IntegrateFastForward, IntegrateRebase,
           IntegrateOutOfScope, Mirror, MirrorFails, CancelSubmission
    <3> QED BY <2>2, <3>1, <3>2 DEF Step
  <2> QED BY <1>1, <2>1, <2>2 DEF VcsNext
<1>4. Calm
  <2>1. \A d \in Callers : calls'[d].kind \notin {"commit", "restore"}
    BY DEF Calm
  <2>2. \A d \in Callers : calls[d].kind \notin {"commit", "restore"}
    BY <1>2, <2>1
  <2>3. pushed' = {} \/ \A d \in Callers : calls'[d].kind # "checkpoint"
    BY DEF Calm
  <2>4. pushed = {} \/ \A d \in Callers : calls[d].kind # "checkpoint"
    BY <1>2, <1>3, <2>3
  <2> QED BY <1>1, <2>2, <2>4 DEF Calm
<1>5. ASSUME NEW c \in Callers
      PROVE  ~CommitCall(c) /\ ~RestoreCall(c) /\ (CheckpointCall(c) => pushed = {})
  BY <1>4 DEF Calm, CommitCall, RestoreCall, CheckpointCall
<1> QED BY <1>1, <1>4, <1>5

\* The inductive invariant of the queue.
TurnsInv == VisibleInv /\ AloneInv /\ (Calm => Core)

LEMMA StepCore == TurnsInv /\ [VcsNext]_vcsVars => TurnsInv'
<1> SUFFICES ASSUME TurnsInv, [VcsNext]_vcsVars PROVE TurnsInv'
  OBVIOUS
<1>1. VisibleInv' /\ LogInv /\ LogInv' /\ AloneInv
  BY StepVisible, StepLog DEF TurnsInv, VisibleInv
<1>2. AloneInv'
  BY <1>1, StepAlone DEF LogInv
<1> SUFFICES ASSUME Calm' PROVE Core'
  BY <1>1, <1>2 DEF TurnsInv
<1>3. Calm
  <2>1. CASE UNCHANGED vcsVars
    BY <2>1 DEF vcsVars, Calm
  <2>2. CASE VcsNext
    BY <1>1, <2>2, CalmBefore
  <2> QED BY <2>1, <2>2
<1>4. Core /\ NoRestores /\ SightInv
  <2>1. Core
    BY <1>3 DEF TurnsInv
  <2>2. NoRestores
    BY <2>1 DEF Core, CalmLog, Shape, NoRestores
  <2> QED BY <2>1, <2>2 DEF TurnsInv, VisibleInv
<1>5. Ground
  BY <1>1, <1>3, <1>4 DEF Ground, AloneInv, Calm
<1>6. CASE UNCHANGED vcsVars
  BY <1>4, <1>5, <1>6, StutterCalm
<1>7. CASE VcsNext
  <2>1. /\ ~Crash
        /\ \A c \in Callers : /\ ~MirrorFails(c) /\ ~CancelSubmission(c)
                              /\ ~CommitCall(c) /\ ~RestoreCall(c)
                              /\ CheckpointCall(c) => pushed = {}
    BY <1>1, <1>7, CalmBefore
  <2>2. LogInv' /\ TurnInv'
    BY <1>1, <1>2 DEF AloneInv, Calm
  <2>3. CASE Push
    <3>1. Ground'
      BY <1>1, <1>4, <2>2, <2>3, PushShows DEF Ground
    <3> QED BY <1>4, <1>5, <2>3, <3>1, PushCalm
  <2>4. ASSUME NEW c \in Callers, Step(c) PROVE Core'
    <3>0. ASSUME SightInv' PROVE Ground'
      BY <2>2, <3>0 DEF Ground
    <3>1. ASSUME NEW kind \in Kinds, NEW arg \in Args(kind), Begin(c, kind, arg) PROVE Core'
      BY <1>1, <1>4, <1>5, <3>0, <3>1, BeginShows, StartsCalm
    <3>2. CASE TakeTurn(c) \/ Read(c) \/ IntegrateOutOfScope(c)
      BY <1>1, <1>4, <1>5, <3>0, <3>2, MovesShow, StartsCalm
    <3>3. CASE LoadAtHead(c)
      BY <1>1, <1>4, <1>5, <3>0, <3>3, MovesShow, LoadAtHeadCalm
    <3>4. CASE NothingToImport(c)
      BY <1>1, <1>4, <1>5, <3>0, <3>4, MovesShow, NothingToImportCalm
    <3>5. CASE LoadMerging(c)
      BY <1>1, <1>4, <1>5, <3>0, <3>5, LoadMergingShows, LoadMergingCalm
    <3>6. CASE Import(c)
      BY <1>1, <1>4, <1>5, <3>0, <3>6, ImportShows, ImportCalm
    <3>7. CASE CheckpointCall(c)
      BY <1>1, <1>4, <1>5, <2>1, <3>0, <3>7, CheckpointShows, CheckpointCalm
    <3>8. CASE IntegrateFastForward(c)
      BY <1>1, <1>4, <1>5, <3>0, <3>8, FastForwardShows, FastForwardCalm
    <3>9. CASE IntegrateRebase(c)
      BY <1>1, <1>4, <1>5, <3>0, <3>9, RebaseShows, RebaseCalm
    <3>10. CASE Mirror(c)
      BY <1>1, <1>4, <1>5, <3>0, <3>10, MirrorShows, MirrorCalm
    <3> QED BY <2>1, <2>4, <3>1, <3>2, <3>3, <3>4, <3>5, <3>6, <3>7, <3>8, <3>9, <3>10 DEF Step
  <2> QED BY <1>7, <2>1, <2>3, <2>4 DEF VcsNext
<1> QED BY <1>6, <1>7

LEMMA InitCore == VcsInit => TurnsInv
<1> SUFFICES ASSUME VcsInit PROVE TurnsInv
  OBVIOUS
<1>1. LogInv /\ SightInv /\ AloneInv
  BY InitLog, InitShows, InitAlone
<1>2. PICK cs, heads, main : Repo(cs, heads, main) /\ Tree(cs)
  <2>1. Tree(Forked) /\ Tree(<<>>)
    BY ForkedIsSound DEF Tree
  <2> QED BY <2>1 DEF VcsInit
<1>3. PICK view : view = [heads |-> heads, main |-> {main}, git |-> {main}]
  OBVIOUS
<1>4. PICK op : op = [kind |-> "init", anc |-> {1}, view |-> view]
  OBVIOUS
<1>5. commits = cs /\ ops = <<op>> /\ git = main
  BY <1>2, <1>3, <1>4 DEF Repo
<1>6. /\ DOMAIN ops = {1} /\ ops[1] = op /\ ops[1].kind = "init" /\ ops[1].anc = {1}
      /\ ops[1].view = view /\ view.main = {git} /\ view.git = {git}
  BY <1>3, <1>4, <1>5
<1>7. /\ WellFormed(commits) /\ git \in Commit \cup {None}
      /\ opHeads = {1} /\ landed = {}
      /\ \A c \in Callers : calls[c].pc = "idle"
      /\ TurnInv
  BY <1>1 DEF VcsInit, SightInv, LogShows, AloneInv
<1>8. Shape(1)
  <2>1. Total(1)
    BY <1>6 DEF Total
  <2> QED BY <1>6, <2>1 DEF Shape
<1>9. Seen(1)
  BY <1>6 DEF Seen
<1>10. CalmLog
  BY <1>2, <1>5, <1>6, <1>7, <1>8, <1>9 DEF CalmLog, TailInv
<1>11. \A r : ~Pinned(r)
  BY <1>6, <1>7 DEF Pinned, Working
<1>12. PinInv /\ Above(git)
  BY <1>11 DEF PinInv, Above
<1>13. Under(git, git)
  BY <1>7, UnderLaws
<1>14. LineOnly
  BY <1>6, <1>13 DEF LineOnly
<1>15. Holds(git)
  BY <1>7 DEF Holds
<1>16. \A d \in Callers : CallLog(d) /\ Holder(d)
  BY <1>7 DEF CallLog, Holder
<1>17. Core
  BY <1>7, <1>10, <1>12, <1>14, <1>15, <1>16 DEF Core
<1> QED BY <1>1, <1>17 DEF TurnsInv, VisibleInv

LEMMA TurnsFollow == TurnsInv => TurnsAreEnough
<1> SUFFICES ASSUME TurnsInv PROVE TurnsAreEnough
  OBVIOUS
<1>1. SubmissionsRunAlone
  BY DEF SubmissionsRunAlone, TurnsInv, AloneInv, TurnInv
<1>2. QueueKeepsLandings
  <2> SUFFICES ASSUME Calm PROVE LandedStaysOnMain
    BY DEF QueueKeepsLandings, Calm
  <2>1. Holds(git)
    BY DEF TurnsInv, Core
  <2> QED BY <2>1 DEF LandedStaysOnMain, Holds
<1> QED BY <1>1, <1>2 DEF TurnsAreEnough

\* submit_change's queue is enough: without a mishap no two submissions are
\* inside IntegrateCommit together, and however submissions, checkpoints, reads
\* and pushes overlap otherwise, a change that was acknowledged as landed stays
\* in the history of refs/heads/main.
THEOREM TurnsTheorem == VcsSpec => []TurnsAreEnough
<1>1. VcsInit => TurnsInv
  BY InitCore
<1>2. TurnsInv /\ [VcsNext]_vcsVars => TurnsInv'
  BY StepCore
<1>3. TurnsInv => TurnsAreEnough
  BY TurnsFollow
<1> QED BY <1>1, <1>2, <1>3, PTL DEF VcsSpec
=============================================================================
