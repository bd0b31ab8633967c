--------------------------- MODULE ArachneStorage ---------------------------
(***************************************************************************)
(* The Arachne storage engine (clotho-storage) and the gateway's bridge to *)
(* it (arachne.rs).                                                        *)
(*                                                                         *)
(* An upload cuts its content into chunks, looks each chunk up in the      *)
(* shard index, packs the new ones into xorbs, writes these to the object  *)
(* store, indexes them, indexes the file, and flushes the index into a     *)
(* shard that is written to the object store too. All uploads share one    *)
(* index: whoever flushes takes what the others have added. A restart      *)
(* rebuilds the index from the shards in the store and those still on      *)
(* disk.                                                                   *)
(*                                                                         *)
(* A content is a sequence of chunks and stands for its hash; a xorb is    *)
(* the sequence of its chunks; a chunk has ChunkBytes bytes. Only the set  *)
(* of entries of all shards matters, so shards are not told apart.         *)
(***************************************************************************)
EXTENDS Naturals, Sequences, SequencesExt

CONSTANTS Chunks,       \* distinct chunks
          Payloads,     \* what clients and remote hubs offer
          Uploads,      \* the uploads of a behaviour
          Downloads,    \* the downloads of a behaviour
          Ranges,       \* offsets and lengths that are asked for
          XorbLimit,    \* chunks that fill a xorb
          ChunkBytes,   \* bytes of a chunk
          MaxWord,      \* the greatest u64
          MaxFaults     \* bound on failed calls and restarts

ASSUME PayloadsAssumption == Payloads \subseteq Seq(Chunks) \ {<<>>}
ASSUME RangesAssumption == Ranges \subseteq (0 .. MaxWord) \X (0 .. MaxWord)
ASSUME SizesAssumption ==
  /\ XorbLimit \in Nat \ {0} /\ ChunkBytes \in Nat \ {0}
  /\ MaxWord \in Nat /\ MaxFaults \in Nat

VARIABLES xorbs,        \* objects under xorbs/
          shards,       \* entries of the objects under shards/
          disk,         \* entries of the shard files in data_dir
          memory,       \* entries added to the index and not yet flushed
          uploads,      \* the uploads and what their gateway knows
          downloads,    \* the downloads
          pointers,     \* pointers handed out: payload and file hash
          adrift,       \* entries whose shard never reached the store (a history)
          faults        \* failed calls and restarts so far

vars == <<xorbs, shards, disk, memory, uploads, downloads, pointers, adrift, faults>>

-----------------------------------------------------------------------------
(* Types *)

\* A segment names its chunk, and the xorb once that is cut.
Segment == [chunk : Chunks, xorb : Seq(Chunks)]

\* What the shard index holds: a xorb's chunks, or how to rebuild a file.
Entry == [kind : {"xorb"}, xorb : Seq(Chunks)]
           \cup [kind : {"file"}, file : Seq(Chunks), segments : Seq(Segment)]

\* todo: chunks not processed yet. new: chunks of the xorb that is being filled.
\* taken: the entries of the shard that this upload flushed.
Upload == [pc : {"idle", "streaming", "put_xorb", "index_xorb", "flush",
                 "put_shard", "answered"},
           payload : Seq(Chunks), sent : Seq(Chunks), todo : Seq(Chunks),
           segments : Seq(Segment), new : BoundedSeq(Chunks, XorbLimit), taken : SUBSET Entry]

Download == [pc : {"idle", "streaming", "ended", "failed"}, file : Seq(Chunks),
             segments : Seq(Segment), offset : Nat, end : Nat, start : Nat,
             out : Seq(Chunks \X (1 .. ChunkBytes))]

TypeOK ==
  /\ xorbs \subseteq Seq(Chunks)
  /\ shards \subseteq Entry /\ disk \subseteq Entry /\ memory \subseteq Entry
  /\ uploads \in [Uploads -> Upload]
  /\ downloads \in [Downloads -> Download]
  /\ pointers \subseteq Payloads \X Seq(Chunks)
  /\ adrift \subseteq Entry
  /\ faults \in 0 .. MaxFaults

-----------------------------------------------------------------------------
(* Helpers *)

Unused == [pc |-> "idle", payload |-> <<>>, sent |-> <<>>, todo |-> <<>>,
           segments |-> <<>>, new |-> <<>>, taken |-> {}]

Answered == [Unused EXCEPT !.pc = "answered"]

NoDownload == [pc |-> "idle", file |-> <<>>, segments |-> <<>>, offset |-> 0,
               end |-> 0, start |-> 0, out |-> <<>>]

HungUp == [NoDownload EXCEPT !.pc = "failed"]

\* What the ShardFileManager answers from.
Index == memory \cup disk

FilesIn(entries) == {e.file : e \in {e \in entries : e.kind = "file"}}

\* chunk_hash_dedup_query: indexed xorbs that hold the chunk.
Holding(c) == {e.xorb : e \in {e \in Index : e.kind = "xorb" /\ Contains(e.xorb, c)}}

\* The bytes of a sequence of chunks.
BytesOf(content) ==
  [k \in 1 .. Len(content) * ChunkBytes |->
     <<content[((k - 1) \div ChunkBytes) + 1], ((k - 1) % ChunkBytes) + 1>>]

SizeOf(segments) == Len(segments) * ChunkBytes

Least(a, b) == IF a <= b THEN a ELSE b

XorbFull(u) == Len(uploads[u].new) >= XorbLimit

Fault == faults < MaxFaults /\ faults' = faults + 1

Goto(u, label) == uploads' = [uploads EXCEPT ![u].pc = label]

Init ==
  /\ xorbs = {} /\ shards = {} /\ disk = {} /\ memory = {}
  /\ uploads = [u \in Uploads |-> Unused]
  /\ downloads = [d \in Downloads |-> NoDownload]
  /\ pointers = {} /\ adrift = {} /\ faults = 0

-----------------------------------------------------------------------------
(* Uploads *)

\* store_payload and store_http_payload open the stream of an upload. The stream
\* may break off after n chunks (the remote hub fails, the size limit is met):
\* the engine sees an end of stream like any other.
BeginUpload(u, p, n) ==
  /\ uploads[u] = Unused
  /\ uploads' = [uploads EXCEPT ![u] =
       [Unused EXCEPT !.pc = "streaming", !.payload = p,
                      !.sent = SubSeq(p, 1, n), !.todo = SubSeq(p, 1, n)]]
  /\ UNCHANGED <<xorbs, shards, disk, memory, downloads, pointers, adrift, faults>>

\* FileUploader::write: one chunk is found in the index or in the xorb that is
\* being filled, or joins that xorb.
ProcessChunk(u) ==
  LET c == Head(uploads[u].todo) IN
  /\ uploads[u].pc = "streaming"
  /\ uploads[u].todo # <<>>
  /\ ~XorbFull(u)
  /\ \/ \E x \in Holding(c) :
          uploads' = [uploads EXCEPT
            ![u].todo = Tail(@), ![u].segments = Append(@, [chunk |-> c, xorb |-> x])]
     \/ /\ Holding(c) = {}
        /\ uploads' = [uploads EXCEPT
             ![u].todo = Tail(@),
             ![u].segments = Append(@, [chunk |-> c, xorb |-> <<>>]),
             ![u].new = IF Contains(@, c) THEN @ ELSE Append(@, c)]
  /\ UNCHANGED <<xorbs, shards, disk, memory, downloads, pointers, adrift, faults>>

\* register_new_xorb when the xorb is full, and finish cuts the last one.
CutXorb(u) ==
  /\ uploads[u].pc = "streaming"
  /\ uploads[u].new # <<>>
  /\ XorbFull(u) \/ uploads[u].todo = <<>>
  /\ Goto(u, "put_xorb")
  /\ UNCHANGED <<xorbs, shards, disk, memory, downloads, pointers, adrift, faults>>

\* Mutant: write_xorb indexes the chunks before the object is stored.
PutXorbLater(u) ==
  /\ uploads[u].pc = "put_xorb"
  /\ memory' = memory \cup {[kind |-> "xorb", xorb |-> uploads[u].new]}
  /\ Goto(u, "index_xorb")
  /\ UNCHANGED <<xorbs, shards, disk, downloads, pointers, adrift, faults>>

\* write_xorb stores the object ...
PutXorb(u) ==
  /\ uploads[u].pc = "put_xorb"
  /\ xorbs' = xorbs \cup {uploads[u].new}
  /\ Goto(u, "index_xorb")
  /\ UNCHANGED <<shards, disk, memory, downloads, pointers, adrift, faults>>

\* ... then indexes its chunks, and the file's segments learn its hash.
IndexXorb(u) ==
  LET filled(s) == IF s.xorb # <<>> THEN s ELSE [s EXCEPT !.xorb = uploads[u].new] IN
  /\ uploads[u].pc = "index_xorb"
  /\ memory' = memory \cup {[kind |-> "xorb", xorb |-> uploads[u].new]}
  /\ uploads' = [uploads EXCEPT ![u].pc = "streaming", ![u].new = <<>>,
                                ![u].segments = [k \in DOMAIN @ |-> filled(@[k])]]
  /\ UNCHANGED <<xorbs, shards, disk, downloads, pointers, adrift, faults>>

\* finish: add_file_reconstruction_info.
IndexFile(u) ==
  /\ uploads[u].pc = "streaming"
  /\ uploads[u].todo = <<>> /\ uploads[u].new = <<>>
  /\ memory' = memory \cup {[kind |-> "file", file |-> uploads[u].sent,
                             segments |-> uploads[u].segments]}
  /\ Goto(u, "flush")
  /\ UNCHANGED <<xorbs, shards, disk, downloads, pointers, adrift, faults>>

\* Mutant: what another upload has added is dropped, not taken along.
FlushOwn(u) ==
  LET own == {e \in memory : e.kind = "file" => e.file = uploads[u].sent} IN
  /\ uploads[u].pc = "flush"
  /\ memory # {}
  /\ disk' = disk \cup own
  /\ memory' = {}
  /\ uploads' = [uploads EXCEPT ![u] = [@ EXCEPT !.pc = "put_shard", !.taken = own]]
  /\ UNCHANGED <<xorbs, shards, downloads, pointers, adrift, faults>>

\* flush writes everything in memory to one shard file on disk.
Flush(u) ==
  /\ uploads[u].pc = "flush"
  /\ memory # {}
  /\ disk' = disk \cup memory
  /\ memory' = {}
  /\ uploads' = [uploads EXCEPT ![u] = [@ EXCEPT !.pc = "put_shard", !.taken = memory]]
  /\ UNCHANGED <<xorbs, shards, downloads, pointers, adrift, faults>>

\* The upload is acknowledged; the gateway hands out a pointer if its producer
\* had streamed the whole payload, and an error otherwise.
Answer(u) ==
  /\ pointers' = IF uploads[u].sent = uploads[u].payload
                 THEN pointers \cup {<<uploads[u].payload, uploads[u].sent>>}
                 ELSE pointers
  /\ uploads' = [uploads EXCEPT ![u] = Answered]

\* flush found nothing in memory: another upload has taken it.
FlushNothing(u) ==
  /\ uploads[u].pc = "flush"
  /\ memory = {}
  /\ Answer(u)
  /\ UNCHANGED <<xorbs, shards, disk, memory, downloads, adrift, faults>>

PutShard(u) ==
  /\ uploads[u].pc = "put_shard"
  /\ shards' = shards \cup uploads[u].taken
  /\ Answer(u)
  /\ UNCHANGED <<xorbs, disk, memory, downloads, adrift, faults>>

\* A call of the upload fails (with or without effect at the store): the client
\* gets an error; what was flushed stays on disk.
UploadFails(u) ==
  /\ uploads[u].pc \notin {"idle", "answered"}
  /\ Fault
  /\ \/ UNCHANGED <<xorbs, shards>>
     \/ uploads[u].pc = "put_xorb" /\ xorbs' = xorbs \cup {uploads[u].new} /\ UNCHANGED shards
     \/ uploads[u].pc = "put_shard" /\ shards' = shards \cup uploads[u].taken /\ UNCHANGED xorbs
  /\ adrift' = adrift \cup uploads[u].taken
  /\ uploads' = [uploads EXCEPT ![u] = Answered]
  /\ UNCHANGED <<disk, memory, downloads, pointers>>

-----------------------------------------------------------------------------
(* Downloads *)

\* download_inner up to its loop: the file must be indexed and the range valid.
BeginDownload(d, f, offset, length) ==
  /\ downloads[d].pc = "idle"
  /\ \E e \in {e \in Index : e.kind = "file" /\ e.file = f} :
       LET size == SizeOf(e.segments) IN
       downloads' = [downloads EXCEPT ![d] =
         IF offset > size \/ offset + length > MaxWord
         THEN [NoDownload EXCEPT !.pc = "failed", !.file = f]
         ELSE [NoDownload EXCEPT !.pc = "streaming", !.file = f, !.segments = e.segments,
                 !.offset = offset,
                 !.end = IF length = 0 THEN size ELSE Least(offset + length, size)]]
  /\ UNCHANGED <<xorbs, shards, disk, memory, uploads, pointers, adrift, faults>>

DownloadUnknown(d, f) ==
  /\ downloads[d].pc = "idle"
  /\ f \notin FilesIn(Index)
  /\ downloads' = [downloads EXCEPT ![d] = [NoDownload EXCEPT !.pc = "failed", !.file = f]]
  /\ UNCHANGED <<xorbs, shards, disk, memory, uploads, pointers, adrift, faults>>

\* Mutant: the start of the range is cut off from every segment.
SliceFromOffset(dl, bytes, segmentEnd) ==
  SubSeq(bytes, dl.offset + 1, Least(dl.end, segmentEnd) - dl.start)

\* The part of one segment that lies in the range.
Slice(dl, bytes, segmentEnd) ==
  SubSeq(bytes, (IF dl.offset > dl.start THEN dl.offset - dl.start ELSE 0) + 1,
         Least(dl.end, segmentEnd) - dl.start)

\* One round of the loop over segments: skipped when it ends before the range,
\* otherwise read from its xorb and sent.
DownloadSegment(d) ==
  LET dl == downloads[d]
      s == Head(dl.segments)
      segmentEnd == dl.start + ChunkBytes
      skipped == segmentEnd <= dl.offset
  IN
  /\ dl.pc = "streaming"
  /\ dl.segments # <<>> /\ dl.start < dl.end
  /\ skipped \/ s.xorb \in xorbs
  /\ downloads' = [downloads EXCEPT
       ![d].segments = Tail(@), ![d].start = segmentEnd,
       ![d].out = IF skipped THEN @ ELSE @ \o Slice(dl, BytesOf(<<s.chunk>>), segmentEnd)]
  /\ UNCHANGED <<xorbs, shards, disk, memory, uploads, pointers, adrift, faults>>

EndDownload(d) ==
  /\ downloads[d].pc = "streaming"
  /\ downloads[d].segments = <<>> \/ downloads[d].start >= downloads[d].end
  /\ downloads' = [downloads EXCEPT ![d].pc = "ended"]
  /\ UNCHANGED <<xorbs, shards, disk, memory, uploads, pointers, adrift, faults>>

\* The object is missing or the store fails; the error follows the blocks sent.
DownloadFails(d) ==
  /\ downloads[d].pc = "streaming"
  /\ downloads[d].segments # <<>>
  /\ IF Head(downloads[d].segments).xorb \in xorbs THEN Fault ELSE UNCHANGED faults
  /\ downloads' = [downloads EXCEPT ![d].pc = "failed"]
  /\ UNCHANGED <<xorbs, shards, disk, memory, uploads, pointers, adrift>>

\* The receiver hung up.
CloseDownload(d) ==
  /\ downloads[d].pc = "streaming"
  /\ downloads' = [downloads EXCEPT ![d] = HungUp]
  /\ UNCHANGED <<xorbs, shards, disk, memory, uploads, pointers, adrift, faults>>

-----------------------------------------------------------------------------
(* Restarts *)

\* ArachneEngine::new, sync_shards_from_store: what is on disk, and every shard
\* of the store that is not.
Rebuilt(kept) == kept \cup shards

\* The engine stops and starts again, with or without its data directory.
Restart(kept) ==
  /\ Fault
  /\ kept \in {disk, {}}
  /\ disk' = Rebuilt(kept)
  /\ memory' = {}
  /\ adrift' = adrift \cup UNION {uploads[u].taken : u \in Uploads}
  /\ uploads' = [u \in Uploads |-> IF uploads[u] = Unused THEN Unused ELSE Answered]
  /\ downloads' = [d \in Downloads |-> IF downloads[d].pc = "streaming" THEN HungUp ELSE downloads[d]]
  /\ UNCHANGED <<xorbs, shards, pointers>>

-----------------------------------------------------------------------------

UploadStep(u) ==
  \/ ProcessChunk(u) \/ CutXorb(u) \/ PutXorb(u) \/ IndexXorb(u) \/ IndexFile(u)
  \/ Flush(u) \/ FlushNothing(u) \/ PutShard(u)

DownloadStep(d) == DownloadSegment(d) \/ EndDownload(d) \/ DownloadFails(d) \/ CloseDownload(d)

Next ==
  \/ \E u \in Uploads, p \in Payloads : \E n \in 1 .. Len(p) : BeginUpload(u, p, n)
  \/ \E u \in Uploads : UploadStep(u) \/ UploadFails(u)
  \/ \E d \in Downloads, f \in Payloads :
       \/ \E range \in Ranges : BeginDownload(d, f, range[1], range[2])
       \/ DownloadUnknown(d, f)
  \/ \E d \in Downloads : DownloadStep(d)
  \/ \E kept \in {disk, {}} : Restart(kept)

Spec == Init /\ [][Next]_vars

-----------------------------------------------------------------------------
(* Properties *)

\* Whatever an index can hand out, in memory, on disk or in the object store,
\* can be read: its xorbs are stored and hold the chunks it names, so that no
\* later upload is deduplicated against an object that is not there. (write_xorb
\* stores before it indexes; finish fills in the hash of the last xorb)
ReferencesResolve ==
  \A e \in memory \cup disk \cup shards :
    IF e.kind = "xorb" THEN e.xorb \in xorbs
    ELSE /\ [k \in DOMAIN e.segments |-> e.segments[k].chunk] = e.file
         /\ \A k \in DOMAIN e.segments :
              e.segments[k].xorb \in xorbs /\ Contains(e.segments[k].xorb, e.segments[k].chunk)

\* An acknowledged file can be rebuilt from the object store alone, unless the
\* shard that holds its entry is still being written by the upload that flushed
\* it, or never was because that upload failed. (FileUploader::finish)
AcknowledgedIsKept ==
  \A ptr \in pointers :
    ptr[2] \in FilesIn(shards \cup adrift \cup UNION {uploads[u].taken : u \in Uploads})

\* An acknowledged file can be downloaded now: another upload's flush, failed
\* calls and restarts do not take it away, except that with the data directory
\* the entries are lost that never reached the store. (finish, ArachneEngine::new)
AcknowledgedIsReadable ==
  \A ptr \in pointers : ptr[2] \in FilesIn(Index \cup adrift)

\* A pointer names exactly the payload it was asked for, though the engine also
\* stores and acknowledges streams that broke off. (store_http_payload)
PointersAreWhole == \A ptr \in pointers : ptr[2] = ptr[1]

\* What was acknowledged is safe: the state is typed, a pointer names the whole
\* payload, which is readable now and can be rebuilt from the object store.
\* (FileUploader::finish, store_http_payload, ArachneEngine::new)
AcknowledgedIsSafe ==
  TypeOK /\ PointersAreWhole /\ AcknowledgedIsReadable /\ AcknowledgedIsKept

\* What a download has sent is the beginning of the range that was asked for,
\* and all of it when it ends without an error. (download_inner)
DownloadsAreExact ==
  \A d \in Downloads :
    LET dl == downloads[d]
        asked == SubSeq(BytesOf(dl.file), dl.offset + 1, dl.end)
    IN /\ IsPrefix(dl.out, asked)
       /\ dl.pc = "ended" => dl.out = asked

=============================================================================
