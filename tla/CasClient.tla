------------------------------ MODULE CasClient ------------------------------
(***************************************************************************)
(* The client of the remote content-addressable store                      *)
(* (crates/rfs-common/src/cas.rs): uploads pack small blobs into           *)
(* BatchUpdateBlobs requests and stream large ones, downloads are read in  *)
(* one request or streamed, and single RPCs are retried.  Calls share no   *)
(* state of the client, so one call runs at a time; other clients write    *)
(* the same store, and files change while they are uploaded.  The store    *)
(* keeps a blob only if it hashes to its digest, and may answer anything.  *)
(***************************************************************************)
EXTENDS Integers, Sequences

CONSTANTS
    Chunk,        \* units of data; a size counts chunks
    Sha256(_),    \* the hash of a sequence of chunks
    Blob,         \* the contents of byte-backed blobs
    Digest,       \* the digests transferred: records with a hash and a size
    PathBacked,   \* those whose blob is a local file
    Uploads,      \* the lists of digests callers upload
    Budget,       \* batch_update_budget_bytes
    Threshold,    \* download_blob_stream_threshold_bytes
    MaxAttempts,  \* max_attempts
    IdleTimeout,  \* bytestream_idle_timeout, in ticks
    MaxChunks     \* bound: data of a file or a stream

ASSUME DigestAssumption == \A d \in Digest : d.size \in Nat
ASSUME UploadsAssumption == Uploads \subseteq Seq(Digest)
ASSUME LimitAssumption ==
    /\ Budget \in Nat /\ Threshold \in Nat /\ MaxChunks \in Nat
    /\ MaxAttempts \in Nat \ {0} /\ IdleTimeout \in Nat \ {0}

VARIABLES
    remote,             \* digests of the blobs in the store
    fn, pc, result,     \* the call: which, its control point and outcome
    cause,              \* what its last attempt ended with
    want,               \* the digests of an upload
    todo,               \* blobs upload_blobs_to_cas has yet to look at
    loaded,             \* the blob load_blob_as_bytes returned, if any
    batch, bytes,       \* BatchUpdateState
    dig, attempt,       \* blob and attempt of the RPC at work
    sent,               \* what a ByteStream.Write attempt transferred
    dest, hashed,       \* what a download wrote, and what it hashed
    elapsed, idle       \* ticks of a stream: of the attempt, since a transfer

queue == <<fn, want, todo, loaded, batch, bytes>>
clock == <<elapsed, idle>>
vars == <<remote, pc, result, cause, queue, dig, attempt, sent, dest, hashed,
          clock>>

DigestOf(data) == [hash |-> Sha256(data), size |-> Len(data)]
Digests(entries) == {entries[i].digest : i \in DOMAIN entries}
Bytes(d) == CHOOSE b \in Blob : DigestOf(b) = d

ASSUME BlobAssumption ==
    /\ Blob \subseteq Seq(Chunk)
    /\ \A d \in Digest \ PathBacked : \E b \in Blob : DigestOf(b) = d

\* Classes of failures of one attempt.
Status == {"unavailable", "timeout", "invalid"}

Init ==
    /\ remote \in SUBSET Digest
    /\ fn = "upload" /\ pc = "idle" /\ result = "none" /\ cause = "none"
    /\ want = {} /\ todo = <<>> /\ loaded = <<>> /\ batch = <<>> /\ bytes = 0
    /\ dig \in Digest /\ attempt = 1
    /\ sent = <<>> /\ dest = <<>> /\ hashed = <<>>
    /\ elapsed = 0 /\ idle = 0

-----------------------------------------------------------------------------
\* Another client uploads a blob.
OtherClient ==
    /\ \E d \in Digest : remote' = remote \cup {d}
    /\ UNCHANGED <<pc, result, cause, queue, dig, attempt, sent, dest, hashed,
                   clock>>

Finish(r, c) == pc' = "idle" /\ result' = r /\ cause' = c
Fail(c) == Finish("failed", c) /\ UNCHANGED attempt

\* is_retryable_status; a timeout of the attempt is retried as well.
Retryable(status) == status \in {"unavailable", "timeout"}

\* Mutant of RpcFails: the attempt is not counted.
RpcFailsUncounted(label, status) ==
    IF Retryable(status) /\ attempt < MaxAttempts
    THEN pc' = label /\ cause' = status /\ UNCHANGED <<attempt, result>>
    ELSE Fail(status)

\* retry_rpc, when an attempt failed: the next attempt starts at `label`.
RpcFails(label, status) ==
    IF Retryable(status) /\ attempt < MaxAttempts
    THEN /\ attempt' = attempt + 1 /\ pc' = label /\ cause' = status
         /\ UNCHANGED result
    ELSE Fail(status)

-----------------------------------------------------------------------------
\* upload_blobs
UploadBlobs ==
    /\ pc = "idle"
    /\ \E blobs \in Uploads :
          todo' = blobs /\ want' = {blobs[i] : i \in DOMAIN blobs}
    /\ loaded' = <<>> /\ batch' = <<>> /\ bytes' = 0
    /\ fn' = "upload" /\ pc' = "next" /\ result' = "none" /\ cause' = "none"
    /\ attempt' = 1
    /\ sent' = <<>> /\ dest' = <<>> /\ hashed' = <<>>
    /\ UNCHANGED <<remote, dig, clock>>

\* upload_blobs_to_cas, after the loop: the last flush, or the end.
UploadEnds ==
    /\ pc = "next" /\ todo = <<>>
    /\ IF batch = <<>> THEN Finish("ok", "none")
       ELSE pc' = "batch" /\ UNCHANGED <<result, cause>>
    /\ UNCHANGED <<remote, queue, dig, attempt, sent, dest, hashed, clock>>

\* A blob over the budget: flush first, then stream it.
Oversized ==
    /\ pc = "next" /\ todo # <<>> /\ Head(todo).size > Budget
    /\ IF batch # <<>>
       THEN pc' = "batch" /\ UNCHANGED <<todo, dig, attempt>>
       ELSE /\ pc' = "write"
            /\ dig' = Head(todo) /\ todo' = Tail(todo)
            /\ attempt' = 1
    /\ UNCHANGED <<remote, result, cause, fn, want, loaded, batch, bytes, sent, dest,
                   hashed, clock>>

\* A mutant of ExceedsBudget: the blob itself is not counted.
ExceedsBudgetAlready(size) == batch # <<>> /\ bytes > Budget

\* would_exceed_budget
ExceedsBudget(size) == batch # <<>> /\ bytes + size > Budget

\* load_blob_as_bytes, then push, or flush and push.  A file may have any
\* content by now; only its size is compared.
LoadSmall ==
    /\ pc = "next" /\ todo # <<>> /\ Head(todo).size <= Budget
    /\ LET d == Head(todo) IN
       \E data \in IF d \in PathBacked
                   THEN UNION {[1..n -> Chunk] : n \in 0..MaxChunks}
                   ELSE {Bytes(d)} :
          IF Len(data) # d.size
          THEN Fail("local") /\ UNCHANGED <<todo, loaded, batch, bytes>>
          ELSE LET entry == [digest |-> d, data |-> data] IN
               /\ todo' = Tail(todo)
               /\ IF ExceedsBudget(d.size)
                  THEN /\ loaded' = <<entry>> /\ pc' = "batch"
                       /\ UNCHANGED <<batch, bytes>>
                  ELSE /\ batch' = Append(batch, entry)
                       /\ bytes' = bytes + d.size
                       /\ UNCHANGED <<pc, loaded>>
               /\ UNCHANGED <<result, cause, attempt>>
    /\ UNCHANGED <<remote, fn, want, dig, sent, dest, hashed, clock>>

\* The file cannot be read.
LoadFails ==
    /\ pc = "next" /\ todo # <<>> /\ Head(todo) \in PathBacked
    /\ Head(todo).size <= Budget
    /\ Fail("local")
    /\ UNCHANGED <<remote, queue, dig, sent, dest, hashed, clock>>

\* The batch went through; a blob that was waiting starts the next one.
Flushed ==
    /\ batch' = loaded /\ loaded' = <<>>
    /\ bytes' = IF loaded = <<>> THEN 0 ELSE Head(loaded).digest.size
    /\ attempt' = 1 /\ pc' = "next"
    /\ UNCHANGED <<result, cause>>

\* A mutant of Refused: one accepted blob is enough.
RefusedAll(acked) == Digests(batch) \cap acked = {}

\* A blob of the batch has no response, or one that is not OK.
Refused(acked) == ~(Digests(batch) \subseteq acked)

\* One attempt of upload_batch_to_cas.  The store keeps some of the blobs
\* whether or not its answer arrives; an answer acknowledges blobs it has.
UpdateBatch ==
    /\ pc = "batch"
    /\ \E kept \in SUBSET {batch[i].digest :
                 i \in {j \in DOMAIN batch : DigestOf(batch[j].data) = batch[j].digest}} :
          /\ remote' = remote \cup kept
          /\ \/ /\ \E status \in Status : RpcFails("batch", status)
                /\ UNCHANGED <<loaded, batch, bytes>>
             \/ \E acked \in SUBSET (Digests(batch) \cap remote') :
                   IF Refused(acked)
                   THEN Fail("refused") /\ UNCHANGED <<loaded, batch, bytes>>
                   ELSE Flushed
    /\ UNCHANGED <<fn, want, todo, dig, sent, dest, hashed, clock>>

-----------------------------------------------------------------------------
\* An attempt of bytestream_write_blob or bytestream_write_file starts at byte
\* 0.
OpenWrite ==
    /\ pc = "write"
    /\ pc' = "writing" /\ cause' = "none"
    /\ sent' = <<>> /\ elapsed' = 0 /\ idle' = 0
    /\ UNCHANGED <<remote, result, queue, dig, attempt, dest, hashed>>

\* The producer reads a chunk of the file and the store takes it; the bytes in
\* memory go in one message.
Transfer ==
    /\ pc = "writing"
    /\ IF dig \in PathBacked
       THEN Len(sent) < MaxChunks /\ \E c \in Chunk : sent' = Append(sent, c)
       ELSE sent = <<>> /\ sent' = Bytes(dig)
    /\ idle' = 0
    /\ UNCHANGED <<remote, pc, result, cause, queue, dig, attempt, dest, hashed,
                   elapsed>>

Written == pc' = "next" /\ attempt' = 1 /\ UNCHANGED <<result, cause>>

\* finish_write arrived.  The store keeps what hashes to the digest, and the
\* committed size is the digest's only for a blob it has.
FinishWrite ==
    /\ pc = "writing"
    /\ dig \in PathBacked \/ sent = Bytes(dig)
    /\ \E kept \in SUBSET ({DigestOf(sent)} \cap {dig}) :
          /\ remote' = remote \cup kept
          /\ \/ \E status \in Status \ {"timeout"} : RpcFails("write", status)
             \/ dig \in remote' /\ Written
    /\ UNCHANGED <<queue, dig, sent, dest, hashed, clock>>

\* The store ends the stream before finish_write: with an error, or because it
\* has the blob.  If that makes the producer fail, its error is returned.
WriteEndsEarly ==
    /\ pc = "writing"
    /\ \/ \E status \in Status \ {"timeout"} :
             RpcFails("write", status) \/ (dig \in PathBacked /\ Fail(status))
       \/ /\ dig \in remote
          /\ Written \/ (dig \in PathBacked /\ Fail("committed"))
    /\ UNCHANGED <<remote, queue, dig, sent, dest, hashed, clock>>

\* retry_rpc bounds the attempt, from its first byte to the response.
WriteTimesOut ==
    /\ pc = "writing"
    /\ elapsed = IdleTimeout
    /\ RpcFails("write", "timeout")
    /\ UNCHANGED <<remote, queue, dig, sent, dest, hashed, clock>>

\* The file cannot be read, or not be read to its end.
ProducerFails ==
    /\ pc = "writing" /\ dig \in PathBacked
    /\ Fail("local")
    /\ UNCHANGED <<remote, queue, dig, sent, dest, hashed, clock>>

Tick ==
    /\ pc \in {"writing", "reading"}
    /\ idle < IdleTimeout /\ elapsed < IdleTimeout
    /\ idle' = idle + 1
    /\ elapsed' = IF pc = "writing" THEN elapsed + 1 ELSE elapsed
    /\ UNCHANGED <<remote, pc, result, cause, queue, dig, attempt, sent, dest,
                   hashed>>

-----------------------------------------------------------------------------
\* stream_blob
StreamBlob ==
    /\ pc = "idle"
    /\ \E d \in Digest :
          dig' = d /\ pc' = IF d.size <= Threshold THEN "batchread" ELSE "open"
    /\ fn' = "download"
    /\ want' = {} /\ todo' = <<>> /\ loaded' = <<>> /\ batch' = <<>> /\ bytes' = 0
    /\ result' = "none" /\ cause' = "none" /\ attempt' = 1
    /\ sent' = <<>> /\ dest' = <<>> /\ hashed' = <<>>
    /\ elapsed' = 0 /\ idle' = 0
    /\ UNCHANGED <<remote>>

\* One attempt of batch_read_blob: the data is verified, then written.
BatchRead ==
    /\ pc = "batchread"
    /\ \/ /\ \E status \in Status : RpcFails("batchread", status)
          /\ UNCHANGED <<dest, hashed>>
       \/ \E data \in UNION {[1..n -> Chunk] : n \in 0..MaxChunks} :
             /\ hashed' = data
             /\ IF DigestOf(data) = dig
                THEN /\ dest' = data /\ Finish("ok", "none")
                     /\ UNCHANGED attempt
                ELSE Fail("refused") /\ UNCHANGED dest
    /\ UNCHANGED <<remote, queue, dig, sent, clock>>

\* bytestream_read_into: only the start of the stream is retried.
OpenRead ==
    /\ pc = "open"
    /\ \/ /\ \E status \in Status : RpcFails("open", status)
          /\ UNCHANGED <<hashed, idle>>
       \/ /\ pc' = "reading" /\ cause' = "none"
          /\ hashed' = <<>> /\ idle' = 0
          /\ UNCHANGED <<result, attempt>>
    /\ UNCHANGED <<remote, queue, dig, sent, dest, elapsed>>

\* A message of the stream, which may be empty.  Nothing limits how many the
\* store sends, and each starts the idle timeout anew.
ReadChunk ==
    /\ pc = "reading"
    /\ \E data \in {<<>>} \cup {<<c>> : c \in Chunk} :
          /\ Len(dest) + Len(data) <= MaxChunks
          /\ dest' = dest \o data /\ hashed' = hashed \o data
    /\ idle' = 0
    /\ UNCHANGED <<remote, pc, result, cause, queue, dig, attempt, sent, elapsed>>

\* A mutant of ReadBreaks: the stream is started over, the destination is not.
ReadRestarts ==
    /\ pc = "reading"
    /\ \E status \in Status :
          /\ status = "timeout" => idle = IdleTimeout
          /\ RpcFails("open", status)
    /\ UNCHANGED <<remote, queue, dig, sent, dest, hashed, clock>>

\* An error of the stream, or no chunk for the idle timeout.
ReadBreaks ==
    /\ pc = "reading"
    /\ \E status \in Status :
          (status = "timeout" => idle = IdleTimeout) /\ Fail(status)
    /\ UNCHANGED <<remote, queue, dig, sent, dest, hashed, clock>>

\* destination.write_all fails.
DestinationFails ==
    /\ pc \in {"batchread", "reading"}
    /\ Fail("local")
    /\ UNCHANGED <<remote, queue, dig, sent, dest, hashed, clock>>

ReadEnds ==
    /\ pc = "reading"
    /\ IF DigestOf(hashed) = dig
       THEN Finish("ok", "none") /\ UNCHANGED attempt
       ELSE Fail("refused")
    /\ UNCHANGED <<remote, queue, dig, sent, dest, hashed, clock>>

Step ==
    \/ UploadEnds \/ Oversized \/ LoadSmall \/ LoadFails \/ UpdateBatch
    \/ OpenWrite \/ Transfer \/ FinishWrite \/ WriteEndsEarly \/ WriteTimesOut
    \/ ProducerFails \/ Tick
    \/ BatchRead \/ OpenRead \/ ReadChunk \/ ReadBreaks \/ DestinationFails
    \/ ReadEnds

Next == UploadBlobs \/ StreamBlob \/ OtherClient \/ Step

Spec == Init /\ [][Next]_vars

\* The runtime polls the call, every single request has a timeout, time passes
\* and a timer that is due fires.  Nothing is assumed of the store.
FairSpec ==
    Spec /\ WF_vars(Step) /\ WF_vars(Tick) /\ WF_vars(WriteTimesOut)
-----------------------------------------------------------------------------
Entry == [digest : Digest, data : Seq(Chunk)]

\* Every variable has its type, and no RPC has more attempts than configured.
TypeOK ==
    /\ remote \in SUBSET Digest
    /\ fn \in {"upload", "download"}
    /\ pc \in {"idle", "next", "batch", "write", "writing", "batchread", "open",
               "reading"}
    /\ result \in {"none", "ok", "failed"}
    /\ cause \in Status \cup {"none", "local", "refused", "committed"}
    /\ want \in SUBSET Digest /\ todo \in Seq(Digest)
    /\ loaded \in Seq(Entry) /\ batch \in Seq(Entry) /\ bytes \in Nat
    /\ dig \in Digest /\ attempt \in 1..MaxAttempts
    /\ sent \in Seq(Chunk) /\ dest \in Seq(Chunk) /\ hashed \in Seq(Chunk)
    /\ elapsed \in 0..IdleTimeout /\ idle \in 0..IdleTimeout

\* upload_blobs succeeds only when the store has every blob of the list,
\* however the blobs were packed, whatever was lost and retried and whichever
\* file changed meanwhile.
UploadedMeansStored ==
    fn = "upload" /\ result = "ok" => want \subseteq remote

\* stream_blob succeeds only when exactly the blob's bytes, once, were written
\* to the destination.
DownloadedMeansVerified ==
    fn = "download" /\ result = "ok" => DigestOf(dest) = dig

\* The bytes of the blobs of a batch.
Total(entries) ==
    LET total[i \in 0..Len(entries)] ==
            IF i = 0 THEN 0 ELSE total[i - 1] + entries[i].digest.size
    IN  total[Len(entries)]

\* A BatchUpdateBlobs request is not empty and its blobs together fit the
\* budget.
BatchFits ==
    /\ Total(batch) <= Budget
    /\ pc = "batch" => batch # <<>>

\* Every call returns, whatever the store answers or withholds, unless it sends
\* a download messages without end: bytestream_read_into has no bound on those.
CallsReturn ==
    (pc # "idle" ~> pc = "idle") \/ []<><<ReadChunk>>_vars

\* "ByteStream read/write uses a 30 second idle timeout rather than one
\* whole-stream timeout": an attempt times out only if nothing was transferred
\* for that long.
TimeoutMeansIdle ==
    [][cause' = "timeout" /\ pc \in {"writing", "reading"}
          => idle = IdleTimeout]_vars
=============================================================================
