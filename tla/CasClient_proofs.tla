--------------------------- MODULE CasClient_proofs ---------------------------
(***************************************************************************)
(* What the answers of the CAS client mean, for any blobs, budgets and     *)
(* retry limits, any store that keeps only what hashes to its digest, and  *)
(* files that change while they are read.  CInv is inductive; the          *)
(* properties of CasClient follow from it.                                 *)
(***************************************************************************)
EXTENDS CasClient, TLAPS, WellFoundedInduction

\* The digests an upload still owes the store: not looked at yet, waiting for
\* the flush of a full batch, in the batch, or in the stream at work.
Owed ==
    {todo[i] : i \in DOMAIN todo} \cup Digests(loaded) \cup Digests(batch)
        \cup (IF pc \in {"write", "writing"} THEN {dig} ELSE {})

\* Whose call is at work, and that it has no outcome yet.
Phase ==
    /\ pc \in {"next", "batch", "write", "writing"} => fn = "upload" /\ result = "none"
    /\ pc \in {"batchread", "open", "reading"} => fn = "download" /\ result = "none"
    /\ pc \in {"next", "write", "writing"} => loaded = <<>>

\* Nothing is forgotten: what is not owed any more is in the store.
OwedOrStored == pc \in {"next", "batch", "write", "writing"} => want \subseteq Owed \cup remote

\* The destination and the hasher of a stream see the same bytes.
HashedIsWritten ==
    /\ pc = "open" => dest = <<>>
    /\ pc = "reading" => dest = hashed

\* The batch and the blob waiting for the next one fit the budget, each.
WithinBudget ==
    /\ bytes <= Budget
    /\ batch = <<>> => bytes = 0
    /\ loaded # <<>> => Head(loaded).digest.size <= Budget
    /\ pc = "batch" => batch # <<>>

SafeInv ==
    /\ Phase /\ OwedOrStored /\ HashedIsWritten /\ WithinBudget
    /\ UploadedMeansStored /\ DownloadedMeansVerified

CInv == TypeOK /\ SafeInv

USE DigestAssumption, LimitAssumption

\* A file or a stream of a bounded number of chunks is a sequence of chunks.
LEMMA Contents ==
  ASSUME NEW data \in UNION {[1..n -> Chunk] : n \in 0..MaxChunks}
  PROVE  data \in Seq(Chunk)
  OBVIOUS

LEMMA BytesInSeq ==
  ASSUME NEW d \in Digest, d \notin PathBacked
  PROVE  Bytes(d) \in Seq(Chunk)
  BY BlobAssumption DEF Bytes

LEMMA InitCInv == Init => CInv
  <1> SUFFICES ASSUME Init PROVE CInv
      OBVIOUS
  <1> USE DEF Init
  <1>1. TypeOK
    BY DEF TypeOK
  <1>2. Phase /\ OwedOrStored /\ HashedIsWritten
    BY DEF Phase, OwedOrStored, HashedIsWritten
  <1>3. WithinBudget
    BY DEF WithinBudget
  <1>4. UploadedMeansStored /\ DownloadedMeansVerified
    BY DEF UploadedMeansStored, DownloadedMeansVerified
  <1> QED BY <1>1, <1>2, <1>3, <1>4 DEF CInv, SafeInv

\* The two ways an attempt that failed goes on.
LEMMA AfterFailure ==
  ASSUME NEW label, NEW status \in Status, RpcFails(label, status), TypeOK
  PROVE  /\ cause' \in Status
         /\ attempt' \in 1..MaxAttempts
         /\ \/ pc' = label /\ result' = result
            \/ pc' = "idle" /\ result' = "failed"
  BY DEF RpcFails, Fail, Finish, TypeOK, Status

\* Every step keeps the types, and no RPC gets more attempts than configured.
LEMMA TypeNext ==
  ASSUME CInv, [Next]_vars
  PROVE  TypeOK'
  <1>1. TypeOK
    BY DEF CInv
  <1> USE DEF queue, clock, Status
  <1>2. CASE UploadBlobs
    <2>1. PICK blobs \in Uploads : todo' = blobs /\ want' = {blobs[i] : i \in DOMAIN blobs}
      BY <1>2 DEF UploadBlobs
    <2>2. blobs \in Seq(Digest)
      BY UploadsAssumption
    <2>3. todo' \in Seq(Digest) /\ want' \in SUBSET Digest
      BY <2>1, <2>2
    <2> QED BY <1>1, <1>2, <2>3 DEF UploadBlobs, TypeOK
  <1>3. CASE StreamBlob
    BY <1>1, <1>3 DEF StreamBlob, TypeOK
  <1>4. CASE OtherClient
    BY <1>1, <1>4 DEF OtherClient, TypeOK
  <1>5. CASE UploadEnds \/ LoadFails
    BY ZenonT(30), <1>1, <1>5 DEF UploadEnds, LoadFails, Fail, Finish, TypeOK
  <1>6. CASE Oversized
    <2>1. Head(todo) \in Digest /\ Tail(todo) \in Seq(Digest)
      BY <1>1, <1>6 DEF Oversized, TypeOK
    <2>2. CASE batch # <<>>
      BY <1>1, <1>6, <2>2 DEF Oversized, TypeOK
    <2>3. CASE batch = <<>>
      <3>1. /\ pc' = "write" /\ dig' = Head(todo) /\ todo' = Tail(todo) /\ attempt' = 1
            /\ UNCHANGED <<remote, result, cause, fn, want, loaded, batch, bytes, sent,
                           dest, hashed, clock>>
        BY <1>6, <2>3 DEF Oversized
      <3> QED BY <1>1, <2>1, <3>1 DEF TypeOK
    <2> QED BY <2>2, <2>3
  <1>7. CASE LoadSmall
    <2> DEFINE d == Head(todo)
    <2>1. d \in Digest /\ Tail(todo) \in Seq(Digest) /\ d.size \in Nat
      BY <1>1, <1>7 DEF LoadSmall, TypeOK
    <2> HIDE DEF d
    <2>2. PICK data \in IF d \in PathBacked
                        THEN UNION {[1..n -> Chunk] : n \in 0..MaxChunks}
                        ELSE {Bytes(d)} :
            IF Len(data) # d.size
            THEN Fail("local") /\ UNCHANGED <<todo, loaded, batch, bytes>>
            ELSE LET entry == [digest |-> d, data |-> data] IN
                 /\ todo' = Tail(todo)
                 /\ IF ExceedsBudget(d.size)
                    THEN /\ loaded' = <<entry>> /\ pc' = "batch"
                         /\ UNCHANGED <<batch, bytes>>
                    ELSE /\ batch' = Append(batch, entry)
                         /\ bytes' = bytes + d.size
                         /\ UNCHANGED <<pc, loaded>>
                 /\ UNCHANGED <<result, cause, attempt>>
      BY SMTT(30), <1>7 DEF LoadSmall, d
    <2>3. data \in Seq(Chunk)
      BY <2>1, <2>2, Contents, BytesInSeq
    <2>4. [digest |-> d, data |-> data] \in Entry
      BY <2>1, <2>3 DEF Entry
    <2>5. UNCHANGED <<remote, fn, want, dig, sent, dest, hashed, clock>>
      BY <1>7 DEF LoadSmall
    <2>6. CASE Len(data) # d.size
      BY <1>1, <2>2, <2>5, <2>6 DEF Fail, Finish, TypeOK
    <2>7. CASE Len(data) = d.size
      <3> DEFINE e == [digest |-> d, data |-> data]
      <3>1. e \in Entry
        BY <2>4
      <3> HIDE DEF e
      <3>2. /\ todo' = Tail(todo) /\ UNCHANGED <<result, cause, attempt>>
            /\ \/ loaded' = <<e>> /\ pc' = "batch" /\ UNCHANGED <<batch, bytes>>
               \/ batch' = Append(batch, e) /\ bytes' = bytes + d.size /\ UNCHANGED <<pc, loaded>>
        BY <2>2, <2>7 DEF e
      <3>3. CASE loaded' = <<e>> /\ pc' = "batch" /\ UNCHANGED <<batch, bytes>>
        BY SMTT(30), <1>1, <2>1, <2>5, <3>1, <3>2, <3>3 DEF TypeOK
      <3>4. CASE batch' = Append(batch, e) /\ bytes' = bytes + d.size /\ UNCHANGED <<pc, loaded>>
        <4>1. batch \in Seq(Entry) /\ bytes \in Nat
          BY <1>1 DEF TypeOK
        <4>2. batch' \in Seq(Entry) /\ bytes' \in Nat
          BY <2>1, <3>1, <3>4, <4>1
        <4> QED BY SMTT(30), <1>1, <2>1, <2>5, <3>2, <3>4, <4>2 DEF TypeOK
      <3> QED BY <3>2, <3>3, <3>4
    <2> QED BY <2>6, <2>7
  <1>8. CASE UpdateBatch
    <2>1. /\ UNCHANGED <<fn, want, todo, dig, sent, dest, hashed, clock>>
          /\ remote' \in SUBSET Digest
      <3>1. \A i \in DOMAIN batch : batch[i].digest \in Digest
        <4>1. batch \in Seq(Entry)
          BY <1>1 DEF TypeOK
        <4>2. \A e \in Entry : e.digest \in Digest
          BY DEF Entry
        <4> QED BY <4>1, <4>2
      <3>2. UNCHANGED <<fn, want, todo, dig, sent, dest, hashed, clock>>
        BY <1>8 DEF UpdateBatch
      <3>3. PICK kept \in SUBSET {batch[i].digest : i \in
                 {j \in DOMAIN batch : DigestOf(batch[j].data) = batch[j].digest}} :
              remote' = remote \cup kept
        BY <1>8, ZenonT(30) DEF UpdateBatch
      <3>4. kept \subseteq Digest
        BY <3>1, <3>3
      <3> QED BY <1>1, <3>2, <3>3, <3>4 DEF TypeOK
    <2>2. /\ loaded' \in Seq(Entry) /\ batch' \in Seq(Entry) /\ bytes' \in Nat
          /\ attempt' \in 1..MaxAttempts
          /\ pc' \in {"batch", "idle", "next"} /\ result' \in {"none", "ok", "failed"}
          /\ cause' \in Status \cup {"none", "local", "refused", "committed"}
      <3>1. CASE /\ \E status \in Status : RpcFails("batch", status)
                 /\ UNCHANGED <<loaded, batch, bytes>>
        BY ZenonT(30), <1>1, <3>1, AfterFailure DEF TypeOK
      <3>2. CASE Fail("refused") /\ UNCHANGED <<loaded, batch, bytes>>
        BY <1>1, <3>2 DEF Fail, Finish, TypeOK
      <3>3. CASE Flushed
        <4>1. loaded # <<>> => Head(loaded) \in Entry
          BY <1>1 DEF TypeOK
        <4>2. loaded # <<>> => Head(loaded).digest.size \in Nat
          BY <4>1 DEF Entry
        <4> QED BY <1>1, <3>3, <4>2 DEF Flushed, TypeOK
      <3> QED BY <1>8, <3>1, <3>2, <3>3 DEF UpdateBatch
    <2> QED BY <1>1, <2>1, <2>2 DEF TypeOK
  <1>9. CASE OpenWrite \/ ProducerFails \/ Tick
    <2>1. CASE OpenWrite
      BY <1>1, <2>1 DEF OpenWrite, TypeOK
    <2>2. CASE ProducerFails
      BY <1>1, <2>2 DEF ProducerFails, Fail, Finish, TypeOK
    <2>3. CASE Tick
      <3>1. idle' \in 0..IdleTimeout /\ elapsed' \in 0..IdleTimeout
        BY <1>1, <2>3 DEF Tick, TypeOK
      <3> QED BY <1>1, <2>3, <3>1 DEF Tick, TypeOK
    <2> QED BY <1>9, <2>1, <2>2, <2>3
  <1>10. CASE Transfer
    <2>1. dig \notin PathBacked => Bytes(dig) \in Seq(Chunk)
      BY <1>1, BytesInSeq DEF TypeOK
    <2>2. sent' \in Seq(Chunk)
      <3>1. sent \in Seq(Chunk)
        BY <1>1 DEF TypeOK
      <3>2. (\E c \in Chunk : sent' = Append(sent, c))
               \/ (dig \notin PathBacked /\ sent' = Bytes(dig))
        BY <1>10 DEF Transfer
      <3> QED BY <2>1, <3>1, <3>2
    <2>3. idle' = 0 /\ UNCHANGED <<remote, pc, result, cause, queue, dig, attempt, dest,
                                   hashed, elapsed>>
      BY <1>10 DEF Transfer
    <2> QED BY <1>1, <2>2, <2>3 DEF TypeOK
  <1>11. CASE FinishWrite
    <2>1. UNCHANGED <<queue, dig, sent, dest, hashed, clock>> /\ remote' \in SUBSET Digest
      BY <1>1, <1>11 DEF FinishWrite, TypeOK
    <2>2. (\E status \in Status : RpcFails("write", status)) \/ Written
      BY <1>11 DEF FinishWrite
    <2>3. CASE Written
      BY <1>1, <2>1, <2>3 DEF Written, TypeOK
    <2>4. ASSUME NEW status \in Status, RpcFails("write", status) PROVE TypeOK'
      BY SMTT(30), <1>1, <2>1, <2>4, AfterFailure DEF TypeOK
    <2> QED BY <2>2, <2>3, <2>4
  <1>12. CASE WriteEndsEarly \/ WriteTimesOut
    <2>1. UNCHANGED <<remote, queue, dig, sent, dest, hashed, clock>>
      BY <1>12 DEF WriteEndsEarly, WriteTimesOut
    <2>2. \/ \E status \in Status : RpcFails("write", status) \/ Fail(status)
          \/ Written \/ Fail("committed")
      BY <1>12 DEF WriteEndsEarly, WriteTimesOut
    <2>3. CASE Written
      BY <1>1, <2>1, <2>3 DEF Written, TypeOK
    <2>4. ASSUME NEW status \in Status, RpcFails("write", status) PROVE TypeOK'
      BY SMTT(30), <1>1, <2>1, <2>4, AfterFailure DEF TypeOK
    <2>5. ASSUME NEW status \in Status \cup {"committed"}, Fail(status) PROVE TypeOK'
      BY <1>1, <2>1, <2>5 DEF Fail, Finish, TypeOK
    <2> QED BY <2>2, <2>3, <2>4, <2>5
  <1>13. CASE BatchRead
    <2>1. UNCHANGED <<remote, queue, dig, sent, clock>>
      BY <1>13 DEF BatchRead
    <2>2. CASE (\E status \in Status : RpcFails("batchread", status)) /\ UNCHANGED <<dest, hashed>>
      BY ZenonT(30), <1>1, <2>1, <2>2, AfterFailure DEF TypeOK
    <2>3. ASSUME NEW data \in UNION {[1..n -> Chunk] : n \in 0..MaxChunks},
                 hashed' = data,
                 \/ dest' = data /\ Finish("ok", "none") /\ UNCHANGED attempt
                 \/ Fail("refused") /\ UNCHANGED dest
          PROVE  TypeOK'
      <3>1. data \in Seq(Chunk)
        BY Contents
      <3> QED BY SMTT(30), <1>1, <2>1, <2>3, <3>1 DEF Fail, Finish, TypeOK
    <2> QED BY <1>13, <2>2, <2>3 DEF BatchRead
  <1>14. CASE OpenRead
    <2>1. UNCHANGED <<remote, queue, dig, sent, dest, elapsed>>
      BY <1>14 DEF OpenRead
    <2>2. CASE (\E status \in Status : RpcFails("open", status)) /\ UNCHANGED <<hashed, idle>>
      BY ZenonT(30), <1>1, <2>1, <2>2, AfterFailure DEF TypeOK
    <2>3. CASE /\ pc' = "reading" /\ cause' = "none" /\ hashed' = <<>> /\ idle' = 0
               /\ UNCHANGED <<result, attempt>>
      BY <1>1, <2>1, <2>3 DEF TypeOK
    <2> QED BY <1>14, <2>2, <2>3 DEF OpenRead
  <1>15. CASE ReadChunk
    <2>1. PICK data \in {<<>>} \cup {<<c>> : c \in Chunk} :
             dest' = dest \o data /\ hashed' = hashed \o data
      BY <1>15 DEF ReadChunk
    <2>2. data \in Seq(Chunk)
      <3>1. CASE data = <<>>
        BY <3>1
      <3>2. ASSUME NEW c \in Chunk, data = <<c>> PROVE data \in Seq(Chunk)
        BY <3>2
      <3> QED BY <2>1, <3>1, <3>2
    <2>3. dest' \in Seq(Chunk) /\ hashed' \in Seq(Chunk)
      BY <1>1, <2>1, <2>2 DEF TypeOK
    <2> QED BY <1>1, <1>15, <2>3 DEF ReadChunk, TypeOK
  <1>16. CASE ReadBreaks \/ DestinationFails \/ ReadEnds
    BY Zenon, <1>1, <1>16 DEF ReadBreaks, DestinationFails, ReadEnds, Fail, Finish, TypeOK
  <1>17. CASE UNCHANGED vars
    BY <1>1, <1>17 DEF vars, TypeOK
  <1> QED BY <1>2, <1>3, <1>4, <1>5, <1>6, <1>7, <1>8, <1>9, <1>10, <1>11, <1>12, <1>13,
             <1>14, <1>15, <1>16, <1>17 DEF Next, Step

\* A call that fails promises nothing.
LEMMA Failed ==
  ASSUME CInv, pc' = "idle", result' = "failed", UNCHANGED queue
  PROVE  SafeInv'
  BY DEF CInv, SafeInv, Phase, OwedOrStored, HashedIsWritten, WithinBudget,
     UploadedMeansStored, DownloadedMeansVerified, queue

\* An attempt that is made again owes and has written what the last one did.
LEMMA Retried ==
  ASSUME CInv, UNCHANGED <<queue, dig, result, dest, hashed>>, remote \subseteq remote',
         \/ pc \in {"batch", "batchread", "open"} /\ pc' = pc
         \/ pc = "writing" /\ pc' = "write"
  PROVE  SafeInv'
  <1>1. Owed' = Owed
    BY DEF Owed, queue, Digests
  <1>2. OwedOrStored'
    BY SMTT(30), <1>1 DEF CInv, SafeInv, OwedOrStored, queue
  <1>3. WithinBudget'
    BY DEF CInv, SafeInv, WithinBudget, queue
  <1>4. Phase' /\ HashedIsWritten'
    BY DEF CInv, SafeInv, Phase, HashedIsWritten, queue
  <1>5. result' = "none"
    BY DEF CInv, SafeInv, Phase
  <1> QED BY SMTT(30), <1>2, <1>3, <1>4, <1>5 DEF SafeInv, UploadedMeansStored, DownloadedMeansVerified

\* A stream was stored: one debt less.
LEMMA WrittenStep ==
  ASSUME CInv, pc = "writing", Written, UNCHANGED <<queue, dig, dest, hashed>>,
         remote \subseteq remote', dig \in remote'
  PROVE  SafeInv'
  <1>1. Owed \subseteq Owed' \cup {dig}
    BY DEF Owed, queue, Digests, Written
  <1>2. OwedOrStored'
    BY <1>1 DEF CInv, SafeInv, OwedOrStored, queue, Written
  <1>3. WithinBudget'
    BY DEF CInv, SafeInv, WithinBudget, queue, Written
  <1>4. Phase' /\ HashedIsWritten' /\ result' = "none"
    BY DEF CInv, SafeInv, Phase, HashedIsWritten, queue, Written
  <1> QED BY <1>2, <1>3, <1>4 DEF SafeInv, UploadedMeansStored, DownloadedMeansVerified

\* The blob at the head of the list moves on, and stays owed until it is
\* stored.
LEMMA HeadMoves ==
  ASSUME TypeOK, todo # <<>>
  PROVE  /\ Tail(todo) \in Seq(Digest)
         /\ {todo[i] : i \in DOMAIN todo}
              = {Head(todo)} \cup {Tail(todo)[i] : i \in DOMAIN Tail(todo)}
  <1>1. todo \in Seq(Digest)
    BY DEF TypeOK
  <1>2. /\ Tail(todo) \in Seq(Digest) /\ Len(todo) \in Nat /\ Len(todo) > 0
        /\ DOMAIN todo = 1..Len(todo) /\ DOMAIN Tail(todo) = 1..(Len(todo) - 1)
        /\ Head(todo) = todo[1]
        /\ \A i \in 1..(Len(todo) - 1) : Tail(todo)[i] = todo[i + 1]
    BY <1>1
  <1>3. ASSUME NEW i \in DOMAIN todo
        PROVE  todo[i] \in {Head(todo)} \cup {Tail(todo)[j] : j \in DOMAIN Tail(todo)}
    <2>1. CASE i = 1
      BY <1>2, <2>1
    <2>2. CASE i # 1
      <3>1. i - 1 \in 1..(Len(todo) - 1) /\ (i - 1) + 1 = i
        BY <1>2, <2>2
      <3>2. Tail(todo)[i - 1] = todo[i] /\ i - 1 \in DOMAIN Tail(todo)
        BY <1>2, <3>1
      <3> QED BY <3>2
    <2> QED BY <2>1, <2>2
  <1>4. ASSUME NEW i \in DOMAIN Tail(todo)
        PROVE  Tail(todo)[i] \in {todo[j] : j \in DOMAIN todo}
    <2>1. i + 1 \in DOMAIN todo /\ Tail(todo)[i] = todo[i + 1]
      BY <1>2
    <2> QED BY <2>1
  <1>5. Head(todo) \in {todo[j] : j \in DOMAIN todo}
    BY <1>2
  <1> QED BY SMTT(30), <1>2, <1>3, <1>4, <1>5

\* What a batch owes after a blob was pushed.
LEMMA PushOwes ==
  ASSUME NEW e \in Entry, TypeOK
  PROVE  Digests(Append(batch, e)) = Digests(batch) \cup {e.digest}
  <1>1. batch \in Seq(Entry)
    BY DEF TypeOK
  <1>2. /\ Len(batch) \in Nat /\ DOMAIN batch = 1..Len(batch)
        /\ DOMAIN Append(batch, e) = 1..(Len(batch) + 1)
        /\ \A i \in 1..Len(batch) : Append(batch, e)[i] = batch[i]
        /\ Append(batch, e)[Len(batch) + 1] = e
    BY <1>1
  <1>3. \A i \in 1..(Len(batch) + 1) : i \in 1..Len(batch) \/ i = Len(batch) + 1
    BY <1>2
  <1>4. 1..Len(batch) \subseteq 1..(Len(batch) + 1) /\ Len(batch) + 1 \in 1..(Len(batch) + 1)
    BY <1>2
  <1> DEFINE a == Append(batch, e)
  <1> HIDE DEF a
  <1> QED BY <1>2, <1>3, <1>4 DEF Digests, a

\* A small blob is pushed, or waits for the flush of a full batch.
LEMMA LoadSmallSafe ==
  ASSUME CInv, LoadSmall
  PROVE  SafeInv'
  <1> DEFINE d == Head(todo)
  <1>1. /\ TypeOK /\ SafeInv /\ pc = "next" /\ todo # <<>> /\ d.size <= Budget
        /\ UNCHANGED <<remote, fn, want, dig, sent, dest, hashed, clock>>
    BY DEF CInv, LoadSmall
  <1>2. /\ loaded = <<>> /\ fn = "upload" /\ result = "none"
        /\ want \subseteq Owed \cup remote
    BY <1>1 DEF SafeInv, Phase, OwedOrStored
  <1>3. d \in Digest
    BY SMTT(30), <1>1 DEF TypeOK
  <1> HIDE DEF d
  <1>4. PICK data \in IF d \in PathBacked
                      THEN UNION {[1..n -> Chunk] : n \in 0..MaxChunks}
                      ELSE {Bytes(d)} :
          IF Len(data) # d.size
          THEN Fail("local") /\ UNCHANGED <<todo, loaded, batch, bytes>>
          ELSE LET entry == [digest |-> d, data |-> data] IN
               /\ todo' = Tail(todo)
               /\ IF ExceedsBudget(d.size)
                  THEN /\ loaded' = <<entry>> /\ pc' = "batch"
                       /\ UNCHANGED <<batch, bytes>>
                  ELSE /\ batch' = Append(batch, entry)
                       /\ bytes' = bytes + d.size
                       /\ UNCHANGED <<pc, loaded>>
               /\ UNCHANGED <<result, cause, attempt>>
    BY SMTT(30) DEF LoadSmall, d
  <1>5. CASE Len(data) # d.size
    <2>1. pc' = "idle" /\ result' = "failed" /\ UNCHANGED queue
      BY <1>1, <1>4, <1>5 DEF Fail, Finish, queue
    <2> QED BY <2>1, Failed
  <1>6. CASE Len(data) = d.size
    <2> DEFINE e == [digest |-> d, data |-> data]
    <2>1. e \in Entry /\ e.digest = d
      <3>1. data \in Seq(Chunk)
        BY ZenonT(30), <1>3, <1>4, Contents, BytesInSeq
      <3> QED BY SMTT(30), <1>3, <3>1 DEF Entry
    <2>2. /\ todo' = Tail(todo) /\ result' = "none"
          /\ ExceedsBudget(d.size) =>
               loaded' = <<e>> /\ pc' = "batch" /\ UNCHANGED <<batch, bytes>>
          /\ ~ExceedsBudget(d.size) =>
               batch' = Append(batch, e) /\ bytes' = bytes + d.size /\ UNCHANGED <<pc, loaded>>
      BY SMTT(30), <1>2, <1>4, <1>6
    <2> HIDE DEF e
    <2>3. {todo[i] : i \in DOMAIN todo} = {d} \cup {todo'[i] : i \in DOMAIN todo'}
      BY ZenonT(30), <1>1, <2>2, HeadMoves DEF d
    <2>4. CASE ExceedsBudget(d.size)
      <3>1. loaded' = <<e>> /\ pc' = "batch" /\ UNCHANGED <<batch, bytes>>
        BY <2>2, <2>4
      <3>2. Digests(loaded') = {d}
        BY <2>1, <3>1 DEF Digests
      <3>3. Digests(loaded) = {} /\ Digests(batch') = Digests(batch)
        BY SMTT(30), <1>2, <3>1 DEF Digests
      <3>4. Owed \subseteq Owed'
        BY Zenon, <1>1, <2>3, <3>1, <3>2, <3>3 DEF Owed
      <3>5. Head(loaded').digest.size <= Budget
        BY <1>1, <2>1, <3>1
      <3>6. WithinBudget'
        BY <1>1, <2>4, <3>1, <3>5 DEF SafeInv, WithinBudget, ExceedsBudget
      <3>7. OwedOrStored'
        BY SMTT(30), <1>1, <1>2, <3>4 DEF OwedOrStored
      <3> QED BY <1>1, <1>2, <2>2, <3>1, <3>6, <3>7 DEF SafeInv, Phase, HashedIsWritten,
                 UploadedMeansStored, DownloadedMeansVerified
    <2>5. CASE ~ExceedsBudget(d.size)
      <3>1. batch' = Append(batch, e) /\ bytes' = bytes + d.size /\ UNCHANGED <<pc, loaded>>
        BY <2>2, <2>5
      <3>2. Digests(batch') = Digests(batch) \cup {d} /\ Digests(loaded') = Digests(loaded)
        BY <1>1, <2>1, <3>1, PushOwes
      <3>3. Owed \subseteq Owed'
        BY ZenonT(30), <1>1, <2>3, <3>1, <3>2 DEF Owed
      <3>4. bytes' <= Budget
        <4>1. bytes \in Nat /\ d.size \in Nat
          BY <1>1, <1>3 DEF TypeOK
        <4>2. batch = <<>> => bytes = 0
          BY <1>1 DEF SafeInv, WithinBudget
        <4> QED BY SMTT(30), <1>1, <2>5, <3>1, <4>1, <4>2 DEF ExceedsBudget
      <3>5. batch' # <<>>
        <4>1. batch \in Seq(Entry)
          BY <1>1 DEF TypeOK
        <4> QED BY <2>1, <3>1, <4>1
      <3>6. WithinBudget'
        BY SMTT(30), <1>1, <1>2, <3>1, <3>4, <3>5 DEF WithinBudget
      <3>7. OwedOrStored'
        BY <1>1, <1>2, <3>3 DEF OwedOrStored
      <3> QED BY SMTT(30), <1>1, <1>2, <2>2, <3>1, <3>6, <3>7 DEF SafeInv, Phase, HashedIsWritten,
                 UploadedMeansStored, DownloadedMeansVerified
    <2> QED BY SMTT(30), <2>4, <2>5
  <1> QED BY SMTT(30), <1>5, <1>6

\* A batch is dropped only when the store acknowledged all of it.
LEMMA UpdateBatchSafe ==
  ASSUME CInv, UpdateBatch
  PROVE  SafeInv'
  <1>1. /\ TypeOK /\ SafeInv /\ pc = "batch" /\ fn = "upload" /\ result = "none"
        /\ UNCHANGED <<fn, want, todo, dig, sent, dest, hashed, clock>>
    BY DEF CInv, SafeInv, Phase, UpdateBatch
  <1>2. remote \subseteq remote'
    BY DEF UpdateBatch
  <1>3. ASSUME NEW status \in Status, RpcFails("batch", status),
               UNCHANGED <<loaded, batch, bytes>>
        PROVE  SafeInv'
    <2>1. (pc' = "batch" /\ result' = result) \/ (pc' = "idle" /\ result' = "failed")
      BY <1>1, <1>3, AfterFailure
    <2>2. UNCHANGED queue
      BY <1>1, <1>3 DEF queue
    <2> QED BY <1>1, <1>2, <2>1, <2>2, Failed, Retried
  <1>4. CASE Fail("refused") /\ UNCHANGED <<loaded, batch, bytes>>
    BY <1>1, <1>4, Failed DEF Fail, Finish, queue
  <1>5. ASSUME NEW acked \in SUBSET (Digests(batch) \cap remote'), ~Refused(acked), Flushed
        PROVE  SafeInv'
    <2>1. Digests(batch) \subseteq remote'
      BY <1>5 DEF Refused
    <2>2. /\ batch' = loaded /\ loaded' = <<>> /\ pc' = "next" /\ result' = "none"
          /\ bytes' = IF loaded = <<>> THEN 0 ELSE Head(loaded).digest.size
      BY <1>1, <1>5 DEF Flushed
    <2>3. Digests(batch') = Digests(loaded)
      BY <2>2
    <2>4. Owed \subseteq Owed' \cup Digests(batch)
      BY <1>1, <2>2, <2>3 DEF Owed
    <2>5. OwedOrStored'
      BY <1>1, <1>2, <2>1, <2>4 DEF SafeInv, OwedOrStored
    <2>6. WithinBudget'
      BY <1>1, <2>2 DEF SafeInv, WithinBudget
    <2> QED BY <1>1, <2>2, <2>5, <2>6 DEF SafeInv, Phase, HashedIsWritten,
               UploadedMeansStored, DownloadedMeansVerified
  <1> QED BY SMTT(30), <1>3, <1>4, <1>5 DEF UpdateBatch

LEMMA SafeNext ==
  ASSUME CInv, [Next]_vars
  PROVE  SafeInv'
  <1>1. TypeOK /\ SafeInv
    BY DEF CInv
  <1> DEFINE Later == UploadedMeansStored' /\ DownloadedMeansVerified'
  <1>2. ASSUME result' = "none" PROVE Later
    BY <1>2 DEF UploadedMeansStored, DownloadedMeansVerified
  <1>3. CASE UploadBlobs
    <2>1. /\ pc' = "next" /\ fn' = "upload" /\ result' = "none"
          /\ loaded' = <<>> /\ batch' = <<>> /\ bytes' = 0
      BY <1>3 DEF UploadBlobs
    <2>2. want' = {todo'[i] : i \in DOMAIN todo'}
      BY <1>3 DEF UploadBlobs
    <2>3. want' \subseteq Owed'
      BY <2>2 DEF Owed
    <2>4. WithinBudget'
      BY <2>1 DEF WithinBudget
    <2> QED BY SMTT(30), <1>2, <2>1, <2>3, <2>4 DEF SafeInv, Phase, OwedOrStored, HashedIsWritten
  <1>4. CASE StreamBlob
    <2>1. /\ pc' \in {"batchread", "open"} /\ fn' = "download" /\ result' = "none"
          /\ loaded' = <<>> /\ batch' = <<>> /\ bytes' = 0 /\ dest' = <<>>
      BY <1>4 DEF StreamBlob
    <2>2. WithinBudget'
      BY <2>1 DEF WithinBudget
    <2> QED BY <1>2, <2>1, <2>2 DEF SafeInv, Phase, OwedOrStored, HashedIsWritten
  <1>5. ASSUME UNCHANGED <<pc, result, queue, dig, dest, hashed>>, remote \subseteq remote'
        PROVE  SafeInv'
    <2>1. Owed' = Owed
      BY <1>5 DEF Owed, queue, Digests
    <2>2. OwedOrStored'
      BY SMTT(30), <1>1, <1>5, <2>1 DEF SafeInv, OwedOrStored, queue
    <2>3. WithinBudget' /\ Phase' /\ HashedIsWritten'
      BY SMTT(30), <1>1, <1>5 DEF SafeInv, WithinBudget, Phase, HashedIsWritten, queue
    <2>4. Later
      BY <1>1, <1>5 DEF SafeInv, UploadedMeansStored, DownloadedMeansVerified, DigestOf, queue
    <2> QED BY SMTT(30), <2>2, <2>3, <2>4 DEF SafeInv
  <1>6. CASE OtherClient \/ Transfer \/ Tick \/ UNCHANGED vars
    <2>1. UNCHANGED <<pc, result, queue, dig, dest, hashed>> /\ remote \subseteq remote'
      BY <1>6 DEF OtherClient, Transfer, Tick, vars
    <2> QED BY SMTT(30), <1>5, <2>1
  <1>7. CASE UploadEnds
    <2>1. /\ pc = "next" /\ todo = <<>> /\ UNCHANGED <<remote, queue, dig, dest, hashed>>
          /\ fn = "upload" /\ result = "none" /\ loaded = <<>>
      BY <1>1, <1>7 DEF UploadEnds, SafeInv, Phase
    <2>2. CASE batch = <<>>
      <3>1. pc' = "idle" /\ result' = "ok"
        BY <1>7, <2>2 DEF UploadEnds, Finish
      <3>2. Owed = {}
        BY <2>1, <2>2 DEF Owed, Digests
      <3>3. want \subseteq remote
        BY <1>1, <2>1, <3>2 DEF SafeInv, OwedOrStored
      <3>4. WithinBudget'
        BY <1>1, <2>1, <3>1 DEF SafeInv, WithinBudget, queue
      <3> QED BY <2>1, <3>1, <3>3, <3>4 DEF SafeInv, Phase, OwedOrStored, HashedIsWritten, queue,
                 UploadedMeansStored, DownloadedMeansVerified
    <2>3. CASE batch # <<>>
      <3>1. pc' = "batch" /\ result' = "none"
        BY <1>7, <2>1, <2>3 DEF UploadEnds
      <3>2. Owed' = Owed
        BY <2>1, <3>1 DEF Owed, Digests, queue
      <3>3. WithinBudget' /\ OwedOrStored'
        BY <1>1, <2>1, <2>3, <3>1, <3>2 DEF SafeInv, WithinBudget, OwedOrStored, queue
      <3> QED BY <1>2, <2>1, <3>1, <3>3 DEF SafeInv, Phase, HashedIsWritten, queue
    <2> QED BY <2>2, <2>3
  <1>8. CASE Oversized
    <2>1. /\ pc = "next" /\ todo # <<>>
          /\ UNCHANGED <<remote, result, fn, want, loaded, batch, bytes, dest, hashed>>
          /\ fn = "upload" /\ result = "none" /\ loaded = <<>>
      BY SMTT(30), <1>1, <1>8 DEF Oversized, SafeInv, Phase
    <2>2. /\ Digests(loaded') = Digests(loaded) /\ Digests(batch') = Digests(batch)
          /\ WithinBudget' \/ pc' = "batch"
      BY <1>1, <2>1 DEF SafeInv, WithinBudget
    <2>3. CASE batch # <<>>
      <3>1. pc' = "batch" /\ UNCHANGED <<todo, dig>>
        BY <1>8, <2>3 DEF Oversized
      <3>2. Owed' = Owed
        BY <2>1, <2>2, <3>1 DEF Owed
      <3>3. WithinBudget' /\ OwedOrStored'
        BY <1>1, <2>1, <2>3, <3>1, <3>2 DEF SafeInv, WithinBudget, OwedOrStored
      <3> QED BY <1>2, <2>1, <3>1, <3>3 DEF SafeInv, Phase, HashedIsWritten
    <2>4. CASE batch = <<>>
      <3>1. pc' = "write" /\ dig' = Head(todo) /\ todo' = Tail(todo)
        BY SMTT(30), <1>8, <2>4 DEF Oversized
      <3>2. {todo[i] : i \in DOMAIN todo} = {dig'} \cup {todo'[i] : i \in DOMAIN todo'}
        BY ZenonT(30), <1>1, <2>1, <3>1, HeadMoves
      <3>3. Owed \subseteq Owed'
        BY ZenonT(30), <2>1, <2>2, <3>1, <3>2 DEF Owed
      <3>4. WithinBudget' /\ OwedOrStored'
        BY <1>1, <2>1, <2>2, <3>1, <3>3 DEF SafeInv, OwedOrStored
      <3> QED BY <1>2, <2>1, <3>1, <3>4 DEF SafeInv, Phase, HashedIsWritten
    <2> QED BY <2>3, <2>4
  <1>9. CASE OpenWrite
    <2>1. /\ pc = "write" /\ pc' = "writing"
          /\ UNCHANGED <<remote, result, queue, dig, dest, hashed>>
          /\ fn = "upload" /\ result = "none" /\ loaded = <<>>
      BY <1>1, <1>9 DEF OpenWrite, SafeInv, Phase
    <2>2. Owed' = Owed
      BY SMTT(30), <2>1 DEF Owed, Digests, queue
    <2>3. WithinBudget' /\ OwedOrStored'
      BY <1>1, <2>1, <2>2 DEF SafeInv, WithinBudget, OwedOrStored, queue
    <2> QED BY <1>2, <2>1, <2>3 DEF SafeInv, Phase, HashedIsWritten, queue
  <1>10. CASE /\ pc' = "idle" /\ result' = "failed" /\ UNCHANGED queue
    BY <1>10, Failed
  <1>11. ASSUME NEW status, Fail(status), UNCHANGED queue PROVE SafeInv'
    BY SMTT(30), <1>10, <1>11 DEF Fail, Finish
  <1>12. CASE LoadFails \/ ProducerFails \/ ReadBreaks \/ DestinationFails
    BY <1>11, <1>12 DEF LoadFails, ProducerFails, ReadBreaks, DestinationFails
  <1>13. ASSUME NEW label, NEW status \in Status, RpcFails(label, status),
                UNCHANGED <<queue, dig, dest, hashed>>, remote \subseteq remote',
                \/ pc \in {"batchread", "open"} /\ label = pc
                \/ pc = "writing" /\ label = "write"
         PROVE  SafeInv'
    <2>1. (pc' = label /\ result' = result) \/ (pc' = "idle" /\ result' = "failed")
      BY <1>1, <1>13, AfterFailure
    <2>2. CASE pc' = label /\ result' = result
      BY <1>13, <2>2, Retried
    <2>3. CASE pc' = "idle" /\ result' = "failed"
      BY <1>10, <1>13, <2>3
    <2> QED BY <2>1, <2>2, <2>3
  <1>14. CASE FinishWrite \/ WriteEndsEarly \/ WriteTimesOut
    <2>1. /\ pc = "writing" /\ UNCHANGED <<queue, dig, dest, hashed>>
          /\ remote \subseteq remote'
      BY SMTT(30), <1>14 DEF FinishWrite, WriteEndsEarly, WriteTimesOut
    <2>2. \/ \E status \in Status : RpcFails("write", status)
          \/ \E status \in Status \cup {"committed"} : Fail(status)
          \/ Written /\ dig \in remote'
      BY <1>14 DEF FinishWrite, WriteEndsEarly, WriteTimesOut, Status
    <2>3. CASE Written /\ dig \in remote'
      BY <2>1, <2>3, WrittenStep
    <2> QED BY <1>11, <1>13, <2>1, <2>2, <2>3
  <1>15. CASE BatchRead
    <2>1. pc = "batchread" /\ UNCHANGED <<remote, queue, dig>>
      BY ZenonT(30), <1>15 DEF BatchRead
    <2>2. CASE (\E status \in Status : RpcFails("batchread", status)) /\ UNCHANGED <<dest, hashed>>
      BY SMTT(30), <1>13, <2>1, <2>2
    <2>3. CASE DigestOf(dest') = dig /\ Finish("ok", "none")
      <3>1. fn = "download" /\ WithinBudget /\ UNCHANGED <<fn, loaded, batch, bytes, dig>>
        BY SMTT(30), <1>1, <2>1 DEF SafeInv, Phase, queue
      <3> QED BY <2>3, <3>1 DEF SafeInv, Phase, OwedOrStored, HashedIsWritten, WithinBudget,
                 UploadedMeansStored, DownloadedMeansVerified, Finish, DigestOf
    <2>4. \/ (\E status \in Status : RpcFails("batchread", status)) /\ UNCHANGED <<dest, hashed>>
          \/ Fail("refused")
          \/ DigestOf(dest') = dig /\ Finish("ok", "none")
      BY <1>15 DEF BatchRead
    <2> QED BY SMTT(30), <1>11, <2>1, <2>2, <2>3, <2>4
  <1>16. CASE OpenRead
    <2>1. pc = "open" /\ UNCHANGED <<remote, queue, dig, dest>>
      BY <1>16 DEF OpenRead
    <2>2. CASE (\E status \in Status : RpcFails("open", status)) /\ UNCHANGED <<hashed, idle>>
      BY SMTT(30), <1>13, <2>1, <2>2
    <2>3. CASE pc' = "reading" /\ hashed' = <<>> /\ UNCHANGED result
      <3>1. /\ fn = "download" /\ WithinBudget /\ UNCHANGED <<fn, loaded, batch, bytes>>
            /\ dest = <<>> /\ result = "none"
        BY SMTT(30), <1>1, <2>1 DEF SafeInv, Phase, HashedIsWritten, queue
      <3> QED BY <1>2, <2>1, <2>3, <3>1 DEF SafeInv, Phase, OwedOrStored, HashedIsWritten,
                 WithinBudget
    <2> QED BY <1>16, <2>2, <2>3 DEF OpenRead
  <1>17. CASE ReadChunk
    <2>1. /\ pc = "reading" /\ UNCHANGED <<remote, pc, result, queue, dig>>
          /\ dest = hashed => dest' = hashed'
      BY <1>17 DEF ReadChunk
    <2>2. /\ fn = "download" /\ WithinBudget /\ UNCHANGED <<fn, loaded, batch, bytes>>
          /\ dest = hashed /\ result = "none"
      BY <1>1, <2>1 DEF SafeInv, Phase, HashedIsWritten, queue
    <2> QED BY SMTT(30), <1>2, <2>1, <2>2 DEF SafeInv, Phase, OwedOrStored, HashedIsWritten, WithinBudget
  <1>18. CASE ReadEnds
    <2>1. pc = "reading" /\ UNCHANGED <<remote, queue, dig, dest, hashed>>
      BY <1>18 DEF ReadEnds
    <2>2. /\ fn = "download" /\ WithinBudget /\ UNCHANGED <<fn, loaded, batch, bytes>>
          /\ dest = hashed
      BY SMTT(30), <1>1, <2>1 DEF SafeInv, Phase, HashedIsWritten, queue
    <2>3. CASE DigestOf(hashed) = dig /\ Finish("ok", "none")
      BY <2>1, <2>2, <2>3 DEF SafeInv, Phase, OwedOrStored, HashedIsWritten, WithinBudget,
         UploadedMeansStored, DownloadedMeansVerified, Finish, DigestOf
    <2> QED BY <1>11, <1>18, <2>1, <2>3 DEF ReadEnds
  <1> QED BY <1>3, <1>4, <1>6, <1>7, <1>8, <1>9, <1>12, <1>14, <1>15, <1>16, <1>17, <1>18,
             LoadSmallSafe, UpdateBatchSafe DEF Next, Step

\* The invariant holds for every list of blobs, store and bound on attempts.
THEOREM CasInvariant == Spec => []CInv
  <1>1. CInv /\ [Next]_vars => CInv'
    BY TypeNext, SafeNext DEF CInv
  <1> QED BY <1>1, InitCInv, PTL DEF Spec

\* retry_rpc never makes more attempts than max_attempts, and every variable
\* keeps its type.
THEOREM CasTypes == Spec => []TypeOK
  <1>1. CInv => TypeOK
    BY DEF CInv
  <1> QED BY <1>1, CasInvariant, PTL

\* upload_blobs returns Ok only when the store has every blob of the list.
THEOREM UploadStores == Spec => []UploadedMeansStored
  <1>1. CInv => UploadedMeansStored
    BY DEF CInv, SafeInv
  <1> QED BY <1>1, CasInvariant, PTL

\* stream_blob returns Ok only when exactly the blob was written.
THEOREM DownloadVerifies == Spec => []DownloadedMeansVerified
  <1>1. CInv => DownloadedMeansVerified
    BY DEF CInv, SafeInv
  <1> QED BY <1>1, CasInvariant, PTL

-----------------------------------------------------------------------------
\* Induction over the naturals: the least number without a property is reached
\* by the first step that loses it.
LEMMA LeastElement ==
  ASSUME NEW T, T \subseteq Nat, T # {}
  PROVE  \E m \in T : \A k \in T : m <= k
  <1>1. PICK m \in T : \A k \in T : ~(<<k, m>> \in OpToRel(<, Nat))
    BY NatLessThanWellFounded, WFMin, Zenon
  <1>2. \A k \in T : ~(k < m)
    <2> TAKE k \in T
    <2>1. k \in Nat /\ m \in Nat
      OBVIOUS
    <2> QED BY Zenon, <1>1, <2>1 DEF OpToRel
  <1> QED BY <1>2

\* f holds the partial sums of the sizes of the first n entries.
Sums(es, n, f) ==
    f = [i \in 0..n |-> IF i = 0 THEN 0 ELSE f[i - 1] + es[i].digest.size]

\* There is one way to add up the sizes of a batch ...
LEMMA SumsAgree ==
  ASSUME NEW es, NEW n \in Nat, NEW m \in Nat, n <= m,
         NEW f, NEW g, Sums(es, n, f), Sums(es, m, g)
  PROVE  \A i \in 0..n : f[i] = g[i]
  <1> DEFINE T == {i \in 0..n : f[i] # g[i]}
  <1> SUFFICES ASSUME T # {} PROVE FALSE
      OBVIOUS
  <1>0. T \subseteq Nat
    OBVIOUS
  <1>1. PICK i \in T : \A k \in T : i <= k
    <2> HIDE DEF T
    <2> QED BY ZenonT(30), <1>0, LeastElement
  <1>2. CASE i = 0
    <2>1. f[0] = 0 /\ g[0] = 0
      BY SMTT(30) DEF Sums
    <2> QED BY SMTT(30), <1>1, <1>2, <2>1
  <1>3. CASE i # 0
    <2>1. i - 1 \in 0..n /\ i - 1 \in 0..m /\ ~(i <= i - 1) /\ i \in 0..m
      BY <1>1, <1>3
    <2>2. f[i - 1] = g[i - 1]
      BY SMTT(30), <1>1, <2>1
    <2>3. f[i] = f[i - 1] + es[i].digest.size /\ g[i] = g[i - 1] + es[i].digest.size
      BY <1>3, <2>1 DEF Sums
    <2> QED BY <1>1, <2>2, <2>3
  <1> QED BY <1>2, <1>3

\* ... and it can be done for every batch.
LEMMA SumsExist ==
  ASSUME NEW es \in Seq(Entry), NEW n \in 0..Len(es)
  PROVE  \E f \in [0..n -> Nat] : Sums(es, n, f)
  <1> DEFINE Ok(k) == \E f \in [0..k -> Nat] : Sums(es, k, f)
  <1> DEFINE T == {k \in 0..Len(es) : ~Ok(k)}
  <1> SUFFICES ASSUME T # {} PROVE FALSE
      BY Zenon
  <1>0. T \subseteq Nat
    OBVIOUS
  <1>1. PICK k \in T : \A j \in T : k <= j
    <2> HIDE DEF T
    <2> QED BY ZenonT(30), <1>0, LeastElement
  <1>2. CASE k = 0
    <2>1. [i \in 0..0 |-> 0] \in [0..0 -> Nat] /\ Sums(es, 0, [i \in 0..0 |-> 0])
      BY DEF Sums
    <2> QED BY SMTT(30), <1>1, <1>2, <2>1
  <1>3. CASE k # 0
    <2>1. k - 1 \in 0..Len(es) /\ ~(k <= k - 1) /\ k \in 1..Len(es)
      BY <1>1, <1>3
    <2>2. PICK f \in [0..(k - 1) -> Nat] : Sums(es, k - 1, f)
      BY Zenon, <1>1, <2>1
    <2>3. PICK x \in Nat : x = es[k].digest.size
      <3>1. es[k] \in Entry
        BY <2>1
      <3>2. es[k].digest \in Digest
        BY <3>1 DEF Entry
      <3> QED BY <3>2
    <2> DEFINE g == [i \in 0..k |-> IF i = k THEN f[k - 1] + x ELSE f[i]]
    <2>4. g \in [0..k -> Nat]
      BY SMTT(30), <2>1
    <2>5. \A i \in 0..(k - 1) : f[i] = IF i = 0 THEN 0 ELSE f[i - 1] + es[i].digest.size
      BY Zenon, <2>2 DEF Sums
    <2>6. ASSUME NEW i \in 0..k
          PROVE  g[i] = IF i = 0 THEN 0 ELSE g[i - 1] + es[i].digest.size
      <3>1. CASE i = k
        BY SMTT(30), <1>3, <2>1, <2>3, <3>1
      <3>2. CASE i # k
        <4>1. i \in 0..(k - 1) /\ (i # 0 => i - 1 \in 0..(k-1) /\ i - 1 \in 0..k /\ i - 1 # k)
          BY <2>1, <3>2
        <4> QED BY <2>5, <3>2, <4>1
      <3> QED BY SMTT(30), <3>1, <3>2
    <2>7. Sums(es, k, g)
      BY Zenon, <2>4, <2>6 DEF Sums
    <2> QED BY Zenon, <1>1, <2>4, <2>7
  <1> QED BY <1>2, <1>3

\* Total is the last of the partial sums.
LEMMA TotalIs ==
  ASSUME NEW es \in Seq(Entry), NEW f, Sums(es, Len(es), f)
  PROVE  Total(es) = f[Len(es)]
  <1> DEFINE c == CHOOSE g : Sums(es, Len(es), g)
  <1>1. Sums(es, Len(es), c)
    OBVIOUS
  <1>2. Total(es) = c[Len(es)]
    BY DEF Total, Sums
  <1> HIDE DEF c
  <1>3. c[Len(es)] = f[Len(es)]
    BY <1>1, SumsAgree
  <1> QED BY <1>2, <1>3

\* An empty batch carries no bytes.
LEMMA TotalEmpty == Total(<<>>) = 0
  <1> DEFINE f == [i \in 0..0 |-> 0]
  <1>1. Sums(<<>>, 0, f)
    BY DEF Sums
  <1> QED BY <1>1, TotalIs

\* BatchUpdateState::push: a blob adds its size to the batch.
LEMMA TotalAppend ==
  ASSUME NEW es \in Seq(Entry), NEW e \in Entry
  PROVE  Total(Append(es, e)) = Total(es) + e.digest.size
  <1> DEFINE n == Len(es)
  <1> DEFINE s == Append(es, e)
  <1>1. /\ s \in Seq(Entry) /\ Len(s) = n + 1 /\ n \in Nat
        /\ s[n + 1] = e /\ \A i \in 1..n : s[i] = es[i]
    OBVIOUS
  <1> HIDE DEF s
  <1>2. PICK f \in [0..(n + 1) -> Nat] : Sums(s, n + 1, f)
    <2>1. n + 1 \in 0..Len(s)
      BY <1>1
    <2> QED BY Zenon, <1>1, <2>1, SumsExist
  <1>3. PICK g \in [0..n -> Nat] : Sums(es, n, g)
    BY <1>1, SumsExist
  <1>4. Sums(s, n, g)
    <2>1. g = [i \in 0..n |-> IF i = 0 THEN 0 ELSE g[i - 1] + es[i].digest.size]
      BY Zenon, <1>3 DEF Sums
    <2>2. \A i \in 0..n : i # 0 => i \in 1..n /\ s[i] = es[i]
      BY <1>1
    <2> HIDE DEF n
    <2>3. \A i \in 0..n : g[i] = IF i = 0 THEN 0 ELSE g[i - 1] + s[i].digest.size
      BY Zenon, <2>1, <2>2
    <2> QED BY ZenonT(30), <1>3, <2>3 DEF Sums
  <1>5. f[n] = g[n]
    BY SMTT(30), <1>1, <1>2, <1>4, SumsAgree
  <1>6. f[n + 1] = f[n] + e.digest.size
    BY <1>1, <1>2 DEF Sums
  <1>7. Total(s) = f[n + 1] /\ Total(es) = g[n]
    BY <1>1, <1>2, <1>3, TotalIs
  <1> QED BY <1>5, <1>6, <1>7 DEF s

-----------------------------------------------------------------------------
\* The counter of BatchUpdateState is the size of what the batch holds, and at
\* most one blob waits for the next batch.
Exact == bytes = Total(batch) /\ Len(loaded) <= 1

\* Pushing, flushing and starting over keep the counter exact.
LEMMA ExactNext ==
  ASSUME CInv, Exact, [Next]_vars
  PROVE  Exact'
  <1>1. loaded \in Seq(Entry) /\ batch \in Seq(Entry) /\ todo \in Seq(Digest)
    BY DEF CInv, TypeOK
  <1>2. ASSUME UNCHANGED <<loaded, batch, bytes>> PROVE Exact'
    BY <1>2 DEF Exact
  <1>3. ASSUME loaded' = <<>>, batch' = <<>>, bytes' = 0 PROVE Exact'
    BY SMTT(30), <1>3, TotalEmpty DEF Exact
  <1>4. ASSUME LoadSmall PROVE Exact'
    <2>1. PICK data : data \in Seq(Chunk) /\
            \/ UNCHANGED <<loaded, batch, bytes>>
            \/ LET entry == [digest |-> Head(todo), data |-> data] IN
               \/ loaded' = <<entry>> /\ UNCHANGED <<batch, bytes>>
               \/ /\ batch' = Append(batch, entry) /\ UNCHANGED loaded
                  /\ bytes' = bytes + Head(todo).size
      <3>1. todo # <<>> /\ Head(todo) \in Digest
        BY <1>1, <1>4 DEF LoadSmall
      <3>2. \A data \in IF Head(todo) \in PathBacked
                         THEN UNION {[1..n -> Chunk] : n \in 0..MaxChunks}
                         ELSE {Bytes(Head(todo))} : data \in Seq(Chunk)
        BY <3>1, Contents, BytesInSeq, ZenonT(30)
      <3> QED BY <1>4, <3>2, ZenonT(30) DEF LoadSmall
    <2> DEFINE entry == [digest |-> Head(todo), data |-> data]
    <2>2. todo # <<>> /\ entry \in Entry /\ entry.digest.size = Head(todo).size
      BY <1>1, <1>4, <2>1 DEF LoadSmall, Entry
    <2> HIDE DEF entry
    <2>3. CASE loaded' = <<entry>> /\ UNCHANGED <<batch, bytes>>
      BY <2>3 DEF Exact
    <2>4. CASE /\ batch' = Append(batch, entry) /\ UNCHANGED loaded
               /\ bytes' = bytes + Head(todo).size
      BY <1>1, <2>2, <2>4, TotalAppend DEF Exact
    <2> QED BY <1>2, <2>1, <2>3, <2>4 DEF entry
  <1>5. ASSUME Flushed PROVE Exact'
    <2>1. batch' = loaded /\ loaded' = <<>>
      BY <1>5 DEF Flushed
    <2>2. CASE loaded = <<>>
      BY <1>3, <1>5, <2>1, <2>2 DEF Flushed
    <2>3. CASE loaded # <<>>
      <3>1. Len(loaded) = 1 /\ Head(loaded) \in Entry
        <4>1. Len(loaded) \in Nat /\ Len(loaded) # 0 /\ Len(loaded) <= 1
          BY <1>1, <2>3 DEF Exact
        <4>2. Len(loaded) = 1
          <5>1. \A k \in Nat : k # 0 /\ k <= 1 => k = 1
            OBVIOUS
          <5> QED BY <4>1, <5>1, Zenon
        <4>3. Head(loaded) \in Entry
          BY <1>1, <2>3
        <4> QED BY <4>2, <4>3
      <3>2. loaded = Append(<<>>, Head(loaded)) /\ <<>> \in Seq(Entry)
        BY <1>1, <3>1
      <3>3. Head(loaded).digest.size \in Nat
        BY <3>1 DEF Entry
      <3>4. Total(loaded) = Total(<<>>) + Head(loaded).digest.size
        BY <3>1, <3>2, TotalAppend, ZenonT(30)
      <3>5. bytes' = Head(loaded).digest.size
        BY <1>5, <2>3 DEF Flushed
      <3> QED BY <2>1, <3>3, <3>4, <3>5, TotalEmpty DEF Exact
    <2> QED BY <2>2, <2>3
  <1>6. UpdateBatch => Flushed \/ UNCHANGED <<loaded, batch, bytes>>
    BY ZenonT(30) DEF UpdateBatch
  <1>7. UploadBlobs \/ StreamBlob => loaded' = <<>> /\ batch' = <<>> /\ bytes' = 0
    BY DEF UploadBlobs, StreamBlob
  <1>8. \/ UploadEnds \/ Oversized \/ LoadFails \/ OpenWrite \/ Transfer \/ FinishWrite
        \/ WriteEndsEarly \/ WriteTimesOut \/ ProducerFails \/ Tick \/ BatchRead
        \/ OpenRead \/ ReadChunk \/ ReadBreaks \/ DestinationFails \/ ReadEnds
        \/ OtherClient \/ UNCHANGED vars
        => UNCHANGED <<loaded, batch, bytes>>
    BY ZenonT(30)
       DEF UploadEnds, Oversized, LoadFails, OpenWrite, Transfer, FinishWrite,
           WriteEndsEarly, WriteTimesOut, ProducerFails, Tick, BatchRead, OpenRead,
           ReadChunk, ReadBreaks, DestinationFails, ReadEnds, OtherClient, vars, queue
  <1> QED BY <1>2, <1>3, <1>4, <1>5, <1>6, <1>7, <1>8, ZenonT(30) DEF Next, Step

\* No BatchUpdateBlobs request is empty or larger than the budget, however the
\* blobs of the upload are ordered.
THEOREM BatchesFit == Spec => []BatchFits
  <1>1. Init => Exact
    BY TotalEmpty DEF Init, Exact
  <1>2. CInv /\ Exact /\ [Next]_vars => Exact'
    BY ExactNext
  <1>3. CInv /\ Exact => BatchFits
    BY DEF CInv, SafeInv, WithinBudget, Exact, BatchFits
  <1> QED BY <1>1, <1>2, <1>3, CasInvariant, PTL DEF Spec

=============================================================================
