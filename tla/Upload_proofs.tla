---------------------------- MODULE Upload_proofs ----------------------------
(***************************************************************************)
(* rfs upload, for every directory tree, every content of it, any options  *)
(* and any number of changes by others while it runs: what is printed is   *)
(* complete in the store and is the directory.  UInv of Upload_lemmas is   *)
(* inductive; the properties of Upload follow from it.                     *)
(***************************************************************************)
EXTENDS Upload_lemmas

\* A step that leaves the directories and the files' digests alone.
LEMMA DirsFrame ==
  ASSUME DirsInv, UNCHANGED <<dirs, scanned, encoded, job>>, Listed' => Listed,
         pc' \in {"idle", "scan", "hash"} => pc \in {"idle", "scan", "hash"},
         pc' \in {"find", "upload"} \/ result' # NoDigest =>
            \/ pc \in {"find", "upload"} \/ result # NoDigest
            \/ dirs = <<>>
  PROVE  DirsInv'
  <1>1. \A c : Entry(c)' = Entry(c)
    BY DEF Entry
  <1> QED BY ZenonT(30), <1>1 DEF DirsInv

\* encode_directories: the subdirectories of the next directory are deeper, so
\* they come before it and have their digests.
LEMMA EncodeStep ==
  ASSUME UInv, Encode, NEW h, h = Head(dirs)
  PROVE  /\ h \in DOMAIN scanned \ DOMAIN encoded /\ scanned[h].kind = "dir"
         /\ \A c \in Children(h) \cap DOMAIN scanned :
               scanned[c].kind = "dir" => c \in DOMAIN encoded
         /\ encoded' = Put(encoded, h, DirDigest({Entry(c) : c \in Children(h) \cap DOMAIN scanned}))
         /\ dirs' = Tail(dirs)
         /\ UNCHANGED <<pc, result, cause, scanned, job, files, remote, missing>>
  <1>1. Typed /\ ScanInv /\ DirsInv
    BY DEF UInv
  <1>2. pc = "encode" /\ Len(dirs) > 0 /\ Listed
    BY ZenonT(30) DEF Encode, Listed
  <1> DEFINE D == {p \in DOMAIN scanned : scanned[p].kind = "dir"} \ DOMAIN encoded
  <1>3. /\ Lists(dirs, D)
        /\ \A i, j \in DOMAIN dirs : i < j => Depth(dirs[i]) >= Depth(dirs[j])
    BY ZenonT(30), <1>1, <1>2 DEF DirsInv
  <1>4. D \subseteq Path
    BY <1>1 DEF Typed
  <1>5. dirs \in Seq(D) /\ Range(dirs) = D
    BY <1>3 DEF Lists
  <1>6. h \in D /\ 1 \in DOMAIN dirs /\ h = dirs[1]
    <2> HIDE DEF D
    <2> QED BY <1>2, <1>5
  <1>7. ASSUME NEW c \in Children(h) \cap DOMAIN scanned, scanned[c].kind = "dir",
               c \notin DOMAIN encoded
        PROVE  FALSE
    <2>1. c \in D
      BY <1>7
    <2>2. c \in Path /\ c # RootPath /\ Parent[c] = h
      BY <1>7 DEF Children
    <2>3. PICK j \in DOMAIN dirs : c = dirs[j]
      BY <1>5, <2>1 DEF Range
    <2>4. Depth(c) \in Nat /\ Depth(h) \in Nat /\ Depth(c) = Depth(h) + 1
      BY <2>2, DepthOfEntry
    <2>5. j # 1
      BY <1>6, <2>3, <2>4
    <2>6. 1 < j
      <3>1. j \in 1..Len(dirs)
        <4> HIDE DEF D
        <4> QED BY <1>5, <2>3
      <3> QED BY <2>5, <3>1
    <2>7. Depth(h) >= Depth(c)
      BY ZenonT(30), <1>3, <1>6, <2>3, <2>6
    <2> QED BY <2>4, <2>7
  <1>8. /\ encoded' = Put(encoded, h, DirDigest({Entry(c) : c \in Children(h) \cap DOMAIN scanned}))
        /\ dirs' = Tail(dirs)
        /\ UNCHANGED <<pc, result, cause>>
    BY ZenonT(30), <1>7 DEF Encode
  <1>9. UNCHANGED <<scanned, job, files, remote, missing>>
    BY DEF Encode
  <1> QED BY <1>6, <1>7, <1>8, <1>9

\* The next directory gets the digest of its entries, and the others keep theirs.
LEMMA EncodeKeeps ==
  ASSUME UInv, Encode
  PROVE  DirsInv'
  <1>1. Typed /\ ScanInv /\ DirsInv
    BY DEF UInv
  <1>2. pc = "encode" /\ Len(dirs) > 0 /\ Listed
    BY ZenonT(30) DEF Encode, Listed
  <1>3. PICK h : h = Head(dirs)
    OBVIOUS
  <1> DEFINE kids(p) == Children(p) \cap DOMAIN scanned
  <1> DEFINE dig == DirDigest({Entry(c) : c \in kids(h)})
  <1>4. /\ h \in DOMAIN scanned \ DOMAIN encoded /\ scanned[h].kind = "dir"
        /\ \A c \in kids(h) : scanned[c].kind = "dir" => c \in DOMAIN encoded
        /\ encoded' = Put(encoded, h, dig)
        /\ dirs' = Tail(dirs)
        /\ UNCHANGED <<pc, result, scanned, job>>
    BY ZenonT(30), <1>3, EncodeStep
  <1>5. /\ DOMAIN encoded' = DOMAIN encoded \cup {h} /\ encoded'[h] = dig
        /\ \A p \in DOMAIN encoded : encoded'[p] = encoded[p]
    <2> HIDE DEF dig
    <2> QED BY <1>4 DEF Put
  <1> DEFINE D == {p \in DOMAIN scanned : scanned[p].kind = "dir"} \ DOMAIN encoded
  <1>6. Lists(dirs, D) /\ dirs # <<>>
    <2>1. Lists(dirs, D)
      BY Zenon, <1>1, <1>2 DEF DirsInv
    <2>2. dirs # <<>>
      BY <1>2
    <2> QED BY Zenon, <2>1, <2>2
  <1>7. Lists(dirs', D \ {h})
    <2> HIDE DEF D
    <2>1. dirs \in Seq(D) /\ Distinct(dirs) /\ Range(dirs) = D
      BY <1>6 DEF Lists
    <2>2. Tail(dirs) \in Seq(D) /\ Distinct(Tail(dirs)) /\ Range(Tail(dirs)) = D \ {h}
      BY SMTT(30), <1>3, <1>6, <2>1, TailIs
    <2>3. \A t \in Seq(D) : t \in Seq(Range(t))
      BY DEF Range
    <2>4. Tail(dirs) \in Seq(D \ {h})
      BY ZenonT(30), <2>2, <2>3
    <2> QED BY ZenonT(30), <1>4, <2>2, <2>4 DEF Lists
  <1>8. \A i, j \in DOMAIN dirs' : i < j => Depth(dirs'[i]) >= Depth(dirs'[j])
    <2> HIDE DEF D
    <2>1. dirs \in Seq(D)
      BY <1>6 DEF Lists
    <2>2. \A i \in DOMAIN Tail(dirs) : i \in Nat /\ i + 1 \in DOMAIN dirs /\ Tail(dirs)[i] = dirs[i + 1]
      BY <1>6, <2>1
    <2>3. \A i, j \in DOMAIN dirs : i < j => Depth(dirs[i]) >= Depth(dirs[j])
      BY ZenonT(30), <1>1, <1>2 DEF DirsInv
    <2>4. \A i, j \in Nat : i < j => i + 1 < j + 1
      OBVIOUS
    <2>5. \A i, j \in DOMAIN Tail(dirs) : i < j => Depth(dirs[i + 1]) >= Depth(dirs[j + 1])
      BY SMTT(30), <2>2, <2>3, <2>4
    <2> QED BY ZenonT(30), <1>4, <2>2, <2>5
  <1>9. \A p \in DOMAIN encoded' : p \in DOMAIN scanned /\ scanned[p].kind = "dir"
    BY ZenonT(30), <1>1, <1>2, <1>4, <1>5 DEF DirsInv
  <1>10. \A p \in DOMAIN encoded' : \A c \in kids(p) :
           scanned[c].kind = "dir" => c \in DOMAIN encoded
    BY ZenonT(30), <1>1, <1>2, <1>4, <1>5 DEF DirsInv
  <1>11. ASSUME NEW p \in DOMAIN encoded', NEW c \in kids(p) PROVE Entry(c)' = Entry(c)
    <2>1. scanned[c].kind = "dir" => encoded'[c] = encoded[c]
      BY ZenonT(30), <1>5, <1>10, <1>11
    <2> QED BY <1>4, <2>1 DEF Entry
  <1>12. \A p \in DOMAIN encoded' : encoded'[p] = DirDigest({Entry(c)' : c \in kids(p)})
    <2> SUFFICES ASSUME NEW p \in DOMAIN encoded'
                 PROVE  encoded'[p] = DirDigest({Entry(c)' : c \in kids(p)})
      OBVIOUS
    <2>1. {Entry(c)' : c \in kids(p)} = {Entry(c) : c \in kids(p)}
      BY <1>11
    <2>2. encoded'[p] = DirDigest({Entry(c) : c \in kids(p)})
      BY ZenonT(30), <1>1, <1>2, <1>5 DEF DirsInv
    <2> QED BY ZenonT(30), <2>1, <2>2
  <1>13. D \ {h} = {p \in DOMAIN scanned : scanned[p].kind = "dir"} \ DOMAIN encoded'
    BY <1>5
  <1>14. \A p \in DOMAIN encoded' : \A c \in kids(p) :
           scanned[c].kind = "dir" => c \in DOMAIN encoded'
    BY <1>5, <1>10
  <1>15. \A p \in DOMAIN encoded' :
           encoded'[p] = DirDigest({Entry(c)' : c \in Children(p) \cap DOMAIN scanned'})
    BY ZenonT(30), <1>4, <1>12
  <1>16. pc' = "encode" /\ result' = NoDigest
    BY ZenonT(30), <1>2, <1>4 DEF UInv, StoreInv
  <1> HIDE DEF D
  <1> QED BY ZenonT(30), <1>4, <1>7, <1>8, <1>9, <1>13, <1>14, <1>15, <1>16 DEF DirsInv

\* The directories' digests are those of their entries.
LEMMA DirsNext ==
  ASSUME UInv, [Next]_vars
  PROVE  DirsInv'
  <1>1. Typed /\ ScanInv /\ JobInv /\ DirsInv /\ StoreInv
    BY DEF UInv
  <1>2. CASE Change
    <2>1. UNCHANGED <<dirs, scanned, encoded, job, pc, result>>
      BY SMTT(30), <1>1, <1>2, ChangeIs
    <2> QED BY SMTT(30), <1>1, <2>1, DirsFrame DEF Listed
  <1>3. CASE Start
    <2>1. /\ UNCHANGED <<dirs, scanned, encoded, job, result>>
          /\ pc = "idle" /\ pc' \in {"done", "scan"}
      BY <1>3 DEF Start, Fail
    <2> QED BY <1>1, <2>1, DirsFrame DEF Listed
  <1>4. CASE Scan
    <2>1. PICK h : h = Head(todo)
      OBVIOUS
    <2>2. /\ pc = "scan" /\ UNCHANGED <<encoded, result>>
          /\ Stops(h) \/ Skips(h) \/ Finds(h)
      BY SMTT(30), <1>1, <1>4, <2>1, ScanStep
    <2>3. pc' \in {"scan", "done"}
      BY ZenonT(30), <2>2 DEF Stops, Skips, Finds
    <2>4. result' = NoDigest /\ DOMAIN encoded' = {}
      BY ZenonT(30), <1>1, <2>2 DEF StoreInv, DirsInv
    <2> QED BY ZenonT(30), <2>3, <2>4 DEF DirsInv, Listed
  <1>5. CASE ScanEnds
    <2> DEFINE D == {p \in DOMAIN scanned : scanned[p].kind = "dir"}
    <2>1. /\ pc = "scan" /\ pc' = "hash" /\ dirs' = DeepestFirst(D)
          /\ UNCHANGED <<scanned, encoded, result>>
      BY <1>5 DEF ScanEnds
    <2>2. result' = NoDigest /\ DOMAIN encoded' = {}
      BY ZenonT(30), <1>1, <2>1 DEF StoreInv, DirsInv
    <2>3. D \in SUBSET Path
      BY <1>1 DEF Typed
    <2>4. /\ Lists(dirs', D)
          /\ \A i, j \in DOMAIN dirs' : i < j => Depth(dirs'[i]) >= Depth(dirs'[j])
      <3> HIDE DEF D
      <3> QED BY <2>1, <2>3, DeepestListed
    <2>5. D = {p \in DOMAIN scanned' : scanned'[p].kind = "dir"} \ DOMAIN encoded'
      BY <2>1, <2>2
    <2> HIDE DEF D
    <2> QED BY ZenonT(30), <2>1, <2>2, <2>4, <2>5 DEF DirsInv
  <1>6. ASSUME UNCHANGED <<dirs, scanned, encoded, pc, result>>, ~Settled
        PROVE  DirsInv'
    <2>1. CASE pc = "hash"
      <3>1. DOMAIN encoded = {}
        BY ZenonT(30), <1>1, <2>1 DEF DirsInv
      <3> QED BY ZenonT(30), <1>1, <1>6, <2>1, <3>1 DEF DirsInv, Listed
    <2>2. CASE pc # "hash"
      BY ZenonT(30), <1>1, <1>6, <2>2 DEF DirsInv, Listed, Settled
    <2> QED BY <2>1, <2>2
  <1>7. CASE Spawn
    <2>1. UNCHANGED <<dirs, scanned, encoded, pc, result>> /\ pc = "hash"
      BY <1>7 DEF Spawn, plan
    <2>2. ~Settled
      BY <1>1, <2>1 DEF Settled, StoreInv
    <2> QED BY <1>6, <2>1, <2>2
  <1>8. CASE \E p \in Path : Hash(p) \/ HashFails(p)
    <2>1. UNCHANGED <<dirs, scanned, encoded, pc, result>>
      BY ZenonT(30), <1>8 DEF Hash, HashFails, plan
    <2>2. ~Settled
      BY <1>8, HashKeeps
    <2> QED BY <1>6, <2>1, <2>2
  <1>9. CASE Encode
    BY <1>9, EncodeKeeps
  <1>10. CASE Await \/ EncodeEnds \/ FindMissing \/ UploadEnds
    <2>1. /\ UNCHANGED <<dirs, scanned, encoded, job>>
          /\ pc \in {"hash", "encode", "find", "upload"}
          /\ pc' \in {"encode", "find", "upload", "done"}
      BY <1>10 DEF Await, EncodeEnds, FindMissing, UploadEnds, Fail, plan
    <2>2. \/ Await /\ result' = result /\ pc' \in {"encode", "done"}
          \/ EncodeEnds /\ dirs = <<>>
          \/ pc \in {"find", "upload"}
      BY ZenonT(30), <1>10 DEF Await, EncodeEnds, FindMissing, UploadEnds, Fail
    <2> QED BY SMTT(30), <1>1, <2>1, <2>2, DirsFrame DEF Listed
  <1>11. CASE LocalFails \/ UploadBlob \/ UploadFails \/ OtherClient \/ Finished \/ UNCHANGED vars
    <2>1. /\ UNCHANGED <<dirs, scanned, encoded, job, result>>
          /\ pc' = pc \/ pc' = "done"
      BY <1>11, ZenonT(30) DEF LocalFails, UploadBlob, UploadFails, OtherClient, Finished,
                               vars, Fail, plan
    <2> QED BY <1>1, <2>1, DirsFrame DEF Listed
  <1> QED BY SMTT(30), <1>2, <1>3, <1>4, <1>5, <1>7, <1>8, <1>9, <1>10, <1>11, NextIs DEF Rest

\* What is wanted stays in the store or missing until the upload ends.
LEMMA StoreNext ==
  ASSUME UInv, [Next]_vars
  PROVE  StoreInv'
  <1> DEFINE early == {"idle", "scan", "hash", "encode", "find"}
  <1>1. Typed /\ ScanInv /\ JobInv /\ StoreInv
    BY DEF UInv
  <1>2. pc \in early => missing = {} /\ result = NoDigest
    BY <1>1 DEF StoreInv
  <1>3. ASSUME missing' = {}, result' = NoDigest, pc' # "upload"
        PROVE  StoreInv'
    BY <1>3 DEF StoreInv
  <1>4. CASE Scan \/ Spawn \/ Encode \/ Start \/ ScanEnds \/ Await \/ EncodeEnds \/ LocalFails
    <2>1. /\ UNCHANGED <<missing, result>> /\ pc \in early
          /\ pc' \in early \cup {"done"}
      <3>1. CASE Scan
        BY ZenonT(30), <3>1 DEF Scan, Fail
      <3>2. CASE Encode
        BY ZenonT(30), <3>2 DEF Encode, Fail
      <3>3. CASE Spawn \/ Start \/ ScanEnds \/ Await \/ EncodeEnds \/ LocalFails
        BY ZenonT(30), <3>3 DEF Spawn, Start, ScanEnds, Await, EncodeEnds, LocalFails, Fail
      <3> QED BY SMTT(30), <1>4, <3>1, <3>2, <3>3
    <2>2. pc' # "upload"
      BY <2>1
    <2> QED BY <1>2, <1>3, <2>1, <2>2
  <1>5. CASE \E p \in Path : Hash(p) \/ HashFails(p)
    <2>1. UNCHANGED <<missing, result, pc>>
      BY ZenonT(30), <1>5 DEF Hash, HashFails
    <2>2. ~Settled
      BY <1>5, HashKeeps
    <2> QED BY <1>3, <2>1, <2>2 DEF Settled
  <1>6. CASE Change \/ Finished \/ UNCHANGED vars
    <2>1. UNCHANGED <<files, job, encoded, remote, missing, result, pc>>
      BY ZenonT(30), <1>1, <1>6, ChangeIs DEF Finished, vars, plan
    <2>2. Wanted' = Wanted
      BY <2>1 DEF Wanted
    <2> QED BY SMTT(30), <1>1, <2>1, <2>2 DEF StoreInv
  <1>7. CASE FindMissing \/ UploadBlob \/ UploadFails \/ UploadEnds \/ OtherClient
    <2>1. UNCHANGED <<files, job, encoded>> /\ pc \in {"find", "upload"}
      BY ZenonT(30), <1>7 DEF FindMissing, UploadBlob, UploadFails, UploadEnds, OtherClient, plan
    <2>2. Wanted' = Wanted /\ result = NoDigest
      BY ZenonT(30), <1>1, <2>1 DEF Wanted, StoreInv
    <2>3. CASE FindMissing
      <3>1. /\ pc = "find" /\ remote' = remote
            /\ \/ pc' = "done" /\ UNCHANGED <<missing, result>>
               \/ pc' = "upload" /\ missing' = Wanted \ remote /\ result' = result
        BY <2>3 DEF FindMissing, Fail, ToUpload
      <3> QED BY <1>2, <2>2, <3>1 DEF StoreInv
    <2>4. CASE UploadBlob
      <3>1. PICK d \in missing : remote' = remote \cup {d} /\ missing' = missing \ {d}
        BY ZenonT(30), <2>4 DEF UploadBlob
      <3>2. pc = "upload" /\ UNCHANGED <<pc, result>>
        BY <2>4 DEF UploadBlob
      <3> QED BY <1>1, <2>2, <3>1, <3>2 DEF StoreInv
    <2>5. CASE UploadFails
      <3>1. pc' = "done" /\ UNCHANGED <<missing, result>>
        BY <2>5 DEF UploadFails, Fail
      <3> QED BY <1>1, <2>2, <3>1 DEF StoreInv
    <2>6. CASE UploadEnds
      <3>1. /\ pc = "upload" /\ pc' = "done" /\ missing = {} /\ UNCHANGED <<missing, remote>>
            /\ result' = encoded'[RootPath]
        BY <2>6 DEF UploadEnds
      <3> QED BY <1>1, <2>2, <3>1 DEF StoreInv
    <2>7. CASE OtherClient
      <3>1. remote \subseteq remote' /\ UNCHANGED <<missing, result, pc>>
        BY <2>7 DEF OtherClient
      <3> QED BY <1>1, <2>2, <3>1 DEF StoreInv
    <2> QED BY <1>7, <2>3, <2>4, <2>5, <2>6, <2>7
  <1> QED BY SMTT(30), <1>4, <1>5, <1>6, <1>7, NextIs DEF Rest

\* No upload fails for a directory without a digest.
LEMMA CauseNext ==
  ASSUME UInv, [Next]_vars
  PROVE  CauseInv'
  <1>1. Typed /\ CauseInv
    BY DEF UInv
  <1>2. CASE Encode
    <2>1. PICK h : h = Head(dirs)
      OBVIOUS
    <2> QED BY ZenonT(30), <1>1, <1>2, <2>1, EncodeStep DEF CauseInv
  <1>3. CASE Scan
    BY ZenonT(30), <1>1, <1>3 DEF Scan, Fail, CauseInv
  <1>4. CASE Start \/ LocalFails \/ Await
    BY ZenonT(30), <1>1, <1>4 DEF Start, LocalFails, Await, Fail, CauseInv
  <1>5. CASE FindMissing \/ UploadFails
    BY <1>1, <1>5 DEF FindMissing, UploadFails, Fail, CauseInv
  <1>6. CASE \/ Change \/ ScanEnds \/ Spawn \/ EncodeEnds \/ UploadBlob \/ UploadEnds
             \/ OtherClient \/ Finished \/ UNCHANGED vars
             \/ \E p \in Path : Hash(p) \/ HashFails(p)
    <2>1. cause' = cause
      BY <1>6, ZenonT(30) DEF Change, ScanEnds, Spawn, EncodeEnds, UploadBlob, UploadEnds,
                              OtherClient, Finished, vars, Hash, HashFails
    <2> QED BY <1>1, <2>1 DEF CauseInv
  <1> QED BY SMTT(30), <1>2, <1>3, <1>4, <1>5, <1>6, NextIs DEF Rest

\* Every state of an upload satisfies the inductive invariant.
THEOREM UploadInvariant == Spec => []UInv
  <1>1. UInv /\ [Next]_vars => UInv'
    BY SMTT(30), TypedNext, ScanNext, CoverNext, JobNext, DirsNext, StoreNext, CauseNext DEF UInv
  <1> QED BY <1>1, InitUInv, PTL DEF Spec

-----------------------------------------------------------------------------
\* The types of the upload's state, one task at most for a file and no more of
\* them than permits, and that encode_directories never lacks a digest, for
\* every tree, every set of contents and all options.
THEOREM UploadTypes == Spec => []TypeOK
  <1>1. UInv => TypeOK
    <2> SUFFICES ASSUME UInv PROVE TypeOK
      OBVIOUS
    <2>1. Typed /\ JobInv /\ StoreInv /\ CauseInv
      BY DEF UInv
    <2>2. \A p \in DOMAIN job : job[p].st \in {"run", "ok", "bad"}
      BY <2>1 DEF Typed, Job
    <2> QED BY ZenonT(30), <2>1, <2>2 DEF TypeOK, Typed, JobInv, StoreInv, CauseInv, Active
  <1> QED BY <1>1, UploadInvariant, PTL

\* hash_chunk_bytes and the semaphore: the buffers of the running tasks fit in
\* in_flight_bytes, for all options and all chunk sizes.
THEOREM ReadBuffersFit == Spec => []BuffersFit
  <1>1. UInv => BuffersFit
    <2> SUFFICES ASSUME UInv, ValidOptions(opt)
                 PROVE  Cardinality(Running) * ChunkBytes <= opt.inFlight
      BY DEF BuffersFit
    <2>1. opt \in Options /\ opt.workers > 0 /\ opt.inFlight >= opt.workers
      BY DEF UInv, Typed, ValidOptions
    <2>2. PICK w \in Nat : w = opt.workers
      BY <2>1, OptionAssumption
    <2>3. PICK f \in Nat : f = opt.inFlight
      BY <2>1, OptionAssumption
    <2>4. PICK c \in Nat : c = ChunkBytes
      BY <2>1, ChunkIs
    <2>5. PICK r \in Nat : r = Cardinality(Running)
      BY RunningFinite DEF UInv
    <2>6. w * c <= f
      BY SMTT(30), <2>1, <2>2, <2>3, <2>4, ChunkIs
    <2>7. r <= w
      BY <2>2, <2>5 DEF UInv, JobInv
    <2>8. r * c <= w * c
      BY <2>7
    <2>9. r * c <= f
      <3>1. r * c \in Nat /\ w * c \in Nat
        OBVIOUS
      <3> QED BY <2>6, <2>8, <3>1
    <2> QED BY <2>3, <2>4, <2>5, <2>9
  <1> QED BY <1>1, UploadInvariant, PTL

-----------------------------------------------------------------------------
\* When there is a result, every directory that was found has a digest, the root
\* among them, and every file has been read.
LEMMA ResultMeans ==
  ASSUME UInv, result # NoDigest
  PROVE  /\ DOMAIN encoded = {p \in DOMAIN scanned : scanned[p].kind = "dir"}
         /\ \A p \in DOMAIN encoded :
               /\ encoded[p].t = "dir"
               /\ encoded[p].nodes = {Entry(c) : c \in Children(p) \cap DOMAIN scanned}
         /\ RootPath \in DOMAIN encoded /\ result = encoded[RootPath]
         /\ Range(files) = {p \in DOMAIN scanned : scanned[p].kind = "file"}
         /\ todo = <<>> /\ Wanted \subseteq remote
  <1>1. Typed /\ ScanInv /\ CoverInv /\ DirsInv /\ StoreInv
    BY DEF UInv
  <1> DEFINE D == {p \in DOMAIN scanned : scanned[p].kind = "dir"}
  <1>2. /\ Lists(dirs, D \ DOMAIN encoded) /\ dirs = <<>> /\ DOMAIN encoded \subseteq D
        /\ \A p \in DOMAIN encoded :
              encoded[p] = DirDigest({Entry(c) : c \in Children(p) \cap DOMAIN scanned})
    BY <1>1 DEF DirsInv, Listed
  <1>3. DOMAIN encoded = D
    <2>1. Range(<<>>) = {}
      BY DEF Range
    <2>2. Range(dirs) = D \ DOMAIN encoded
      BY <1>2 DEF Lists
    <2> HIDE DEF D
    <2> QED BY ZenonT(30), <1>2, <2>1, <2>2
  <1>4. todo = <<>> /\ fs[RootPath].kind = "dir"
    BY ZenonT(30), <1>1 DEF CoverInv
  <1>5. RootPath \in D
    <2>1. RootPath \in Path /\ Above[RootPath] = {RootPath}
      BY PathAssumption, AboveUnfolds
    <2>2. RootPath \notin Range(touched)
      BY <1>1 DEF Typed, Range
    <2>3. Untouched(RootPath) /\ Exists(RootPath) /\ fs[RootPath].kind \in Kinds
      BY SMTT(30), <1>4, <2>1, <2>2 DEF Untouched, Exists, Kinds
    <2>4. Range(todo) = {}
      BY <1>4 DEF Range
    <2>5. RootPath \in DOMAIN scanned
      BY SMTT(30), <1>1, <2>1, <2>3, <2>4 DEF CoverInv
    <2> QED BY SMTT(30), <1>1, <1>4, <2>2, <2>5 DEF ScanInv
  <1>6. result = encoded[RootPath] /\ Wanted \subseteq remote
    BY SMTT(30), <1>1 DEF StoreInv
  <1>7. Range(files) = {p \in DOMAIN scanned : scanned[p].kind = "file"}
    BY <1>1 DEF ScanInv, Lists
  <1>8. ASSUME NEW p \in DOMAIN encoded
        PROVE  /\ encoded[p].t = "dir"
               /\ encoded[p].nodes = {Entry(c) : c \in Children(p) \cap DOMAIN scanned}
    <2>1. PICK N : N = {Entry(c) : c \in Children(p) \cap DOMAIN scanned}
      BY ZenonT(30)
    <2>2. encoded[p] = DirDigest(N)
      BY SMTT(30), <1>2, <2>1
    <2>3. encoded[p].t = "dir" /\ encoded[p].nodes = N
      BY <2>2 DEF DirDigest
    <2> QED BY <2>1, <2>3
  <1> QED BY ZenonT(30), <1>3, <1>4, <1>5, <1>6, <1>7, <1>8

\* Nothing is reachable but what was wanted and the links; so the directories
\* are those that were encoded.
LEMMA ReachIsWanted ==
  ASSUME UInv, result # NoDigest, NEW x \in Reach(result)
  PROVE  /\ x.t # "symlink" => x \in Wanted
         /\ x.t = "dir" => \E p \in DOMAIN encoded : x = encoded[p]
  <1> DEFINE links == {Entry(c).content : c \in {p \in DOMAIN scanned : scanned[p].kind = "symlink"}}
  <1> DEFINE X == Wanted \cup links
  <1>0. Typed
    BY DEF UInv
  <1>1. /\ DOMAIN encoded = {p \in DOMAIN scanned : scanned[p].kind = "dir"}
        /\ \A p \in DOMAIN encoded :
              /\ encoded[p].t = "dir"
              /\ encoded[p].nodes = {Entry(c) : c \in Children(p) \cap DOMAIN scanned}
        /\ RootPath \in DOMAIN encoded /\ result = encoded[RootPath]
        /\ Range(files) = {p \in DOMAIN scanned : scanned[p].kind = "file"}
    BY ResultMeans
  <1>2. ASSUME NEW c \in DOMAIN scanned PROVE Entry(c).content \in X
    <2>1. CASE scanned[c].kind = "file"
      <3>1. Entry(c).content = FileDigest(job[c].got) /\ c \in Range(files)
        BY SMTT(30), <1>1, <2>1 DEF Entry
      <3> QED BY ZenonT(30), <3>1 DEF Wanted
    <2>2. CASE scanned[c].kind = "dir"
      <3>1. Entry(c).content = encoded[c] /\ c \in DOMAIN encoded
        BY <1>1, <2>2 DEF Entry
      <3> QED BY <3>1 DEF Wanted
    <2>3. CASE scanned[c].kind = "symlink"
      BY <2>3
    <2> QED BY ZenonT(30), <1>0, <2>1, <2>2, <2>3 DEF Typed, Kinds
  <1>3. \A y \in links : y.t = "symlink"
    BY DEF Entry
  <1>4. \A y \in Wanted : \/ y.t = "file"
                          \/ y.t = "dir" /\ \E p \in DOMAIN encoded : y = encoded[p]
    <2>1. \A g : FileDigest(g).t = "file"
      BY DEF FileDigest
    <2> QED BY ZenonT(30), <1>1, <2>1 DEF Wanted
  <1>5. ASSUME NEW y \in X, y.t = "dir", NEW e \in y.nodes PROVE e.content \in X
    <2>1. PICK p \in DOMAIN encoded : y = encoded[p]
      BY SMTT(30), <1>3, <1>4, <1>5
    <2>2. y.nodes = {Entry(c) : c \in Children(p) \cap DOMAIN scanned}
      BY <1>1, <2>1
    <2> QED BY SMTT(30), <1>2, <1>5, <2>2
  <1>6. Contents(X) \subseteq X
    <2> HIDE DEF X
    <2> QED BY <1>5 DEF Contents
  <1>7. result \in X
    BY ZenonT(30), <1>1 DEF Wanted
  <1>8. x \in X
    <2> HIDE DEF X
    <2> QED BY SMTT(30), <1>6, <1>7, ReachStays
  <1> QED BY <1>3, <1>4, <1>8

\* A digest that rfs upload prints is complete: whatever is reachable from it is
\* in the store, for every tree and whatever had been there before.
THEOREM PrintedRootIsComplete == Spec => []RootIsComplete
  <1>1. UInv => RootIsComplete
    BY SMTT(30), ReachIsWanted, ResultMeans DEF RootIsComplete
  <1> QED BY <1>1, UploadInvariant, PTL

\* Every directory that was found is reachable from the result.
LEMMA ReachHasDirs ==
  ASSUME UInv, result # NoDigest, NEW p \in DOMAIN encoded
  PROVE  encoded[p] \in Reach(result)
  <1>0. Typed /\ ScanInv
    BY DEF UInv
  <1>1. /\ DOMAIN encoded = {q \in DOMAIN scanned : scanned[q].kind = "dir"}
        /\ \A q \in DOMAIN encoded :
              /\ encoded[q].t = "dir"
              /\ encoded[q].nodes = {Entry(c) : c \in Children(q) \cap DOMAIN scanned}
        /\ RootPath \in DOMAIN encoded /\ result = encoded[RootPath]
    BY ResultMeans
  <1>2. PICK n \in Nat : n = Cardinality(Path)
    BY SMTT(30), PathAssumption, FS_CardinalityType
  <1>3. PICK w : /\ Reach(result) = w[n] /\ w[0] = {result}
                 /\ \A i \in 1..n : w[i] = w[i - 1] \cup Contents(w[i - 1])
    <2>1. \E w : /\ Reach(result) = w[Cardinality(Path)] /\ w[0] = {result}
                 /\ \A i \in 1..Cardinality(Path) : w[i] = w[i - 1] \cup Contents(w[i - 1])
      BY ReachIs, Zenon
    <2> QED BY <1>2, <2>1
  <1>4. DOMAIN encoded \subseteq Path
    BY SMTT(30), <1>0, <1>1 DEF Typed
  <1>5. ASSUME NEW q \in Path PROVE Depth(q) \in 0..n
    <2>1. Above[q] \ {RootPath} \subseteq Path /\ IsFiniteSet(Path)
      BY SMTT(30), AboveIs, PathAssumption
    <2>2. Depth(q) \in Nat /\ Depth(q) <= n
      BY <1>2, <2>1, FS_Subset, FS_CardinalityType DEF Depth
    <2> QED BY <2>2
  <1> DEFINE S == {q \in DOMAIN encoded : encoded[q] \notin w[Depth(q)]}
  <1>6. ASSUME NEW q \in S PROVE q # RootPath /\ Parent[q] \in S
    <2>1. q # RootPath
      <3>1. Above[RootPath] \ {RootPath} = {}
        BY SMTT(30), AboveUnfolds, PathAssumption
      <3>2. Depth(RootPath) = 0
        BY SMTT(30), <3>1, FS_EmptySet DEF Depth
      <3> QED BY SMTT(30), <1>1, <1>3, <1>6, <3>2
    <2>2. q \in Path /\ q \in DOMAIN scanned /\ scanned[q].kind = "dir"
      BY <1>1, <1>4
    <2>3. Parent[q] \in DOMAIN encoded
      BY ZenonT(30), <1>0, <1>1, <2>1, <2>2 DEF ScanInv
    <2>4. PICK k \in Nat : k = Depth(Parent[q])
      BY ZenonT(30), <2>1, <2>2, DepthOfEntry
    <2>5. Depth(q) = k + 1 /\ k + 1 \in 1..n /\ (k + 1) - 1 = k
      <3>1. Depth(q) = k + 1
        BY ZenonT(30), <2>1, <2>2, <2>4, DepthOfEntry
      <3>2. k + 1 \in 0..n
        BY ZenonT(30), <1>5, <2>2, <3>1
      <3> QED BY <3>1, <3>2
    <2>6. ASSUME encoded[Parent[q]] \in w[k] PROVE FALSE
      <3>1. PICK y : y = encoded[Parent[q]]
        OBVIOUS
      <3>2. y.t = "dir" /\ y.nodes = {Entry(c) : c \in Children(Parent[q]) \cap DOMAIN scanned}
        BY SMTT(30), <1>1, <2>3, <3>1
      <3>3. q \in Children(Parent[q])
        BY <2>1, <2>2 DEF Children
      <3>4. Entry(q) \in y.nodes /\ Entry(q).content = encoded[q]
        BY SMTT(30), <2>2, <3>2, <3>3 DEF Entry
      <3>5. encoded[q] \in Contents(w[k])
        BY SMTT(30), <2>6, <3>1, <3>2, <3>4 DEF Contents
      <3>6. w[k + 1] = w[k] \cup Contents(w[k])
        BY SMTT(30), <1>3, <2>5
      <3> QED BY SMTT(30), <1>6, <2>5, <3>5, <3>6
    <2> QED BY Zenon, <2>1, <2>3, <2>4, <2>6
  <1>7. S = {}
    <2>1. S \in SUBSET Path
      BY <1>4
    <2> HIDE DEF S
    <2> QED BY SMTT(30), <1>6, <2>1, TowardsRoot
  <1>8. encoded[p] \in w[Depth(p)] /\ Depth(p) \in 0..n
    BY ZenonT(30), <1>4, <1>5, <1>7
  <1> QED BY SMTT(30), <1>3, <1>8, ReachGrows

\* The snapshot has an entry for each path that the scan found, and no other.
LEMMA SnapshotIs ==
  ASSUME UInv, result # NoDigest
  PROVE  Snapshot = {Entry(c) : c \in DOMAIN scanned \ {RootPath}}
  <1>0. Typed /\ ScanInv
    BY SMTT(30) DEF UInv
  <1>1. /\ DOMAIN encoded = {q \in DOMAIN scanned : scanned[q].kind = "dir"}
        /\ \A q \in DOMAIN encoded :
              /\ encoded[q].t = "dir"
              /\ encoded[q].nodes = {Entry(c) : c \in Children(q) \cap DOMAIN scanned}
    BY SMTT(30), ResultMeans
  <1>2. \A q \in DOMAIN encoded :
           /\ encoded[q].t = "dir" /\ encoded[q] \in Reach(result)
           /\ encoded[q].nodes = {Entry(c) : c \in Children(q) \cap DOMAIN scanned}
    BY SMTT(30), <1>1, ReachHasDirs
  <1>3. \A c \in DOMAIN scanned \ {RootPath} :
           Parent[c] \in DOMAIN encoded /\ c \in Children(Parent[c])
    BY ZenonT(30), <1>0, <1>1 DEF ScanInv, Children, Typed
  <1>4. ASSUME NEW e \in Snapshot PROVE e \in {Entry(c) : c \in DOMAIN scanned \ {RootPath}}
    <2>1. PICK x \in Reach(result) : x.t = "dir" /\ e \in x.nodes
      BY SMTT(30), <1>4 DEF Snapshot
    <2>2. PICK q \in DOMAIN encoded : x = encoded[q]
      BY <2>1, ReachIsWanted
    <2>3. PICK c \in Children(q) \cap DOMAIN scanned : e = Entry(c)
      BY ZenonT(30), <1>2, <2>1, <2>2
    <2> QED BY SMTT(30), <2>3 DEF Children
  <1>5. ASSUME NEW c \in DOMAIN scanned \ {RootPath} PROVE Entry(c) \in Snapshot
    <2>1. PICK x \in Reach(result) : x.t = "dir" /\ Entry(c) \in x.nodes
      BY SMTT(30), <1>2, <1>3, <1>5
    <2> QED BY ZenonT(30), <2>1 DEF Snapshot
  <1> QED BY SMTT(30), <1>4, <1>5

\* A path that was found is in directories that were found.
LEMMA FoundInDirectories ==
  ASSUME Typed, ScanInv, NEW p \in DOMAIN scanned, NEW q \in Above[p] \ {p}
  PROVE  q \in DOMAIN scanned /\ scanned[q].kind = "dir"
  <1> DEFINE Good(x) == x \in DOMAIN scanned /\ scanned[x].kind = "dir"
  <1> DEFINE S == {x \in DOMAIN scanned : \E y \in Above[x] \ {x} : ~Good(y)}
  <1>1. S \in SUBSET Path
    BY SMTT(30) DEF Typed
  <1>2. ASSUME NEW x \in S PROVE x # RootPath /\ Parent[x] \in S
    <2>1. PICK y \in Above[x] \ {x} : ~Good(y)
      OBVIOUS
    <2>2. x \in Path /\ x \in DOMAIN scanned
      BY <1>1
    <2>3. x # RootPath
      BY Zenon, <2>1, <2>2, AboveUnfolds
    <2>4. Good(Parent[x])
      BY SMTT(30), <2>2, <2>3 DEF ScanInv
    <2>5. y \in Above[Parent[x]] /\ y # Parent[x]
      <3>1. Above[x] = {x} \cup Above[Parent[x]]
        BY ZenonT(30), <2>2, <2>3, ParentIsAbove
      <3> QED BY SMTT(30), <2>1, <2>4, <3>1
    <2> QED BY SMTT(30), <2>1, <2>3, <2>4, <2>5
  <1>3. S = {}
    <2> HIDE DEF S
    <2> QED BY Zenon, <1>1, <1>2, TowardsRoot
  <1> QED BY SMTT(30), <1>3

\* The snapshot is exact: a path nobody changed during the upload, below
\* directories nobody changed, is in it if and only if it exists and is of a kind
\* that is kept, with its content, for every tree and every order of changes.
THEOREM SnapshotsAreExact == Spec => []SnapshotIsExact
  <1>1. ASSUME UInv, result # NoDigest, NEW p \in Path \ {RootPath}, Untouched(p)
        PROVE  LET entries == {e \in Snapshot : e.name = p} IN
               IF Exists(p) /\ fs[p].kind \in Kinds
               THEN \E e \in entries :
                       /\ entries = {e}
                       /\ e.content.t = fs[p].kind
                       /\ fs[p].kind # "dir" => e.content.data = fs[p].data
               ELSE entries = {}
    <2> DEFINE entries == {e \in Snapshot : e.name = p}
    <2>1. Typed /\ ScanInv /\ CoverInv /\ JobInv
      BY <1>1 DEF UInv
    <2>2. Snapshot = {Entry(c) : c \in DOMAIN scanned \ {RootPath}}
      BY SMTT(30), <1>1, SnapshotIs
    <2>3. \A c : Entry(c).name = c
      BY DEF Entry
    <2>4. p \in DOMAIN scanned => entries = {Entry(p)}
      BY SMTT(30), <2>2, <2>3
    <2>5. p \notin DOMAIN scanned => entries = {}
      BY SMTT(30), <2>2, <2>3
    <2>6. p \in Above[p] /\ Above[p] \in SUBSET Path
      BY SMTT(30), AboveIs
    <2>7. \A q \in Above[p] \cap DOMAIN scanned : scanned[q] = fs[q]
      BY SMTT(30), <1>1, <2>1 DEF Untouched, ScanInv
    <2>8. p \in DOMAIN scanned => Exists(p) /\ fs[p].kind \in Kinds
      <3> SUFFICES ASSUME p \in DOMAIN scanned PROVE Exists(p) /\ fs[p].kind \in Kinds
        OBVIOUS
      <3>1. fs[p].kind \in Kinds
        BY SMTT(30), <2>1, <2>6, <2>7 DEF Typed
      <3>2. \A q \in Above[p] \ {p} : fs[q].kind = "dir"
        BY SMTT(30), <2>1, <2>7, FoundInDirectories
      <3> QED BY SMTT(30), <3>1, <3>2 DEF Exists, Kinds
    <2>9. Exists(p) /\ fs[p].kind \in Kinds => p \in DOMAIN scanned
      <3>1. Range(todo) = {}
        BY SMTT(30), <1>1, ResultMeans DEF Range
      <3> QED BY ZenonT(30), <1>1, <2>1, <3>1 DEF CoverInv
    <2>10. ASSUME p \in DOMAIN scanned
           PROVE  /\ Entry(p).content.t = fs[p].kind
                  /\ fs[p].kind # "dir" => Entry(p).content.data = fs[p].data
      <3>1. scanned[p] = fs[p] /\ scanned[p].kind \in Kinds
        BY ZenonT(30), <2>1, <2>6, <2>7, <2>10 DEF Typed
      <3>2. CASE scanned[p].kind = "file"
        <4>1. p \in Range(files)
          BY Zenon, <1>1, <2>10, <3>2, ResultMeans
        <4>2. p \in DOMAIN job /\ job[p].st = "ok" /\ p \notin Range(touched)
          BY SMTT(30), <1>1, <2>1, <2>6, <4>1 DEF JobInv, Settled, Untouched
        <4>3. PICK d \in Seq(Byte) : d = scanned[p].data
          BY <2>1, <4>2, JobFiles
        <4>4. Len(job[p].got) = Len(d) /\ job[p].got = SubSeq(d, 1, Len(job[p].got))
          BY ZenonT(30), <2>1, <4>2, <4>3 DEF JobInv, Hashed
        <4>5. SubSeq(d, 1, Len(d)) = d
          OBVIOUS
        <4>6. job[p].got = fs[p].data
          BY SMTT(30), <3>1, <4>3, <4>4, <4>5
        <4> QED BY <3>1, <3>2, <4>6 DEF Entry, FileDigest
      <3>3. CASE scanned[p].kind = "dir"
        <4>1. encoded[p].t = "dir"
          BY SMTT(30), <1>1, <2>10, <3>3, ResultMeans
        <4> QED BY <3>1, <3>3, <4>1 DEF Entry
      <3>4. CASE scanned[p].kind = "symlink"
        BY SMTT(30), <3>1, <3>4 DEF Entry
      <3> QED BY SMTT(30), <3>1, <3>2, <3>3, <3>4 DEF Kinds
    <2> HIDE DEF entries
    <2>11. CASE p \in DOMAIN scanned
      <3>1. Entry(p) \in entries /\ entries = {Entry(p)}
        BY SMTT(30), <2>4, <2>11
      <3>2. \E e \in entries :
               /\ entries = {e}
               /\ e.content.t = fs[p].kind
               /\ fs[p].kind # "dir" => e.content.data = fs[p].data
        BY SMTT(30), <2>10, <2>11, <3>1
      <3> QED BY SMTT(30), <2>8, <2>11, <3>2 DEF entries
    <2>12. CASE p \notin DOMAIN scanned
      BY SMTT(30), <2>5, <2>9, <2>12 DEF entries
    <2> QED BY SMTT(30), <2>11, <2>12
  <1>2. UInv => SnapshotIsExact
    BY <1>1 DEF SnapshotIsExact, Untouched
  <1> QED BY <1>2, UploadInvariant, PTL
=============================================================================
