--------------------------- MODULE CachedBlobStore ---------------------------
(***************************************************************************)
(* The verified read-through blob cache of a RemoteFS home                 *)
(* (crates/rfs-common/src/session/cache.rs).  Threads of one or more       *)
(* daemon processes read blobs by digest.  A miss is streamed from the     *)
(* remote store into a temporary file, verified, synced and admitted under *)
(* the digest's name without overwriting.  Inside one process the misses   *)
(* of one digest are serialised by a DownloadLock kept in a map with a     *)
(* participant count; the cache directory is all that processes share.     *)
(***************************************************************************)
EXTENDS Naturals, Sequences, FiniteSets

CONSTANTS
    Proc,        \* daemon processes, each with its own CachedBlobStore
    Thread,      \* threads calling read_blob
    ProcOf,      \* the process of each thread
    Digest,      \* digests asked for: records with a hash and a size
    Chunk,       \* units a blob is streamed in; a size counts chunks
    Sha256(_),   \* the hash of a sequence of chunks
    Lock,        \* identities of DownloadLock objects
    NoLock,      \* no DownloadLock: an absent map entry, an Arc not held
    NoFile,      \* no file under a final path
    MaxReads,    \* bound: thread -> reads it issues
    MaxCrashes   \* bound: process crashes and power losses

ASSUME ProcAssumption == ProcOf \in [Thread -> Proc]
ASSUME DigestAssumption == \A d \in Digest : d.size \in Nat
ASSUME LockAssumption == NoLock \notin Lock
ASSUME ThreadAssumption == IsFiniteSet(Thread)
ASSUME BoundAssumption == MaxReads \in [Thread -> Nat] /\ MaxCrashes \in Nat

VARIABLES
    cache,         \* digest -> the file under its final path, or NoFile
    locks,         \* <<process, digest>> -> its download_locks entry
    participants,  \* lock -> number of joined readers
    gate,          \* lock -> who holds its mutex: {} or {t}
    poisoned,      \* locks whose holder panicked
    pc, dig,       \* thread -> control point and digest of its call
    lock,          \* thread -> the Arc<DownloadLock> it holds, or NoLock
    pending,       \* thread -> what it wrote to its temporary file
    result,        \* thread -> outcome of ensure_cached, then of the call
    reads, crashes \* counters of the bounds

lockVars == <<locks, participants, gate, poisoned>>
vars == <<cache, lockVars, pc, dig, lock, pending, result, reads, crashes>>

DigestOf(bytes) == [hash |-> Sha256(bytes), size |-> Len(bytes)]

File == [bytes : Seq(Chunk), durable : BOOLEAN, by : Thread]
ASSUME FileAssumption == NoFile \notin File

None == [st |-> "none"]
Hit == [st |-> "hit"]        \* ensure_cached: Ok(false)
Filled == [st |-> "filled"]  \* ensure_cached: Ok(true)
Err == [st |-> "err"]
Ok(bytes, dl) == [st |-> "ok", bytes |-> bytes, downloaded |-> dl]

Init ==
    /\ cache = [d \in Digest |-> NoFile]
    /\ locks = [k \in Proc \X Digest |-> NoLock]
    /\ participants = [l \in Lock |-> 0]
    /\ gate = [l \in Lock |-> {}]
    /\ poisoned = {}
    /\ pc = [t \in Thread |-> "idle"]
    /\ dig \in [Thread -> Digest]
    /\ lock = [t \in Thread |-> NoLock]
    /\ pending = [t \in Thread |-> <<>>]
    /\ result = [t \in Thread |-> None]
    /\ reads = [t \in Thread |-> 0]
    /\ crashes = 0

-----------------------------------------------------------------------------
Key(t) == <<ProcOf[t], dig[t]>>
Cached(d) == cache[d] # NoFile
Live(l) == \/ \E k \in Proc \X Digest : locks[k] = l
           \/ \E t \in Thread : lock[t] = l

Goto(t, label) == pc' = [pc EXCEPT ![t] = label]

\* Leave the fill with outcome r; the temporary file, if any, is consumed.
EndFill(t, r) ==
    /\ result' = [result EXCEPT ![t] = r]
    /\ pending' = [pending EXCEPT ![t] = <<>>]
    /\ Goto(t, "unlock")

\* A thread calls read_blob.
Call(t) ==
    /\ pc[t] = "idle"
    /\ reads[t] < MaxReads[t]
    /\ reads' = [reads EXCEPT ![t] = @ + 1]
    /\ \E d \in Digest : dig' = [dig EXCEPT ![t] = d]
    /\ result' = [result EXCEPT ![t] = None]
    /\ Goto(t, "probe")
    /\ UNCHANGED <<cache, lockVars, lock, pending, crashes>>

\* ensure_cached: the unlocked probe of the final path.
Probe(t) ==
    /\ pc[t] = "probe"
    /\ IF Cached(dig[t])
       THEN Goto(t, "read") /\ result' = [result EXCEPT ![t] = Hit]
       ELSE Goto(t, "join") /\ UNCHANGED result
    /\ UNCHANGED <<cache, lockVars, dig, lock, pending, reads, crashes>>

\* acquire_download_lock, under the map mutex: get or insert, then count in.
JoinExisting(t) ==
    /\ pc[t] = "join"
    /\ locks[Key(t)] # NoLock
    /\ lock' = [lock EXCEPT ![t] = locks[Key(t)]]
    /\ participants' = [participants EXCEPT ![locks[Key(t)]] = @ + 1]
    /\ Goto(t, "gate")
    /\ UNCHANGED <<cache, locks, gate, poisoned, dig, pending, result, reads,
                   crashes>>

JoinNew(t) ==
    /\ pc[t] = "join"
    /\ locks[Key(t)] = NoLock
    /\ \E l \in Lock :
          /\ ~Live(l)
          /\ locks' = [locks EXCEPT ![Key(t)] = l]
          /\ lock' = [lock EXCEPT ![t] = l]
          /\ participants' = [participants EXCEPT ![l] = 1]
          /\ gate' = [gate EXCEPT ![l] = {}]
          /\ poisoned' = poisoned \ {l}
    /\ Goto(t, "gate")
    /\ UNCHANGED <<cache, dig, pending, result, reads, crashes>>

\* lock.gate.lock(): a poisoned mutex is acquired too, as an error.
EnterGate(t) ==
    /\ pc[t] = "gate"
    /\ gate[lock[t]] = {}
    /\ gate' = [gate EXCEPT ![lock[t]] = {t}]
    /\ Goto(t, IF lock[t] \in poisoned THEN "abandon" ELSE "recheck")
    /\ UNCHANGED <<cache, locks, participants, poisoned, dig, lock, pending,
                   result, reads, crashes>>

\* fill_cache_after_lock: the recheck, then start_pending_blob.
Recheck(t) ==
    /\ pc[t] = "recheck"
    /\ IF Cached(dig[t])
       THEN EndFill(t, Hit)
       ELSE Goto(t, "stream") /\ UNCHANGED <<result, pending>>
    /\ UNCHANGED <<cache, lockVars, dig, lock, reads, crashes>>

\* PendingBlob::write refuses what would exceed the expected size.
StreamChunk(t) ==
    /\ pc[t] = "stream"
    /\ \E c \in Chunk :
          IF Len(pending[t]) + 1 > dig[t].size
          THEN EndFill(t, Err)
          ELSE /\ pending' = [pending EXCEPT ![t] = Append(@, c)]
               /\ UNCHANGED <<pc, result>>
    /\ UNCHANGED <<cache, lockVars, dig, lock, reads, crashes>>

\* Mutant of StreamEnd: the stream is admitted without verification.
StreamEndUnverified(t) ==
    /\ pc[t] = "stream"
    /\ Goto(t, "persist")
    /\ UNCHANGED <<cache, lockVars, dig, lock, pending, result, reads, crashes>>

\* stream_blob returns Ok, whatever it wrote.
StreamEnd(t) ==
    /\ pc[t] = "stream"
    /\ Goto(t, "verify")
    /\ UNCHANGED <<cache, lockVars, dig, lock, pending, result, reads, crashes>>

\* stream_blob panics: unwinding drops the guard, which poisons the gate, and
\* the Arc, but never reaches release_download_lock.
StreamPanic(t) ==
    /\ pc[t] = "stream"
    /\ gate' = [gate EXCEPT ![lock[t]] = {}]
    /\ poisoned' = poisoned \cup {lock[t]}
    /\ lock' = [lock EXCEPT ![t] = NoLock]
    /\ pending' = [pending EXCEPT ![t] = <<>>]
    /\ result' = [result EXCEPT ![t] = None]
    /\ Goto(t, "idle")
    /\ UNCHANGED <<cache, locks, participants, dig, reads, crashes>>

\* admit_pending_blob: verify, then flush and sync.
Verify(t) ==
    /\ pc[t] = "verify"
    /\ IF DigestOf(pending[t]) = dig[t]
       THEN Goto(t, "persist") /\ UNCHANGED <<result, pending>>
       ELSE EndFill(t, Err)
    /\ UNCHANGED <<cache, lockVars, dig, lock, reads, crashes>>

\* Mutant of Persist: the file is not synced.
PersistUnsynced(t) ==
    /\ pc[t] = "persist"
    /\ cache' = [cache EXCEPT ![dig[t]] =
                   IF Cached(dig[t]) THEN @
                   ELSE [bytes |-> pending[t], durable |-> FALSE, by |-> t]]
    /\ EndFill(t, Filled)
    /\ UNCHANGED <<lockVars, dig, lock, reads, crashes>>

\* persist_noclobber: the synced file takes the final name if it is free; an
\* existing entry is left alone and counts as success.
Persist(t) ==
    /\ pc[t] = "persist"
    /\ cache' = [cache EXCEPT ![dig[t]] =
                   IF Cached(dig[t]) THEN @
                   ELSE [bytes |-> pending[t], durable |-> TRUE, by |-> t]]
    /\ EndFill(t, Filled)
    /\ UNCHANGED <<lockVars, dig, lock, reads, crashes>>

\* Mutant of FillFails: the error returns before drop(guard).
FillFailsHolding(t) ==
    /\ pc[t] \in {"recheck", "stream", "verify", "persist"}
    /\ result' = [result EXCEPT ![t] = Err]
    /\ pending' = [pending EXCEPT ![t] = <<>>]
    /\ Goto(t, "leave")
    /\ UNCHANGED <<cache, lockVars, dig, lock, reads, crashes>>

\* A local or remote failure of any step of the fill.
FillFails(t) ==
    /\ pc[t] \in {"recheck", "stream", "verify", "persist"}
    /\ EndFill(t, Err)
    /\ UNCHANGED <<cache, lockVars, dig, lock, reads, crashes>>

\* drop(guard)
Unlock(t) ==
    /\ pc[t] = "unlock"
    /\ gate' = [gate EXCEPT ![lock[t]] = {}]
    /\ Goto(t, "leave")
    /\ UNCHANGED <<cache, locks, participants, poisoned, dig, lock, pending,
                   result, reads, crashes>>

\* Mutants of Release: the entry goes with whoever leaves first; the count
\* before the decrement is compared with 0.
ReleaseEarly(t) ==
    /\ participants' = [participants EXCEPT ![lock[t]] = @ - 1]
    /\ locks' = [locks EXCEPT ![Key(t)] = NoLock]
    /\ lock' = [lock EXCEPT ![t] = NoLock]
ReleaseNever(t) ==
    /\ participants' = [participants EXCEPT ![lock[t]] = @ - 1]
    /\ locks' = IF participants[lock[t]] = 0 /\ locks[Key(t)] = lock[t]
                THEN [locks EXCEPT ![Key(t)] = NoLock]
                ELSE locks
    /\ lock' = [lock EXCEPT ![t] = NoLock]

\* release_download_lock, under the map mutex: the last participant removes
\* the entry if it is still this lock.
Release(t) ==
    /\ participants' = [participants EXCEPT ![lock[t]] = @ - 1]
    /\ locks' = IF participants[lock[t]] = 1 /\ locks[Key(t)] = lock[t]
                THEN [locks EXCEPT ![Key(t)] = NoLock]
                ELSE locks
    /\ lock' = [lock EXCEPT ![t] = NoLock]

Leave(t) ==
    /\ pc[t] = "leave"
    /\ Release(t)
    /\ Goto(t, IF result[t] = Err THEN "idle" ELSE "read")
    /\ UNCHANGED <<cache, gate, poisoned, dig, pending, result, reads, crashes>>

\* The poisoned branch of ensure_cached: release, drop the guard, fail.
Abandon(t) ==
    /\ pc[t] = "abandon"
    /\ Release(t)
    /\ gate' = [gate EXCEPT ![lock[t]] = {}]
    /\ result' = [result EXCEPT ![t] = Err]
    /\ Goto(t, "idle")
    /\ UNCHANGED <<cache, poisoned, dig, pending, reads, crashes>>

\* read_cached_blob
Read(t) ==
    /\ pc[t] = "read"
    /\ Cached(dig[t])
    /\ result' = [result EXCEPT ![t] =
                    Ok(cache[dig[t]].bytes, result[t] = Filled)]
    /\ Goto(t, "idle")
    /\ UNCHANGED <<cache, lockVars, dig, lock, pending, reads, crashes>>

ReadFails(t) ==
    /\ pc[t] = "read"
    /\ result' = [result EXCEPT ![t] = Err]
    /\ Goto(t, "idle")
    /\ UNCHANGED <<cache, lockVars, dig, lock, pending, reads, crashes>>

\* The processes in S end: their threads, locks and map entries are gone and
\* their temporary files stay behind under names no reader looks for.
Kill(S) ==
    LET dead(t) == ProcOf[t] \in S IN
    /\ crashes < MaxCrashes
    /\ crashes' = crashes + 1
    /\ locks' = [k \in Proc \X Digest |-> IF k[1] \in S THEN NoLock ELSE locks[k]]
    /\ pc' = [t \in Thread |-> IF dead(t) THEN "idle" ELSE pc[t]]
    /\ lock' = [t \in Thread |-> IF dead(t) THEN NoLock ELSE lock[t]]
    /\ pending' = [t \in Thread |-> IF dead(t) THEN <<>> ELSE pending[t]]
    /\ result' = [t \in Thread |-> IF dead(t) THEN None ELSE result[t]]
    /\ UNCHANGED <<participants, gate, poisoned, dig, reads>>

Crash(p) ==
    /\ Kill({p})
    /\ UNCHANGED cache

\* A power loss ends every process.  The names in `lost` were not yet on disk;
\* a file that was never synced may come back empty.
PowerLoss ==
    /\ Kill(Proc)
    /\ \E lost, torn \in SUBSET Digest :
          cache' = [d \in Digest |->
             IF d \in lost \/ ~Cached(d) THEN NoFile
             ELSE IF d \in torn /\ ~cache[d].durable
                  THEN [cache[d] EXCEPT !.bytes = <<>>]
             ELSE cache[d]]

ThreadStep(t) ==
    \/ Probe(t) \/ JoinExisting(t) \/ JoinNew(t) \/ EnterGate(t) \/ Recheck(t)
    \/ StreamChunk(t) \/ StreamEnd(t) \/ StreamPanic(t) \/ Verify(t)
    \/ Persist(t) \/ FillFails(t) \/ Unlock(t) \/ Leave(t) \/ Abandon(t)
    \/ Read(t) \/ ReadFails(t)

Next ==
    \/ \E t \in Thread : Call(t) \/ ThreadStep(t)
    \/ \E p \in Proc : Crash(p)
    \/ PowerLoss

Spec == Init /\ [][Next]_vars

\* Every runnable thread keeps running, and a stream ends: each chunk has an
\* idle timeout and a blob a size.
FairSpec == Spec /\ \A t \in Thread : WF_vars(ThreadStep(t))
-----------------------------------------------------------------------------
Control == {"idle", "probe", "join", "gate", "recheck", "stream", "verify",
            "persist", "unlock", "leave", "abandon", "read"}
Outcome == {None, Hit, Filled, Err}
           \cup [st : {"ok"}, bytes : Seq(Chunk), downloaded : BOOLEAN]

\* Every variable has its type.
TypeOK ==
    /\ cache \in [Digest -> File \cup {NoFile}]
    /\ locks \in [Proc \X Digest -> Lock \cup {NoLock}]
    /\ participants \in [Lock -> Nat]
    /\ gate \in [Lock -> SUBSET Thread]
    /\ poisoned \in SUBSET Lock
    /\ pc \in [Thread -> Control]
    /\ dig \in [Thread -> Digest]
    /\ lock \in [Thread -> Lock \cup {NoLock}]
    /\ pending \in [Thread -> Seq(Chunk)]
    /\ result \in [Thread -> Outcome]
    /\ reads \in [Thread -> Nat]
    /\ crashes \in Nat

\* Whatever the remote store streamed, and wherever a process died or the
\* machine lost power, a file under a final path hashes to its name.
VerifiedEntries ==
    \A d \in Digest : Cached(d) => DigestOf(cache[d].bytes) = d

\* read_blob never returns bytes of another digest, partial bytes included.
VerifiedReads ==
    \A t \in Thread : result[t].st = "ok" => DigestOf(result[t].bytes) = dig[t]

InFill(t) == pc[t] \in {"recheck", "stream", "verify", "persist", "unlock"}

\* Simultaneous misses of a digest in one process are coalesced: the recheck,
\* stream, verification and admission of two of them never overlap, even when
\* the map entry was removed and inserted again between the two.
OneFillPerDigest ==
    \A t, u \in Thread :
        InFill(t) /\ InFill(u) /\ Key(t) = Key(u) => t = u

\* release_download_lock removes an entry only after its last participant: a
\* reader that joined and has not left holds the lock that is in the map.
JoinedLockIsCurrent ==
    \A t \in Thread : lock[t] # NoLock => locks[Key(t)] = lock[t]

\* The map holds no entry for a digest nobody is waiting for, except one whose
\* holder panicked (its count is never given back).
NoStaleEntry ==
    \A k \in Proc \X Digest :
        locks[k] # NoLock =>
            locks[k] \in poisoned \/ \E t \in Thread : lock[t] = locks[k]

\* persist_noclobber: the file admitted first for a digest is never replaced
\* by another admission, not even by one of another process.
NoClobber ==
    [][\A d \in Digest : Cached(d) => cache'[d] \in {cache[d], NoFile}]_cache

\* Every read returns: no reader waits forever on a gate, whether the holder
\* succeeded, failed or panicked, and whoever else keeps reading.
ReadsReturn == \A t \in Thread : pc[t] # "idle" ~> pc[t] = "idle"

\* A call as its caller sees it: in progress until it returns, and fetched
\* once its own fill was admitted.
CallOf(p, r, d) ==
    CASE p # "idle" /\ r = Filled -> [st |-> "fetched", dig |-> d]
      [] p # "idle" /\ r # Filled -> [st |-> "waiting", dig |-> d]
      [] p = "idle" /\ r = None -> [st |-> "idle"]
      [] p = "idle" /\ r = Err -> [st |-> "err", dig |-> d]
      [] OTHER -> [st |-> "ok", dig |-> d, bytes |-> r.bytes,
                   downloaded |-> r.downloaded]
ServiceCall(t) == CallOf(pc[t], result[t], dig[t])

\* The cache implements the service its callers rely on.
Service == INSTANCE BlobService WITH
    avail <- {d \in Digest : Cached(d)},
    call <- [t \in Thread |-> ServiceCall(t)]

\* A call answers with verified bytes of an available entry, and says it
\* downloaded them exactly when its own fill admitted them; or it fails.
ImplementsBlobService == Service!Spec
=============================================================================
