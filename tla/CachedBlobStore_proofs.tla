------------------------ MODULE CachedBlobStore_proofs ------------------------
(***************************************************************************)
(* The cache keeps its promises for any number of processes, threads,      *)
(* blobs and crashes: what is admitted or returned is verified, an entry   *)
(* is never replaced, and one process never fills a digest twice at once.  *)
(* CInv is the inductive invariant.                                        *)
(***************************************************************************)
EXTENDS CachedBlobStore, FiniteSetTheorems, TLAPS

\* The readers that joined a DownloadLock and have not left it.
Holders(l) == {t \in Thread : lock[t] = l}

\* A reader has a DownloadLock from joining to leaving.
JoinedSteps ==
    \A t \in Thread : lock[t] # NoLock <=>
        pc[t] \in {"gate", "recheck", "stream", "verify", "persist", "unlock",
                   "leave", "abandon"}

\* Who is past the gate and has not dropped the guard holds the mutex.
GateIsHeld ==
    \A t \in Thread : InFill(t) \/ pc[t] = "abandon" => gate[lock[t]] = {t}

\* No participant is missing from the count (a panic leaves it too high).
Counted == \A l \in Lock : Cardinality(Holders(l)) <= participants[l]

\* Only verified bytes reach persist_noclobber, and only synced files.
VerifiedPending ==
    \A t \in Thread : pc[t] = "persist" => DigestOf(pending[t]) = dig[t]
DurableEntries == \A d \in Digest : Cached(d) => cache[d].durable

LockInv == JoinedSteps /\ JoinedLockIsCurrent /\ GateIsHeld
DataInv == VerifiedPending /\ DurableEntries /\ VerifiedEntries /\ VerifiedReads
CInv == TypeOK /\ LockInv /\ Counted /\ DataInv

USE ProcAssumption, DigestAssumption, LockAssumption, ThreadAssumption,
    BoundAssumption

\* A set of readers is finite; with a reader in it, it is not empty.
LEMMA HoldersFinite ==
  ASSUME NEW l
  PROVE  /\ IsFiniteSet(Holders(l))
         /\ Cardinality(Holders(l)) \in Nat
         /\ \A t \in Holders(l) :
               Cardinality(Holders(l) \ {t}) = Cardinality(Holders(l)) - 1
  <1>1. IsFiniteSet(Holders(l))
    BY FS_Subset DEF Holders
  <1> QED BY <1>1, FS_CardinalityType, FS_RemoveElement

\* A joined reader is counted: release_download_lock's counter cannot
\* underflow, and a count of 1 means that the reader is the last one.
LEMMA JoinedIsCounted ==
  ASSUME TypeOK, Counted, NEW t \in Thread, lock[t] # NoLock
  PROVE  /\ lock[t] \in Lock
         /\ participants[lock[t]] >= 1
         /\ participants[lock[t]] = 1 =>
               \A u \in Thread : lock[u] = lock[t] => u = t
  <1> DEFINE l == lock[t]
  <1>1. l \in Lock /\ t \in Holders(l) /\ participants[l] \in Nat
    BY DEF TypeOK, Holders
  <1>2. Cardinality(Holders(l)) >= 1
    <2>1. Cardinality(Holders(l) \ {t}) \in Nat
      BY HoldersFinite, FS_Subset, FS_CardinalityType
    <2> QED BY <1>1, <2>1, HoldersFinite
  <1>3. Cardinality(Holders(l)) <= participants[l]
    BY <1>1 DEF Counted
  <1>4. ASSUME participants[l] = 1, NEW u \in Thread, lock[u] = l, u # t
        PROVE  FALSE
    <2>1. u \in Holders(l) \ {t}
      BY <1>4 DEF Holders
    <2>2. IsFiniteSet(Holders(l) \ {t}) /\ Cardinality(Holders(l) \ {t}) = 0
      BY <1>1, <1>2, <1>3, <1>4, HoldersFinite, FS_Subset
    <2> QED BY <2>1, <2>2, FS_EmptySet
  <1>5. participants[l] >= 1
    BY <1>1, <1>2, <1>3, HoldersFinite
  <1> QED BY <1>1, <1>4, <1>5

\* Init establishes the invariant: an empty directory, nobody reading.
LEMMA InitCInv == Init => CInv
  <1> SUFFICES ASSUME Init PROVE CInv
      OBVIOUS
  <1>1. TypeOK
    BY DEF Init, TypeOK, Control, Outcome
  <1>2. LockInv
    BY DEF Init, LockInv, JoinedSteps, JoinedLockIsCurrent, GateIsHeld, InFill
  <1>3. Counted
    <2> SUFFICES ASSUME NEW l \in Lock PROVE Cardinality(Holders(l)) <= participants[l]
        BY DEF Counted
    <2>1. Holders(l) = {} /\ participants[l] = 0
      BY DEF Init, Holders
    <2> QED BY <2>1, FS_EmptySet
  <1>4. DataInv
    BY DEF Init, DataInv, VerifiedPending, DurableEntries, VerifiedEntries,
       VerifiedReads, Cached, None
  <1> QED BY <1>1, <1>2, <1>3, <1>4 DEF CInv

\* Every step keeps the types; the participant count does not underflow.
LEMMA TypeNext ==
  ASSUME CInv, [Next]_vars
  PROVE  TypeOK'
  <1> USE DEF Goto, lockVars
  <1>1. TypeOK
    BY DEF CInv
  <1>0. ASSUME NEW t \in Thread, NEW r \in {None, Hit, Filled, Err}, EndFill(t, r)
        PROVE  /\ result' \in [Thread -> Outcome]
               /\ pending' \in [Thread -> Seq(Chunk)]
               /\ pc' \in [Thread -> Control]
    BY <1>0, <1>1 DEF EndFill, TypeOK, Outcome, Control
  <1>2. ASSUME NEW t \in Thread, Call(t) PROVE TypeOK'
    BY <1>1, <1>2 DEF Call, TypeOK, Control, Outcome
  <1>3. ASSUME NEW t \in Thread, ThreadStep(t) PROVE TypeOK'
    <2>1. CASE Probe(t)
      BY <1>1, <2>1, ZenonT(30) DEF Probe, TypeOK, Control, Outcome
    <2>2. CASE JoinExisting(t)
      <3>1. locks[Key(t)] \in Lock
        BY <1>1, <2>2 DEF JoinExisting, TypeOK, Key
      <3> QED BY SMTT(30), <1>1, <2>2, <3>1 DEF JoinExisting, TypeOK, Control
    <2>3. CASE JoinNew(t)
      BY <1>1, <2>3 DEF JoinNew, TypeOK, Control, Key
    <2>4. CASE EnterGate(t)
      BY <1>1, <2>4, ZenonT(30) DEF EnterGate, TypeOK, Control
    <2>5. CASE Recheck(t)
      <3>1. CASE Cached(dig[t])
        BY <1>0, <1>1, <2>5, <3>1 DEF Recheck, TypeOK
      <3>2. CASE ~Cached(dig[t])
        BY <1>1, <2>5, <3>2, ZenonT(30) DEF Recheck, TypeOK, Control
      <3> QED BY <3>1, <3>2
    <2>6. CASE StreamChunk(t)
      <3>1. CASE EndFill(t, Err)
        BY <1>0, <1>1, <2>6, <3>1, Zenon DEF StreamChunk, TypeOK
      <3>2. ASSUME NEW c \in Chunk,
                   pending' = [pending EXCEPT ![t] = Append(@, c)],
                   UNCHANGED <<pc, result>>
            PROVE  TypeOK'
        <4>1. Append(pending[t], c) \in Seq(Chunk)
          BY <1>1 DEF TypeOK
        <4> QED BY <1>1, <2>6, <3>2, <4>1 DEF StreamChunk, TypeOK
      <3> QED BY <2>6, <3>1, <3>2 DEF StreamChunk
    <2>7. CASE StreamEnd(t)
      BY SMTT(30), <1>1, <2>7 DEF StreamEnd, TypeOK, Control
    <2>8. CASE StreamPanic(t)
      <3>1. lock[t] \in Lock
        BY <1>1, <2>8 DEF CInv, LockInv, JoinedSteps, TypeOK, StreamPanic
      <3> QED BY <1>1, <2>8, <3>1, SMTT(30) DEF StreamPanic, TypeOK, Control, Outcome
    <2>9. CASE Verify(t)
      <3>1. CASE DigestOf(pending[t]) = dig[t]
        BY <1>1, <2>9, <3>1, ZenonT(30) DEF Verify, TypeOK, Control
      <3>2. CASE DigestOf(pending[t]) # dig[t]
        BY SMTT(30), <1>0, <1>1, <2>9, <3>2 DEF Verify, TypeOK
      <3> QED BY <3>1, <3>2
    <2>10. CASE Persist(t)
      <3>1. [bytes |-> pending[t], durable |-> TRUE, by |-> t] \in File
        BY <1>1 DEF TypeOK, File
      <3> QED BY <1>0, <1>1, <2>10, <3>1, SMTT(30) DEF Persist, TypeOK, Cached
    <2>11. CASE FillFails(t)
      BY <1>0, <1>1, <2>11 DEF FillFails, TypeOK
    <2>12. CASE Unlock(t)
      BY <1>1, <2>12, ZenonT(30) DEF Unlock, TypeOK, Control
    <2>13. CASE Leave(t) \/ Abandon(t)
      <3>1. lock[t] # NoLock
        BY <1>1, <2>13 DEF CInv, LockInv, JoinedSteps, Leave, Abandon
      <3>2. lock[t] \in Lock /\ participants[lock[t]] - 1 \in Nat
        BY <1>1, <3>1, JoinedIsCounted DEF CInv, TypeOK
      <3>3. /\ participants' \in [Lock -> Nat]
            /\ locks' \in [Proc \X Digest -> Lock \cup {NoLock}]
            /\ lock' \in [Thread -> Lock \cup {NoLock}]
        <4>1. Release(t)
          BY <2>13 DEF Leave, Abandon
        <4>2. participants' \in [Lock -> Nat]
          BY <1>1, <3>2, <4>1 DEF Release, TypeOK
        <4>3. locks' \in [Proc \X Digest -> Lock \cup {NoLock}]
          BY <1>1, <4>1, ZenonT(30) DEF Release, TypeOK
        <4>4. lock' \in [Thread -> Lock \cup {NoLock}]
          BY <1>1, <4>1 DEF Release, TypeOK
        <4> QED BY <4>2, <4>3, <4>4
      <3>4. CASE Leave(t)
        BY <1>1, <3>3, <3>4, SMTT(30) DEF Leave, TypeOK, Control
      <3>5. CASE Abandon(t)
        BY <1>1, <3>2, <3>3, <3>5, Zenon DEF Abandon, TypeOK, Control, Outcome
      <3> QED BY <2>13, <3>4, <3>5
    <2>14. CASE Read(t)
      <3>1. cache[dig[t]].bytes \in Seq(Chunk)
        BY SMTT(30), <1>1, <2>14 DEF Read, Cached, TypeOK, File
      <3> QED BY SMTT(30), <1>1, <2>14, <3>1 DEF Read, TypeOK, Control, Outcome, Ok
    <2>15. CASE ReadFails(t)
      BY SMTT(30), <1>1, <2>15 DEF ReadFails, TypeOK, Control, Outcome
    <2> QED BY <1>3, <2>1, <2>2, <2>3, <2>4, <2>5, <2>6, <2>7, <2>8, <2>9,
            <2>10, <2>11, <2>12, <2>13, <2>14, <2>15, SMTT(30) DEF ThreadStep
  <1>4. ASSUME NEW p \in Proc, Crash(p) PROVE TypeOK'
    BY <1>1, <1>4 DEF Crash, Kill, TypeOK, Control, Outcome
  <1>5. CASE PowerLoss
    <2>1. PICK lost \in SUBSET Digest, torn \in SUBSET Digest :
             cache' = [d \in Digest |->
               IF d \in lost \/ ~Cached(d) THEN NoFile
               ELSE IF d \in torn /\ ~cache[d].durable
                    THEN [cache[d] EXCEPT !.bytes = <<>>]
               ELSE cache[d]]
      BY <1>5, ZenonT(30) DEF PowerLoss
    <2>2. cache' \in [Digest -> File \cup {NoFile}]
      <3> SUFFICES ASSUME NEW d \in Digest PROVE cache'[d] \in File \cup {NoFile}
          BY <2>1
      <3>1. Cached(d) => cache[d] \in File
        BY <1>1 DEF TypeOK, Cached
      <3>2. ASSUME NEW f \in File PROVE [f EXCEPT !.bytes = <<>>] \in File
        <4>1. <<>> \in Seq(Chunk)
          OBVIOUS
        <4> QED BY <4>1, ZenonT(30) DEF File
      <3> QED BY <2>1, <3>1, <3>2
    <2> QED BY <1>1, <1>5, <2>2 DEF PowerLoss, Kill, TypeOK, Control, Outcome
  <1>6. CASE UNCHANGED vars
    BY <1>1, <1>6 DEF vars, TypeOK
  <1> QED BY <1>2, <1>3, <1>4, <1>5, <1>6 DEF Next

\* Joining, entering and leaving keep every joined reader on the lock that is
\* in the map, and at most one of them past its gate.
LEMMA LockNext ==
  ASSUME CInv, [Next]_vars
  PROVE  LockInv'
  <1> USE DEF Goto, lockVars, InFill, Key
  <1>1. TypeOK /\ LockInv /\ Counted
    BY DEF CInv
  <1> DEFINE Outside(t) ==
        \/ Call(t) \/ Probe(t) \/ Read(t) \/ ReadFails(t)
  <1> DEFINE Inside(t) ==
        \/ Recheck(t) \/ StreamChunk(t) \/ StreamEnd(t) \/ Verify(t)
        \/ Persist(t) \/ FillFails(t)
  <1> DEFINE Past(t) == InFill(t) \/ pc[t] = "abandon"
  <1>0. ASSUME NEW t \in Thread, Past(t), NEW u \in Thread \ {t}, Past(u)
        PROVE  lock[u] # lock[t]
    <2>1. gate[lock[t]] = {t} /\ gate[lock[u]] = {u}
      BY <1>0, <1>1, SMTT(30) DEF LockInv, GateIsHeld
    <2> QED BY <2>1
  <1>2. ASSUME NEW t \in Thread, Outside(t) PROVE LockInv'
    <2>1. /\ UNCHANGED <<lock, locks, gate>>
          /\ \A u \in Thread \ {t} : pc'[u] = pc[u] /\ dig'[u] = dig[u]
          /\ pc'[t] \in {"idle", "probe", "join", "read"}
      BY <1>1, <1>2, ZenonT(30) DEF Call, Probe, Read, ReadFails, TypeOK
    <2>2. lock[t] = NoLock
      BY <1>1, <1>2, SMTT(30) DEF Call, Probe, Read, ReadFails, LockInv, JoinedSteps
    <2> QED BY <1>1, <2>1, <2>2, SMTT(30) DEF LockInv, JoinedSteps, JoinedLockIsCurrent, GateIsHeld
  <1>3. ASSUME NEW t \in Thread, Inside(t) PROVE LockInv'
    <2>1. /\ UNCHANGED <<lock, locks, gate, dig>>
          /\ InFill(t) /\ InFill(t)'
          /\ \A u \in Thread \ {t} : pc'[u] = pc[u]
      BY <1>1, <1>3 DEF Recheck, StreamChunk, StreamEnd, Verify, Persist,
         FillFails, EndFill, TypeOK
    <2> QED BY <1>1, <2>1, Zenon DEF LockInv, JoinedSteps, JoinedLockIsCurrent, GateIsHeld
  <1>4. ASSUME NEW t \in Thread, JoinExisting(t) PROVE LockInv'
    BY <1>1, <1>4, ZenonT(30) DEF JoinExisting, TypeOK, LockInv, JoinedSteps,
       JoinedLockIsCurrent, GateIsHeld
  <1>5. ASSUME NEW t \in Thread, JoinNew(t) PROVE LockInv'
    <2>1. PICK l \in Lock :
             /\ ~Live(l)
             /\ locks' = [locks EXCEPT ![Key(t)] = l]
             /\ lock' = [lock EXCEPT ![t] = l]
             /\ gate' = [gate EXCEPT ![l] = {}]
      BY <1>5, ZenonT(30) DEF JoinNew
    <2>2. \A u \in Thread : lock[u] # l
      BY <2>1, Zenon DEF Live
    <2>3. /\ pc[t] = "join" /\ lock[t] = NoLock /\ locks[Key(t)] = NoLock
          /\ pc' = [pc EXCEPT ![t] = "gate"] /\ dig' = dig
      BY <1>1, <1>5, SMTT(30) DEF JoinNew, LockInv, JoinedSteps
    <2>4. JoinedSteps'
      BY <1>1, <2>1, <2>3, SMTT(30) DEF TypeOK, LockInv, JoinedSteps
    <2>5. JoinedLockIsCurrent'
      BY <1>1, <2>1, <2>3, SMTT(30) DEF TypeOK, LockInv, JoinedLockIsCurrent
    <2>6. GateIsHeld'
      BY <1>1, <2>1, <2>2, <2>3 DEF TypeOK, LockInv, GateIsHeld
    <2> QED BY <2>4, <2>5, <2>6 DEF LockInv
  <1>6. ASSUME NEW t \in Thread, EnterGate(t) PROVE LockInv'
    BY <1>1, <1>6, ZenonT(30) DEF EnterGate, TypeOK, LockInv, JoinedSteps,
       JoinedLockIsCurrent, GateIsHeld
  <1>7. ASSUME NEW t \in Thread, StreamPanic(t) PROVE LockInv'
    <2>1. JoinedSteps' /\ JoinedLockIsCurrent'
      BY <1>1, <1>7 DEF StreamPanic, TypeOK, LockInv, JoinedSteps, JoinedLockIsCurrent
    <2>2. GateIsHeld'
      BY <1>0, <1>1, <1>7, SMTT(30) DEF StreamPanic, TypeOK, LockInv, GateIsHeld
    <2> QED BY <2>1, <2>2 DEF LockInv
  <1>8. ASSUME NEW t \in Thread, Unlock(t) PROVE LockInv'
    <2>1. JoinedSteps' /\ JoinedLockIsCurrent'
      BY <1>1, <1>8, SMTT(30) DEF Unlock, TypeOK, LockInv, JoinedSteps, JoinedLockIsCurrent
    <2>2. GateIsHeld'
      BY <1>0, <1>1, <1>8 DEF Unlock, TypeOK, LockInv, GateIsHeld
    <2> QED BY <2>1, <2>2 DEF LockInv
  <1>9. ASSUME NEW t \in Thread, Leave(t) \/ Abandon(t) PROVE LockInv'
    <2>1. lock[t] # NoLock /\ locks[Key(t)] = lock[t]
      BY SMTT(30), <1>1, <1>9 DEF Leave, Abandon, LockInv, JoinedSteps, JoinedLockIsCurrent
    <2>2. participants[lock[t]] = 1 => \A u \in Thread : lock[u] = lock[t] => u = t
      BY <1>1, <2>1, JoinedIsCounted, SMTT(30)
    <2>3. /\ Release(t) /\ dig' = dig
          /\ \/ gate' = gate /\ pc[t] = "leave"
             \/ gate' = [gate EXCEPT ![lock[t]] = {}] /\ pc[t] = "abandon"
          /\ pc'[t] \in {"idle", "read"}
          /\ \A u \in Thread \ {t} : pc'[u] = pc[u]
      BY <1>1, <1>9, SMTT(30) DEF Leave, Abandon, TypeOK
    <2>4. JoinedSteps'
      BY SMTT(30), <1>1, <2>3 DEF Release, TypeOK, LockInv, JoinedSteps
    <2>5. JoinedLockIsCurrent'
      BY <1>1, <2>1, <2>2, <2>3, SMTT(30) DEF Release, TypeOK, LockInv, JoinedLockIsCurrent
    <2>6. GateIsHeld'
      <3> SUFFICES ASSUME NEW u \in Thread, Past(u)' PROVE gate'[lock'[u]] = {u}
          BY DEF GateIsHeld
      <3>1. u # t /\ Past(u) /\ lock'[u] = lock[u]
        BY <1>1, <2>3, Zenon DEF Release, TypeOK
      <3>2. gate[lock[u]] = {u}
        BY SMTT(30), <1>1, <3>1 DEF LockInv, GateIsHeld
      <3>3. pc[t] = "abandon" => lock[u] # lock[t]
        BY Zenon, <1>0, <3>1
      <3>4. lock[u] \in Lock
        BY <1>1, <3>1 DEF LockInv, JoinedSteps, TypeOK
      <3> QED BY <1>1, <2>3, <3>1, <3>2, <3>3, <3>4, SMTT(30) DEF TypeOK
    <2> QED BY <2>4, <2>5, <2>6, SMTT(30) DEF LockInv
  <1>10. ASSUME NEW S \in SUBSET Proc, Kill(S) PROVE LockInv'
    <2>1. \A t \in Thread : ProcOf[t] \in Proc /\ Key(t) \in Proc \X Digest
      BY <1>1 DEF TypeOK
    <2>2. JoinedSteps'
      BY <1>1, <1>10, Zenon DEF Kill, LockInv, JoinedSteps
    <2>3. JoinedLockIsCurrent'
      BY <1>1, <1>10, <2>1, Zenon DEF Kill, LockInv, JoinedLockIsCurrent
    <2>4. GateIsHeld'
      BY SMTT(30), <1>1, <1>10 DEF Kill, LockInv, GateIsHeld
    <2> QED BY <2>2, <2>3, <2>4 DEF LockInv
  <1>11. CASE UNCHANGED vars
    BY <1>1, <1>11 DEF vars, LockInv, JoinedSteps, JoinedLockIsCurrent, GateIsHeld
  <1> QED BY <1>2, <1>3, <1>4, <1>5, <1>6, <1>7, <1>8, <1>9, <1>10, <1>11, ZenonT(30)
          DEF Next, ThreadStep, Crash, PowerLoss

\* The count of a lock is never below the number of its readers.
LEMMA CountNext ==
  ASSUME CInv, [Next]_vars
  PROVE  Counted'
  <1> USE DEF lockVars
  <1>1. TypeOK /\ TypeOK' /\ LockInv /\ Counted
    BY TypeNext DEF CInv
  <1>2. ASSUME UNCHANGED participants, \A l \in Lock : Holders(l)' \subseteq Holders(l)
        PROVE  Counted'
    <2> SUFFICES ASSUME NEW l \in Lock
                 PROVE  Cardinality(Holders(l)') <= participants'[l]
        BY DEF Counted
    <2>1. /\ Cardinality(Holders(l)') <= Cardinality(Holders(l))
          /\ Cardinality(Holders(l)') \in Nat /\ Cardinality(Holders(l)) \in Nat
      BY <1>2, HoldersFinite, FS_Subset, FS_CardinalityType, Zenon
    <2> QED BY <1>1, <1>2, <2>1 DEF Counted, TypeOK
  <1>3. ASSUME NEW t \in Thread, JoinExisting(t) PROVE Counted'
    <2>1. PICK l \in Lock :
          /\ lock[t] = NoLock
          /\ lock' = [lock EXCEPT ![t] = l]
          /\ participants' = [participants EXCEPT ![l] = @ + 1]
      BY <1>1, <1>3, ZenonT(30) DEF JoinExisting, Key, TypeOK, LockInv, JoinedSteps
    <2>2. Holders(l)' = Holders(l) \cup {t} /\ t \notin Holders(l)
      BY <1>1, <2>1 DEF Holders, TypeOK
    <2>3. Cardinality(Holders(l)') = Cardinality(Holders(l)) + 1
      BY <2>2, HoldersFinite, FS_AddElement, ZenonT(30)
    <2>4. \A m \in Lock \ {l} : Holders(m)' = Holders(m)
      BY <1>1, <2>1 DEF Holders, TypeOK
    <2> QED BY <1>1, <2>1, <2>3, <2>4, HoldersFinite, SMTT(30) DEF Counted, TypeOK
  <1>4. ASSUME NEW t \in Thread, JoinNew(t) PROVE Counted'
    <2>1. PICK l \in Lock :
             /\ ~Live(l)
             /\ lock' = [lock EXCEPT ![t] = l]
             /\ participants' = [participants EXCEPT ![l] = 1]
      BY <1>4, ZenonT(30) DEF JoinNew
    <2>2. lock[t] = NoLock
      BY <1>1, <1>4, SMTT(30) DEF JoinNew, LockInv, JoinedSteps
    <2>3. Holders(l)' = {t}
      BY <1>1, <2>1 DEF Holders, Live, TypeOK
    <2>4. Cardinality(Holders(l)') = 1
      BY <2>3, FS_Singleton, ZenonT(30)
    <2>5. \A m \in Lock \ {l} : Holders(m)' = Holders(m)
      BY <1>1, <2>1, <2>2, SMTT(30) DEF Holders, TypeOK
    <2> QED BY <1>1, <2>1, <2>4, <2>5 DEF Counted, TypeOK
  <1>5. ASSUME NEW t \in Thread, Leave(t) \/ Abandon(t) PROVE Counted'
    <2>1. PICK l \in Lock :
          /\ lock[t] = l
          /\ lock' = [lock EXCEPT ![t] = NoLock]
          /\ participants' = [participants EXCEPT ![l] = @ - 1]
      BY <1>1, <1>5, SMTT(30) DEF Leave, Abandon, Release, LockInv, JoinedSteps, TypeOK
    <2>2. Holders(l)' = Holders(l) \ {t} /\ t \in Holders(l)
      BY <1>1, <2>1, Zenon DEF Holders, TypeOK
    <2>3. Cardinality(Holders(l)') = Cardinality(Holders(l)) - 1
      BY <2>2, HoldersFinite
    <2>4. \A m \in Lock \ {l} : Holders(m)' = Holders(m)
      BY ZenonT(30), <1>1, <2>1 DEF Holders, TypeOK
    <2> QED BY <1>1, <2>1, <2>3, <2>4, HoldersFinite, SMTT(30) DEF Counted, TypeOK
  <1>6. ASSUME NEW t \in Thread, StreamPanic(t) PROVE Counted'
    <2>1. /\ UNCHANGED participants
          /\ \A l \in Lock : Holders(l)' \subseteq Holders(l)
      BY <1>1, <1>6 DEF StreamPanic, Holders, TypeOK
    <2> QED BY <1>2, <2>1, SMTT(30)
  <1>7. ASSUME NEW S \in SUBSET Proc, Kill(S) PROVE Counted'
    <2>1. /\ UNCHANGED participants
          /\ \A l \in Lock : Holders(l)' \subseteq Holders(l)
      BY <1>1, <1>7, ZenonT(30) DEF Kill, Holders
    <2> QED BY <1>2, <2>1, SMTT(30)
  <1>8. ASSUME UNCHANGED <<lock, participants>> PROVE Counted'
    BY <1>1, <1>8 DEF Counted, Holders
  <1> QED BY <1>3, <1>4, <1>5, <1>6, <1>7, <1>8, ZenonT(30)
          DEF Next, ThreadStep, Crash, PowerLoss, Call, Probe, EnterGate, Recheck,
              StreamChunk, StreamEnd, Verify, Persist, FillFails, Unlock, Read,
              ReadFails, vars

\* Verification, admission, power loss and reading keep every entry, and every
\* answer, equal to what its digest names.
LEMMA DataNext ==
  ASSUME CInv, [Next]_vars
  PROVE  DataInv'
  <1> USE DEF Goto, lockVars
  <1>1. TypeOK /\ DataInv
    BY DEF CInv
  <1>2. ASSUME NEW t \in Thread, UNCHANGED <<cache, dig>>,
               NEW r, r = result[t] \/ r \in {None, Hit, Filled, Err},
               result' = [result EXCEPT ![t] = r],
               \A u \in Thread \ {t} : pc'[u] = pc[u] /\ pending'[u] = pending[u],
               pc'[t] # "persist"
        PROVE  DataInv'
    <2>1. VerifiedPending'
      BY <1>1, <1>2 DEF DataInv, VerifiedPending
    <2>2. DurableEntries' /\ VerifiedEntries'
      BY <1>1, <1>2, Zenon DEF DataInv, DurableEntries, VerifiedEntries, Cached
    <2>3. VerifiedReads'
      BY <1>1, <1>2, SMTT(30) DEF DataInv, VerifiedReads, TypeOK, None, Hit, Filled, Err
    <2> QED BY Zenon, <2>1, <2>2, <2>3 DEF DataInv
  <1>3. ASSUME NEW t \in Thread, Call(t) PROVE DataInv'
    <2>1. VerifiedPending'
      BY <1>1, <1>3, SMTT(30) DEF Call, TypeOK, DataInv, VerifiedPending
    <2>2. DurableEntries' /\ VerifiedEntries'
      BY <1>1, <1>3, Zenon DEF Call, DataInv, DurableEntries, VerifiedEntries, Cached
    <2>3. VerifiedReads'
      BY <1>1, <1>3 DEF Call, DataInv, VerifiedReads, TypeOK, None
    <2> QED BY SMTT(30), <2>1, <2>2, <2>3 DEF DataInv
  <1>4. ASSUME NEW t \in Thread,
               \/ Probe(t) \/ JoinExisting(t) \/ JoinNew(t) \/ EnterGate(t)
               \/ StreamEnd(t) \/ Unlock(t) \/ Leave(t)
        PROVE  DataInv'
    <2>1. \E r : /\ r = result[t] \/ r \in {None, Hit, Filled, Err}
                 /\ result' = [result EXCEPT ![t] = r]
      BY <1>1, <1>4, SMTT(30) DEF Probe, JoinExisting, JoinNew, EnterGate, StreamEnd,
         Unlock, Leave, TypeOK
    <2>2. /\ UNCHANGED <<cache, dig>> /\ pc'[t] # "persist"
          /\ \A u \in Thread \ {t} : pc'[u] = pc[u] /\ pending'[u] = pending[u]
      BY <1>1, <1>4, ZenonT(30) DEF Probe, JoinExisting, JoinNew, EnterGate, StreamEnd,
         Unlock, Leave, TypeOK
    <2> QED BY <1>2, <2>1, <2>2, ZenonT(30)
  <1>5. ASSUME NEW t \in Thread,
               \/ Recheck(t) \/ StreamChunk(t) \/ StreamPanic(t) \/ FillFails(t)
               \/ Abandon(t) \/ ReadFails(t)
        PROVE  DataInv'
    <2>1. \E r : /\ r = result[t] \/ r \in {None, Hit, Filled, Err}
                 /\ result' = [result EXCEPT ![t] = r]
      BY <1>1, <1>5, SMTT(30) DEF Recheck, StreamChunk, StreamPanic, FillFails, Abandon,
         ReadFails, EndFill, TypeOK
    <2>2. /\ UNCHANGED <<cache, dig>> /\ pc'[t] # "persist"
          /\ \A u \in Thread \ {t} : pc'[u] = pc[u] /\ pending'[u] = pending[u]
      BY <1>1, <1>5, SMTT(30) DEF Recheck, StreamChunk, StreamPanic, FillFails, Abandon,
         ReadFails, EndFill, TypeOK
    <2> QED BY <1>2, <2>1, <2>2, ZenonT(30)
  <1>6. ASSUME NEW t \in Thread, Verify(t) PROVE DataInv'
    <2>1. CASE DigestOf(pending[t]) = dig[t]
      <3>1. /\ UNCHANGED <<cache, dig, result, pending>>
            /\ pc' = [pc EXCEPT ![t] = "persist"]
        BY <1>6, <2>1, ZenonT(30) DEF Verify
      <3>2. VerifiedPending'
        BY <1>1, <2>1, <3>1, SMTT(30) DEF TypeOK, DataInv, VerifiedPending
      <3>3. DurableEntries' /\ VerifiedEntries' /\ VerifiedReads'
        BY <1>1, <3>1 DEF DataInv, DurableEntries, VerifiedEntries,
           VerifiedReads, Cached
      <3> QED BY <3>2, <3>3, SMTT(30) DEF DataInv
    <2>2. CASE EndFill(t, Err)
      BY <1>1, <1>2, <1>6, <2>2, ZenonT(30) DEF Verify, EndFill, TypeOK
    <2> QED BY <1>6, <2>1, <2>2, ZenonT(30) DEF Verify
  <1>7. ASSUME NEW t \in Thread, Persist(t) PROVE DataInv'
    <2>1. DigestOf(pending[t]) = dig[t] /\ EndFill(t, Filled) /\ dig' = dig
      BY <1>1, <1>7, SMTT(30) DEF Persist, DataInv, VerifiedPending
    <2>2. VerifiedPending'
      BY <1>1, <2>1, Zenon DEF EndFill, TypeOK, DataInv, VerifiedPending
    <2>3. DurableEntries' /\ VerifiedEntries'
      BY <1>1, <1>7, <2>1, Zenon DEF Persist, TypeOK, DataInv, DurableEntries,
         VerifiedEntries, Cached
    <2>4. VerifiedReads'
      BY <1>1, <2>1, SMTT(30) DEF EndFill, TypeOK, DataInv, VerifiedReads, Filled
    <2> QED BY <2>2, <2>3, <2>4 DEF DataInv
  <1>8. ASSUME NEW t \in Thread, Read(t) PROVE DataInv'
    <2>1. DigestOf(cache[dig[t]].bytes) = dig[t]
      BY <1>1, <1>8, Zenon DEF Read, TypeOK, DataInv, VerifiedEntries
    <2>2. VerifiedReads'
      BY <1>1, <1>8, <2>1, SMTT(30) DEF Read, Ok, TypeOK, DataInv, VerifiedReads
    <2> QED BY <1>1, <1>8, <2>2, SMTT(30) DEF Read, TypeOK, DataInv, VerifiedPending,
            DurableEntries, VerifiedEntries, Cached
  <1>9. ASSUME NEW S \in SUBSET Proc, Kill(S) PROVE VerifiedPending' /\ VerifiedReads'
    <2>1. /\ UNCHANGED dig
          /\ \A t \in Thread : pc'[t] = "persist" =>
                pc[t] = "persist" /\ pending'[t] = pending[t]
      BY <1>9, ZenonT(30) DEF Kill
    <2>2. \A t \in Thread : result'[t] = result[t] \/ result'[t].st = "none"
      BY <1>9, SMTT(30) DEF Kill, None
    <2>3. VerifiedPending'
      BY <1>1, <2>1, SMTT(30) DEF DataInv, VerifiedPending
    <2>4. VerifiedReads'
      BY <1>1, <2>1, <2>2, Zenon DEF DataInv, VerifiedReads
    <2> QED BY <2>3, <2>4, SMTT(30)
  <1>10. ASSUME NEW p \in Proc, Crash(p) PROVE DataInv'
    BY <1>1, <1>9, <1>10 DEF Crash, DataInv, DurableEntries, VerifiedEntries, Cached
  <1>11. CASE PowerLoss
    <2>1. \A d \in Digest : cache'[d] \in {cache[d], NoFile}
      BY <1>1, <1>11, Zenon DEF PowerLoss, DataInv, DurableEntries
    <2> QED BY <1>1, <1>9, <1>11, <2>1 DEF PowerLoss, DataInv, DurableEntries,
            VerifiedEntries, Cached
  <1>12. CASE UNCHANGED vars
    BY <1>1, <1>12 DEF vars, DataInv, VerifiedPending, DurableEntries,
       VerifiedEntries, VerifiedReads, Cached
  <1> QED BY <1>3, <1>4, <1>5, <1>6, <1>7, <1>8, <1>10, <1>11, <1>12, SMTT(30)
          DEF Next, ThreadStep

\* The invariant holds in every reachable state.
THEOREM CacheInvariant == Spec => []CInv
  <1>1. CInv /\ [Next]_vars => CInv'
    BY TypeNext, LockNext, CountNext, DataNext DEF CInv
  <1> QED BY <1>1, InitCInv, PTL DEF Spec

\* Type correctness; in particular release_download_lock's count never wraps.
THEOREM CacheTypes == Spec => []TypeOK
  <1>1. CInv => TypeOK
    BY DEF CInv
  <1> QED BY <1>1, CacheInvariant, PTL

\* PendingBlob::verify and the sync before persist_noclobber make every file
\* under a final path hash to its name, across crashes and power losses.
THEOREM EntriesVerified == Spec => []VerifiedEntries
  <1>1. CInv => VerifiedEntries
    BY DEF CInv, DataInv
  <1> QED BY <1>1, CacheInvariant, PTL

\* read_blob returns only bytes of the digest it was asked for.
THEOREM ReadsVerified == Spec => []VerifiedReads
  <1>1. CInv => VerifiedReads
    BY DEF CInv, DataInv
  <1> QED BY <1>1, CacheInvariant, PTL

\* A joined reader's DownloadLock stays the one in the map.
THEOREM LockIsCurrent == Spec => []JoinedLockIsCurrent
  <1>1. CInv => JoinedLockIsCurrent
    BY SMTT(30) DEF CInv, LockInv
  <1> QED BY <1>1, CacheInvariant, PTL

\* ensure_cached fills a digest once at a time in each process: readers of one
\* digest share one current lock, and one thread holds its gate.
THEOREM FillsExclude == Spec => []OneFillPerDigest
  <1>1. ASSUME CInv, NEW t \in Thread, NEW u \in Thread,
               InFill(t), InFill(u), Key(t) = Key(u)
        PROVE  t = u
    <2>1. lock[t] # NoLock /\ lock[u] # NoLock
      BY SMTT(30), <1>1 DEF CInv, LockInv, JoinedSteps, InFill
    <2>2. lock[t] = lock[u]
      BY <1>1, <2>1 DEF CInv, LockInv, JoinedLockIsCurrent
    <2>3. gate[lock[t]] = {t} /\ gate[lock[u]] = {u}
      BY <1>1 DEF CInv, LockInv, GateIsHeld
    <2> QED BY <2>2, <2>3, SMTT(30)
  <1>2. CInv => OneFillPerDigest
    BY <1>1 DEF OneFillPerDigest
  <1> QED BY <1>2, CacheInvariant, PTL

\* persist_noclobber never replaces an entry, whichever process admitted it.
THEOREM EntriesStay == Spec => NoClobber
  <1> DEFINE Stays == \A d \in Digest : Cached(d) => cache'[d] \in {cache[d], NoFile}
  <1>1. CInv /\ [Next]_vars => [Stays]_cache
    <2> SUFFICES ASSUME CInv, Next, cache' # cache PROVE Stays
        BY SMTT(30) DEF vars
    <2>1. CASE \E t \in Thread : Persist(t)
      BY <2>1 DEF Persist, CInv, TypeOK, Cached
    <2>2. CASE PowerLoss
      BY <2>2, SMTT(30) DEF PowerLoss, CInv, DataInv, DurableEntries
    <2>3. (\E t \in Thread : Persist(t)) \/ PowerLoss
      BY ZenonT(30) DEF Next, ThreadStep, Call, Probe, JoinExisting, JoinNew, EnterGate,
         Recheck, StreamChunk, StreamEnd, StreamPanic, Verify, FillFails, Unlock,
         Leave, Abandon, Read, ReadFails, Crash
    <2> QED BY <2>1, <2>2, <2>3, SMTT(30)
  <1> QED BY <1>1, CacheInvariant, PTL DEF Spec, NoClobber

-----------------------------------------------------------------------------
\* A DownloadLock is in the map once, and counts exactly its readers, of which
\* there is at least one, until a holder panics.
OneKey ==
    \A k, m \in Proc \X Digest : locks[k] # NoLock /\ locks[k] = locks[m] => k = m
ExactCount ==
    \A k \in Proc \X Digest : locks[k] # NoLock /\ locks[k] \notin poisoned =>
        /\ participants[locks[k]] = Cardinality(Holders(locks[k]))
        /\ participants[locks[k]] >= 1

\* Joining, leaving, panicking and dying keep the count exact: the last reader
\* that leaves is the one that sees 1.
LEMMA EntriesNext ==
  ASSUME CInv, OneKey, ExactCount, [Next]_vars
  PROVE  OneKey' /\ ExactCount'
  <1> DEFINE Keys == Proc \X Digest
  <1> DEFINE Inv == OneKey /\ ExactCount
  <1> DEFINE Left(l) == {t \in Thread : lock'[t] = l}
  <1> DEFINE Exact(k) == locks'[k] # NoLock /\ locks'[k] \notin poisoned' =>
                          /\ participants'[locks'[k]] = Cardinality(Left(locks'[k]))
                          /\ participants'[locks'[k]] >= 1
  <1>0. ASSUME OneKey', \A k \in Keys : Exact(k) PROVE Inv'
    BY <1>0 DEF ExactCount, Holders
  <1>1. TypeOK /\ JoinedSteps /\ JoinedLockIsCurrent
    BY DEF CInv, LockInv
  <1>2. \A t \in Thread : Key(t) \in Keys /\ Key(t)[1] = ProcOf[t]
    BY <1>1 DEF TypeOK, Key
  <1>3. ASSUME UNCHANGED <<lock, locks, participants, poisoned>> PROVE Inv'
    BY ZenonT(30), <1>3 DEF OneKey, ExactCount, Holders
  <1>4. ASSUME NEW t \in Thread, JoinExisting(t) PROVE Inv'
    <2>1. PICK l \in Lock :
          /\ lock[t] = NoLock
          /\ lock' = [lock EXCEPT ![t] = l]
          /\ participants' = [participants EXCEPT ![l] = @ + 1]
          /\ UNCHANGED <<locks, poisoned>>
      BY <1>1, <1>2, <1>4, ZenonT(30) DEF JoinExisting, TypeOK, JoinedSteps
    <2>2. Left(l) = Holders(l) \cup {t} /\ t \notin Holders(l)
      BY <1>1, <2>1 DEF Holders, TypeOK
    <2>3. Cardinality(Left(l)) = Cardinality(Holders(l)) + 1
      BY <2>2, HoldersFinite, FS_AddElement, ZenonT(30)
    <2>4. \A m \in Lock \ {l} : Left(m) = Holders(m)
      BY <1>1, <2>1 DEF Holders, TypeOK
    <2>5. ASSUME NEW k \in Keys, locks'[k] # NoLock, locks'[k] \notin poisoned'
          PROVE  Exact(k)
      <3>0. PICK m : m = locks[k]
        OBVIOUS
      <3>1. m \in Lock /\ locks'[k] = m /\ participants[m] \in Nat
        BY Zenon, <1>1, <2>1, <2>5, <3>0 DEF TypeOK
      <3>2. participants[m] = Cardinality(Holders(m)) /\ participants[m] >= 1
        BY Zenon, <2>1, <2>5, <3>0 DEF ExactCount
      <3>3. CASE m = l
        BY SMTT(30), <1>1, <2>1, <2>3, <3>1, <3>2, <3>3 DEF TypeOK
      <3>4. CASE m # l
        BY ZenonT(30), <1>1, <2>1, <2>4, <3>1, <3>2, <3>4 DEF TypeOK
      <3> QED BY <3>3, <3>4
    <2>6. OneKey'
      BY <2>1 DEF OneKey
    <2> QED BY <1>0, <2>5, <2>6
  <1>5. ASSUME NEW t \in Thread, JoinNew(t) PROVE Inv'
    <2>1. PICK l \in Lock :
             /\ ~Live(l)
             /\ locks' = [locks EXCEPT ![Key(t)] = l]
             /\ lock' = [lock EXCEPT ![t] = l]
             /\ participants' = [participants EXCEPT ![l] = 1]
             /\ poisoned' = poisoned \ {l}
      BY <1>5, ZenonT(30) DEF JoinNew
    <2>2. lock[t] = NoLock /\ \A k \in Keys : locks[k] # l
      BY Zenon, <1>1, <1>5, <2>1 DEF JoinNew, JoinedSteps, Live
    <2>3. Left(l) = {t}
      BY <1>1, <2>1 DEF Holders, Live, TypeOK
    <2>4. Cardinality(Left(l)) = 1
      BY <2>3, FS_Singleton, ZenonT(30)
    <2>5. \A m \in Lock \ {l} : Left(m) = Holders(m)
      BY <1>1, <2>1, <2>2 DEF Holders, TypeOK
    <2>6. \A k \in Keys : locks'[k] = IF k = Key(t) THEN l ELSE locks[k]
      BY ZenonT(30), <1>1, <1>2, <2>1 DEF TypeOK
    <2>7. OneKey'
      BY <1>2, <2>2, <2>6 DEF OneKey
    <2>8. ASSUME NEW k \in Keys, locks'[k] # NoLock, locks'[k] \notin poisoned'
          PROVE  Exact(k)
      <3>1. CASE k = Key(t)
        BY <1>1, <2>1, <2>4, <2>6, <3>1 DEF TypeOK
      <3>2. CASE k # Key(t)
        <4>1. /\ locks'[k] = locks[k] /\ locks[k] \in Lock \ {l}
              /\ locks[k] \notin poisoned
          BY ZenonT(30), <1>1, <2>1, <2>2, <2>6, <2>8, <3>2 DEF TypeOK
        <4>2. participants'[locks[k]] = participants[locks[k]]
          BY ZenonT(30), <1>1, <2>1, <4>1 DEF TypeOK
        <4> QED BY ZenonT(30), <2>5, <2>8, <4>1, <4>2 DEF ExactCount
      <3> QED BY Zenon, <3>1, <3>2
    <2> QED BY Zenon, <1>0, <2>7, <2>8
  <1>6. ASSUME NEW t \in Thread, Leave(t) \/ Abandon(t) PROVE Inv'
    <2>0. PICK l : l = lock[t]
      OBVIOUS
    <2>1. l # NoLock /\ locks[Key(t)] = l
      BY ZenonT(30), <1>1, <1>6, <2>0 DEF Leave, Abandon, JoinedSteps, JoinedLockIsCurrent
    <2>2. /\ participants' = [participants EXCEPT ![l] = @ - 1]
          /\ lock' = [lock EXCEPT ![t] = NoLock]
          /\ UNCHANGED poisoned
          /\ locks' = IF participants[l] = 1
                      THEN [locks EXCEPT ![Key(t)] = NoLock] ELSE locks
      <3>1. Release(t) /\ UNCHANGED poisoned
        BY ZenonT(30), <1>6 DEF Leave, Abandon
      <3> QED BY <2>0, <2>1, <3>1 DEF Release
    <2>3. l \in Lock
      BY <1>1, <2>0, <2>1 DEF TypeOK
    <2>4. t \in Holders(l)
      BY SMTT(30), <2>0 DEF Holders
    <2>5. Left(l) = Holders(l) \ {t}
      BY SMTT(30), <1>1, <2>2, <2>3 DEF Holders, TypeOK
    <2>6. Cardinality(Left(l)) = Cardinality(Holders(l)) - 1
      BY <2>4, <2>5, HoldersFinite
    <2>7. \A m \in Lock \ {l} : Left(m) = Holders(m)
      BY Zenon, <1>1, <2>0, <2>2 DEF Holders, TypeOK
    <2>8. ASSUME NEW k \in Keys, locks'[k] # NoLock
          PROVE  /\ locks'[k] = locks[k]
                 /\ locks[k] = l => participants[l] # 1
      <3>1. CASE participants[l] = 1
        BY SMTT(30), <1>1, <1>2, <2>1, <2>2, <2>8, <3>1 DEF TypeOK, OneKey
      <3>2. CASE participants[l] # 1
        BY <2>2, <3>2
      <3> QED BY Zenon, <3>1, <3>2
    <2>9. OneKey'
      BY ZenonT(30), <2>8 DEF OneKey
    <2>10. ASSUME NEW k \in Keys, locks'[k] # NoLock, locks'[k] \notin poisoned'
          PROVE  Exact(k)
      <3>0. PICK m : m = locks[k]
        BY Zenon
      <3>1. m \in Lock /\ locks'[k] = m /\ participants[m] \in Nat
        BY ZenonT(30), <1>1, <2>8, <2>10, <3>0 DEF TypeOK
      <3>2. participants[m] = Cardinality(Holders(m)) /\ participants[m] >= 1
        BY <2>2, <2>10, <3>0, <3>1 DEF ExactCount
      <3>3. m = l => participants[l] # 1
        BY ZenonT(30), <2>8, <2>10, <3>0
      <3>4. CASE m = l
        BY SMTT(30), <1>1, <2>2, <2>6, <3>1, <3>2, <3>3, <3>4 DEF TypeOK
      <3>5. CASE m # l
        BY ZenonT(30), <1>1, <2>2, <2>7, <3>1, <3>2, <3>5 DEF TypeOK
      <3> QED BY <3>4, <3>5
    <2> QED BY <1>0, <2>9, <2>10
  <1>7. ASSUME NEW t \in Thread, StreamPanic(t) PROVE Inv'
    <2>1. /\ lock' = [lock EXCEPT ![t] = NoLock]
          /\ poisoned' = poisoned \cup {lock[t]}
          /\ UNCHANGED <<locks, participants>>
      BY SMTT(30), <1>7 DEF StreamPanic
    <2>2. \A m \in Lock \ {lock[t]} : Left(m) = Holders(m)
      BY <1>1, <2>1 DEF Holders, TypeOK
    <2>3. \A k \in Keys : locks[k] \in Lock \cup {NoLock}
      BY <1>1 DEF TypeOK
    <2>4. ASSUME NEW k \in Keys PROVE Exact(k)
      BY ZenonT(30), <2>1, <2>2, <2>3 DEF ExactCount
    <2>5. OneKey'
      BY Zenon, <2>1 DEF OneKey
    <2> QED BY ZenonT(30), <1>0, <2>4, <2>5
  <1>8. ASSUME NEW S \in SUBSET Proc, Kill(S) PROVE Inv'
    <2>1. /\ locks' = [k \in Keys |-> IF k[1] \in S THEN NoLock ELSE locks[k]]
          /\ lock' = [t \in Thread |-> IF ProcOf[t] \in S THEN NoLock ELSE lock[t]]
          /\ UNCHANGED <<participants, poisoned>>
      BY <1>8, ZenonT(30) DEF Kill
    <2>2. ASSUME NEW k \in Keys, locks'[k] # NoLock
          PROVE  locks'[k] = locks[k] /\ k[1] \notin S
      BY <2>1, <2>2
    <2>3. ASSUME NEW k \in Keys, locks'[k] # NoLock
          PROVE  Left(locks[k]) = Holders(locks[k])
      <3>1. ASSUME NEW t \in Thread, lock[t] = locks[k] PROVE ProcOf[t] \notin S
        <4>1. Key(t) = k
          BY ZenonT(30), <1>1, <1>2, <2>2, <2>3, <3>1 DEF OneKey, JoinedLockIsCurrent
        <4> QED BY Zenon, <1>2, <2>2, <2>3, <4>1
      <3>2. \A t \in Thread : lock'[t] = locks[k] <=> lock[t] = locks[k]
        BY Zenon, <2>1, <2>2, <2>3, <3>1
      <3> QED BY <3>2 DEF Holders
    <2>4. OneKey'
      BY Zenon, <2>2 DEF OneKey
    <2>5. ASSUME NEW k \in Keys, locks'[k] # NoLock, locks'[k] \notin poisoned'
          PROVE  Exact(k)
      <3>1. locks'[k] = locks[k] /\ locks[k] # NoLock /\ locks[k] \notin poisoned
        BY Zenon, <2>1, <2>2, <2>5
      <3>2. Left(locks[k]) = Holders(locks[k])
        BY Zenon, <2>3, <2>5
      <3>3. /\ participants[locks[k]] = Cardinality(Holders(locks[k]))
            /\ participants[locks[k]] >= 1
        BY <3>1 DEF ExactCount
      <3>4. participants' = participants
        BY <2>1
      <3> HIDE DEF Left
      <3> QED BY Zenon, <3>1, <3>2, <3>3, <3>4
    <2> QED BY <1>0, <2>4, <2>5
  <1> QED BY <1>3, <1>4, <1>5, <1>6, <1>7, <1>8, ZenonT(30)
          DEF Next, ThreadStep, Crash, PowerLoss, Call, Probe, EnterGate, Recheck,
              StreamChunk, StreamEnd, Verify, Persist, FillFails, Unlock, Read,
              ReadFails, vars, lockVars

\* release_download_lock: the map keeps no entry without a reader, unless its
\* holder panicked.
THEOREM NoEntryIsStale == Spec => []NoStaleEntry
  <1>1. Init => OneKey /\ ExactCount
    BY DEF Init, OneKey, ExactCount
  <1>2. CInv /\ OneKey /\ ExactCount /\ [Next]_vars => (OneKey /\ ExactCount)'
    BY EntriesNext
  <1>3. ExactCount => NoStaleEntry
    <2> SUFFICES ASSUME ExactCount, NEW k \in Proc \X Digest, locks[k] # NoLock,
                        locks[k] \notin poisoned
                 PROVE  \E t \in Thread : lock[t] = locks[k]
        BY DEF NoStaleEntry
    <2>1. Cardinality(Holders(locks[k])) >= 1
      BY Zenon DEF ExactCount
    <2>2. Holders(locks[k]) # {}
      BY <2>1, FS_EmptySet
    <2> QED BY <2>2 DEF Holders
  <1> QED BY <1>1, <1>2, <1>3, CacheInvariant, PTL DEF Spec

-----------------------------------------------------------------------------
\* The cache implements BlobService: a fill that is admitted is Fetch, a read of
\* the entry is Return, every error is Fail, a panic, a crash or a power loss is
\* Vanish, and all else is invisible to the caller.
Okay == [st : {"ok"}, bytes : Seq(Chunk), downloaded : BOOLEAN]

\* What a thread knows about its call at each step.
Undecided == {"probe", "join", "gate", "recheck", "stream", "verify", "persist",
              "abandon"}
ResultAt(p, r) ==
    /\ p \in Undecided => r = None
    /\ p \in {"unlock", "leave"} => r \in {Hit, Filled, Err}
    /\ p = "read" => r \in {Hit, Filled}
    /\ p = "idle" => r \in {None, Err} \cup Okay
ResultSteps == \A t \in Thread : ResultAt(pc[t], result[t])

\* The outcomes are different from one another.
LEMMA Outcomes ==
  /\ None # Hit /\ None # Filled /\ None # Err
  /\ Hit # Filled /\ Hit # Err /\ Filled # Err
  /\ \A r \in Okay : r # None /\ r # Hit /\ r # Filled /\ r # Err
  BY DEF None, Hit, Filled, Err, Okay

\* Which outcomes go with which steps.
LEMMA ResultValues ==
  ASSUME NEW r
  PROVE  /\ \A p \in Undecided : ResultAt(p, r) <=> r = None
         /\ \A p \in {"unlock", "leave"} : ResultAt(p, r) <=> r \in {Hit, Filled, Err}
         /\ ResultAt("read", r) <=> r \in {Hit, Filled}
         /\ ResultAt("idle", r) <=> r \in {None, Err} \cup Okay
  <1> HIDE DEF Okay
  <1> QED BY DEF ResultAt, Undecided

\* Init: no thread has called.
LEMMA ResultInit == Init => ResultSteps
  BY ResultValues DEF Init, ResultSteps

\* Every step keeps the outcome in line with where the thread is.
LEMMA ResultNext ==
  ASSUME CInv, ResultSteps, [Next]_vars
  PROVE  ResultSteps'
  <1>1. /\ pc \in [Thread -> Control]
        /\ result \in [Thread -> Outcome]
        /\ cache \in [Digest -> File \cup {NoFile}]
    BY Zenon DEF CInv, TypeOK
  <1>2. ASSUME NEW t \in Thread, NEW label, NEW r,
               Goto(t, label), result' = [result EXCEPT ![t] = r], ResultAt(label, r)
        PROVE  ResultSteps'
    <2> SUFFICES ASSUME NEW u \in Thread
                 PROVE  ResultAt(pc'[u], result'[u])
      BY Zenon DEF ResultSteps
    <2>1. CASE u = t
      <3>1. pc'[u] = label /\ result'[u] = r
        BY <1>1, <1>2, <2>1 DEF Goto
      <3> QED BY Zenon, <1>2, <3>1
    <2>2. CASE u # t
      <3>1. pc'[u] = pc[u] /\ result'[u] = result[u]
        BY <1>1, <1>2, <2>2 DEF Goto
      <3> QED BY Zenon, <3>1 DEF ResultSteps
    <2> QED BY <2>1, <2>2
  <1>3. ASSUME NEW t \in Thread, NEW label, Goto(t, label), UNCHANGED result,
               ResultAt(label, result[t])
        PROVE  ResultSteps'
    <2>1. result' = [result EXCEPT ![t] = result[t]]
      BY <1>1, <1>3
    <2> QED BY Zenon, <1>2, <1>3, <2>1
  <1>4. ASSUME NEW t \in Thread, NEW r, EndFill(t, r), r \in {Hit, Filled, Err}
        PROVE  ResultSteps'
    <2>1. ResultAt("unlock", r)
      BY Zenon, <1>4, ResultValues
    <2> QED BY Zenon, <1>2, <1>4, <2>1 DEF EndFill
  <1>5. ASSUME NEW t \in Thread, pc[t] \in Undecided, NEW label \in Undecided,
               Goto(t, label), UNCHANGED result
        PROVE  ResultSteps'
    <2>1. result[t] = None
      BY Zenon, <1>5, ResultValues DEF ResultSteps
    <2> QED BY Zenon, <1>3, <1>5, <2>1, ResultValues
  <1>6. ASSUME NEW t \in Thread, NEW r, Goto(t, "idle"),
               result' = [result EXCEPT ![t] = r], r \in {None, Err} \cup Okay
        PROVE  ResultSteps'
    BY Zenon, <1>2, <1>6, ResultValues
  <1>7. ASSUME NEW t \in Thread, Call(t)
        PROVE  ResultSteps'
    <2>1. ResultAt("probe", None)
      BY Zenon, ResultValues DEF Undecided
    <2> QED BY Zenon, <1>2, <1>7, <2>1 DEF Call
  <1>8. ASSUME NEW t \in Thread, Probe(t)
        PROVE  ResultSteps'
    <2>1. ResultAt("read", Hit)
      BY Zenon, ResultValues
    <2> QED BY Zenon, <1>2, <1>5, <1>8, <2>1 DEF Probe, Undecided
  <1>9. ASSUME NEW t \in Thread, JoinExisting(t) \/ JoinNew(t)
        PROVE  ResultSteps'
    BY Zenon, <1>5, <1>9 DEF JoinExisting, JoinNew, Undecided
  <1>10. ASSUME NEW t \in Thread, EnterGate(t)
         PROVE  ResultSteps'
    BY Zenon, <1>5, <1>10 DEF EnterGate, Undecided
  <1>11. ASSUME NEW t \in Thread, Recheck(t)
         PROVE  ResultSteps'
    BY Zenon, <1>4, <1>5, <1>11 DEF Recheck, Undecided
  <1>12. ASSUME NEW t \in Thread, StreamChunk(t)
         PROVE  ResultSteps'
    BY Zenon, <1>4, <1>12 DEF StreamChunk, ResultSteps
  <1>13. ASSUME NEW t \in Thread, StreamEnd(t)
         PROVE  ResultSteps'
    BY Zenon, <1>5, <1>13 DEF StreamEnd, Undecided
  <1>14. ASSUME NEW t \in Thread, StreamPanic(t)
         PROVE  ResultSteps'
    BY Zenon, <1>6, <1>14 DEF StreamPanic
  <1>15. ASSUME NEW t \in Thread, Verify(t)
         PROVE  ResultSteps'
    BY Zenon, <1>4, <1>5, <1>15 DEF Verify, Undecided
  <1>16. ASSUME NEW t \in Thread, Persist(t) \/ FillFails(t)
         PROVE  ResultSteps'
    BY Zenon, <1>4, <1>16 DEF Persist, FillFails
  <1>17. ASSUME NEW t \in Thread, Unlock(t)
         PROVE  ResultSteps'
    <2>1. ResultAt("leave", result[t])
      BY Zenon, <1>17, ResultValues DEF Unlock, ResultSteps
    <2> QED BY Zenon, <1>3, <1>17, <2>1 DEF Unlock
  <1>18. ASSUME NEW t \in Thread, Leave(t)
         PROVE  ResultSteps'
    <2>1. result[t] \in {Hit, Filled, Err}
      BY Zenon, <1>18, ResultValues DEF Leave, ResultSteps
    <2>2. ResultAt(IF result[t] = Err THEN "idle" ELSE "read", result[t])
      BY Zenon, <2>1, ResultValues
    <2> QED BY Zenon, <1>3, <1>18, <2>2 DEF Leave
  <1>19. ASSUME NEW t \in Thread, Abandon(t) \/ ReadFails(t)
         PROVE  ResultSteps'
    BY Zenon, <1>6, <1>19 DEF Abandon, ReadFails
  <1>20. ASSUME NEW t \in Thread, Read(t)
         PROVE  ResultSteps'
    <2>1. cache[dig[t]].bytes \in Seq(Chunk)
      <3>1. dig[t] \in Digest
        BY Zenon DEF CInv, TypeOK
      <3>2. cache[dig[t]] # NoFile
        BY Zenon, <1>20 DEF Read, Cached
      <3> QED BY <1>1, <3>1, <3>2 DEF File
    <2>2. Ok(cache[dig[t]].bytes, result[t] = Filled) \in Okay
      BY <2>1 DEF Ok, Okay
    <2> QED BY Zenon, <1>6, <1>20, <2>2 DEF Read
  <1>21. ASSUME NEW S, Kill(S)
         PROVE  ResultSteps'
    <2> SUFFICES ASSUME NEW t \in Thread
                 PROVE  ResultAt(pc'[t], result'[t])
      BY Zenon DEF ResultSteps
    <2>1. ResultAt("idle", None) /\ ResultAt(pc[t], result[t])
      BY Zenon, ResultValues DEF ResultSteps
    <2>2. /\ pc'[t] = IF ProcOf[t] \in S THEN "idle" ELSE pc[t]
          /\ result'[t] = IF ProcOf[t] \in S THEN None ELSE result[t]
      BY Zenon, <1>21 DEF Kill
    <2> QED BY Zenon, <2>1, <2>2
  <1>22. CASE UNCHANGED vars
    BY Zenon, <1>22 DEF vars, ResultSteps
  <1> QED
    BY Zenon, <1>7, <1>8, <1>9, <1>10, <1>11, <1>12, <1>13, <1>14, <1>15, <1>16,
       <1>17, <1>18, <1>19, <1>20, <1>21, <1>22
       DEF Next, ThreadStep, Crash, PowerLoss

\* The call a caller sees is decided by the thread's step and outcome: it is
\* in progress until read_blob returns,
LEMMA CallInProgress ==
  ASSUME NEW p, NEW r, NEW d, p # "idle"
  PROVE  CallOf(p, r, d) = [st |-> IF r = Filled THEN "fetched" ELSE "waiting",
                            dig |-> d]
  BY Zenon DEF CallOf

\* is forgotten by a caller that died or never called,
LEMMA CallForgotten ==
  ASSUME NEW d
  PROVE  CallOf("idle", None, d) = [st |-> "idle"]
  BY Zenon, Outcomes DEF CallOf

\* and ends with an error
LEMMA CallFailed ==
  ASSUME NEW d
  PROVE  CallOf("idle", Err, d) = [st |-> "err", dig |-> d]
  BY Zenon, Outcomes DEF CallOf

\* or with the bytes.
LEMMA CallAnswered ==
  ASSUME NEW r \in Okay, NEW d
  PROVE  CallOf("idle", r, d) = [st |-> "ok", dig |-> d, bytes |-> r.bytes,
                                 downloaded |-> r.downloaded]
  BY Zenon, Outcomes DEF CallOf

\* The fields of a call in progress, and of one that was answered.
LEMMA CallFields ==
  ASSUME NEW c, NEW st, NEW d, c = [st |-> st, dig |-> d]
  PROVE  c.st = st /\ c.dig = d
  BY Zenon
LEMMA AnswerFields ==
  ASSUME NEW c, NEW st, NEW d, NEW b, NEW own,
         c = [st |-> st, dig |-> d, bytes |-> b, downloaded |-> own]
  PROVE  c.st = st /\ c.dig = d /\ c.bytes = b /\ c.downloaded = own
  BY Zenon

\* Nobody has called yet.
LEMMA ServiceInit == Init => Service!Init
  <1> SUFFICES ASSUME Init PROVE Service!Init
      OBVIOUS
  <1>1. \A t \in Thread : ServiceCall(t) = [st |-> "idle"]
    BY Zenon, CallForgotten DEF Init, ServiceCall
  <1> QED BY <1>1 DEF Service!Init, Service!Idle

Calls == [t \in Thread |-> ServiceCall(t)]
Available == {d \in Digest : Cached(d)}

\* The thread goes to label with outcome r, for digest d.
Becomes(t, label, r, d) ==
    /\ pc' = [pc EXCEPT ![t] = label]
    /\ result' = [result EXCEPT ![t] = r]
    /\ dig' = [dig EXCEPT ![t] = d]

\* A step of one thread changes at most that thread's call.
LEMMA OneCallChanges ==
  ASSUME TypeOK, NEW t \in Thread, NEW label, NEW r, NEW d,
         Becomes(t, label, r, d)
  PROVE  Calls' = [Calls EXCEPT ![t] = CallOf(label, r, d)]
  <1>1. ASSUME NEW u \in Thread
        PROVE  ServiceCall(u)' = IF u = t THEN CallOf(label, r, d) ELSE ServiceCall(u)
    <2>1. CASE u = t
      <3>1. pc'[u] = label /\ result'[u] = r /\ dig'[u] = d
        BY Zenon, <2>1 DEF TypeOK, Becomes
      <3> QED BY <2>1, <3>1 DEF ServiceCall
    <2>2. CASE u # t
      <3>1. pc'[u] = pc[u] /\ result'[u] = result[u] /\ dig'[u] = dig[u]
        BY <2>2 DEF TypeOK, Becomes
      <3> QED BY SMTT(30), <2>2, <3>1 DEF ServiceCall
    <2> QED BY Zenon, <2>1, <2>2
  <1> QED BY ZenonT(30), <1>1 DEF Calls

\* Before the file has its final name, and between the outcome and the return,
\* the caller sees nothing.
Invisible(t) ==
    \/ Probe(t) \/ JoinExisting(t) \/ JoinNew(t) \/ EnterGate(t) \/ Recheck(t)
    \/ StreamChunk(t) \/ StreamEnd(t) \/ Verify(t) \/ FillFails(t) \/ Unlock(t)
    \/ (Leave(t) /\ result[t] # Err)

LEMMA InvisibleSteps ==
  ASSUME TypeOK, ResultSteps, NEW t \in Thread, Invisible(t)
  PROVE  UNCHANGED <<Available, Calls>>
  <1>1. UNCHANGED <<cache, dig>>
    BY Zenon DEF Invisible, Probe, JoinExisting, JoinNew, EnterGate, Recheck,
           StreamChunk, StreamEnd, Verify, FillFails, Unlock, Leave
  <1>2. pc[t] # "idle"
    BY Zenon DEF Invisible, Probe, JoinExisting, JoinNew, EnterGate, Recheck,
           StreamChunk, StreamEnd, Verify, FillFails, Unlock, Leave
  <1>3. \E label \in Control \ {"idle"} : pc' = [pc EXCEPT ![t] = label]
    <2>1. pc = [pc EXCEPT ![t] = pc[t]] /\ pc[t] \in Control \ {"idle"}
      BY <1>2 DEF TypeOK
    <2>2. CASE StreamChunk(t)
      BY ZenonT(30), <2>1, <2>2 DEF StreamChunk, EndFill, Goto, Control
    <2>3. CASE EnterGate(t)
      BY ZenonT(30), <2>3 DEF EnterGate, Goto, Control
    <2>4. CASE Leave(t) /\ result[t] # Err
      BY ZenonT(30), <2>4 DEF Leave, Goto, Control
    <2> QED
      BY ZenonT(30), <2>2, <2>3, <2>4 DEF Invisible, Probe, JoinExisting, JoinNew, Recheck,
         StreamEnd, Verify, FillFails, Unlock, EndFill, Goto, Control
  <1>4. \E r : /\ result' = [result EXCEPT ![t] = r]
               /\ r = Filled <=> result[t] = Filled
    <2>1. result = [result EXCEPT ![t] = result[t]]
      BY DEF TypeOK
    <2>2. CASE UNCHANGED result
      BY <2>1, <2>2
    <2>3. CASE pc[t] \in {"probe", "recheck", "stream", "verify", "persist"}
               /\ \E r \in {Hit, Err} : result' = [result EXCEPT ![t] = r]
      <3>1. result[t] = None
        BY ZenonT(30), <2>3, ResultValues DEF ResultSteps, Undecided
      <3> QED BY Zenon, <2>3, <3>1, Outcomes
    <2> QED
      BY ZenonT(30), <2>2, <2>3 DEF Invisible, Probe, JoinExisting, JoinNew, EnterGate,
         Recheck, StreamChunk, StreamEnd, Verify, FillFails, Unlock, Leave, EndFill
  <1>5. PICK label \in Control \ {"idle"} : pc' = [pc EXCEPT ![t] = label]
    BY ZenonT(30), <1>3
  <1>6. PICK r : /\ result' = [result EXCEPT ![t] = r]
                 /\ r = Filled <=> result[t] = Filled
    BY ZenonT(30), <1>4
  <1>7. CallOf(label, r, dig[t]) = ServiceCall(t)
    <2>1. label # "idle"
      BY Zenon, <1>5
    <2>2. CallOf(label, r, dig[t]) =
            [st |-> IF r = Filled THEN "fetched" ELSE "waiting", dig |-> dig[t]]
      BY Zenon, <2>1, CallInProgress
    <2>3. ServiceCall(t) = [st |-> IF result[t] = Filled THEN "fetched" ELSE "waiting",
                            dig |-> dig[t]]
      BY Zenon, <1>2, CallInProgress DEF ServiceCall
    <2>4. CASE r = Filled
      <3>1. result[t] = Filled
        BY ONLY <1>6, <2>4
      <3> QED BY Zenon, <2>2, <2>3, <2>4, <3>1
    <2>5. CASE r # Filled
      <3>1. result[t] # Filled
        BY ONLY Zenon, <1>6, <2>5
      <3> QED BY Zenon, <2>2, <2>3, <2>5, <3>1
    <2> QED BY Zenon, <2>4, <2>5
  <1>8. dig' = [dig EXCEPT ![t] = dig[t]]
    BY <1>1 DEF TypeOK
  <1>9. Calls' = [Calls EXCEPT ![t] = ServiceCall(t)]
    <2>1. Calls' = [Calls EXCEPT ![t] = CallOf(label, r, dig[t])]
      <3>1. Becomes(t, label, r, dig[t])
        BY Zenon, <1>5, <1>6, <1>8 DEF Becomes
      <3> QED BY Zenon, <3>1, OneCallChanges
    <2> QED BY <1>7, <2>1
  <1> QED BY ZenonT(30), <1>1, <1>9 DEF Calls, Available, Cached

\* Every step of the cache is a step of the service, or invisible.
LEMMA ServiceNext ==
  ASSUME CInv, ResultSteps, [Next]_vars
  PROVE  [Service!Next]_(Service!bsVars)
  <1>1. TypeOK /\ VerifiedEntries
    BY DEF CInv, DataInv
  <1>2. ASSUME UNCHANGED <<Available, Calls>>
        PROVE  UNCHANGED Service!bsVars
    BY <1>2 DEF Available, Calls, Service!bsVars
  <1>3. ASSUME NEW t \in Thread, Call(t)
        PROVE  Service!Request(t)
    <2>1. PICK d \in Digest : dig' = [dig EXCEPT ![t] = d]
      BY ZenonT(30), <1>3 DEF Call
    <2>2. Calls' = [Calls EXCEPT ![t] = CallOf("probe", None, d)]
      <3>1. Becomes(t, "probe", None, d)
        BY Zenon, <1>3, <2>1 DEF Call, Goto, Becomes
      <3> QED BY Zenon, <1>1, <3>1, OneCallChanges
    <2>3. CallOf("probe", None, d) = [st |-> "waiting", dig |-> d]
      <3>1. "probe" # "idle"
        OBVIOUS
      <3> QED BY Zenon, <3>1, CallInProgress, Outcomes
    <2>4. ServiceCall(t).st \notin {"waiting", "fetched"}
      <3>1. pc[t] = "idle" /\ result[t] \in {None, Err} \cup Okay
        BY Zenon, <1>3, ResultValues DEF Call, ResultSteps
      <3>2. ServiceCall(t).st \in {"idle", "err", "ok"}
        <4>1. CASE result[t] = None
          BY SMTT(30), <3>1, <4>1, CallForgotten DEF ServiceCall
        <4>2. CASE result[t] = Err
          BY SMTT(30), <3>1, <4>2, CallFailed DEF ServiceCall
        <4>3. CASE result[t] \in Okay
          BY <3>1, <4>3, CallAnswered DEF ServiceCall
        <4> QED BY Zenon, <3>1, <4>1, <4>2, <4>3
      <3> QED BY Zenon, <3>2
    <2> QED
      BY ZenonT(30), <1>3, <2>2, <2>3, <2>4
         DEF Call, Calls, Cached, Service!Request, Service!InProgress, Service!Waiting
  <1>4. ASSUME NEW t \in Thread, Persist(t)
        PROVE  Service!Fetch(t)
    <2>1. ServiceCall(t) = [st |-> "waiting", dig |-> dig[t]]
      <3>1. pc[t] = "persist" /\ result[t] = None
        BY Zenon, <1>4, ResultValues DEF Persist, ResultSteps, Undecided
      <3>2. pc[t] # "idle" /\ result[t] # Filled
        BY Zenon, <3>1, Outcomes
      <3> QED BY Zenon, <3>2, CallInProgress DEF ServiceCall
    <2>2. dig' = [dig EXCEPT ![t] = dig[t]]
      BY <1>1, <1>4 DEF Persist, TypeOK
    <2>3. Calls' = [Calls EXCEPT ![t] = CallOf("unlock", Filled, dig[t])]
      <3>1. Becomes(t, "unlock", Filled, dig[t])
        BY Zenon, <1>4, <2>2 DEF Persist, EndFill, Goto, Becomes
      <3> QED BY Zenon, <1>1, <3>1, OneCallChanges
    <2>4. CallOf("unlock", Filled, dig[t]) = [st |-> "fetched", dig |-> dig[t]]
      <3>1. "unlock" # "idle"
        OBVIOUS
      <3> QED BY Zenon, <3>1, CallInProgress
    <2>5. Available' = Available \cup {dig[t]}
      <3>1. dig[t] \in Digest
        BY Zenon, <1>1 DEF TypeOK
      <3>2. \A d \in Digest : Cached(d)' <=> Cached(d) \/ d = dig[t]
        <4> DEFINE file == [bytes |-> pending[t], durable |-> TRUE, by |-> t]
        <4>1. file # NoFile
          <5>1. pending[t] \in Seq(Chunk)
            BY Zenon, <1>1 DEF TypeOK
          <5>2. file \in File
            BY Zenon, <5>1 DEF File
          <5> QED BY ZenonT(30), <5>2, FileAssumption
        <4>2. cache' = [cache EXCEPT ![dig[t]] = IF Cached(dig[t]) THEN @ ELSE file]
          BY <1>4 DEF Persist
        <4> HIDE DEF file
        <4> QED BY <1>1, <3>1, <4>1, <4>2 DEF Cached, TypeOK
      <3> QED BY Zenon, <3>1, <3>2 DEF Available
    <2> QED
      <3>1. Calls[t] = [st |-> "waiting", dig |-> dig[t]]
        BY Zenon, <2>1 DEF Calls
      <3>2. Calls[t].st = "waiting" /\ Calls[t].dig = dig[t]
        BY <3>1
      <3>3. Calls' = [Calls EXCEPT ![t] = [st |-> "fetched", dig |-> Calls[t].dig]]
        BY ZenonT(30), <2>3, <2>4, <3>2
      <3>4. Available' = Available \cup {Calls[t].dig}
        BY Zenon, <2>5, <3>2
      <3> QED
        BY ZenonT(30), <3>2, <3>3, <3>4
           DEF Calls, Available, Service!Fetch, Service!Fetched
  <1>5. ASSUME NEW t \in Thread, Read(t)
        PROVE  Service!Return(t)
    <2> DEFINE file == cache[dig[t]]
               own == result[t] = Filled
    <2>1. dig[t] \in Available /\ file.bytes \in Seq(Chunk)
          /\ DigestOf(file.bytes) = dig[t]
      <3>1. dig[t] \in Digest /\ cache \in [Digest -> File \cup {NoFile}]
        BY Zenon, <1>1 DEF TypeOK
      <3>2. Cached(dig[t])
        BY Zenon, <1>5 DEF Read
      <3>3. DigestOf(file.bytes) = dig[t]
        BY ZenonT(30), <1>1, <3>1, <3>2 DEF VerifiedEntries
      <3>4. file.bytes \in Seq(Chunk)
        BY <3>1, <3>2 DEF Cached, File
      <3> QED BY Zenon, <3>1, <3>2, <3>3, <3>4 DEF Available
    <2>2. ServiceCall(t) = [st |-> IF own THEN "fetched" ELSE "waiting", dig |-> dig[t]]
      <3>1. pc[t] # "idle"
        BY Zenon, <1>5 DEF Read
      <3> QED BY Zenon, <3>1, CallInProgress DEF ServiceCall
    <2>3. dig' = [dig EXCEPT ![t] = dig[t]]
      BY <1>1, <1>5 DEF Read, TypeOK
    <2>4. Calls' = [Calls EXCEPT ![t] = CallOf("idle", Ok(file.bytes, own), dig[t])]
      <3> DEFINE answer == Ok(file.bytes, own)
      <3>1. pc' = [pc EXCEPT ![t] = "idle"] /\ result' = [result EXCEPT ![t] = answer]
        BY Zenon, <1>5 DEF Read, Goto
      <3> HIDE DEF answer
      <3>2. Calls' = [Calls EXCEPT ![t] = CallOf("idle", answer, dig[t])]
        <4>1. Becomes(t, "idle", answer, dig[t])
          BY Zenon, <2>3, <3>1 DEF Becomes
        <4> QED BY ZenonT(30), <1>1, <4>1, OneCallChanges
      <3> QED BY Zenon, <3>2 DEF answer
    <2>5. Ok(file.bytes, own) \in Okay
      BY <2>1 DEF Ok, Okay
    <2>6. CallOf("idle", Ok(file.bytes, own), dig[t])
             = [st |-> "ok", dig |-> dig[t], bytes |-> file.bytes, downloaded |-> own]
      <3>1. Ok(file.bytes, own).bytes = file.bytes /\ Ok(file.bytes, own).downloaded = own
        BY Zenon DEF Ok
      <3> HIDE DEF own, file
      <3> QED BY Zenon, <2>5, <3>1, CallAnswered
    <2> HIDE DEF own, file
    <2>7. Calls'[t] = [st |-> "ok", dig |-> dig[t], bytes |-> file.bytes,
                       downloaded |-> own]
      BY <2>4, <2>6 DEF Calls
    <2>8. Calls' = [Calls EXCEPT ![t] = Calls'[t]]
      BY ZenonT(30), <2>4, <2>6, <2>7
    <2> QED
      <3>1. Calls[t] = [st |-> IF own THEN "fetched" ELSE "waiting", dig |-> dig[t]]
        BY Zenon, <2>2 DEF Calls
      <3>a. /\ Calls[t].st = (IF own THEN "fetched" ELSE "waiting")
            /\ Calls[t].dig = dig[t]
        BY Zenon, <3>1, CallFields
      <3>2. Calls[t].st \in {"waiting", "fetched"} /\ Calls[t].dig \in Available
        BY Zenon, <2>1, <3>a
      <3>3. Calls'[t].st = "ok" /\ Calls'[t].bytes = file.bytes
        <4> DEFINE c == Calls'[t]
                   d == dig[t]
                   b == file.bytes
        <4>1. c = [st |-> "ok", dig |-> d, bytes |-> b, downloaded |-> own]
          BY Zenon, <2>7
        <4> HIDE DEF c, d, b
        <4>2. c.st = "ok" /\ c.bytes = b
          BY Zenon, <4>1, AnswerFields
        <4> QED BY Zenon, <4>2 DEF c, b
      <3>4. own = (Calls[t].st = "fetched")
        BY <3>a DEF own
      <3>5. Calls'[t] = [st |-> "ok", dig |-> Calls[t].dig, bytes |-> Calls'[t].bytes,
                         downloaded |-> Calls[t].st = "fetched"]
        BY ZenonT(30), <2>7, <3>3, <3>4, <3>a
      <3>6. Calls'[t].bytes \in Seq(Chunk) /\ DigestOf(Calls'[t].bytes) = Calls[t].dig
        BY Zenon, <2>1, <3>a, <3>3
      <3>7. UNCHANGED Available
        BY Zenon, <1>5 DEF Read, Available, Cached
      <3> QED
        BY ZenonT(30), <3>2, <3>3, <3>5, <3>6, <3>7, <2>8
           DEF Calls, Available, Service!Return, Service!InProgress, Service!Answer
  <1>6. ASSUME NEW t \in Thread, ReadFails(t) \/ Abandon(t) \/ (Leave(t) /\ result[t] = Err)
        PROVE  Service!Fail(t)
    <2>1. pc[t] # "idle" /\ UNCHANGED <<cache, dig>>
      BY Zenon, <1>6 DEF ReadFails, Abandon, Leave
    <2>2. ServiceCall(t).st \in {"waiting", "fetched"} /\ ServiceCall(t).dig = dig[t]
      <3>1. ServiceCall(t) = [st |-> IF result[t] = Filled THEN "fetched" ELSE "waiting",
                              dig |-> dig[t]]
        BY Zenon, <2>1, CallInProgress DEF ServiceCall
      <3> QED BY Zenon, <3>1, CallFields
    <2>3. dig' = [dig EXCEPT ![t] = dig[t]]
      BY Zenon, <1>1, <2>1 DEF TypeOK
    <2>4. pc' = [pc EXCEPT ![t] = "idle"] /\ result' = [result EXCEPT ![t] = Err]
      <3>1. CASE ReadFails(t)
        BY Zenon, <3>1 DEF ReadFails, Goto
      <3>2. CASE Abandon(t)
        BY Zenon, <3>2 DEF Abandon, Goto
      <3>3. CASE Leave(t) /\ result[t] = Err
        BY Zenon, <1>1, <3>3 DEF Leave, Goto, TypeOK
      <3> QED BY Zenon, <1>6, <3>1, <3>2, <3>3
    <2>5. Calls' = [Calls EXCEPT ![t] = CallOf("idle", Err, dig[t])]
      <3>1. Becomes(t, "idle", Err, dig[t])
        BY Zenon, <2>3, <2>4 DEF Becomes
      <3> QED BY Zenon, <1>1, <3>1, OneCallChanges
    <2>6. CallOf("idle", Err, dig[t]) = [st |-> "err", dig |-> dig[t]]
      BY Zenon, CallFailed
    <2> QED
      BY ZenonT(30), <2>1, <2>2, <2>5, <2>6
         DEF Calls, Cached, Service!Fail, Service!InProgress, Service!Failed
  <1>7. ASSUME NEW t \in Thread, StreamPanic(t)
        PROVE  Service!Vanish
    <2>1. dig' = [dig EXCEPT ![t] = dig[t]] /\ UNCHANGED cache
      BY SMTT(30), <1>1, <1>7 DEF StreamPanic, TypeOK
    <2>2. Calls' = [Calls EXCEPT ![t] = CallOf("idle", None, dig[t])]
      <3>1. Becomes(t, "idle", None, dig[t])
        BY Zenon, <1>7, <2>1 DEF StreamPanic, Goto, Becomes
      <3> QED BY Zenon, <1>1, <3>1, OneCallChanges
    <2>3. CallOf("idle", None, dig[t]) = [st |-> "idle"]
      BY Zenon, CallForgotten
    <2>4. Calls' = [u \in Thread |-> IF u \in {t} THEN [st |-> "idle"] ELSE Calls[u]]
      BY ZenonT(30), <2>2, <2>3 DEF Calls
    <2>5. Available' = Available /\ {t} \in SUBSET Thread
      BY <2>1 DEF Available, Cached
    <2> QED BY ZenonT(30), <2>4, <2>5 DEF Calls, Available, Service!Vanish, Service!Idle
  <1>0. ASSUME NEW S \in SUBSET Proc, Kill(S)
        PROVE  Calls' = [t \in Thread |-> IF ProcOf[t] \in S THEN [st |-> "idle"]
                                          ELSE Calls[t]]
    <2> SUFFICES ASSUME NEW t \in Thread
                 PROVE  ServiceCall(t)' = IF ProcOf[t] \in S THEN [st |-> "idle"]
                                          ELSE ServiceCall(t)
      BY Zenon DEF Calls
    <2>1. pc'[t] = IF ProcOf[t] \in S THEN "idle" ELSE pc[t]
      BY Zenon, <1>0 DEF Kill
    <2>2. result'[t] = IF ProcOf[t] \in S THEN None ELSE result[t]
      BY Zenon, <1>0 DEF Kill
    <2>3. dig'[t] = dig[t]
      BY Zenon, <1>0 DEF Kill
    <2> QED BY Zenon, <2>1, <2>2, <2>3, CallForgotten DEF ServiceCall
  <1>8. ASSUME NEW p \in Proc, Crash(p)
        PROVE  Service!Vanish
    <2> DEFINE gone == {t \in Thread : ProcOf[t] \in {p}}
    <2>1. Calls' = [t \in Thread |-> IF t \in gone THEN [st |-> "idle"] ELSE Calls[t]]
      BY ZenonT(30), <1>0, <1>8 DEF Crash
    <2>2. Available' = Available /\ gone \in SUBSET Thread
      BY Zenon, <1>8 DEF Crash, Available, Cached
    <2> HIDE DEF gone
    <2> QED BY Zenon, <2>1, <2>2 DEF Calls, Available, Service!Vanish, Service!Idle
  <1>9. ASSUME PowerLoss
        PROVE  Service!Vanish
    <2>1. Calls' = [t \in Thread |-> IF ProcOf[t] \in Proc THEN [st |-> "idle"]
                                     ELSE Calls[t]]
      BY Zenon, <1>0, <1>9 DEF PowerLoss
    <2>2. Calls' = [t \in Thread |-> IF t \in Thread THEN [st |-> "idle"] ELSE Calls[t]]
      <3>1. \A t \in Thread : ProcOf[t] \in Proc
        BY ProcAssumption
      <3> QED BY Zenon, <2>1, <3>1
    <2>3. Available' \in SUBSET Available
      BY <1>9 DEF PowerLoss, Available, Cached
    <2>4. Thread \in SUBSET Thread
      OBVIOUS
    <2> QED BY <2>2, <2>3, <2>4 DEF Calls, Available, Service!Vanish, Service!Idle
  <1>10. ASSUME NEW t \in Thread, Invisible(t)
         PROVE  UNCHANGED Service!bsVars
    BY Zenon, <1>1, <1>2, <1>10, InvisibleSteps
  <1>11. CASE UNCHANGED vars
    BY <1>11 DEF vars, Service!bsVars, ServiceCall, Cached
  <1>12. ASSUME NEW t \in Thread, ThreadStep(t)
         PROVE  [Service!Next]_(Service!bsVars)
    BY ZenonT(30), <1>4, <1>5, <1>6, <1>7, <1>10, <1>12 DEF ThreadStep, Invisible, Service!Next
  <1> QED BY SMTT(30), <1>3, <1>8, <1>9, <1>11, <1>12 DEF Next, Service!Next

\* read_blob answers, whatever the order of readers, fills, panics, crashes and
\* power losses, as BlobService says: verified bytes of an available entry,
\* called downloaded exactly when this call's own fill was admitted, or an
\* error.
THEOREM CacheImplements == Spec => ImplementsBlobService
  <1>1. Spec => []ResultSteps
    <2>1. ResultSteps /\ CInv /\ [Next]_vars => ResultSteps'
      BY ResultNext
    <2> QED BY <2>1, ResultInit, CacheInvariant, PTL DEF Spec
  <1>2. CInv /\ ResultSteps /\ [Next]_vars => [Service!Next]_(Service!bsVars)
    BY ServiceNext
  <1> QED
    BY <1>1, <1>2, ServiceInit, CacheInvariant, PTL
       DEF Spec, ImplementsBlobService, Service!Spec
===============================================================================
