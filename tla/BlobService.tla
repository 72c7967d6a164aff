----------------------------- MODULE BlobService -----------------------------
(***************************************************************************)
(* What the verified blob cache promises to its callers, without its       *)
(* mechanism: a read of a digest either returns bytes that hash to that    *)
(* digest, from an entry that is available at that moment, or fails.  The  *)
(* flag returned with the bytes says whether this very call fetched them.  *)
(* CachedBlobStore implements this module.                                 *)
(***************************************************************************)
EXTENDS Naturals, Sequences

CONSTANTS
    Thread,     \* callers of the service
    Digest,     \* the digests they ask for
    Chunk,      \* units a blob is streamed in
    DigestOf(_) \* the digest of a sequence of chunks

VARIABLES
    avail,      \* digests with an admitted entry
    call        \* per caller: the call in progress, or the last answer

bsVars == <<avail, call>>

Idle == [st |-> "idle"]
Waiting(d) == [st |-> "waiting", dig |-> d]
Fetched(d) == [st |-> "fetched", dig |-> d]
Answer(d, bytes, dl) ==
    [st |-> "ok", dig |-> d, bytes |-> bytes, downloaded |-> dl]
Failed(d) == [st |-> "err", dig |-> d]

InProgress(t) == call[t].st \in {"waiting", "fetched"}

Init ==
    /\ avail \in SUBSET Digest
    /\ call = [t \in Thread |-> Idle]

Request(t) ==
    /\ ~InProgress(t)
    /\ \E d \in Digest : call' = [call EXCEPT ![t] = Waiting(d)]
    /\ UNCHANGED avail

\* The caller's own fetch is complete, verified and admitted.
Fetch(t) ==
    /\ call[t].st = "waiting"
    /\ call' = [call EXCEPT ![t] = Fetched(call[t].dig)]
    /\ avail' = avail \cup {call[t].dig}

\* The bytes hash to the digest asked for; the state after the step holds them.
Return(t) ==
    /\ InProgress(t)
    /\ call[t].dig \in avail
    /\ call'[t].st = "ok"
    /\ call'[t] = Answer(call[t].dig, call'[t].bytes, call[t].st = "fetched")
    /\ call'[t].bytes \in Seq(Chunk)
    /\ DigestOf(call'[t].bytes) = call[t].dig
    /\ call' = [call EXCEPT ![t] = call'[t]]
    /\ UNCHANGED avail

Fail(t) ==
    /\ InProgress(t)
    /\ call' = [call EXCEPT ![t] = Failed(call[t].dig)]
    /\ UNCHANGED avail

\* The calling process dies, or the machine loses power: calls vanish, and a
\* power loss, which ends every caller, may take entries with it.
Vanish ==
    \E gone \in SUBSET Thread :
        /\ call' = [t \in Thread |-> IF t \in gone THEN Idle ELSE call[t]]
        /\ avail' \in SUBSET avail
        /\ avail' # avail => gone = Thread

Next ==
    \/ \E t \in Thread : Request(t) \/ Fetch(t) \/ Return(t) \/ Fail(t)
    \/ Vanish

Spec == Init /\ [][Next]_bsVars
=============================================================================
