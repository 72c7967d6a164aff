-------------------------- MODULE MCCachedBlobStore --------------------------
EXTENDS CachedBlobStore

CONSTANTS p1, p2, t1, t2, t3, l1, l2

\* The bytes stand for their own hash: no collisions.
MCSha256(bytes) == bytes

MCChunk == {0, 1}
MCDigest == {[hash |-> <<1>>, size |-> 1]}

\* Two threads of one daemon, the first of which reads again, and one thread
\* of another.  At most one lock of each daemon is in use at a time.
MCProcOf == [t \in Thread |-> IF t = t3 THEN p2 ELSE p1]
MCReads == [t \in Thread |-> IF t = t1 THEN 2 ELSE 1]
=============================================================================
