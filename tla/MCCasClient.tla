----------------------------- MODULE MCCasClient -----------------------------
EXTENDS CasClient

\* The data stands for its own hash: no collisions.
MCSha256(data) == data
MCDigestOf(data) == [hash |-> data, size |-> Len(data)]

MCChunk == {0, 1}
MCBlob == {<<1>>, <<0>>, <<1, 0>>, <<1, 0, 1>>}
MCDigest == {MCDigestOf(b) : b \in MCBlob}

\* With a budget of 2: blobs that share a batch, one that fills it, and one
\* that is streamed, before, between and after batched ones.
T == MCDigestOf(<<1>>)
U == MCDigestOf(<<0>>)
S == MCDigestOf(<<1, 0>>)
L == MCDigestOf(<<1, 0, 1>>)
MCUploads == {<<T, U, S, L>>, <<L, U, T>>, <<T, L, S>>, <<>>}
MCPathBacked == {T, L}
=============================================================================
