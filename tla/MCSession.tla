------------------------------ MODULE MCSession ------------------------------
EXTENDS Session

CONSTANTS t1, t2

MCChunk == {0, 1}
MCDigestOf(bytes) == [hash |-> bytes, size |-> Len(bytes)]

\* A root with a file, a directory, a symbolic link and a directory whose
\* children are refused.
RootBlob == <<0>>
SubBlob == <<0, 0>>
BadBlob == <<0, 1>>
FileBlob == <<1, 0, 0>>
MCBlobs == {RootBlob, SubBlob, BadBlob, FileBlob}
MCRoot == MCDigestOf(RootBlob)
Node(name, kind, mode, content) ==
    [name |-> name, kind |-> kind, mode |-> mode, mtime |-> <<-1, 1>>,
     content |-> content]

File(name, mode) == Node(name, "file", mode, MCDigestOf(FileBlob))
Dir(name, blob) == Node(name, "directory", NoMode, MCDigestOf(blob))
Link(name) == Node(name, "symlink", NoMode, [target |-> "x", size |-> 1])

MCDecode(blob) ==
    CASE blob = RootBlob ->
           <<File(2, 420), Dir(1, SubBlob), Link(3), Dir(4, BadBlob)>>
      [] blob = SubBlob -> <<File(2, NoMode)>>
      [] blob = BadBlob -> <<File(1, MaxMode + 1)>>
      [] OTHER -> Malformed

Lookup(i, n) == [fn |-> "lookup", inode |-> i, name |-> n]
List(i) == [fn |-> "list", inode |-> i]
Get(i) == [fn |-> "get", inode |-> i]
Read(i, o, n) == [fn |-> "read", inode |-> i, offset |-> o, size |-> n]
CloseOp == [fn |-> "close"]

\* 2 to 5 are the children of the root, in the order above, 6 is the file in
\* the directory; 7 and 8 never exist.
MCInode == 1..8
MCCalls == [t \in Thread |-> IF t = t1 THEN 2 ELSE 1]

\* One thread loads the tree and may close the session; the other makes calls
\* that end in every way they can.
MCOpsOf ==
    [t \in Thread |->
        IF t = t1 THEN {List(1), Lookup(3, 1), CloseOp}
        ELSE {Lookup(1, 2), List(3), List(5), Lookup(2, 1), Get(3),
              Get(8), Read(2, 2, 2), Read(2, 4, 1), Read(1, 0, 1), Read(4, 0, 1),
              Read(8, 0, 1)}]
=============================================================================
