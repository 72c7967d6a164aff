------------------------------- MODULE MCFuse -------------------------------
EXTENDS Fuse

CONSTANTS p, notUtf8, malformed

\* Digests are numbers with a size: 1 is the root, 2 and 3 are directories in
\* it (3 is empty), 4 does not decode and the store refuses 5.
D(n) == [hash |-> n, size |-> 0]
MCRootDigest == D(1)
Node(name, kind, mode, mtime, content) ==
    [name |-> name, kind |-> kind, mode |-> mode, mtime |-> mtime,
     content |-> content]
Dir(name, mtime, n) == Node(name, "directory", NoMode, mtime, D(n))
File(name, mode, mtime) == Node(name, "file", mode, mtime, [hash |-> 9, size |-> 513])
Link(name, mtime) == Node(name, "symlink", NoMode, mtime, [target |-> "x", size |-> 1])

MCRemote(d) ==
    CASE d = D(1) -> <<Dir(2, NoTime, 2), Dir(1, <<1, 2>>, 3), Link(3, <<-1, 0>>)>>
      [] d = D(2) -> <<File(3, 420, <<-2, 3>>), Dir(2, NoTime, 4), Dir(1, NoTime, 5)>>
      [] d = D(3) -> <<>>
      [] d = D(5) -> <<File(1, MaxMode + 1, NoTime)>>
      [] OTHER -> malformed

LookupOf(i, n) == [fn |-> "lookup", inode |-> i, name |-> n]
GetAttrOf(i) == [fn |-> "getattr", inode |-> i]
OpenOf(i, write) == [fn |-> "open", inode |-> i, write |-> write]
ReadLinkOf(i) == [fn |-> "readlink", inode |-> i]
ReadOf(i, offset) == [fn |-> "read", inode |-> i, offset |-> offset]

\* Every request.  Inode 2 is a directory, 3 an empty one, 4 a link, 5 a file,
\* 6 does not decode and 7 is refused, once they are loaded; 9 is missing, 0
\* and 11 are invalid.
RawInode == {0, 2, 4, 5, 9, 11}
AllRequest ==
    {LookupOf(1, 3), LookupOf(2, 3), LookupOf(3, 1), LookupOf(4, 1),
     LookupOf(6, 1), LookupOf(7, 1), LookupOf(0, 1), LookupOf(1, notUtf8)}
    \cup {GetAttrOf(i) : i \in RawInode}
    \cup {OpenOf(i, w) : i \in RawInode \ {9, 11}, w \in BOOLEAN}
    \cup {ReadLinkOf(i) : i \in RawInode \ {0, 11}}
    \cup {ReadOf(i, 0) : i \in RawInode \ {11}} \cup {ReadOf(5, -1)}
    \cup {[fn |-> "modify", inode |-> 5]}
    \cup {[fn |-> "readdir", inode |-> 1, offset |-> -1]}
=============================================================================
