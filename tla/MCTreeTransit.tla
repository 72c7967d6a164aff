--------------------------- MODULE MCTreeTransit ---------------------------
EXTENDS TreeTransit

\* 0 is the empty name, 9 one with a slash.
MCBadName == {0, 9}

Digest(n) == [hash |-> Hash(TRUE, <<n>>), size |-> n]
Link(target, absolute) ==
    [target |-> target, absolute |-> absolute, size |-> Len(target)]

\* Times at both ends of the range, and beyond them.
MCMinSeconds == -2
MCMaxSeconds == 2
MCMaxNanos == 3

S(name, kind, mode, mtime, content) ==
    [name |-> name, kind |-> kind, mode |-> mode, mtime |-> mtime,
     content |-> content]
\* S_IFREG 32768, S_IFDIR 16384, S_IFLNK 40960.
MCStat ==
    {S(3, "file", 32768 + 420, <<-2, 0>>, Digest(0)),
     S(1, "file", 32768 + 3565, <<2, 3>>, Digest(1)),
     S(2, "file", 32768, <<3, 0>>, Digest(1)),
     S(2, "directory", 16384 + 1023, <<0, 0>>, Digest(1)),
     S(4, "directory", 16384 + 2541, <<-1, 3>>, Digest(2)),
     S(3, "symlink", 40960 + 511, <<1, 1>>, Link(<<"name", "up", "up">>, FALSE)),
     S(5, "symlink", 40960 + 511, <<0, 1>>, Link(<<"here", "name", "up">>, TRUE)),
     S(6, "symlink", 40960 + 511, <<0, 1>>, Link(<<"up", "up", "name", "name">>, FALSE))}
Own(mtime, depth) == [mode |-> 16384 + 493, mtime |-> mtime, depth |-> depth]
MCOwnStat == {Own(<<1, 2>>, 0), Own(<<1, 2>>, 1), Own(<<-3, 2>>, 0)}

\* Messages of other clients: absent and strange properties, digests, names.
Props(mode, mtime) == [mode |-> mode, mtime |-> mtime]
FP == {NoProps, Props(NoMode, NoTime), Props(4095, <<2, 3>>),
       Props(4096, NoTime), Props(0, <<0, 4>>), Props(NoMode, <<-3, 0>>)}
DG == {NoDigest, Digest(0), [hash |-> Hash(FALSE, <<0>>), size |-> 0],
       [hash |-> Hash(TRUE, <<1>>), size |-> -1]}
F(name, d, props) == [name |-> name, digest |-> d, executable |-> FALSE, props |-> props]
D(name, d, props) == [name |-> name, digest |-> d, props |-> props]
L(name, props) == [name |-> name, target |-> Link(<<>>, FALSE), props |-> props]
Message(files, directories, symlinks, props) ==
    [files |-> files, directories |-> directories, symlinks |-> symlinks,
     props |-> props]
File1 == <<F(1, Digest(0), Props(NoMode, NoTime))>>
Dir1 == <<D(1, Digest(1), NoProps)>>
MCForeign ==
    {Message(<<F(1, d, p)>>, <<>>, <<>>, NoProps) : d \in DG, p \in FP}
    \cup {Message(<<F(2, Digest(0), NoProps), F(n, Digest(1), NoProps)>>,
                  ds, <<>>, NoProps) : n \in {0, 1, 2, 3}, ds \in {<<>>, Dir1}}
    \cup {Message(fs, <<D(n, Digest(1), p)>>, <<L(m, q)>>, NoProps) :
             fs \in {<<>>, File1}, n \in {1, 2, 9}, m \in {1, 4}, p, q \in FP}
    \cup {Message(fs, <<>>, <<>>, p) :
             fs \in {<<>>, File1}, p \in {Props(365, <<0, 0>>),
                                          Props(NoMode, <<0, -1>>)}}

MCGarbled ==
    {[parses |-> FALSE, size |-> 1],
     Wire(Message(<<>>, <<>>, <<>>, NoProps))}
MCClock == {-1, 7}
=============================================================================
