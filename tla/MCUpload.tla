------------------------------ MODULE MCUpload ------------------------------
EXTENDS Upload, TLC

\* 0 is the root, 1 and 4 are in it, 2 is a directory in it with 3.
MCPath == 0..4
MCParent == [p \in MCPath |-> IF p = 3 THEN 2 ELSE 0]

Gone == [kind |-> "none", data |-> <<>>]
Folder == [kind |-> "dir", data |-> <<>>]
Device == [kind |-> "other", data |-> <<>>]
LinkTo(target) == [kind |-> "symlink", data |-> target]
FileOf(data) == [kind |-> "file", data |-> data]

\* Files that are written in place, appended to, removed and equal to others.
MCLocal ==
    <<{FileOf(<<0>>), FileOf(<<1, 0>>), FileOf(<<1, 1>>), Gone},
      {Folder, Gone}, {FileOf(<<0>>), FileOf(<<1, 1>>), Gone},
      {LinkTo(<<1>>), Device}>> @@ (0 :> {Folder})

Opt(workers, inFlight, fail) ==
    [workers |-> workers, inFlight |-> inFlight, failUnsupported |-> fail]
MCOptions == {Opt(2, 2, FALSE), Opt(1, 2, TRUE), Opt(2, 1, TRUE)}
=============================================================================
