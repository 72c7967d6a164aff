-------------------------------- MODULE Tree --------------------------------
(***************************************************************************)
(* REAPI Directory messages: how crates/rfs-common/src/tree.rs builds,     *)
(* encodes and validates them, and the digests of digest.rs they carry.    *)
(* A basename is a number, in the byte order of the names it stands for.   *)
(* Options are NoMode, NoTime, NoProps and NoDigest.                       *)
(***************************************************************************)
EXTENDS Integers, Sequences, FiniteSets, Functions

CONSTANTS
    BadName,          \* basenames that are empty, ".", ".." or contain "/"
    MinSeconds,       \* MIN_TIMESTAMP_SECONDS of tree.rs
    MaxSeconds,       \* MAX_TIMESTAMP_SECONDS of tree.rs
    MaxNanos          \* 999_999_999

ASSUME TimeAssumption ==
    MinSeconds \in Int /\ MaxSeconds \in Int /\ MaxNanos \in Nat

NoMode == -1
NoTime == <<>>                    \* otherwise <<seconds, nanos>>
NoProps == [absent |-> "properties"]
NoDigest == [absent |-> "digest"]
Refused == [st |-> "refused"]     \* a TreeError

\* The text of a hash, and whether it is 64 lowercase hex characters.  Bytes
\* stand for their own SHA-256: there are no collisions.
Hash(hex, text) == [hex |-> hex, text |-> text]
Sha256(bytes) == Hash(TRUE, bytes)

\* A digest of a message: an optional record of two fields.
IsDigest(d) == d = NoDigest \/ d = [hash |-> d.hash, size |-> d.size]

\* Digest::new, and from_reapi: what a message may carry as a digest.
ValidDigest(d) == d # NoDigest /\ d.hash.hex /\ d.size >= 0

\* Digest::for_bytes
DigestOf(bytes) == [hash |-> Sha256(bytes), size |-> bytes.size]

\* validate_name
ValidName(name) == name \notin BadName

\* validate_timestamp
ValidTimestamp(t) ==
    /\ 0 <= t[2] /\ t[2] <= MaxNanos
    /\ MinSeconds <= t[1] /\ t[1] <= MaxSeconds

ValidMtime(mtime) == mtime = NoTime \/ ValidTimestamp(mtime)
-----------------------------------------------------------------------------
\* Building.  An entry has a name, a kind, metadata (mode, mtime) and content:
\* a digest, or a record with the target of a link.
Bit(mode, b) == (mode \div b) % 2 = 1

\* Mutant of SupportedMode: the sticky bit is lost.
SupportedModePlain(kind, mode) == IF mode = NoMode THEN NoMode ELSE mode % 512

\* The masks 0o777 and 0o1777, which keep the low bits.
SupportedMode(kind, mode) ==
    IF mode = NoMode THEN NoMode
    ELSE IF kind = "directory" THEN mode % 1024 ELSE mode % 512

\* NodeMetadata::normalize, without its timestamp check, and
\* into_node_properties.
Properties(kind, mode, mtime) ==
    IF mode = NoMode /\ mtime = NoTime THEN NoProps
    ELSE [mode |-> SupportedMode(kind, mode), mtime |-> mtime]

\* file_node, directory_node and symlink_node
Node(e) ==
    LET props == Properties(e.kind, e.mode, e.mtime) IN
    CASE e.kind = "file" ->
           [name |-> e.name, digest |-> e.content, props |-> props,
            executable |-> LET m == SupportedMode("file", e.mode) IN
                /\ m # NoMode
                /\ Bit(m, 1) \/ Bit(m, 8) \/ Bit(m, 64)]
      [] e.kind = "directory" ->
           [name |-> e.name, digest |-> e.content, props |-> props]
      [] e.kind = "symlink" ->
           [name |-> e.name, target |-> e.content, props |-> props]

\* sort_by on names is stable: the orders it may leave a sequence in (one).
SortOrders(s) ==
    {p \in Bijection(DOMAIN s, DOMAIN s) : \A i, j \in DOMAIN s : i < j =>
        \/ s[p[i]].name < s[p[j]].name
        \/ s[p[i]].name = s[p[j]].name /\ p[i] < p[j]}
Sorted(s) == {[i \in DOMAIN s |-> s[p[i]]] : p \in SortOrders(s)}

\* Mutant of SortEntries: links keep their order.
SortEntriesNotLinks(b) ==
    [mode : {b.mode}, mtime : {b.mtime}, files : Sorted(b.files),
     directories : Sorted(b.directories), symlinks : {b.symlinks}]

\* sort_entries, on each of the three vectors of a builder.
SortEntries(b) ==
    [mode : {b.mode}, mtime : {b.mtime}, files : Sorted(b.files),
     directories : Sorted(b.directories), symlinks : Sorted(b.symlinks)]

Members(b) == b.files \o b.directories \o b.symlinks

\* The names of the members, chained over the kinds, are distinct:
\* reject_duplicate_names, and the same check of validate_directory.
DistinctNames(b) ==
    \A i, j \in DOMAIN Members(b) :
        Members(b)[i].name = Members(b)[j].name => i = j

\* What encode checks once the entries are sorted.
Encodable(b) ==
    /\ DistinctNames(b)
    /\ ValidMtime(b.mtime)
    /\ \A i \in DOMAIN Members(b) : ValidMtime(Members(b)[i].mtime)

\* The message encode makes of a sorted builder.
Encoded(b) ==
    [files |-> [i \in DOMAIN b.files |-> Node(b.files[i])],
     directories |-> [i \in DOMAIN b.directories |-> Node(b.directories[i])],
     symlinks |-> [i \in DOMAIN b.symlinks |-> Node(b.symlinks[i])],
     props |-> Properties("directory", b.mode, b.mtime)]

-----------------------------------------------------------------------------
\* target_escapes: the components of a target ("up", "here" or "name"), and
\* the depth below the link's directory before each; -1 once it was left.
Depth(target) ==
    LET depth[i \in 0..Len(target)] ==
          IF i = 0 THEN 0
          ELSE IF depth[i - 1] = -1 THEN -1
          ELSE CASE target[i] = "up" -> depth[i - 1] - 1
                 [] target[i] = "name" -> depth[i - 1] + 1
                 [] OTHER -> depth[i - 1]
    IN depth

\* Mutant of TargetEscapes: only where the target ends counts.
TargetEndsOutside(target) ==
    Cardinality({i \in DOMAIN target : target[i] = "up"})
        > Cardinality({i \in DOMAIN target : target[i] = "name"})

TargetEscapes(target) == Depth(target)[Len(target)] = -1

\* The warnings of normalize and symlink_node for one entry.
Warnings(kind, mode, content) ==
    (IF mode # NoMode /\ Bit(mode, 2048) THEN {"setuid"} ELSE {})
    \cup (IF mode # NoMode /\ Bit(mode, 1024) THEN {"setgid"} ELSE {})
    \cup (IF kind = "symlink" /\ content.absolute THEN {"absolute"} ELSE {})
    \cup (IF kind = "symlink" /\ TargetEscapes(content.target)
          THEN {"escaping"} ELSE {})

\* TreeWarnings: how many entries have each warning, the directory included.
CountWarnings(b) ==
    [w \in {"setuid", "setgid", "absolute", "escaping"} |->
        Cardinality({i \in DOMAIN Members(b) : LET e == Members(b)[i] IN
                        w \in Warnings(e.kind, e.mode, e.content)})
          + (IF w \in Warnings("directory", b.mode, NoDigest) THEN 1 ELSE 0)]

\* DirectoryBuilder::encode
Encode(b) ==
    {IF Encodable(s)
     THEN [st |-> "ok", directory |-> Encoded(s), warnings |-> CountWarnings(s)]
     ELSE Refused : s \in SortEntries(b)}
-----------------------------------------------------------------------------
\* validate_sorted_names
SortedNames(s) ==
    \A i \in DOMAIN s : i > 1 => s[i - 1].name < s[i].name

\* validate_node_properties
ValidProps(props) == props = NoProps \/ ValidMtime(props.mtime)

\* validate_directory.  The properties of directory nodes are not looked at.
ValidDirectory(d) ==
    /\ SortedNames(d.files)
    /\ SortedNames(d.directories)
    /\ SortedNames(d.symlinks)
    /\ DistinctNames(d)
    /\ \A i \in DOMAIN Members(d) : ValidName(Members(d)[i].name)
    /\ ValidProps(d.props)
    /\ \A i \in DOMAIN d.files :
          ValidDigest(d.files[i].digest) /\ ValidProps(d.files[i].props)
    /\ \A i \in DOMAIN d.directories : ValidDigest(d.directories[i].digest)
    /\ \A i \in DOMAIN d.symlinks : ValidProps(d.symlinks[i].props)

\* The bytes of a message; its number of nodes stands for their length.
\* Other bytes do not parse.
Wire(d) == [parses |-> TRUE, directory |-> d, size |-> Len(Members(d))]

\* decode_directory
DecodeDirectory(expected, bytes) ==
    IF /\ DigestOf(bytes) = expected
       /\ bytes.parses
       /\ ValidDirectory(bytes.directory)
    THEN [st |-> "ok", directory |-> bytes.directory]
    ELSE Refused
=============================================================================
