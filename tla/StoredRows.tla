----------------------------- MODULE StoredRows -----------------------------
(***************************************************************************)
(* The columns of the session database (session/schema.sql), how           *)
(* session/store.rs writes them and what it requires of them when it reads *)
(* them back.  SessionStore is the same table without columns.             *)
(***************************************************************************)
EXTENDS Tree

CONSTANTS
    NodeMinSeconds,   \* MIN_TIMESTAMP_SECONDS of session.rs
    NodeMaxSeconds    \* MAX_TIMESTAMP_SECONDS of session.rs

\* The two files have constants of their own; those of session.rs must admit
\* whatever those of tree.rs admit.
ASSUME NodeTimeAssumption ==
    /\ NodeMinSeconds \in Int /\ NodeMinSeconds <= MinSeconds
    /\ NodeMaxSeconds \in Int /\ MaxSeconds <= NodeMaxSeconds

EmptyName == 0    \* the name of the root
\* A nullable column is a sequence of at most one value.
Null == <<>>
MaxMode == 4095   \* 0o7777

\* Display and FromStr of Digest: a prefix, the hash, a separator, the size.
DigestText(d) == <<"sha256:", d.hash, "/", d.size>>
ParsesAsDigest(text) ==
    text[1] = "sha256:" /\ text[2].hex /\ text[3] = "/" /\ text[4] >= 0
ParseDigest(text) == [hash |-> text[2], size |-> text[4]]

\* Mutant of ValidNodeTime: the year 1 is excluded.
ValidNodeTimeLater(seconds, nanos) ==
    /\ nanos >= 0 /\ nanos < MaxNanos + 1
    /\ NodeMinSeconds < seconds /\ seconds <= NodeMaxSeconds

\* u32::try_from on the nanos, and NodeTime::new.
ValidNodeTime(seconds, nanos) ==
    /\ nanos >= 0 /\ nanos < MaxNanos + 1
    /\ NodeMinSeconds <= seconds /\ seconds <= NodeMaxSeconds

\* Mutant of ModeColumn: an absent mode is stored as 0.
ModeColumnZero(mode) == IF mode = NoMode THEN <<0>> ELSE <<mode>>

ModeColumn(mode) == IF mode = NoMode THEN Null ELSE <<mode>>

\* insert_remote_inode
Columns(parent, node) ==
    LET only(kind, value) == IF node.kind = kind THEN <<value>> ELSE Null
        timed(value) == IF node.mtime = NoTime THEN Null ELSE <<value>>
        digest == DigestText(node.content)
    IN [parent |-> parent, name |-> node.name, kind |-> node.kind,
        mode |-> ModeColumn(node.mode),
        seconds |-> timed(node.mtime[1]), nanos |-> timed(node.mtime[2]),
        tombstone |-> 0, overlay |-> Null,
        fileDigest |-> only("file", digest), dirty |-> only("file", 0),
        target |-> only("symlink", node.content),
        dirDigest |-> only("directory", digest), loaded |-> only("directory", 0)]

\* insert_root_inode
RootColumns(digest) ==
    Columns(Null, [name |-> EmptyName, kind |-> "directory", mode |-> NoMode,
                   mtime |-> NoTime, content |-> digest])
-----------------------------------------------------------------------------
\* validate_inode_row up to the call of validate_inode: the columns convert.
Converts(r) ==
    /\ r.parent = Null \/ r.parent[1] > 0
    /\ r.kind \in {"file", "directory", "symlink"}
    /\ r.mode = Null \/ r.mode[1] >= 0
    /\ (r.seconds = Null) = (r.nanos = Null)
    /\ r.seconds = Null \/ ValidNodeTime(r.seconds[1], r.nanos[1])
    /\ r.tombstone \in {0, 1}
    /\ r.fileDigest = Null \/ ParsesAsDigest(r.fileDigest[1])
    /\ r.dirty \in {Null, <<0>>, <<1>>}
    /\ r.dirDigest = Null \/ ParsesAsDigest(r.dirDigest[1])
    /\ r.loaded \in {Null, <<0>>, <<1>>}

\* validate_inode_hierarchy
ValidHierarchy(id, r) ==
    IF id = 1
    THEN /\ r.parent = Null
         /\ r.name = EmptyName
         /\ r.kind = "directory"
         /\ r.dirDigest # Null
         /\ r.loaded # Null
    ELSE r.parent # Null /\ ValidName(r.name)

\* validate_inode_kind.  No code writes an overlay path.
ValidKind(r) ==
    /\ r.kind = "file" =>
          /\ r.target = Null /\ r.dirDigest = Null /\ r.loaded = Null
          /\ r.dirty # Null
          /\ r.overlay = Null => r.dirty = <<0>> /\ r.fileDigest # Null
          /\ r.overlay # Null => r.fileDigest = Null
    /\ r.kind = "symlink" =>
          /\ r.target # Null
          /\ r.fileDigest = Null /\ r.overlay = Null /\ r.dirty = Null
          /\ r.dirDigest = Null /\ r.loaded = Null
    /\ r.kind = "directory" =>
          /\ r.fileDigest = Null /\ r.overlay = Null /\ r.dirty = Null
          /\ r.target = Null
          /\ r.loaded # Null

\* validate_inode_row
ReadableRow(id, r) ==
    /\ Converts(r)
    /\ r.mode = Null \/ r.mode[1] <= MaxMode
    /\ ValidHierarchy(id, r)
    /\ ValidKind(r)

\* The inode of a readable row, with the fields of a SessionStore row.
FromColumns(r) ==
    [parent |-> IF r.parent = Null THEN 0 ELSE r.parent[1],
     name |-> r.name,
     kind |-> r.kind,
     mode |-> IF r.mode = Null THEN NoMode ELSE r.mode[1],
     mtime |-> IF r.seconds = Null THEN NoTime ELSE <<r.seconds[1], r.nanos[1]>>,
     content |-> CASE r.kind = "file" -> ParseDigest(r.fileDigest[1])
                   [] r.kind = "directory" -> ParseDigest(r.dirDigest[1])
                   [] r.kind = "symlink" -> r.target[1],
     loaded |-> r.loaded = <<1>>]
-----------------------------------------------------------------------------
\* insert_session
MetadataRow(pid, digest, now) ==
    [pid |-> pid, lifecycle |-> "active", hash |-> digest.hash,
     size |-> digest.size, created |-> now, closed |-> Null]

\* validate_session
ReadableMetadata(m) ==
    /\ m.pid > 0
    /\ m.created >= 0
    /\ m.lifecycle \in {"initializing", "active", "closed"}
    /\ IF m.lifecycle = "closed" THEN m.closed # Null /\ m.closed[1] >= 0
                                 ELSE m.closed = Null
    /\ ValidDigest([hash |-> m.hash, size |-> m.size])
=============================================================================
