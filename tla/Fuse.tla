-------------------------------- MODULE Fuse --------------------------------
(***************************************************************************)
(* The FUSE adapter and the filesystem policy under it                     *)
(* (crates/rfsd/src/fuse.rs and filesystem.rs).  The kernel initialises    *)
(* the mount and sends requests, which the single FUSE thread answers one  *)
(* after the other: a handler is one step.  Session calls are those of     *)
(* Session with one caller, on the table of SessionStore; each may fail.   *)
(***************************************************************************)
EXTENDS SessionStore, SequencesExt

CONSTANTS
    Proc,         \* processes that list a directory
    Remote(_),    \* digest -> decoded children, or Malformed
    Malformed,
    RootDigest,
    Request,      \* the requests of the kernel other than readdir
    Listed,       \* raw inodes that processes list
    BadName,      \* a name that is not UTF-8
    MaxInode,     \* i64::MAX
    Nanos,        \* nanoseconds in a second
    Room,         \* entries that fit the reply buffer of a readdir
    MaxSeeks      \* bound: seekdir calls of a process

ASSUME FuseAssumption ==
    Nanos \in Nat \ {0} /\ Room \subseteq Nat \ {0} /\ MaxSeeks \in Nat

VARIABLES
    phase,        \* where construct_daemon is with the mount
    inited,       \* the init request was handled
    rows,         \* the inodes table
    last,         \* the last request and its reply
    dentries,     \* entries the kernel has from lookup, [parent, attr]
    dir           \* process -> its directory stream

vars == <<phase, inited, rows, last, dentries, dir>>

Dot == -2                    \* "." and "..", below every basename
DotDot == -1
Closed == [st |-> "closed"]
Open(inode) == [st |-> "open", inode |-> inode, offset |-> 0, seen |-> <<>>,
                seeks |-> 0]
NoRequest == [req |-> [fn |-> "none"], reply |-> [st |-> "none"]]
Err(errno) == [st |-> errno]

Init ==
    /\ phase = "starting"
    /\ inited = FALSE
    /\ rows = NewTable(RootDigest)
    /\ last = NoRequest
    /\ dentries = {}
    /\ dir = [p \in Proc |-> Closed]

-----------------------------------------------------------------------------
(* The session as the adapter sees it.                                     *)

\* Mutant of ErrnoForError: everything the session cannot answer is missing.
ErrnoMissing(category) ==
    CASE category = "NotDirectory" -> "ENOTDIR"
      [] category = "IsDirectory" -> "EISDIR"
      [] category = "InvalidArgument" -> "EINVAL"
      [] OTHER -> "ENOENT"

\* FilesystemError::from and errno_for_error; context is transparent.
ErrnoForError(category) ==
    CASE category = "NotFound" -> "ENOENT"
      [] category = "NotDirectory" -> "ENOTDIR"
      [] category = "IsDirectory" -> "EISDIR"
      [] category = "InvalidArgument" -> "EINVAL"
      [] OTHER -> "EIO"

\* InodeId::new
ValidInode(i) == 0 < i /\ i <= MaxInode

\* A loading call finds its directory, and the directory can be loaded.
DirError(i) ==
    CASE i \notin DOMAIN rows -> "NotFound"
      [] i \in DOMAIN rows /\ rows[i].kind # "directory" -> "NotDirectory"
      [] OTHER -> "none"
Loadable(i) ==
    \/ rows[i].loaded
    \/ Remote(rows[i].content) # Malformed /\ ValidChildren(Remote(rows[i].content))
LoadedRows(i) ==
    IF rows[i].loaded THEN rows
    ELSE WithChildren(rows, i, Remote(rows[i].content))

-----------------------------------------------------------------------------
(* Mounting.                                                               *)

\* FilesystemService::new: the root is loaded before the mount exists.
LoadRoot ==
    /\ phase = "starting"
    /\ \/ Loadable(Root) /\ rows' = LoadedRows(Root) /\ phase' = "spawned"
       \/ UNCHANGED rows /\ phase' = "failed"
    /\ UNCHANGED <<inited, last, dentries, dir>>

\* The init handler; a late one finds nobody waiting.
KernelInit ==
    /\ phase \in {"spawned", "dropping"}
    /\ ~inited
    /\ inited' = TRUE
    /\ UNCHANGED <<phase, rows, last, dentries, dir>>

MountReady ==
    /\ phase = "spawned" /\ inited
    /\ phase' = "mounted"
    /\ UNCHANGED <<inited, rows, last, dentries, dir>>

\* Mutant of MountTimesOut: the result of recv_timeout is ignored.
MountTimeoutIgnored ==
    /\ phase = "spawned" /\ ~inited
    /\ phase' = "mounted"
    /\ UNCHANGED <<inited, rows, last, dentries, dir>>

\* recv_timeout expires; the background session is about to be dropped.
MountTimesOut ==
    /\ phase = "spawned" /\ ~inited
    /\ phase' = "dropping"
    /\ UNCHANGED <<inited, rows, last, dentries, dir>>

\* The session is dropped or joined: no request is served any more.
Unmount ==
    /\ \/ phase = "dropping" /\ phase' = "failed"
       \/ phase = "mounted" /\ phase' = "unmounted"
    /\ inited' = FALSE
    /\ UNCHANGED <<rows, last, dentries, dir>>

-----------------------------------------------------------------------------
(* Requests.                                                               *)

Reply(r, a) == last' = [req |-> r, reply |-> a]
Refuse(r, errno) == Reply(r, Err(errno)) /\ UNCHANGED <<rows, dentries>>

\* Mutant of SystemTime: the fraction of a time before the epoch counts back.
SystemTimeMirrored(t) ==
    IF t[1] >= 0 THEN t[1] * Nanos + t[2] ELSE 0 - (-t[1] * Nanos + t[2])

\* timestamp_to_system_time, in nanoseconds from the epoch.
SystemTime(t) ==
    CASE t[1] >= 0 -> t[1] * Nanos + t[2]
      [] t[1] < 0 /\ t[2] = 0 -> 0 - (-t[1] * Nanos)
      [] OTHER -> 0 - ((-t[1] - 1) * Nanos + (Nanos - t[2]))

\* file_attr and permission_bits; the owner is the daemon's user.
FileAttr(node) ==
    [ino |-> node.inode, size |-> node.size, blocks |-> (node.size + 511) \div 512,
     mtime |-> SystemTime(node.mtime), kind |-> node.kind,
     perm |-> node.mode % (MaxMode + 1),
     nlink |-> IF node.kind = "directory" THEN 2 ELSE 1]

\* lookup_node
Lookup(r) ==
    /\ r.fn = "lookup"
    /\ \/ r.name = BadName /\ Refuse(r, "ENOENT")
       \/ r.name # BadName /\ ~ValidInode(r.inode) /\ Refuse(r, "EINVAL")
       \/ /\ r.name # BadName /\ ValidInode(r.inode)
          /\ \/ Refuse(r, ErrnoForError("InternalError"))
             \/ /\ DirError(r.inode) # "none"
                /\ Refuse(r, ErrnoForError(DirError(r.inode)))
             \/ /\ DirError(r.inode) = "none" /\ Loadable(r.inode)
                /\ rows' = LoadedRows(r.inode)
                /\ LET found == NamedChild(rows', r.inode, r.name) IN
                   \/ /\ found = {}
                      /\ Reply(r, Err(ErrnoForError("NotFound")))
                      /\ UNCHANGED dentries
                   \/ \E c \in found :
                        LET attr == FileAttr(Project(rows', c)) IN
                        /\ Reply(r, [st |-> "entry", attr |-> attr])
                        /\ dentries' = dentries \cup
                             {[parent |-> r.inode, name |-> r.name, attr |-> attr]}

\* node, and what its callers do with it: the answer for a row that exists.
WithNode(r, answer) ==
    \/ ~ValidInode(r.inode) /\ Refuse(r, "EINVAL")
    \/ /\ ValidInode(r.inode)
       /\ \/ Refuse(r, ErrnoForError("InternalError"))
          \/ r.inode \notin DOMAIN rows /\ Refuse(r, ErrnoForError("NotFound"))
          \/ /\ r.inode \in DOMAIN rows
             /\ Reply(r, answer)
             /\ UNCHANGED <<rows, dentries>>

GetAttr(r) ==
    /\ r.fn = "getattr"
    /\ WithNode(r, [st |-> "attr", attr |-> FileAttr(Project(rows, r.inode))])

\* open_file: write, append and truncate are refused before the lookup.
OpenFile(r) ==
    /\ r.fn = "open"
    /\ \/ r.write /\ Refuse(r, "EROFS")
       \/ ~r.write /\ WithNode(r,
            CASE rows[r.inode].kind = "file" -> [st |-> "opened"]
              [] rows[r.inode].kind = "directory" -> Err("EISDIR")
              [] OTHER -> Err("EINVAL"))

\* readlink of the adapter and of the service.
ReadLink(r) ==
    /\ r.fn = "readlink"
    /\ WithNode(r,
         IF rows[r.inode].kind = "symlink"
         THEN [st |-> "target", content |-> rows[r.inode].content]
         ELSE Err(ErrnoForError("InvalidArgument")))

\* read_bytes; Session!ReadRange says which bytes of the content these are.
Read(r) ==
    /\ r.fn = "read"
    /\ \/ r.offset < 0 /\ Refuse(r, "EINVAL")
       \/ r.offset >= 0 /\ WithNode(r,
            CASE rows[r.inode].kind = "file" ->
                   [st |-> "data", content |-> rows[r.inode].content,
                    offset |-> r.offset]
              [] rows[r.inode].kind = "directory" -> Err(ErrnoForError("IsDirectory"))
              [] OTHER -> Err(ErrnoForError("InternalError")))

\* setattr, write, mknod, mkdir, unlink, rmdir, symlink, rename, link, create.
Modify(r) == r.fn = "modify" /\ Refuse(r, "EROFS")

\* directory_entries with an offset no stream has.
ReadDirAt(r) == r.fn = "readdir" /\ r.offset < 0 /\ Refuse(r, "EINVAL")

Serve ==
    /\ inited
    /\ \E r \in Request :
          \/ Lookup(r) \/ GetAttr(r) \/ OpenFile(r) \/ ReadLink(r) \/ Read(r)
          \/ Modify(r) \/ ReadDirAt(r)
    /\ UNCHANGED <<phase, inited, dir>>

-----------------------------------------------------------------------------
(* Directory streams.                                                      *)

OpenDir(p) ==
    /\ inited /\ dir[p] = Closed
    /\ \E i \in Listed : dir' = [dir EXCEPT ![p] = Open(i)]
    /\ UNCHANGED <<phase, inited, rows, last, dentries>>

\* "." and "..", then the children in basename order.
Entries(table, i) ==
    LET entry(j, kind, name) == [ino |-> j, kind |-> kind, name |-> name]
        kids == ListChildren(table, i)
    IN <<entry(i, "directory", Dot),
         entry(Project(table, i).parent, "directory", DotDot)>>
       \o [k \in DOMAIN kids |->
             entry(kids[k], table[kids[k]].kind, table[kids[k]].name)]

\* Mutant of DirectoryEntries: the offset is one short.
DirectoryEntriesSame(table, i) ==
    [k \in DOMAIN Entries(table, i) |-> Entries(table, i)[k] @@ ("next" :> k - 1)]

\* directory_entries without the skip: each entry has the offset of its
\* successor.
DirectoryEntries(table, i) ==
    LET all == Entries(table, i) IN
    [k \in DOMAIN all |-> all[k] @@ ("next" :> k)]

\* The stream after a reply with room for so many entries: the kernel goes on
\* from the offset of the last one; a reply without entries is the end.
NextPage(d, entries, room) ==
    LET end == Min({d.offset + room, Len(entries)}) IN
    IF end <= d.offset THEN [d EXCEPT !.st = "end"]
    ELSE [d EXCEPT !.seen = @ \o SubSeq(entries, d.offset + 1, end),
                   !.offset = entries[end].next]

\* readdir
ReadDir(p) ==
    /\ inited /\ dir[p].st = "open"
    /\ LET i == dir[p].inode IN
       /\ ValidInode(i) /\ DirError(i) = "none" /\ Loadable(i)
       /\ rows' = LoadedRows(i)
       /\ Reply([fn |-> "readdir", inode |-> i], [st |-> "entries"])
       /\ \E entries \in {DirectoryEntries(LoadedRows(i), i)}, room \in Room :
             dir' = [dir EXCEPT ![p] = NextPage(@, entries, room)]
    /\ UNCHANGED <<phase, inited, dentries>>

\* The errors of readdir; the stream stays where it is.
ReadDirFails(p) ==
    /\ inited /\ dir[p].st = "open"
    /\ LET i == dir[p].inode
           r == [fn |-> "readdir", inode |-> i]
       IN \/ ~ValidInode(i) /\ Refuse(r, "EINVAL")
          \/ /\ ValidInode(i) /\ DirError(i) # "none"
             /\ Refuse(r, ErrnoForError(DirError(i)))
          \/ ValidInode(i) /\ Refuse(r, ErrnoForError("InternalError"))
    /\ UNCHANGED <<phase, inited, dir>>

\* seekdir to behind an entry seen before.
SeekDir(p) ==
    /\ dir[p].st \in {"open", "end"} /\ dir[p].seeks < MaxSeeks
    /\ \E k \in DOMAIN dir[p].seen :
          dir' = [dir EXCEPT ![p] =
            [@ EXCEPT !.st = "open", !.offset = dir[p].seen[k].next,
                      !.seen = SubSeq(@, 1, k), !.seeks = @ + 1]]
    /\ UNCHANGED <<phase, inited, rows, last, dentries>>

CloseDir(p) ==
    /\ dir[p] # Closed
    /\ dir' = [dir EXCEPT ![p] = Closed]
    /\ UNCHANGED <<phase, inited, rows, last, dentries>>

Next ==
    \/ LoadRoot \/ KernelInit \/ MountReady \/ MountTimesOut \/ Unmount \/ Serve
    \/ \E p \in Proc :
          OpenDir(p) \/ ReadDir(p) \/ ReadDirFails(p) \/ SeekDir(p) \/ CloseDir(p)

Spec == Init /\ [][Next]_vars

-----------------------------------------------------------------------------
\* FuseMount::mount returns Ok only once the kernel initialised the mount, and
\* no request, early or late, meets a root directory that is not loaded.
MountIsReady ==
    /\ phase = "mounted" => inited
    /\ inited => rows[Root].loaded

\* However the reply buffer cuts a listing, whatever fails between two readdir
\* requests, whichever directories are loaded meanwhile and wherever the
\* process seeks: it sees ".", ".." and the remote entries in basename order,
\* none twice and none left out, each with its kind and its own inode.
ListingIsExact ==
    \A p \in {q \in Proc : dir[q] # Closed} :
        LET i == dir[p].inode
            seen == dir[p].seen
            remote == Remote(rows[i].content)
            names == {Dot, DotDot} \cup {remote[k].name : k \in DOMAIN remote}
        IN seen # <<>> =>
           /\ \A j, k \in DOMAIN seen : j < k => seen[j].name < seen[k].name
           /\ {n \in names : n <= Last(seen).name}
                  = {seen[k].name : k \in DOMAIN seen}
           /\ dir[p].st = "end" => Len(seen) = Cardinality(names)
           /\ \A k \in DOMAIN seen :
                CASE seen[k].name = Dot -> seen[k].ino = i
                  [] seen[k].name = DotDot ->
                       rows[i].parent \in {seen[k].ino, 0} /\
                       (i = Root => seen[k].ino = Root)
                  [] OTHER ->
                       /\ rows[seen[k].ino].parent = i
                       /\ rows[seen[k].ino].name = seen[k].name
                       /\ \E m \in DOMAIN remote :
                            remote[m].name = seen[k].name
                            /\ remote[m].kind = seen[k].kind

\* ENOENT is a statement about the tree, never about the network or the
\* store: it answers only names and inodes that do not exist.  EROFS answers
\* exactly what would modify the filesystem.
ErrnoIsHonest ==
    LET r == last.req
        a == last.reply.st
    IN /\ a = "ENOENT" =>
            \/ r.inode \notin DOMAIN rows
            \/ /\ r.fn = "lookup"
               /\ \/ r.name = BadName
                  \/ LET remote == Remote(rows[r.inode].content) IN
                     ~\E k \in DOMAIN remote : remote[k].name = r.name
       /\ a = "EROFS" <=> r.fn = "modify" \/ (r.fn = "open" /\ r.write)

\* The kernel may answer from its entries for a TTL without asking: each is
\* what the remote Directory says of that name (kind, size, mode or default,
\* and the exact mtime, also before the epoch, or the epoch), and no two entries
\* share an inode or disagree.
DentriesMatchTree ==
    /\ \A d, e \in dentries :
          (d.attr.ino = e.attr.ino) <=> (d.parent = e.parent /\ d.name = e.name)
    /\ \A d \in dentries :
          LET remote == Remote(rows[d.parent].content) IN
          \E k \in DOMAIN remote :
             LET n == remote[k] IN
             /\ n.name = d.name /\ n.kind = d.attr.kind
             /\ d.attr.size = IF n.kind = "directory" THEN 0 ELSE n.content.size
             /\ 512 * d.attr.blocks \in d.attr.size..(d.attr.size + 511)
             /\ d.attr.perm = IF n.mode = NoMode THEN DefaultMode[n.kind] ELSE n.mode
             /\ d.attr.mtime = IF n.mtime = NoTime THEN 0
                              ELSE n.mtime[1] * Nanos + n.mtime[2]
=============================================================================
