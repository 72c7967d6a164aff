---------------------------- MODULE SessionStore ----------------------------
(***************************************************************************)
(* The inode table of a session and the queries and updates of             *)
(* crates/rfs-common/src/session/store.rs, as operators on a sequence of   *)
(* rows.  SQLite allocates identities one after the other and no row is    *)
(* deleted, so the identity of a row is its index and the root is row 1.   *)
(* Each operator is the body of one transaction or of one statement        *)
(* under the connection mutex.  Names are numbers, ordered as basenames.   *)
(***************************************************************************)
EXTENDS Integers, Sequences, FiniteSets

Root == 1
NoMode == -1                 \* a NULL mode column
NoTime == <<>>               \* NULL mtime columns; otherwise <<seconds, nanos>>
MaxMode == 4095              \* 0o7777
DefaultMode == [file |-> 292, directory |-> 365, symlink |-> 511]

\* A node of a decoded remote Directory: `content` is a digest, or the target
\* of a symbolic link; either way a record with a size.
Row(parent, node) ==
    [parent |-> parent, name |-> node.name, kind |-> node.kind,
     mode |-> node.mode, mtime |-> node.mtime, content |-> node.content,
     loaded |-> FALSE]

\* insert_root_inode: no parent, no name, unloaded.
NewTable(digest) ==
    <<Row(0, [name |-> 0, kind |-> "directory", mode |-> NoMode,
              mtime |-> NoTime, content |-> digest])>>

ChildrenOf(rows, parent) == {i \in DOMAIN rows : rows[i].parent = parent}

\* get_directory_children_on: in basename order.
ListChildren(rows, parent) ==
    LET S == ChildrenOf(rows, parent)
        before(i) == {j \in S : rows[j].name < rows[i].name}
    IN [k \in 1..Cardinality(S) |->
          CHOOSE i \in S : Cardinality(before(i)) = k - 1]

\* Mutant of NamedChild: the parent is not part of the condition.
NamedAnywhere(rows, parent, name) == {i \in DOMAIN rows : rows[i].name = name}

\* lookup_child_in_dir_inode: the matching rows, at most one.
NamedChild(rows, parent, name) ==
    {i \in ChildrenOf(rows, parent) : rows[i].name = name}

\* validate_remote_children
ValidChildren(nodes) ==
    /\ \A j, k \in DOMAIN nodes : nodes[j].name = nodes[k].name => j = k
    /\ \A j \in DOMAIN nodes : nodes[j].mode <= MaxMode

\* Mutants of WithChildren: the parent is not marked loaded; identities are
\* handed out again behind the parent.
WithChildrenUnmarked(rows, parent, nodes) ==
    rows \o [j \in DOMAIN nodes |-> Row(parent, nodes[j])]
WithChildrenInPlace(rows, parent, nodes) ==
    SubSeq([rows EXCEPT ![parent].loaded = TRUE], 1, parent)
        \o [j \in DOMAIN nodes |-> Row(parent, nodes[j])]
        \o SubSeq(rows, parent + 1, Len(rows))

\* get_or_create_remote_dir_children on an unloaded parent without children:
\* insert every child, mark the parent loaded.
WithChildren(rows, parent, nodes) ==
    [rows EXCEPT ![parent].loaded = TRUE]
        \o [j \in DOMAIN nodes |-> Row(parent, nodes[j])]

\* project_inode
Project(rows, i) ==
    LET r == rows[i] IN
    [inode |-> i,
     parent |-> IF r.parent = 0 THEN i ELSE r.parent,
     name |-> r.name,
     kind |-> r.kind,
     size |-> IF r.kind = "directory" THEN 0 ELSE r.content.size,
     mode |-> IF r.mode = NoMode THEN DefaultMode[r.kind] ELSE r.mode,
     mtime |-> IF r.mtime = NoTime THEN <<0, 0>> ELSE r.mtime]
=============================================================================
