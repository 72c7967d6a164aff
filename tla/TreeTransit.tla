---------------------------- MODULE TreeTransit ----------------------------
(***************************************************************************)
(* The way of one directory from a local disk to the inodes of a mount:    *)
(* rfs upload hands what it listed to a DirectoryBuilder and publishes the *)
(* encoded message (or another REAPI client publishes one of its own); a   *)
(* daemon creates a session database, decodes the message, stores its      *)
(* nodes as rows and reads the rows back.  The validations on this way are *)
(* written separately, in tree.rs, session.rs and store.rs.                *)
(***************************************************************************)
EXTENDS StoredRows

CONSTANTS
    Stat,          \* what lstat may say of the entries of the directory
    OwnStat,       \* and of the directory itself, with its depth in the tree
                   \* that is uploaded
    Foreign,       \* Directory messages of other clients
    Garbled,       \* bytes that are no published directory, as found in a
                   \* damaged cache file
    Clock,         \* readings of the clock, in seconds
    MaxEntries,    \* bound: entries of the directory
    MaxOpens       \* bound: daemons started one after the other

Kinds == {"file", "directory", "symlink"}
Times == Int \X Int

\* lstat answers with a u32 mode and a time; a file or a subdirectory was
\* hashed before it is added.
ASSUME StatAssumption ==
    /\ Stat \subseteq [name : Int, kind : Kinds, mode : Nat, mtime : Times,
                       content : {s.content : s \in Stat}]
    /\ \A s \in Stat : s.kind # "symlink" =>
          IsDigest(s.content) /\ ValidDigest(s.content)
    /\ \A s \in OwnStat : s.mode \in Nat /\ s.mtime \in Times /\ s.depth \in Nat

\* A message as the protocol types it: any digest, properties and name.
IsMessage(d) ==
    /\ \A s \in {d.files, d.directories, d.symlinks} :
          /\ s \in Seq(Range(s))
          /\ \A i \in DOMAIN s : \/ s[i].props = NoProps
                               \/ /\ s[i].props.mode \in {NoMode} \cup Nat
                                  /\ s[i].props.mtime \in {NoTime} \cup Times
    /\ \A s \in {d.files, d.directories} :
          \A i \in DOMAIN s : IsDigest(s[i].digest)
ASSUME MessageAssumption == \A d \in Foreign : IsMessage(d)
ASSUME BoundAssumption == MaxEntries \in Nat /\ MaxOpens \in Nat /\ Clock \subseteq Int

VARIABLES
    own, listed,   \* stat of the directory; those of its entries, in the
                   \* order in which they were added
    builder,       \* the DirectoryBuilder
    blob,          \* the published bytes, or NoBlob
    warnings,      \* the warnings of the encoder
    origin,        \* "none", or who published: "upload", "foreign"; "refused"
    step,          \* of the daemon: how far it opened the session
    db,            \* the session database on disk
    opens,         \* daemons started
    answer,        \* what loading the root answered
    view,          \* inodes as the Session API reports them
    seen           \* what Session::inspect answered on db as it is now

pubVars == <<own, listed, builder, blob, warnings, origin>>
vars == <<pubVars, step, db, opens, answer, view, seen>>

Store == INSTANCE SessionStore

SchemaVersion == 1
NoBlob == [absent |-> "blob"]
NoAnswer == [st |-> "none"]
NoWarnings == [w \in {"setuid", "setgid", "absolute", "escaping"} |-> 0]

\* The database: the file, the tables, their version, the row of
\* session_metadata (nullable) and the rows of inodes.
Database(file) ==
    [file |-> file, tables |-> FALSE, version |-> 0, metadata |-> Null,
     inodes |-> <<>>]
Published == origin \in {"upload", "foreign"}
Active == db.metadata # Null /\ db.metadata[1].lifecycle = "active"

\* metadata_for: the mode without the bits of the file type.
MetadataMode(mode) == mode % 4096

Init ==
    /\ own \in OwnStat
    /\ listed = <<>>
    /\ builder = [mode |-> MetadataMode(own.mode), mtime |-> own.mtime,
                  files |-> <<>>, directories |-> <<>>, symlinks |-> <<>>]
    /\ blob = NoBlob
    /\ warnings = NoWarnings
    /\ origin = "none"
    /\ step = "down"
    /\ db = Database(FALSE)
    /\ opens = 0
    /\ answer = NoAnswer
    /\ view = <<>>
    /\ seen = NoAnswer

-----------------------------------------------------------------------------
\* encode_directory of upload.rs: add_file, add_directory or add_symlink for
\* the next entry; each refuses a bad name, which ends the upload.
AddEntry ==
    /\ origin = "none"
    /\ Len(listed) < MaxEntries
    /\ \E s \in Stat :
          LET e == [s EXCEPT !.mode = MetadataMode(s.mode)] IN
          /\ listed' = Append(listed, s)
          /\ IF ~ValidName(s.name)
             THEN origin' = "refused" /\ UNCHANGED builder
             ELSE /\ builder' =
                       CASE s.kind = "file" ->
                              [builder EXCEPT !.files = Append(@, e)]
                         [] s.kind = "directory" ->
                              [builder EXCEPT !.directories = Append(@, e)]
                         [] s.kind = "symlink" ->
                              [builder EXCEPT !.symlinks = Append(@, e)]
                  /\ UNCHANGED origin
    /\ UNCHANGED <<own, blob, warnings, step, db, opens, answer, view, seen>>

\* builder.encode(), and the upload of its bytes.
EncodeAndPublish ==
    /\ origin = "none"
    /\ \E r \in Encode(builder) :
          IF r = Refused
          THEN origin' = "refused" /\ UNCHANGED <<blob, warnings>>
          ELSE /\ blob' = Wire(r.directory)
               /\ warnings' = r.warnings
               /\ origin' = "upload"
    /\ UNCHANGED <<own, listed, builder, step, db, opens, answer, view, seen>>

\* Another client publishes a directory of its own.
PublishForeign ==
    /\ origin = "none"
    /\ listed = <<>>
    /\ \E d \in Foreign : blob' = Wire(d)
    /\ origin' = "foreign"
    /\ UNCHANGED <<own, listed, builder, warnings, step, db, opens, answer, view,
                   seen>>
-----------------------------------------------------------------------------
\* Session::open replaces the session tree: the database is an empty file.
\* The lock (RfsHome) keeps daemons apart.
ReplaceTree ==
    /\ Published
    /\ step \in {"down", "closed"}
    /\ opens < MaxOpens
    /\ opens' = opens + 1
    /\ db' = Database(TRUE)
    /\ step' = "file"
    /\ answer' = NoAnswer /\ view' = <<>> /\ seen' = NoAnswer
    /\ UNCHANGED pubVars

\* prepare_schema: the tables, then the version.
CreateTables ==
    /\ step = "file"
    /\ db' = [db EXCEPT !.tables = TRUE]
    /\ step' = "tables"
    /\ seen' = NoAnswer
    /\ UNCHANGED <<pubVars, opens, answer, view>>

RecordVersion ==
    /\ step = "tables"
    /\ db' = [db EXCEPT !.version = SchemaVersion]
    /\ step' = "version"
    /\ seen' = NoAnswer
    /\ UNCHANGED <<pubVars, opens, answer, view>>

\* initialize_database: the metadata and the root row, in one transaction.
Initialize ==
    /\ step = "version"
    /\ \E now \in Clock :
          IF now < 0
          THEN step' = "down" /\ UNCHANGED <<db, seen>>
          ELSE /\ db' = [db EXCEPT
                     !.metadata = <<MetadataRow(opens, DigestOf(blob), now)>>,
                     !.inodes = <<RootColumns(DigestOf(blob))>>]
               /\ step' = "open"
               /\ seen' = NoAnswer
    /\ UNCHANGED <<pubVars, opens, answer, view>>

\* node_metadata and remote_digest on a node, and the child made of it.
ConvertsToChild(kind, n) ==
    /\ n.props = NoProps \/ n.props.mtime = NoTime
          \/ ValidNodeTime(n.props.mtime[1], n.props.mtime[2])
    /\ kind = "symlink" \/ ValidDigest(n.digest)
Child(kind, n) ==
    [name |-> n.name, kind |-> kind,
     mode |-> IF n.props = NoProps THEN NoMode ELSE n.props.mode,
     mtime |-> IF n.props = NoProps THEN NoTime ELSE n.props.mtime,
     content |-> IF kind = "symlink" THEN n.target ELSE n.digest]

\* decoded_directory_children
Convertible(d) ==
    /\ \A i \in DOMAIN d.files : ConvertsToChild("file", d.files[i])
    /\ \A i \in DOMAIN d.directories :
          ConvertsToChild("directory", d.directories[i])
    /\ \A i \in DOMAIN d.symlinks : ConvertsToChild("symlink", d.symlinks[i])
Children(d) ==
    [i \in DOMAIN d.files |-> Child("file", d.files[i])]
    \o [i \in DOMAIN d.directories |-> Child("directory", d.directories[i])]
    \o [i \in DOMAIN d.symlinks |-> Child("symlink", d.symlinks[i])]

\* validate_remote_children
ValidRemoteChildren(nodes) ==
    /\ \A i \in DOMAIN nodes : ValidName(nodes[i].name)
    /\ Store!ValidChildren(nodes)

\* The table with the children inserted and the root marked as loaded.
WithRows(inodes, nodes) ==
    [inodes EXCEPT ![1].loaded = <<1>>]
        \o [i \in DOMAIN nodes |-> Columns(<<1>>, nodes[i])]

\* ensure_directory_loaded on the root: the bytes of the cache are decoded,
\* and get_or_create_remote_dir_children stores the children and reads them
\* back, or rolls back.
LoadRoot ==
    /\ step = "open" /\ Active
    /\ db.inodes[1].loaded = <<0>>
    /\ \E bytes \in {blob} \cup Garbled :
          LET decoded == DecodeDirectory(ParseDigest(db.inodes[1].dirDigest[1]), bytes)
              nodes == Children(decoded.directory)
              rows == WithRows(db.inodes, nodes)
              ok == /\ decoded # Refused
                    /\ Convertible(decoded.directory)
                    /\ ValidRemoteChildren(nodes)
                    /\ \A i \in DOMAIN rows : ReadableRow(i, rows[i])
          IN /\ answer' = [st |-> IF ok THEN "loaded" ELSE "refused",
                           intact |-> bytes = blob]
             /\ db' = IF ok THEN [db EXCEPT !.inodes = rows] ELSE db
    /\ view' = <<>> /\ seen' = NoAnswer
    /\ UNCHANGED <<pubVars, step, opens>>

\* get_inode and list_directory: validate_inode_row and project_inode.
ReadInodes ==
    /\ step = "open" /\ Active
    /\ LET ids == DOMAIN db.inodes
           rows == [i \in ids |-> FromColumns(db.inodes[i])]
       IN view' = [i \in ids |-> IF ReadableRow(i, db.inodes[i])
                                 THEN Store!Project(rows, i) ELSE Refused]
    /\ UNCHANGED <<pubVars, step, db, opens, answer, seen>>

\* Mutant of CloseSession: the close time is left NULL.
CloseUntimed ==
    /\ step = "open" /\ Active
    /\ db' = [db EXCEPT !.metadata[1].lifecycle = "closed"]
    /\ step' = "closed"
    /\ view' = <<>> /\ seen' = NoAnswer
    /\ UNCHANGED <<pubVars, opens, answer>>

\* SessionStore::close
CloseSession ==
    /\ step = "open" /\ Active
    /\ \E now \in Clock :
          /\ now >= 0
          /\ db' = [db EXCEPT !.metadata[1].lifecycle = "closed",
                              !.metadata[1].closed = <<now>>]
    /\ step' = "closed"
    /\ view' = <<>> /\ seen' = NoAnswer
    /\ UNCHANGED <<pubVars, opens, answer>>

\* The daemon dies, or an I/O error ends the opening; the database stays.
DaemonDies ==
    /\ step \notin {"down", "closed"}
    /\ step' = "down"
    /\ view' = <<>>
    /\ UNCHANGED <<pubVars, db, opens, answer, seen>>

\* Session::inspect, by any process and at any time.
InspectSession ==
    /\ seen' =
         IF ~db.file THEN [st |-> "nosession"]
         ELSE IF \/ db.version # SchemaVersion
                 \/ db.metadata = Null
                 \/ ~ReadableMetadata(db.metadata[1])
         THEN [st |-> "precondition"]
         ELSE [st |-> "ok", pid |-> db.metadata[1].pid,
               root |-> [hash |-> db.metadata[1].hash, size |-> db.metadata[1].size],
               closed |-> db.metadata[1].lifecycle = "closed"]
    /\ UNCHANGED <<pubVars, step, db, opens, answer, view>>

Next ==
    \/ AddEntry \/ EncodeAndPublish \/ PublishForeign
    \/ ReplaceTree \/ CreateTables \/ RecordVersion \/ Initialize
    \/ LoadRoot \/ ReadInodes \/ CloseSession \/ DaemonDies \/ InspectSession

Spec == Init /\ [][Next]_vars
-----------------------------------------------------------------------------
Loaded == db.inodes # <<>> /\ db.inodes[1].loaded = <<1>>

\* Every variable has its type.
TypeOK ==
    /\ own \in OwnStat
    /\ listed \in Seq(Stat)
    /\ origin \in {"none", "upload", "foreign", "refused"}
    /\ Published <=> blob # NoBlob
    /\ step \in {"down", "file", "tables", "version", "open", "closed"}
    /\ opens \in 0..MaxOpens
    /\ answer.st \in {"none", "loaded", "refused"}
    /\ db.version \in {0, SchemaVersion}
    /\ db.metadata # Null <=> db.inodes # <<>>

\* What the encoder makes of a local directory is never refused on the way
\* into a mount: not by validate_directory, node_metadata, NodeTime::new or
\* validate_remote_children, nor by validate_inode_row when it is read back.
UploadedDirectoryLoads ==
    origin = "upload" /\ answer.st = "refused" => ~answer.intact

\* The inode a listed entry must appear as: its name, kind, time and size, and
\* of its mode the permissions and a directory's sticky bit.
AsMounted(s, node) ==
    /\ node.name = s.name
    /\ node.kind = s.kind
    /\ node.mtime = s.mtime
    /\ \A k \in 0..8 : Bit(node.mode, 2 ^ k) <=> Bit(s.mode, 2 ^ k)
    /\ Bit(node.mode, 512) <=> s.kind = "directory" /\ Bit(s.mode, 512)
    /\ node.mode < 1024
    /\ s.kind # "directory" => node.size = s.content.size

\* A mounted directory that was uploaded has exactly the entries that were
\* listed, with their attributes and the digest or target that was listed,
\* whatever their order, the defaults for absent metadata and a damaged cache
\* file.
AttributesSurvive ==
    origin = "upload" /\ Loaded /\ view # <<>> =>
        /\ Len(view) = Len(listed) + 1
        /\ \A k \in DOMAIN listed : \E i \in 2..Len(view) :
              /\ view[i] # Refused /\ AsMounted(listed[k], view[i])
              /\ FromColumns(db.inodes[i]).content = listed[k].content

\* The message, hence the root digest, does not depend on the order in which
\* the directory was listed.
EncodingIsCanonical ==
    origin = "upload" =>
        \A p \in Bijection(DOMAIN listed, DOMAIN listed) :
            LET again(kind) ==
                  LET chosen == SelectSeq([k \in DOMAIN listed |-> listed[p[k]]],
                                          LAMBDA s : s.kind = kind)
                  IN [k \in DOMAIN chosen |->
                        [chosen[k] EXCEPT !.mode = MetadataMode(@)]]
            IN \A r \in Encode([builder EXCEPT !.files = again("file"),
                                    !.directories = again("directory"),
                                    !.symlinks = again("symlink")]) :
                  r # Refused /\ Wire(r.directory) = blob

\* The columns carry the table of SessionStore: every row of the database,
\* even for a directory of another client, is readable, and converts to the
\* row that SessionStore has.
RowsMatchStore ==
    db.inodes # <<>> =>
        LET rows == [i \in DOMAIN db.inodes |-> FromColumns(db.inodes[i])]
            new == Store!NewTable(DigestOf(blob))
        IN /\ \A i \in DOMAIN db.inodes : ReadableRow(i, db.inodes[i])
           /\ rows = IF Loaded
                     THEN Store!WithChildren(new, 1, Children(blob.directory))
                     ELSE new

\* What is inspected is the session that was last opened, and it is reported
\* as closed exactly when close returned: a daemon that died while it created
\* the database leaves an error behind, never an older or a closed session.
InspectIsHonest ==
    /\ seen.st = "ok" =>
         /\ seen.pid = opens
         /\ seen.root = DigestOf(blob)
         /\ seen.closed <=> step = "closed"
    /\ seen.st # "ok" => step \notin {"open", "closed"} \/ seen = NoAnswer

\* A relative link of the directory that leads out of the uploaded tree: some
\* prefix of its target has more ".." than names and levels above it.
LeavesTree(s) ==
    /\ s.kind = "symlink" /\ ~s.content.absolute
    /\ LET t == s.content.target
           count(c, n) == Cardinality({j \in 1..n : t[j] = c})
       IN \E n \in DOMAIN t : count("up", n) > count("name", n) + own.depth
Leaving == Cardinality({k \in DOMAIN listed : LeavesTree(listed[k])})

\* "Upload/snapshot should warn or count absolute and workspace-escaping
\* symlinks" (docs/technical-design.md): at any depth, no link that leads out of
\* the uploaded tree goes uncounted, even one whose target ends inside it.  (More
\* are counted: target_escapes asks whether a target leaves its own directory.)
EscapesAreCounted == origin = "upload" => warnings["escaping"] >= Leaving

\* "Mtime preservation is mandatory for supported files and directories"
\* (docs/technical-design.md): the mounted root has the time of the directory
\* that was uploaded.
RootMtimeSurvives ==
    origin = "upload" /\ Loaded /\ view # <<>> => view[1].mtime = own.mtime
=============================================================================
