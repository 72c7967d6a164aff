------------------------- MODULE TreeTransit_proofs -------------------------
(***************************************************************************)
(* The way of a directory into a mount, for any tree, message and number   *)
(* of daemons that die anywhere.  First the facts about the operators: the *)
(* validations of tree.rs, session.rs and store.rs agree on what the       *)
(* encoder makes, and the columns of the database carry the rows of        *)
(* SessionStore.  Then the state machine: TInv is inductive, and the       *)
(* properties of TreeTransit follow from it.                               *)
(***************************************************************************)
EXTENDS TreeTransit, TLAPS

USE TimeAssumption


\* Concatenating the three vectors of a directory loses and reorders nothing.
IsConcat(m, f, g, h) ==
    /\ Len(m) = Len(f) + Len(g) + Len(h)
    /\ DOMAIN m = 1..Len(m)
    /\ \A i \in 1..Len(f) : m[i] = f[i]
    /\ \A i \in 1..Len(g) : m[Len(f) + i] = g[i]
    /\ \A i \in 1..Len(h) : m[Len(f) + Len(g) + i] = h[i]

LEMMA ThreeParts ==
  ASSUME NEW S, NEW f \in Seq(S), NEW g \in Seq(S), NEW h \in Seq(S)
  PROVE  f \o g \o h \in Seq(S) /\ IsConcat(f \o g \o h, f, g, h)
  BY DEF IsConcat

\* Every position of the concatenation belongs to one of the vectors.
LEMMA PartOf ==
  ASSUME NEW a \in Nat, NEW b \in Nat, NEW c \in Nat, NEW i \in 1..(a + b + c)
  PROVE  \/ i \in 1..a
         \/ \E j \in 1..b : i = a + j
         \/ \E j \in 1..c : i = a + b + j
  <1>1. CASE i <= a
    BY <1>1
  <1>2. CASE i > a /\ i <= a + b
    <2>1. i - a \in 1..b /\ i = a + (i - a)
      BY <1>2
    <2> QED BY <2>1
  <1>3. CASE i > a + b
    <2>1. i - a - b \in 1..c /\ i = a + b + (i - a - b)
      BY <1>3
    <2> QED BY <2>1
  <1> QED BY <1>1, <1>2, <1>3

\* Display and FromStr of a digest are inverse to each other, and what
\* Digest::new accepts is accepted again.
LEMMA DigestRoundTrip ==
  ASSUME NEW d, d = [hash |-> d.hash, size |-> d.size]
  PROVE  /\ ParseDigest(DigestText(d)) = d
         /\ ValidDigest(d) => ParsesAsDigest(DigestText(d))
  BY DEF ParseDigest, DigestText, ValidDigest, ParsesAsDigest

\* The digest of bytes is valid, and no other bytes have it.
LEMMA DigestOfBytes ==
  ASSUME NEW x, x.size \in Nat
  PROVE  /\ DigestOf(x) = [hash |-> DigestOf(x).hash, size |-> DigestOf(x).size]
         /\ ValidDigest(DigestOf(x))
         /\ \A y : DigestOf(y) = DigestOf(x) => y = x
  <1>1. DigestOf(x) # NoDigest
    BY DEF DigestOf, NoDigest
  <1>2. \A y : DigestOf(y).hash.text = y
    BY DEF DigestOf, Sha256, Hash
  <1>3. DigestOf(x).hash.hex /\ DigestOf(x).size = x.size
    BY DEF DigestOf, Sha256, Hash
  <1>4. DigestOf(x) = [hash |-> DigestOf(x).hash, size |-> DigestOf(x).size]
    BY DEF DigestOf
  <1>5. ValidDigest(DigestOf(x))
    BY <1>1, <1>3 DEF ValidDigest
  <1>6. \A y : DigestOf(y) = DigestOf(x) => y = x
    BY <1>2
  <1> QED BY <1>4, <1>5, <1>6

-----------------------------------------------------------------------------
\* The children decoded_directory_children makes of well-typed nodes.
IsChild(c) ==
    /\ c = [name |-> c.name, kind |-> c.kind, mode |-> c.mode,
            mtime |-> c.mtime, content |-> c.content]
    /\ c.kind \in Kinds
    /\ c.mode \in {NoMode} \cup Nat
    /\ c.mtime \in {NoTime} \cup Times
    /\ c.kind # "symlink" => IsDigest(c.content) /\ ValidDigest(c.content)

\* insert_remote_inode and validate_inode_row are inverse to each other: the
\* columns of a child convert back to it.
LEMMA ColumnsCarry ==
  ASSUME NEW c, IsChild(c)
  PROVE  FromColumns(Columns(<<1>>, c)) = Store!Row(1, c)
  <1> DEFINE r == Columns(<<1>>, c)
  <1>1. r.name = c.name /\ r.kind = c.kind /\ r.parent = <<1>>
    BY DEF Columns
  <1>2. (IF r.mode = Null THEN NoMode ELSE r.mode[1]) = c.mode
    BY DEF Columns, ModeColumn, Null
  <1>3. (IF r.seconds = Null THEN NoTime ELSE <<r.seconds[1], r.nanos[1]>>) = c.mtime
    <2>1. CASE c.mtime = NoTime
      BY <2>1 DEF Columns, Null
    <2>2. CASE c.mtime # NoTime
      <3>1. r.seconds = <<c.mtime[1]>> /\ r.nanos = <<c.mtime[2]>>
        BY <2>2 DEF Columns
      <3>2. r.seconds # Null /\ r.seconds[1] = c.mtime[1] /\ r.nanos[1] = c.mtime[2]
        BY <3>1 DEF Null
      <3>3. c.mtime = <<c.mtime[1], c.mtime[2]>>
        BY <2>2 DEF IsChild, Times
      <3> QED BY <3>2, <3>3
    <2> QED BY <2>1, <2>2
  <1>4. (r.loaded = <<1>>) = FALSE
    BY DEF Columns, Null
  <1>5. (CASE r.kind = "file" -> ParseDigest(r.fileDigest[1])
           [] r.kind = "directory" -> ParseDigest(r.dirDigest[1])
           [] r.kind = "symlink" -> r.target[1]) = c.content
    <2>1. c.kind # "symlink" => ParseDigest(DigestText(c.content)) = c.content
      BY DigestRoundTrip DEF IsChild, IsDigest, ValidDigest
    <2>2. CASE c.kind = "file"
      BY <1>1, <2>1, <2>2 DEF Columns
    <2>3. CASE c.kind = "directory"
      BY <1>1, <2>1, <2>3 DEF Columns
    <2>4. CASE c.kind = "symlink"
      BY <1>1, <2>4 DEF Columns
    <2> QED BY ZenonT(30), <2>2, <2>3, <2>4 DEF IsChild, Kinds
  <1> HIDE DEF r
  <1>6. (IF r.parent = Null THEN 0 ELSE r.parent[1]) = 1
    BY <1>1 DEF Null
  <1>7. FromColumns(r) = [parent |-> 1, name |-> c.name, kind |-> c.kind,
                          mode |-> c.mode, mtime |-> c.mtime,
                          content |-> c.content, loaded |-> FALSE]
    BY ZenonT(30), <1>1, <1>2, <1>3, <1>4, <1>5, <1>6 DEF FromColumns
  <1> QED BY <1>7 DEF Store!Row, r

\* validate_inode_row accepts the row of a child that the checks before it
\* accepted.
LEMMA ChildReadable ==
  ASSUME NEW c, IsChild(c), NEW i, i # 1,
         ValidName(c.name),
         c.mode <= MaxMode,
         c.mtime # NoTime => ValidNodeTime(c.mtime[1], c.mtime[2])
  PROVE  ReadableRow(i, Columns(<<1>>, c))
  <1> DEFINE r == Columns(<<1>>, c)
  <1>1. r.parent = <<1>> /\ r.parent # Null /\ r.parent[1] > 0
    BY DEF Columns, Null
  <1>2. r.mode = Null \/ (r.mode[1] >= 0 /\ r.mode[1] <= MaxMode)
    BY DEF Columns, ModeColumn, Null, IsChild, MaxMode
  <1>3. /\ (r.seconds = Null) = (r.nanos = Null)
        /\ r.seconds = Null \/ ValidNodeTime(r.seconds[1], r.nanos[1])
    BY DEF Columns, Null
  <1>4. c.kind # "symlink" => ParsesAsDigest(DigestText(c.content))
    BY SMTT(30), DigestRoundTrip DEF IsChild, IsDigest, ValidDigest
  <1>5. /\ r.fileDigest = IF c.kind = "file" THEN <<DigestText(c.content)>> ELSE Null
        /\ r.dirDigest = IF c.kind = "directory" THEN <<DigestText(c.content)>> ELSE Null
        /\ r.dirty = IF c.kind = "file" THEN <<0>> ELSE Null
        /\ r.loaded = IF c.kind = "directory" THEN <<0>> ELSE Null
        /\ r.target = IF c.kind = "symlink" THEN <<c.content>> ELSE Null
        /\ r.tombstone = 0 /\ r.overlay = Null
        /\ r.name = c.name /\ r.kind = c.kind
    BY DEF Columns
  <1>6. c.kind \in {"file", "directory", "symlink"}
    BY DEF IsChild, Kinds
  <1> HIDE DEF r
  <1>7. /\ r.fileDigest = Null \/ ParsesAsDigest(r.fileDigest[1])
        /\ r.dirDigest = Null \/ ParsesAsDigest(r.dirDigest[1])
    BY <1>4, <1>5
  <1>8. Converts(r)
    BY <1>1, <1>2, <1>3, <1>5, <1>6, <1>7 DEF Converts
  <1>9. ValidHierarchy(i, r)
    BY <1>1, <1>5 DEF ValidHierarchy
  <1>10. ValidKind(r)
    BY <1>5, <1>6 DEF ValidKind, Null
  <1> QED BY <1>2, <1>8, <1>9, <1>10 DEF ReadableRow, r

\* The row of the root is readable and converts to the row of SessionStore,
\* before and after it is marked loaded.
LEMMA RootCarried ==
  ASSUME NEW d, ValidDigest(d), d = [hash |-> d.hash, size |-> d.size],
         NEW l \in {0, 1}
  PROVE  LET r == [RootColumns(d) EXCEPT !.loaded = <<l>>] IN
         /\ ReadableRow(1, r)
         /\ FromColumns(r) = [Store!NewTable(d)[1] EXCEPT !.loaded = (l = 1)]
         /\ ParseDigest(r.dirDigest[1]) = d
         /\ l = 0 => r = RootColumns(d)
  <1> DEFINE r == [RootColumns(d) EXCEPT !.loaded = <<l>>]
  <1>1. r = [parent |-> Null, name |-> EmptyName, kind |-> "directory",
             mode |-> Null, seconds |-> Null, nanos |-> Null, tombstone |-> 0,
             overlay |-> Null, fileDigest |-> Null, dirty |-> Null,
             target |-> Null, dirDigest |-> <<DigestText(d)>>, loaded |-> <<l>>]
    BY DEF RootColumns, Columns, ModeColumn
  <1>2. l = 0 => r = RootColumns(d)
    <2>1. RootColumns(d).loaded = <<0>>
      BY DEF RootColumns, Columns
    <2>2. RootColumns(d) = [RootColumns(d) EXCEPT !.loaded = @]
      BY DEF RootColumns, Columns
    <2> QED BY <2>1, <2>2
  <1>3. ParseDigest(DigestText(d)) = d /\ ParsesAsDigest(DigestText(d))
    BY DigestRoundTrip
  <1> HIDE DEF r
  <1>4. ReadableRow(1, r)
    BY <1>1, <1>3 DEF ReadableRow, Converts, ValidHierarchy, ValidKind, Null
  <1>5. FromColumns(r) = [parent |-> 0, name |-> EmptyName, kind |-> "directory",
                          mode |-> NoMode, mtime |-> NoTime, content |-> d,
                          loaded |-> (l = 1)]
    BY <1>1, <1>3 DEF FromColumns, Null
  <1>6. [Store!NewTable(d)[1] EXCEPT !.loaded = (l = 1)] = 
           [parent |-> 0, name |-> EmptyName, kind |-> "directory",
            mode |-> NoMode, mtime |-> NoTime, content |-> d, loaded |-> (l = 1)]
    BY DEF Store!NewTable, Store!Row, Store!NoMode, Store!NoTime, NoMode, NoTime,
           EmptyName
  <1> QED BY <1>1, <1>2, <1>3, <1>4, <1>5, <1>6 DEF r

-----------------------------------------------------------------------------
\* The children of a message, part by part.
ChildPart(kind, s) == [i \in DOMAIN s |-> Child(kind, s[i])]

ModeOf(n) == IF n.props = NoProps THEN NoMode ELSE n.props.mode

\* Conversion keeps the length of a part, and a set of entries may grow.
LEMMA PartSeq ==
  ASSUME NEW s, s \in Seq(Range(s)), NEW kind
  PROVE  LET p == ChildPart(kind, s) IN
         p \in Seq(Range(p)) /\ DOMAIN p = DOMAIN s /\ Len(p) = Len(s)
  BY DEF ChildPart, Range

LEMMA SeqMonotonic ==
  ASSUME NEW S, NEW T, S \subseteq T
  PROVE  Seq(S) \subseteq Seq(T)
  OBVIOUS

\* decoded_directory_children makes one child of every node of a convertible
\* message, in order, with its name.
ChildrenMatch(m, n) ==
    /\ Len(m) = Len(n)
    /\ \A i \in 1..Len(m) :
          /\ IsChild(m[i])
          /\ m[i].name = n[i].name
          /\ m[i].mode = ModeOf(n[i])
          /\ m[i].mtime # NoTime => ValidNodeTime(m[i].mtime[1], m[i].mtime[2])

LEMMA ChildrenOfMessage ==
  ASSUME NEW d, IsMessage(d), Convertible(d)
  PROVE  Children(d) \in Seq(Range(Children(d))) /\ ChildrenMatch(Children(d), Members(d))
  <1> DEFINE f == ChildPart("file", d.files)
             g == ChildPart("directory", d.directories)
             h == ChildPart("symlink", d.symlinks)
             Good(c, n) == /\ IsChild(c)
                           /\ c.name = n.name
                           /\ c.mode = ModeOf(n)
                           /\ c.mtime # NoTime => ValidNodeTime(c.mtime[1], c.mtime[2])
  <1>1. /\ d.files \in Seq(Range(d.files))
        /\ d.directories \in Seq(Range(d.directories))
        /\ d.symlinks \in Seq(Range(d.symlinks))
    BY DEF IsMessage
  <1>2. ASSUME NEW kind \in Kinds, NEW n, ConvertsToChild(kind, n),
               \/ n.props = NoProps
               \/ /\ n.props.mode \in {NoMode} \cup Nat
                  /\ n.props.mtime \in {NoTime} \cup Times,
               kind # "symlink" => IsDigest(n.digest)
        PROVE  Good(Child(kind, n), n)
    <2> DEFINE c == Child(kind, n)
    <2>1. c = [name |-> c.name, kind |-> c.kind, mode |-> c.mode,
               mtime |-> c.mtime, content |-> c.content]
      BY DEF Child
    <2>2. c.name = n.name /\ c.kind = kind /\ c.mode = ModeOf(n)
      BY DEF Child, ModeOf
    <2>3. c.mode \in {NoMode} \cup Nat /\ c.mtime \in {NoTime} \cup Times
      BY SMTT(30), <1>2 DEF Child
    <2>4. kind # "symlink" => IsDigest(c.content) /\ ValidDigest(c.content)
      BY <1>2 DEF Child, ConvertsToChild
    <2>5. c.mtime # NoTime => ValidNodeTime(c.mtime[1], c.mtime[2])
      BY <1>2 DEF Child, ConvertsToChild
    <2> HIDE DEF c
    <2>6. IsChild(c)
      BY SMTT(30), <2>1, <2>2, <2>3, <2>4 DEF IsChild
    <2> QED BY <2>2, <2>5, <2>6 DEF c
  <1>3. \A i \in DOMAIN d.files : Good(f[i], d.files[i])
    BY ZenonT(30), <1>2 DEF ChildPart, Convertible, IsMessage, Kinds
  <1>4. \A i \in DOMAIN d.directories : Good(g[i], d.directories[i])
    BY ZenonT(30), <1>2 DEF ChildPart, Convertible, IsMessage, Kinds
  <1>5. \A i \in DOMAIN d.symlinks : Good(h[i], d.symlinks[i])
    BY ZenonT(30), <1>2 DEF ChildPart, Convertible, IsMessage, Kinds
  <1>6. /\ f \in Seq(Range(f)) /\ DOMAIN f = DOMAIN d.files
        /\ g \in Seq(Range(g)) /\ DOMAIN g = DOMAIN d.directories
        /\ h \in Seq(Range(h)) /\ DOMAIN h = DOMAIN d.symlinks
        /\ Len(f) = Len(d.files) /\ Len(g) = Len(d.directories)
        /\ Len(h) = Len(d.symlinks)
    BY <1>1, PartSeq
  <1> DEFINE S == Range(f) \cup Range(g) \cup Range(h)
             N == Range(d.files) \cup Range(d.directories) \cup Range(d.symlinks)
             a == Len(f)
             b == Len(g)
             e == Len(h)
             m == Children(d)
             n == Members(d)
  <1> HIDE DEF Good, S, N
  <1>7. f \in Seq(S) /\ g \in Seq(S) /\ h \in Seq(S) /\ m = f \o g \o h
    <2>1. Range(f) \subseteq S /\ Range(g) \subseteq S /\ Range(h) \subseteq S
      BY DEF S
    <2>2. m = f \o g \o h
      BY DEF Children, ChildPart
    <2> HIDE DEF f, g, h, m
    <2> QED BY <1>6, <2>1, <2>2, SeqMonotonic
  <1>8. /\ d.files \in Seq(N) /\ d.directories \in Seq(N) /\ d.symlinks \in Seq(N)
        /\ n = d.files \o d.directories \o d.symlinks
    BY <1>1, SeqMonotonic DEF N, Members
  <1>81. /\ a \in Nat /\ b \in Nat /\ e \in Nat
         /\ a = Len(d.files) /\ b = Len(d.directories) /\ e = Len(d.symlinks)
         /\ DOMAIN d.files = 1..a /\ DOMAIN d.directories = 1..b
         /\ DOMAIN d.symlinks = 1..e
    <2> HIDE DEF f, g, h
    <2> QED BY <1>6, <1>7, <1>8
  <1> HIDE DEF f, g, h, m, n
  <1>9. m \in Seq(S) /\ IsConcat(m, f, g, h)
    BY <1>7, ThreeParts
  <1>10. IsConcat(n, d.files, d.directories, d.symlinks)
    BY <1>8, ThreeParts
  <1>11. /\ Len(m) = a + b + e /\ Len(n) = a + b + e
         /\ \A i \in 1..a : m[i] = f[i] /\ n[i] = d.files[i]
         /\ \A i \in 1..b : m[a + i] = g[i] /\ n[a + i] = d.directories[i]
         /\ \A i \in 1..e : m[a + b + i] = h[i] /\ n[a + b + i] = d.symlinks[i]
    BY ZenonT(30), <1>81, <1>9, <1>10 DEF IsConcat
  <1> HIDE DEF a, b, e
  <1>12. ASSUME NEW i \in 1..Len(m) PROVE Good(m[i], n[i])
    <2>1. CASE i \in 1..a
      BY ZenonT(30), <1>3, <1>81, <1>11, <2>1
    <2>2. ASSUME NEW j \in 1..b, i = a + j PROVE Good(m[i], n[i])
      <3>1. m[i] = g[j] /\ n[i] = d.directories[j]
        BY <1>11, <2>2
      <3> QED BY <1>4, <1>81, <2>2, <3>1
    <2>3. ASSUME NEW j \in 1..e, i = a + b + j PROVE Good(m[i], n[i])
      <3>1. m[i] = h[j] /\ n[i] = d.symlinks[j]
        BY <1>11, <2>3
      <3> QED BY <1>5, <1>81, <2>3, <3>1
    <2>4. i \in 1..(a + b + e)
      BY <1>11
    <2>41. a \in Nat /\ b \in Nat /\ e \in Nat
      BY <1>81
    <2>5. \/ i \in 1..a
          \/ \E j \in 1..b : i = a + j
          \/ \E j \in 1..e : i = a + b + j
      BY <2>4, <2>41, PartOf
    <2> QED BY <2>1, <2>2, <2>3, <2>5
  <1>13. m \in Seq(Range(m))
    BY <1>9 DEF Range
  <1> QED BY <1>11, <1>12, <1>13 DEF Good, m, n, ChildrenMatch

\* The rows of a loaded root are the table of SessionStore.
LEMMA RowsCarried ==
  ASSUME NEW d, IsMessage(d), Convertible(d),
         NEW x, ValidDigest(x), x = [hash |-> x.hash, size |-> x.size]
  PROVE  LET rows == WithRows(<<RootColumns(x)>>, Children(d))
         IN /\ DOMAIN rows = 1..(1 + Len(Children(d)))
            /\ rows[1] = [RootColumns(x) EXCEPT !.loaded = <<1>>]
            /\ \A i \in 1..Len(Children(d)) :
                  rows[i + 1] = Columns(<<1>>, Children(d)[i])
            /\ [i \in DOMAIN rows |-> FromColumns(rows[i])]
                 = Store!WithChildren(Store!NewTable(x), 1, Children(d))
  <1> DEFINE c == Children(d)
             head == [RootColumns(x) EXCEPT !.loaded = <<1>>]
             tail == [i \in DOMAIN c |-> Columns(<<1>>, c[i])]
             rows == WithRows(<<RootColumns(x)>>, c)
             srow == [Store!NewTable(x)[1] EXCEPT !.loaded = TRUE]
             srest == [i \in DOMAIN c |-> Store!Row(1, c[i])]
             table == Store!WithChildren(Store!NewTable(x), 1, c)
  <1>1. c \in Seq(Range(c)) /\ \A i \in 1..Len(c) : IsChild(c[i])
    BY ChildrenOfMessage DEF ChildrenMatch
  <1>2. rows = <<head>> \o tail
    BY DEF WithRows
  <1>3. table = <<srow>> \o srest
    <2>1. Store!NewTable(x) = <<Store!NewTable(x)[1]>>
      BY DEF Store!NewTable
    <2> DEFINE y == Store!NewTable(x)[1]
    <2> HIDE DEF y
    <2>2. [<<y>> EXCEPT ![1].loaded = TRUE] = <<[y EXCEPT !.loaded = TRUE]>>
      <3> DEFINE z == [y EXCEPT !.loaded = TRUE]
      <3>1. <<y>>[1] = y
        OBVIOUS
      <3> HIDE DEF z
      <3>2. [<<y>> EXCEPT ![1] = z] = <<z>>
        OBVIOUS
      <3> QED BY <3>1, <3>2 DEF z
    <2>3. [Store!NewTable(x) EXCEPT ![1].loaded = TRUE] = <<srow>>
      BY ZenonT(30), <2>1, <2>2 DEF y
    <2> QED BY ZenonT(30), <2>3 DEF Store!WithChildren
  <1>4. FromColumns(head) = srow
    BY ZenonT(30), RootCarried
  <1> HIDE DEF c, head, srow, rows, table
  <1>5. \A i \in 1..Len(c) : FromColumns(tail[i]) = srest[i]
    BY <1>1, ColumnsCarry
  <1>6. /\ DOMAIN rows = 1..(1 + Len(c)) /\ rows[1] = head
        /\ \A i \in 1..Len(c) : rows[i + 1] = Columns(<<1>>, c[i])
    BY SMTT(30), <1>1, <1>2
  <1>7. /\ DOMAIN table = 1..(1 + Len(c)) /\ table[1] = srow
        /\ \A i \in 1..Len(c) : table[i + 1] = srest[i]
        /\ table = [i \in 1..(1 + Len(c)) |-> table[i]]
    BY SMTT(30), <1>1, <1>3
  <1>8. ASSUME NEW i \in 1..(1 + Len(c)) PROVE FromColumns(rows[i]) = table[i]
    <2>1. CASE i = 1
      BY <1>4, <1>6, <1>7, <2>1
    <2>2. CASE i # 1
      <3>1. Len(c) \in Nat
        BY <1>1
      <3>2. i - 1 \in 1..Len(c) /\ (i - 1) + 1 = i
        BY <2>2, <3>1
      <3>3. rows[i] = Columns(<<1>>, c[i - 1]) /\ table[i] = srest[i - 1]
        BY ZenonT(30), <1>6, <1>7, <3>2
      <3>4. FromColumns(tail[i - 1]) = srest[i - 1]
        BY ZenonT(30), <1>5, <3>2
      <3>5. tail[i - 1] = Columns(<<1>>, c[i - 1])
        BY <1>1, <3>2
      <3> QED BY <3>3, <3>4, <3>5
    <2> QED BY <2>1, <2>2
  <1>9. [i \in DOMAIN rows |-> FromColumns(rows[i])] = table
    BY <1>6, <1>7, <1>8
  <1> QED BY ZenonT(30), <1>6, <1>9 DEF c, head, rows, table

-----------------------------------------------------------------------------
\* What add_file, add_directory and add_symlink put into a builder.
EntriesOf(kind) ==
    {e \in [name : Int, kind : Kinds, mode : Nat, mtime : Times,
            content : {s.content : s \in Stat}] :
        /\ e.kind = kind
        /\ ValidName(e.name)
        /\ kind # "symlink" => IsDigest(e.content) /\ ValidDigest(e.content)}
IsBuilder(b) ==
    b \in [mode : Nat, mtime : Times, files : Seq(EntriesOf("file")),
           directories : Seq(EntriesOf("directory")),
           symlinks : Seq(EntriesOf("symlink"))]

InOrder(s) == \A i, j \in 1..Len(s) : i < j => s[i].name <= s[j].name

\* sort_entries permutes and orders.
LEMMA SortPart ==
  ASSUME NEW kind, NEW s \in Seq(EntriesOf(kind)), NEW t \in Sorted(s)
  PROVE  /\ t \in Seq(EntriesOf(kind))
         /\ Len(t) = Len(s)
         /\ InOrder(t)
         /\ \A k \in 1..Len(s) : \E i \in 1..Len(t) : t[i] = s[k]
  <1>1. PICK p \in SortOrders(s) : t = [i \in DOMAIN s |-> s[p[i]]]
    BY DEF Sorted
  <1>2. /\ p \in [DOMAIN s -> DOMAIN s]
        /\ \A k \in DOMAIN s : \E i \in DOMAIN s : p[i] = k
    BY <1>1 DEF SortOrders, Bijection, Injection, Surjection
  <1> DEFINE E == EntriesOf(kind)
  <1> HIDE DEF E
  <1>0. s \in Seq(E) /\ DOMAIN s = 1..Len(s)
    BY DEF E
  <1>3. t \in Seq(E) /\ Len(t) = Len(s) /\ DOMAIN t = 1..Len(s)
    BY <1>0, <1>1, <1>2
  <1>4. \A k \in 1..Len(s) : s[k].name \in Int
    BY DEF EntriesOf
  <1>5. ASSUME NEW i \in 1..Len(s), NEW j \in 1..Len(s), i < j
        PROVE  t[i].name <= t[j].name
    <2>1. t[i] = s[p[i]] /\ t[j] = s[p[j]] /\ p[i] \in 1..Len(s) /\ p[j] \in 1..Len(s)
      BY ZenonT(30), <1>0, <1>1, <1>2
    <2>2. s[p[i]].name < s[p[j]].name \/ s[p[i]].name = s[p[j]].name
      BY <1>0, <1>1, <1>5 DEF SortOrders
    <2> QED BY SMTT(30), <1>4, <2>1, <2>2
  <1>6. ASSUME NEW k \in 1..Len(s) PROVE \E i \in 1..Len(t) : t[i] = s[k]
    <2>1. PICK i \in 1..Len(s) : p[i] = k
      BY ZenonT(30), <1>0, <1>2
    <2> QED BY <1>0, <1>1, <1>3, <2>1
  <1>7. InOrder(t)
    BY <1>3, <1>5 DEF InOrder
  <1> QED BY <1>3, <1>6, <1>7 DEF E

LEMMA NoModeNegative == NoMode \in Int /\ NoMode \notin Nat
  BY DEF NoMode

LEMMA SortBuilder ==
  ASSUME NEW b, IsBuilder(b), NEW c \in SortEntries(b)
  PROVE  /\ IsBuilder(c)
         /\ c.files \in Sorted(b.files)
         /\ c.directories \in Sorted(b.directories)
         /\ c.symlinks \in Sorted(b.symlinks)
         /\ InOrder(c.files) /\ InOrder(c.directories) /\ InOrder(c.symlinks)
  <1> DEFINE f == c.files
             g == c.directories
             h == c.symlinks
  <1>1. f \in Sorted(b.files) /\ g \in Sorted(b.directories) /\ h \in Sorted(b.symlinks)
    BY DEF SortEntries
  <1>2. c = [mode |-> b.mode, mtime |-> b.mtime, files |-> f, directories |-> g,
             symlinks |-> h]
    BY DEF SortEntries
  <1>3. f \in Seq(EntriesOf("file")) /\ InOrder(f)
    BY <1>1, SortPart DEF IsBuilder
  <1>4. g \in Seq(EntriesOf("directory")) /\ InOrder(g)
    BY <1>1, SortPart DEF IsBuilder
  <1>5. h \in Seq(EntriesOf("symlink")) /\ InOrder(h)
    BY <1>1, SortPart DEF IsBuilder
  <1>6. b.mode \in Nat /\ b.mtime \in Times
    BY DEF IsBuilder
  <1>7. IsBuilder(c)
    BY SMTT(30), <1>2, <1>3, <1>4, <1>5, <1>6 DEF IsBuilder
  <1> QED BY <1>1, <1>3, <1>4, <1>5, <1>7

\* The node of an entry: its name and content, and properties with a mode
\* within the supported bits.
LEMMA NodeOfEntry ==
  ASSUME NEW kind \in Kinds, NEW e \in EntriesOf(kind)
  PROVE  /\ Node(e).name = e.name
         /\ Node(e).props # NoProps
         /\ Node(e).props.mode = SupportedMode(kind, e.mode)
         /\ Node(e).props.mode \in Nat /\ Node(e).props.mode < 1024
         /\ Node(e).props.mtime = e.mtime
         /\ kind # "symlink" => Node(e).digest = e.content
         /\ kind = "symlink" => Node(e).target = e.content
  <1> DEFINE props == Properties(e.kind, e.mode, e.mtime)
  <1>1. e.kind = kind /\ e.mode \in Nat /\ e.mtime \in Times
    BY DEF EntriesOf
  <1>2. e.mode # NoMode
    BY <1>1, NoModeNegative
  <1>21. props = [mode |-> SupportedMode(kind, e.mode), mtime |-> e.mtime]
    BY <1>1, <1>2 DEF Properties
  <1>3. SupportedMode(kind, e.mode) \in Nat /\ SupportedMode(kind, e.mode) < 1024
    <2>1. \A m \in Nat : /\ m % 1024 \in Nat /\ m % 1024 < 1024
                       /\ m % 512 \in Nat /\ m % 512 < 1024
      OBVIOUS
    <2> QED BY <1>1, <1>2, <2>1 DEF SupportedMode
  <1>4. props # NoProps
    BY <1>21 DEF NoProps
  <1> HIDE DEF props
  <1>5. /\ Node(e).name = e.name /\ Node(e).props = props
        /\ kind # "symlink" => Node(e).digest = e.content
        /\ kind = "symlink" => Node(e).target = e.content
    <2>1. CASE kind = "file"
      BY <1>1, <2>1 DEF Node, props
    <2>2. CASE kind = "directory"
      BY <1>1, <2>2 DEF Node, props
    <2>3. CASE kind = "symlink"
      BY <1>1, <2>3 DEF Node, props
    <2> QED BY <2>1, <2>2, <2>3 DEF Kinds
  <1> QED BY <1>21, <1>3, <1>4, <1>5

ValidTimes == {t \in Times : ValidTimestamp(t)}
FitPart(s) ==
    /\ \A i \in 1..Len(s) : s[i].mtime \in ValidTimes
    /\ \A i, j \in 1..Len(s) : s[i].name = s[j].name => i = j

\* What encode checks over all members holds of each vector.
LEMMA PartsOfMembers ==
  ASSUME NEW S, NEW b, b.files \in Seq(S), b.directories \in Seq(S),
         b.symlinks \in Seq(S), DistinctNames(b),
         \A i \in DOMAIN Members(b) : Members(b)[i].mtime \in ValidTimes
  PROVE  FitPart(b.files) /\ FitPart(b.directories) /\ FitPart(b.symlinks)
  <1> DEFINE f == b.files
             g == b.directories
             h == b.symlinks
             m == Members(b)
  <1>1. f \in Seq(S) /\ g \in Seq(S) /\ h \in Seq(S) /\ m = f \o g \o h
    BY DEF Members
  <1>2. /\ \A i, j \in DOMAIN m : m[i].name = m[j].name => i = j
        /\ \A i \in DOMAIN m : m[i].mtime \in ValidTimes
    BY DEF DistinctNames
  <1> HIDE DEF f, g, h, m
  <1>3. IsConcat(m, f, g, h)
    BY <1>1, ThreeParts
  <1>4. Len(f) \in Nat /\ Len(g) \in Nat /\ Len(h) \in Nat /\ DOMAIN m = 1..Len(m)
    BY <1>1, <1>3 DEF IsConcat
  <1>5. FitPart(f)
    <2>1. \A i \in 1..Len(f) : i \in DOMAIN m
      BY <1>3, <1>4 DEF IsConcat
    <2> QED BY ZenonT(30), <1>2, <1>3, <2>1 DEF IsConcat, FitPart
  <1>6. FitPart(g)
    <2>1. ASSUME NEW i \in 1..Len(g)
          PROVE  Len(f) + i \in DOMAIN m /\ m[Len(f) + i] = g[i]
      BY SMTT(30), <1>3, <1>4 DEF IsConcat
    <2>2. ASSUME NEW i \in 1..Len(g), NEW j \in 1..Len(g), g[i].name = g[j].name
          PROVE  i = j
      <3>1. Len(f) + i = Len(f) + j
        BY <1>2, <2>1, <2>2, ZenonT(30)
      <3> QED BY <1>4, <3>1
    <2> QED BY <1>2, <2>1, <2>2, ZenonT(30) DEF FitPart
  <1>7. FitPart(h)
    <2>1. ASSUME NEW i \in 1..Len(h)
          PROVE  Len(f) + Len(g) + i \in DOMAIN m /\ m[Len(f) + Len(g) + i] = h[i]
      BY <1>3, <1>4 DEF IsConcat
    <2>2. ASSUME NEW i \in 1..Len(h), NEW j \in 1..Len(h), h[i].name = h[j].name
          PROVE  i = j
      <3>1. Len(f) + Len(g) + i = Len(f) + Len(g) + j
        BY <1>2, <2>1, <2>2, ZenonT(30)
      <3> QED BY <1>4, <3>1
    <2> QED BY <1>2, <2>1, <2>2, ZenonT(30) DEF FitPart
  <1> QED BY <1>5, <1>6, <1>7 DEF f, g, h

\* The nodes of one vector pass every check that a vector of nodes has to pass
\* on its way into the database.
NodePart(s) == [i \in DOMAIN s |-> Node(s[i])]
GoodNode(kind, n) ==
    /\ ValidName(n.name)
    /\ ValidProps(n.props)
    /\ n.props.mode \in Nat /\ n.props.mtime \in Times
    /\ ModeOf(n) < 1024
    /\ ConvertsToChild(kind, n)
    /\ kind # "symlink" => IsDigest(n.digest) /\ ValidDigest(n.digest)
GoodNodes(kind, p, s) ==
    /\ p \in Seq(Range(p)) /\ DOMAIN p = 1..Len(s) /\ Len(p) = Len(s)
    /\ SortedNames(p)
    /\ \A i \in 1..Len(s) : p[i].name = s[i].name /\ GoodNode(kind, p[i])

LEMMA PartLoads ==
  ASSUME NEW kind \in Kinds, NEW s \in Seq(EntriesOf(kind)), InOrder(s), FitPart(s)
  PROVE  GoodNodes(kind, NodePart(s), s)
  <1> DEFINE p == NodePart(s)
             E == EntriesOf(kind)
  <1>1. /\ DOMAIN s = 1..Len(s) /\ Len(s) \in Nat
        /\ \A i \in 1..Len(s) : s[i] \in E
    OBVIOUS
  <1>2. p \in Seq(Range(p)) /\ DOMAIN p = 1..Len(s) /\ Len(p) = Len(s)
    BY <1>1 DEF NodePart, Range
  <1>3. \A i \in 1..Len(s) : p[i] = Node(s[i])
    BY SMTT(30), <1>1 DEF NodePart
  <1> HIDE DEF p, E
  <1>4. ASSUME NEW i \in 1..Len(s)
        PROVE  p[i].name = s[i].name /\ GoodNode(kind, p[i])
    <2> DEFINE e == s[i]
    <2> HIDE DEF e
    <2>1. p[i] = Node(e) /\ e \in E /\ e.mtime \in ValidTimes
      BY SMTT(30), <1>1, <1>3 DEF e, FitPart
    <2>2. /\ p[i].name = e.name /\ p[i].props # NoProps
          /\ p[i].props.mode \in Nat /\ p[i].props.mode < 1024
          /\ p[i].props.mtime = e.mtime
          /\ kind # "symlink" => p[i].digest = e.content
      BY <2>1, NodeOfEntry DEF E
    <2>3. /\ ValidName(e.name)
          /\ kind # "symlink" => IsDigest(e.content) /\ ValidDigest(e.content)
      BY <2>1 DEF E, EntriesOf
    <2>4. e.mtime \in Times /\ ValidTimestamp(e.mtime)
      BY <2>1 DEF ValidTimes
    <2>5. ValidNodeTime(e.mtime[1], e.mtime[2])
      BY SMTT(30), <2>4, NodeTimeAssumption DEF ValidTimestamp, ValidNodeTime, Times
    <2>6. ValidProps(p[i].props)
      BY <2>2, <2>4 DEF ValidProps, ValidMtime
    <2>7. ConvertsToChild(kind, p[i])
      BY SMTT(30), <2>2, <2>3, <2>5 DEF ConvertsToChild
    <2>8. ModeOf(p[i]) < 1024
      BY <2>2 DEF ModeOf
    <2> QED BY SMTT(30), <2>2, <2>3, <2>4, <2>6, <2>7, <2>8 DEF e, GoodNode
  <1>5. ASSUME NEW i \in 1..Len(s), i > 1
        PROVE  p[i - 1].name < p[i].name
    <2>1. i - 1 \in 1..Len(s) /\ i - 1 < i /\ i - 1 # i
      BY <1>1, <1>5
    <2>2. s[i - 1].name <= s[i].name /\ s[i - 1].name # s[i].name
      BY <2>1 DEF InOrder, FitPart
    <2>3. s[i - 1].name \in Int /\ s[i].name \in Int
      BY <1>1, <2>1 DEF E, EntriesOf
    <2>4. p[i - 1].name = s[i - 1].name /\ p[i].name = s[i].name
      BY <1>4, <2>1, ZenonT(30)
    <2> QED BY <2>2, <2>3, <2>4
  <1>6. SortedNames(p)
    BY SMTT(30), <1>2, <1>5 DEF SortedNames
  <1> QED BY <1>2, <1>4, <1>6 DEF p, GoodNodes

\* Two directories whose parts have the same names have members with the same
\* names.
SameNamed(m, n) ==
    /\ Len(m) = Len(n) /\ DOMAIN m = 1..Len(m) /\ DOMAIN n = 1..Len(m)
    /\ \A i \in 1..Len(m) : m[i].name = n[i].name

LEMMA SameNames ==
  ASSUME NEW S, NEW f \in Seq(S), NEW g \in Seq(S), NEW h \in Seq(S),
         NEW T, NEW x \in Seq(T), NEW y \in Seq(T), NEW z \in Seq(T),
         SameNamed(f, x), SameNamed(g, y), SameNamed(h, z)
  PROVE  SameNamed(f \o g \o h, x \o y \o z)
  <1> DEFINE m == f \o g \o h
             n == x \o y \o z
             a == Len(f)
             b == Len(g)
             c == Len(h)
  <1>1. a \in Nat /\ b \in Nat /\ c \in Nat /\ a = Len(x) /\ b = Len(y) /\ c = Len(z)
    BY DEF SameNamed
  <1>2. IsConcat(m, f, g, h) /\ IsConcat(n, x, y, z)
    BY SMTT(30), ThreeParts
  <1> HIDE DEF m, n
  <1>3. /\ DOMAIN m = 1..Len(m) /\ DOMAIN n = 1..Len(n)
        /\ Len(m) = a + b + c /\ Len(n) = a + b + c
        /\ \A i \in 1..a : m[i] = f[i] /\ n[i] = x[i]
        /\ \A i \in 1..b : m[a + i] = g[i] /\ n[a + i] = y[i]
        /\ \A i \in 1..c : m[a + b + i] = h[i] /\ n[a + b + i] = z[i]
    BY SMTT(30), <1>1, <1>2 DEF IsConcat
  <1>4. ASSUME NEW i \in 1..Len(m) PROVE m[i].name = n[i].name
    <2> HIDE DEF a, b, c
    <2>1. CASE i \in 1..a
      BY <1>3, <2>1, ZenonT(30) DEF a, SameNamed
    <2>2. ASSUME NEW j \in 1..b, i = a + j PROVE m[i].name = n[i].name
      BY <1>3, <2>2, ZenonT(30) DEF b, SameNamed
    <2>3. ASSUME NEW j \in 1..c, i = a + b + j PROVE m[i].name = n[i].name
      BY <1>3, <2>3, ZenonT(30) DEF c, SameNamed
    <2>4. i \in 1..(a + b + c)
      BY <1>3
    <2>5. \/ i \in 1..a
          \/ \E j \in 1..b : i = a + j
          \/ \E j \in 1..c : i = a + b + j
      <3>1. a \in Nat /\ b \in Nat /\ c \in Nat
        BY <1>1
      <3> QED BY <2>4, <3>1, PartOf
    <2> QED BY <2>1, <2>2, <2>3, <2>5
  <1> QED BY <1>3, <1>4 DEF m, n, SameNamed

\* What the checks of a message ask of the nodes of one kind.
Passes(kind, p) ==
    /\ p \in Seq(Range(p)) /\ SortedNames(p)
    /\ \A i \in DOMAIN p : p[i].props.mode \in Nat /\ p[i].props.mtime \in Times
    /\ \A i \in DOMAIN p : ValidName(p[i].name) /\ ModeOf(p[i]) < 1024
    /\ \A i \in DOMAIN p : ConvertsToChild(kind, p[i])
    /\ \A i \in DOMAIN p : ValidProps(p[i].props)
HasDigests(p) == \A i \in DOMAIN p : IsDigest(p[i].digest) /\ ValidDigest(p[i].digest)

\* The nodes that encode makes pass the checks.
LEMMA PartPasses ==
  ASSUME NEW kind, NEW p, NEW s, GoodNodes(kind, p, s)
  PROVE  Passes(kind, p) /\ (kind # "symlink" => HasDigests(p))
  <1>1. p \in Seq(Range(p)) /\ SortedNames(p) /\ \A i \in DOMAIN p : GoodNode(kind, p[i])
    BY SMTT(30) DEF GoodNodes
  <1>2. Passes(kind, p)
    BY <1>1 DEF GoodNode, Passes
  <1>3. kind # "symlink" => HasDigests(p)
    BY ZenonT(30), <1>1 DEF GoodNode, HasDigests
  <1> QED BY <1>2, <1>3

Loadable(d) ==
    ValidDirectory(d) /\ Convertible(d) /\ ValidRemoteChildren(Children(d))

\* What encode makes of a sorted builder passes validate_directory, the
\* conversions of session.rs and validate_remote_children.
LEMMA EncodedLoads ==
  ASSUME NEW c, IsBuilder(c), Encodable(c),
         InOrder(c.files), InOrder(c.directories), InOrder(c.symlinks)
  PROVE  IsMessage(Encoded(c)) /\ Loadable(Encoded(c))
  <1> DEFINE d == Encoded(c)
             E == EntriesOf("file") \cup EntriesOf("directory") \cup EntriesOf("symlink")
             f == NodePart(c.files)
             g == NodePart(c.directories)
             h == NodePart(c.symlinks)
  <1>1. /\ c.files \in Seq(EntriesOf("file")) /\ c.files \in Seq(E)
        /\ c.directories \in Seq(EntriesOf("directory")) /\ c.directories \in Seq(E)
        /\ c.symlinks \in Seq(EntriesOf("symlink")) /\ c.symlinks \in Seq(E)
    BY SeqMonotonic DEF IsBuilder
  <1>2. FitPart(c.files) /\ FitPart(c.directories) /\ FitPart(c.symlinks)
    <2>1. Members(c) \in Seq(E)
      BY <1>1, ThreeParts DEF Members
    <2>2. \A i \in DOMAIN Members(c) : Members(c)[i].mtime \in ValidTimes
      <3>0. \A t \in Times : t # NoTime
        <4>1. \A u, v : <<u, v>> # <<>>
          OBVIOUS
        <4>2. \A t \in Times : t = <<t[1], t[2]>>
          BY SMTT(30) DEF Times
        <4> QED BY ZenonT(30), <4>1, <4>2 DEF NoTime
      <3>1. \A e \in E : e.mtime \in Times /\ e.mtime # NoTime
        BY SMTT(30), <3>0 DEF EntriesOf
      <3> HIDE DEF E
      <3> QED BY <2>1, <3>1 DEF Encodable, ValidMtime, ValidTimes
    <2>3. DistinctNames(c)
      BY DEF Encodable
    <2> HIDE DEF E
    <2> QED BY <1>1, <2>2, <2>3, PartsOfMembers
  <1> HIDE DEF E
  <1>3. GoodNodes("file", f, c.files)
    BY SMTT(30), <1>1, <1>2, PartLoads DEF Kinds
  <1>4. GoodNodes("directory", g, c.directories)
    BY <1>1, <1>2, PartLoads DEF Kinds
  <1>5. GoodNodes("symlink", h, c.symlinks)
    BY ZenonT(30), <1>1, <1>2, PartLoads DEF Kinds
  <1>6. d.files = f /\ d.directories = g /\ d.symlinks = h
    BY DEF Encoded, NodePart
  <1> HIDE DEF f, g, h
  <1>6a. Passes("file", f) /\ HasDigests(f)
    BY SMTT(30), <1>3, PartPasses
  <1>6b. Passes("directory", g) /\ HasDigests(g)
    BY SMTT(30), <1>4, PartPasses
  <1>6c. Passes("symlink", h)
    BY SMTT(30), <1>5, PartPasses
  <1>7. ValidProps(d.props)
    <2>1. c.mode \in Nat /\ c.mtime \in Times
      BY Zenon DEF IsBuilder
    <2>2. d.props = [mode |-> SupportedMode("directory", c.mode), mtime |-> c.mtime]
      <3>1. c.mode # NoMode
        BY <2>1, NoModeNegative
      <3> QED BY <3>1 DEF Encoded, Properties
    <2>3. ValidMtime(c.mtime)
      BY DEF Encodable
    <2>4. d.props.mtime = c.mtime
      BY SMTT(30), <2>2
    <2> QED BY <2>3, <2>4 DEF ValidProps
  <1> HIDE DEF d
  <1>8. IsMessage(d)
    <2>1. \A q \in {f, g, h} :
             /\ q \in Seq(Range(q))
             /\ \A i \in DOMAIN q : q[i].props.mode \in Nat /\ q[i].props.mtime \in Times
      BY <1>6a, <1>6b, <1>6c DEF Passes
    <2>2. \A q \in {f, g} : \A i \in DOMAIN q : IsDigest(q[i].digest)
      BY ZenonT(30), <1>6a, <1>6b DEF HasDigests
    <2> QED BY ZenonT(30), <1>6, <2>1, <2>2 DEF IsMessage
  <1>9. Convertible(d)
    <2>1. \A i \in DOMAIN f : ConvertsToChild("file", f[i])
      BY Zenon, <1>6a DEF Passes
    <2>2. \A i \in DOMAIN g : ConvertsToChild("directory", g[i])
      BY Zenon, <1>6b DEF Passes
    <2>3. \A i \in DOMAIN h : ConvertsToChild("symlink", h[i])
      BY Zenon, <1>6c DEF Passes
    <2> QED BY Zenon, <1>6, <2>1, <2>2, <2>3 DEF Convertible
  <1> DEFINE N == {n \in Range(f) \cup Range(g) \cup Range(h) :
                      ValidName(n.name) /\ ModeOf(n) < 1024}
  <1>10. f \in Seq(N) /\ g \in Seq(N) /\ h \in Seq(N)
    <2>1. \A n \in Range(f) \cup Range(g) \cup Range(h) :
             ValidName(n.name) /\ ModeOf(n) < 1024
      BY SMTT(30), <1>6a, <1>6b, <1>6c DEF Range, Passes
    <2>2. N = Range(f) \cup Range(g) \cup Range(h)
      BY SMTT(30), <2>1
    <2>3. Range(f) \subseteq N /\ Range(g) \subseteq N /\ Range(h) \subseteq N
      BY SMTT(30), <2>2
    <2> HIDE DEF N
    <2> QED BY ZenonT(30), <1>3, <1>4, <1>5, <2>3, SeqMonotonic DEF GoodNodes
  <1> HIDE DEF N
  <1>11. /\ Members(d) = f \o g \o h /\ Members(d) \in Seq(N)
         /\ Members(c) = c.files \o c.directories \o c.symlinks
         /\ Members(c) \in Seq(E)
    BY Zenon, <1>1, <1>6, <1>10, ThreeParts DEF Members
  <1>12. SameNamed(Members(d), Members(c))
    <2>1. /\ SameNamed(f, c.files)
          /\ SameNamed(g, c.directories)
          /\ SameNamed(h, c.symlinks)
      BY SMTT(30), <1>1, <1>3, <1>4, <1>5 DEF GoodNodes, SameNamed
    <2> QED BY ZenonT(30), <1>1, <1>10, <1>11, <2>1, SameNames
  <1>13. DistinctNames(d)
    BY Zenon, <1>12 DEF DistinctNames, Encodable, SameNamed
  <1>14. \A i \in DOMAIN Members(d) :
            ValidName(Members(d)[i].name) /\ ModeOf(Members(d)[i]) < 1024
    BY SMTT(30), <1>11 DEF N
  <1>15. ValidDirectory(d)
    <2>a. SortedNames(f) /\ \A i \in DOMAIN f : ValidDigest(f[i].digest) /\ ValidProps(f[i].props)
      <3>1. SortedNames(f) /\ \A i \in DOMAIN f : ValidProps(f[i].props)
        BY Zenon, <1>6a DEF Passes
      <3>2. \A i \in DOMAIN f : ValidDigest(f[i].digest)
        BY Zenon, <1>6a DEF HasDigests
      <3> QED BY Zenon, <3>1, <3>2
    <2>b. SortedNames(g) /\ \A i \in DOMAIN g : ValidDigest(g[i].digest)
      BY ZenonT(30), <1>6b DEF Passes, HasDigests
    <2>c. SortedNames(h) /\ \A i \in DOMAIN h : ValidProps(h[i].props)
      BY Zenon, <1>6c DEF Passes
    <2>1. /\ SortedNames(d.files)
          /\ SortedNames(d.directories)
          /\ SortedNames(d.symlinks)
      BY Zenon, <1>6, <2>a, <2>b, <2>c
    <2>2. /\ \A i \in DOMAIN d.files :
                ValidDigest(d.files[i].digest) /\ ValidProps(d.files[i].props)
          /\ \A i \in DOMAIN d.directories : ValidDigest(d.directories[i].digest)
          /\ \A i \in DOMAIN d.symlinks : ValidProps(d.symlinks[i].props)
      <3>1. \A i \in DOMAIN d.files :
                ValidDigest(d.files[i].digest) /\ ValidProps(d.files[i].props)
        BY Zenon, <1>6, <2>a
      <3>2. \A i \in DOMAIN d.directories : ValidDigest(d.directories[i].digest)
        BY Zenon, <1>6, <2>b
      <3>3. \A i \in DOMAIN d.symlinks : ValidProps(d.symlinks[i].props)
        BY Zenon, <1>6, <2>c
      <3> QED BY Zenon, <3>1, <3>2, <3>3
    <2> QED BY <1>7, <1>13, <1>14, <2>1, <2>2 DEF ValidDirectory
  <1>16. ValidRemoteChildren(Children(d))
    <2> DEFINE k == Children(d)
               m == Members(d)
    <2>1. k \in Seq(Range(k)) /\ ChildrenMatch(k, m)
      BY SMTT(30), <1>8, <1>9, ChildrenOfMessage
    <2>2. m \in Seq(N) /\ \A i, j \in DOMAIN m : m[i].name = m[j].name => i = j
      BY ZenonT(30), <1>11, <1>13 DEF DistinctNames
    <2>3. \A i \in DOMAIN m : ValidName(m[i].name) /\ ModeOf(m[i]) < 1024
      BY SMTT(30), <1>14
    <2> HIDE DEF k, m
    <2>4. DOMAIN k = DOMAIN m
      BY SMTT(30), <2>1, <2>2 DEF ChildrenMatch
    <2>5. \A i \in DOMAIN k : /\ k[i].name = m[i].name /\ k[i].mode = ModeOf(m[i])
                              /\ k[i].mode \in {NoMode} \cup Nat
      <3>1. \A c1 : IsChild(c1) => c1.mode \in {NoMode} \cup Nat
        BY DEF IsChild
      <3>2. DOMAIN k = 1..Len(k)
        BY SMTT(30), <2>1
      <3> QED BY SMTT(30), <2>1, <3>1, <3>2 DEF ChildrenMatch
    <2>6. \A i, j \in DOMAIN k : k[i].name = k[j].name => i = j
      BY SMTT(30), <2>2, <2>4, <2>5
    <2>7. \A i \in DOMAIN k : ValidName(k[i].name) /\ k[i].mode <= 4095
      BY <2>3, <2>4, <2>5, NoModeNegative
    <2> QED BY SMTT(30), <2>6, <2>7 DEF k, ValidRemoteChildren, Store!ValidChildren, Store!MaxMode
  <1> QED BY <1>8, <1>9, <1>15, <1>16 DEF Loadable, d

-----------------------------------------------------------------------------
USE BoundAssumption

\* The inductive invariant.

\* The published message, if any, is well typed, and an uploaded one loads.
PublishedInv ==
    /\ IsBuilder(builder)
    /\ Published => blob = Wire(blob.directory) /\ IsMessage(blob.directory)
    /\ ~Published => blob = NoBlob
    /\ origin = "upload" => Loadable(blob.directory)

NewRows == <<RootColumns(DigestOf(blob))>>
LoadedRows == WithRows(NewRows, Children(blob.directory))

\* The table has no row before the transaction of initialize_database; then
\* it has the root alone, or the root and all children of the message, which
\* were found readable.
RowsInv ==
    /\ db.inodes # <<>> =>
         /\ Published
         /\ \/ db.inodes = NewRows
            \/ /\ db.inodes = LoadedRows
               /\ Convertible(blob.directory)
               /\ \A i \in DOMAIN LoadedRows : ReadableRow(i, LoadedRows[i])
    /\ origin = "upload" /\ answer.st = "refused" => ~answer.intact

\* The row of session_metadata is the one of the last daemon, which is what
\* an inspection that is not stale reported.
ActiveRow(now) == MetadataRow(opens, DigestOf(blob), now)
ClosedRow(now, end) ==
    [ActiveRow(now) EXCEPT !.lifecycle = "closed", !.closed = <<end>>]
MetadataInv ==
    /\ db = [file |-> db.file, tables |-> db.tables, version |-> db.version,
             metadata |-> db.metadata, inodes |-> db.inodes]
    /\ db.metadata = Null <=> db.inodes = <<>>
    /\ db.metadata # Null =>
         /\ db.file /\ db.version = SchemaVersion
         /\ opens > 0
         /\ \E now \in Nat, end \in Nat :
               db.metadata = <<IF step = "closed" THEN ClosedRow(now, end)
                                                  ELSE ActiveRow(now)>>
    /\ step \in {"open", "closed"} => db.metadata # Null
    /\ step \in {"file", "tables", "version"} =>
         db.metadata = Null /\ Published /\ db.file /\ opens > 0
    /\ step = "version" => db.version = SchemaVersion
    /\ opens > 0 => Published
    /\ seen.st = "ok" => opens > 0

\* Nothing is asked of a session before there is one.
AnswerInv == opens = 0 => answer = NoAnswer

TInv ==
    /\ TypeOK /\ AnswerInv /\ PublishedInv /\ RowsInv /\ MetadataInv
    /\ InspectIsHonest

\* Init establishes the invariant: an empty builder, nothing on disk.
LEMMA InitTInv == Init => TInv
  <1> SUFFICES ASSUME Init PROVE TInv
      BY Zenon
  <1>1. TypeOK
    BY SMTT(30) DEF Init, TypeOK, Published, Database, SchemaVersion, NoAnswer, Null
  <1>2. PublishedInv
    <2>1. own.mode \in Nat /\ own.mtime \in Times
      BY StatAssumption DEF Init
    <2>2. own.mode % 4096 \in Nat
      BY SMTT(30), <2>1
    <2>3. IsBuilder(builder)
      BY SMTT(30), <2>1, <2>2 DEF Init, IsBuilder, MetadataMode
    <2> QED BY SMTT(30), <2>3 DEF Init, PublishedInv, Published
  <1>3. RowsInv
    BY Zenon DEF Init, RowsInv, Database, NoAnswer
  <1>4. MetadataInv
    BY SMTT(30) DEF Init, MetadataInv, Database, Null, NoAnswer
  <1>5. InspectIsHonest
    BY DEF Init, InspectIsHonest, NoAnswer
  <1>6. AnswerInv
    BY DEF Init, AnswerInv
  <1> QED BY <1>1, <1>2, <1>3, <1>4, <1>5, <1>6 DEF TInv

\* The bytes of a message have a digest.
LEMMA PublishedDigest ==
  ASSUME NEW d, IsMessage(d), NEW x, x = Wire(d)
  PROVE  /\ x.directory = d /\ x.parses /\ x # NoBlob
         /\ DigestOf(x) = [hash |-> DigestOf(x).hash, size |-> DigestOf(x).size]
         /\ ValidDigest(DigestOf(x))
         /\ \A y : DigestOf(y) = DigestOf(x) => y = x
  <1>1. Len(Members(d)) \in Nat
    <2> DEFINE N == Range(d.files) \cup Range(d.directories) \cup Range(d.symlinks)
    <2>1. /\ d.files \in Seq(N) /\ d.directories \in Seq(N) /\ d.symlinks \in Seq(N)
      BY SeqMonotonic DEF IsMessage
    <2> HIDE DEF N
    <2>2. Members(d) \in Seq(N)
      BY <2>1, ThreeParts DEF Members
    <2> QED BY SMTT(30), <2>2
  <1>2. x.size \in Nat
    BY SMTT(30), <1>1 DEF Wire
  <1>3. x.directory = d /\ x.parses /\ x # NoBlob
    BY DEF Wire, NoBlob
  <1> QED BY <1>2, <1>3, DigestOfBytes

\* A directory that is loadable gets readable rows.
LEMMA LoadableReadable ==
  ASSUME NEW d, IsMessage(d), Convertible(d), ValidRemoteChildren(Children(d)),
         NEW x, ValidDigest(x), x = [hash |-> x.hash, size |-> x.size]
  PROVE  LET rows == WithRows(<<RootColumns(x)>>, Children(d))
         IN \A i \in DOMAIN rows : ReadableRow(i, rows[i])
  <1> DEFINE k == Children(d)
             rows == WithRows(<<RootColumns(x)>>, k)
  <1>1. k \in Seq(Range(k)) /\ ChildrenMatch(k, Members(d))
    BY ChildrenOfMessage
  <1>2. /\ DOMAIN rows = 1..(1 + Len(k))
        /\ rows[1] = [RootColumns(x) EXCEPT !.loaded = <<1>>]
        /\ \A i \in 1..Len(k) : rows[i + 1] = Columns(<<1>>, k[i])
    BY ZenonT(30), RowsCarried
  <1>3. \A i \in DOMAIN k : ValidName(k[i].name) /\ k[i].mode <= MaxMode
    BY DEF ValidRemoteChildren, Store!ValidChildren, Store!MaxMode, MaxMode
  <1>4. ReadableRow(1, [RootColumns(x) EXCEPT !.loaded = <<1>>])
    BY ZenonT(30), RootCarried
  <1> HIDE DEF k, rows
  <1>5. ASSUME NEW i \in DOMAIN rows PROVE ReadableRow(i, rows[i])
    <2>1. CASE i = 1
      BY Zenon, <1>2, <1>4, <2>1
    <2>2. CASE i # 1
      <3> DEFINE j == i - 1
      <3>1. Len(k) \in Nat /\ DOMAIN k = 1..Len(k)
        BY <1>1
      <3>2. j \in 1..Len(k) /\ j + 1 = i
        BY <1>2, <2>2, <3>1
      <3> HIDE DEF j
      <3>3. rows[i] = Columns(<<1>>, k[j])
        BY Zenon, <1>2, <3>2
      <3>4. /\ IsChild(k[j])
            /\ k[j].mtime # NoTime => ValidNodeTime(k[j].mtime[1], k[j].mtime[2])
        BY <1>1, <3>2 DEF ChildrenMatch
      <3>5. ValidName(k[j].name) /\ k[j].mode <= MaxMode
        BY Zenon, <1>3, <3>1, <3>2
      <3> QED BY Zenon, <2>2, <3>3, <3>4, <3>5, ChildReadable
    <2> QED BY <2>1, <2>2
  <1> QED BY <1>5 DEF rows, k

\* Loading the root: nothing is stored but the children of the published
\* message, and an uploaded message is not refused.
LEMMA LoadRootRows ==
  ASSUME TInv, LoadRoot
  PROVE  RowsInv' /\ db'.inodes # <<>>
  <1> DEFINE d == blob.directory
             x == DigestOf(blob)
  <1>1. db.inodes # <<>> /\ Published /\ db.inodes[1].loaded = <<0>>
    BY DEF TInv, LoadRoot, TypeOK, RowsInv, Active
  <1>2. /\ blob = Wire(d) /\ IsMessage(d)
        /\ origin = "upload" => Loadable(d)
    BY <1>1 DEF TInv, PublishedInv
  <1>3. /\ x = [hash |-> x.hash, size |-> x.size] /\ ValidDigest(x)
        /\ blob.parses
        /\ \A y : DigestOf(y) = x => y = blob
    BY <1>2, PublishedDigest
  <1>4. db.inodes = NewRows
    <2>1. ASSUME Convertible(d) PROVE LoadedRows[1].loaded = <<1>>
      <3>1. LoadedRows[1] = [RootColumns(x) EXCEPT !.loaded = <<1>>]
        BY ZenonT(30), <1>2, <1>3, <2>1, RowsCarried DEF LoadedRows, NewRows
      <3> QED BY <3>1 DEF RootColumns, Columns
    <2>2. <<0>> # <<1>>
      OBVIOUS
    <2> QED BY <1>1, <2>1, <2>2 DEF TInv, RowsInv
  <1>5. ParseDigest(db.inodes[1].dirDigest[1]) = x
    <2>1. db.inodes[1] = RootColumns(x)
      BY <1>4 DEF NewRows
    <2>2. LET r == [RootColumns(x) EXCEPT !.loaded = <<0>>] IN
          r = RootColumns(x) /\ ParseDigest(r.dirDigest[1]) = x
      BY ZenonT(30), <1>3, RootCarried
    <2> QED BY <2>1, <2>2
  <1>6. UNCHANGED <<blob, origin>>
    BY DEF LoadRoot, pubVars
  <1> DEFINE decoded(b) == DecodeDirectory(x, b)
             nodes(b) == Children(decoded(b).directory)
             rows(b) == WithRows(NewRows, nodes(b))
             ok(b) == /\ decoded(b) # Refused
                      /\ Convertible(decoded(b).directory)
                      /\ ValidRemoteChildren(nodes(b))
                      /\ \A i \in DOMAIN rows(b) : ReadableRow(i, rows(b)[i])
  <1>7. PICK b \in {blob} \cup Garbled :
           /\ answer' = [st |-> IF ok(b) THEN "loaded" ELSE "refused",
                         intact |-> b = blob]
           /\ db' = IF ok(b) THEN [db EXCEPT !.inodes = rows(b)] ELSE db
    BY <1>4, <1>5, ZenonT(30) DEF LoadRoot
  <1>8. ASSUME decoded(b) # Refused PROVE b = blob /\ decoded(b).directory = d
    <2>1. DigestOf(b) = x /\ decoded(b) = [st |-> "ok", directory |-> b.directory]
      BY <1>8 DEF DecodeDirectory
    <2> QED BY <1>3, <2>1
  <1>9. CASE ok(b)
    <2>1. b = blob /\ decoded(b).directory = d
      BY ZenonT(30), <1>8, <1>9
    <2>2. rows(b) = LoadedRows /\ Convertible(d)
          /\ \A i \in DOMAIN LoadedRows : ReadableRow(i, LoadedRows[i])
      BY <1>9, <2>1 DEF LoadedRows
    <2>3. answer'.st = "loaded" /\ db'.inodes = LoadedRows
      <3>1. db' = [db EXCEPT !.inodes = LoadedRows] /\ answer'.st = "loaded"
        BY Zenon, <1>7, <1>9, <2>2
      <3> QED BY <3>1 DEF TInv, MetadataInv
    <2>4. LoadedRows' = LoadedRows /\ d' = d /\ Published'
      BY <1>1, <1>6 DEF LoadedRows, NewRows, Published
    <2>5. LoadedRows # <<>>
      <3>1. LoadedRows[1] = [RootColumns(x) EXCEPT !.loaded = <<1>>]
            /\ DOMAIN LoadedRows = 1..(1 + Len(Children(d)))
            /\ Children(d) \in Seq(Range(Children(d)))
        BY ZenonT(30), <1>2, <1>3, <2>2, RowsCarried, ChildrenOfMessage DEF LoadedRows, NewRows
      <3>2. 1 \in DOMAIN LoadedRows
        BY SMTT(30), <3>1
      <3> QED BY <3>2
    <2> HIDE DEF ok, rows
    <2> QED BY Zenon, <2>2, <2>3, <2>4, <2>5 DEF RowsInv
  <1>10. CASE ~ok(b)
    <2>1. answer' = [st |-> "refused", intact |-> b = blob] /\ db' = db
      BY <1>7, <1>10
    <2>2. ASSUME origin = "upload", b = blob PROVE FALSE
      <3>1. Loadable(d)
        BY Zenon, <1>2, <2>2
      <3>2. decoded(b) = [st |-> "ok", directory |-> d]
        BY Zenon, <1>3, <2>2, <3>1 DEF DecodeDirectory, Loadable
      <3>3. decoded(b) # Refused /\ decoded(b).directory = d
        BY SMTT(30), <3>2 DEF Refused
      <3>4. \A i \in DOMAIN rows(b) : ReadableRow(i, rows(b)[i])
        BY SMTT(30), <1>2, <1>3, <3>1, <3>3, LoadableReadable DEF Loadable, NewRows
      <3> QED BY ZenonT(30), <1>10, <3>1, <3>3, <3>4 DEF Loadable
    <2>3. origin' = "upload" => ~answer'.intact
      BY ZenonT(30), <1>6, <2>1, <2>2
    <2>4. /\ db'.inodes = NewRows' /\ Published'
      BY <1>1, <1>4, <1>6, <2>1 DEF NewRows, Published
    <2> QED BY <1>1, <2>1, <2>3, <2>4 DEF RowsInv
  <1> QED BY ZenonT(30), <1>9, <1>10

-----------------------------------------------------------------------------
\* The steps of the daemon leave what was published alone.
DaemonStep ==
    \/ ReplaceTree \/ CreateTables \/ RecordVersion \/ Initialize
    \/ LoadRoot \/ ReadInodes \/ CloseSession \/ DaemonDies \/ InspectSession

LEMMA DaemonKeepsPublished == DaemonStep => UNCHANGED pubVars
  BY ZenonT(30) DEF DaemonStep, ReplaceTree, CreateTables, RecordVersion, Initialize, LoadRoot,
     ReadInodes, CloseSession, DaemonDies, InspectSession, pubVars

\* Replacing one vector of a builder.
LEMMA BuilderSet ==
  ASSUME NEW b, IsBuilder(b)
  PROVE  /\ \A f \in Seq(EntriesOf("file")) : IsBuilder([b EXCEPT !.files = f])
         /\ \A f \in Seq(EntriesOf("directory")) :
               IsBuilder([b EXCEPT !.directories = f])
         /\ \A f \in Seq(EntriesOf("symlink")) : IsBuilder([b EXCEPT !.symlinks = f])
  BY ZenonT(30) DEF IsBuilder

\* The builder keeps its types, and what is encoded loads.
LEMMA PublishedNext ==
  ASSUME TInv, [Next]_vars
  PROVE  PublishedInv'
  <1>1. PublishedInv
    BY DEF TInv
  <1>2. CASE AddEntry
    <2>1. PICK s \in Stat :
            LET e == [s EXCEPT !.mode = MetadataMode(s.mode)] IN
            IF ~ValidName(s.name)
            THEN origin' = "refused" /\ UNCHANGED builder
            ELSE /\ builder' =
                       CASE s.kind = "file" ->
                              [builder EXCEPT !.files = Append(@, e)]
                         [] s.kind = "directory" ->
                              [builder EXCEPT !.directories = Append(@, e)]
                         [] s.kind = "symlink" ->
                              [builder EXCEPT !.symlinks = Append(@, e)]
                 /\ UNCHANGED origin
      BY ZenonT(30), <1>2 DEF AddEntry
    <2>2. origin = "none" /\ UNCHANGED blob
      BY <1>2 DEF AddEntry
    <2>3. origin' \in {"none", "refused"}
      BY <2>1, <2>2
    <2>4. CASE ~ValidName(s.name)
      BY SMTT(30), <1>1, <2>1, <2>2, <2>4 DEF PublishedInv, Published
    <2>5. CASE ValidName(s.name)
      <3> DEFINE e == [s EXCEPT !.mode = MetadataMode(s.mode)]
      <3>1. e \in EntriesOf(s.kind) /\ s.kind \in {"file", "directory", "symlink"}
        <4>1. s \in [name : Int, kind : Kinds, mode : Nat, mtime : Times,
                     content : {r.content : r \in Stat}]
          BY StatAssumption
        <4>2. s.mode % 4096 \in Nat
          BY <4>1
        <4>3. s.kind # "symlink" => IsDigest(s.content) /\ ValidDigest(s.content)
          BY StatAssumption
        <4>4. e \in [name : Int, kind : Kinds, mode : Nat, mtime : Times,
                     content : {r.content : r \in Stat}]
          BY <4>1, <4>2 DEF MetadataMode
        <4>5. e.kind = s.kind /\ e.name = s.name /\ e.content = s.content
          BY <4>1
        <4> HIDE DEF e
        <4> QED BY <2>5, <4>1, <4>3, <4>4, <4>5 DEF EntriesOf, Kinds
      <3> HIDE DEF e
      <3>2. IsBuilder(builder)
        BY <1>1 DEF PublishedInv
      <3>3. builder' =
              CASE s.kind = "file" -> [builder EXCEPT !.files = Append(@, e)]
                [] s.kind = "directory" ->
                     [builder EXCEPT !.directories = Append(@, e)]
                [] s.kind = "symlink" -> [builder EXCEPT !.symlinks = Append(@, e)]
        BY ZenonT(30), <2>1, <2>5 DEF e
      <3>4. IsBuilder(builder')
        <4>1. CASE s.kind = "file"
          <5>1. builder' = [builder EXCEPT !.files = Append(@, e)]
            BY <3>3, <4>1
          <5>2. Append(builder.files, e) \in Seq(EntriesOf("file"))
            BY <3>1, <3>2, <4>1 DEF IsBuilder
          <5> QED BY ZenonT(30), <3>2, <5>1, <5>2, BuilderSet
        <4>2. CASE s.kind = "directory"
          <5>1. builder' = [builder EXCEPT !.directories = Append(@, e)]
            BY <3>3, <4>2
          <5>2. Append(builder.directories, e) \in Seq(EntriesOf("directory"))
            BY <3>1, <3>2, <4>2 DEF IsBuilder
          <5> QED BY ZenonT(30), <3>2, <5>1, <5>2, BuilderSet
        <4>3. CASE s.kind = "symlink"
          <5>1. builder' = [builder EXCEPT !.symlinks = Append(@, e)]
            BY <3>3, <4>3
          <5>2. Append(builder.symlinks, e) \in Seq(EntriesOf("symlink"))
            BY <3>1, <3>2, <4>3 DEF IsBuilder
          <5> QED BY ZenonT(30), <3>2, <5>1, <5>2, BuilderSet
        <4> QED BY <3>1, <4>1, <4>2, <4>3
      <3>5. IsBuilder(builder)'
        BY <3>4 DEF IsBuilder
      <3> QED BY <1>1, <2>2, <2>3, <3>5 DEF PublishedInv, Published
    <2> QED BY <2>4, <2>5
  <1>3. CASE EncodeAndPublish
    <2>1. origin = "none" /\ UNCHANGED builder
      BY <1>3 DEF EncodeAndPublish
    <2>2. PICK r \in Encode(builder) :
             IF r = Refused
             THEN origin' = "refused" /\ UNCHANGED <<blob, warnings>>
             ELSE blob' = Wire(r.directory) /\ origin' = "upload"
      BY SMTT(30), <1>3 DEF EncodeAndPublish
    <2>3. CASE r = Refused
      BY Zenon, <1>1, <2>1, <2>2, <2>3 DEF PublishedInv, Published, IsBuilder
    <2>4. CASE r # Refused
      <3>1. PICK c \in SortEntries(builder) :
               Encodable(c) /\ r = [st |-> "ok", directory |-> Encoded(c),
                                    warnings |-> CountWarnings(c)]
        BY SMTT(30), <2>4 DEF Encode
      <3>2. IsMessage(Encoded(c)) /\ Loadable(Encoded(c))
        BY ZenonT(30), <1>1, <3>1, SortBuilder, EncodedLoads DEF PublishedInv
      <3>3. blob' = Wire(Encoded(c)) /\ origin' = "upload"
        BY Zenon, <2>2, <2>4, <3>1
      <3>4. blob'.directory = Encoded(c)
        BY SMTT(30), <3>3 DEF Wire
      <3>5. IsBuilder(builder)'
        BY ZenonT(30), <1>1, <2>1 DEF PublishedInv, IsBuilder
      <3> QED BY Zenon, <3>2, <3>3, <3>4, <3>5 DEF PublishedInv, Published
    <2> QED BY <2>3, <2>4
  <1>4. CASE PublishForeign
    <2>1. PICK d \in Foreign : blob' = Wire(d)
      BY <1>4 DEF PublishForeign
    <2>2. origin' = "foreign" /\ UNCHANGED builder
      BY <1>4 DEF PublishForeign
    <2>3. blob'.directory = d /\ IsMessage(d)
      BY Zenon, <2>1, MessageAssumption DEF Wire
    <2>4. IsBuilder(builder)'
      BY SMTT(30), <1>1, <2>2 DEF PublishedInv, IsBuilder
    <2> QED BY SMTT(30), <2>1, <2>2, <2>3, <2>4 DEF PublishedInv, Published
  <1>5. CASE DaemonStep \/ UNCHANGED vars
    <2>1. UNCHANGED <<builder, blob, origin>>
      BY Zenon, <1>5, DaemonKeepsPublished DEF vars, pubVars
    <2> QED BY ZenonT(30), <1>1, <2>1 DEF PublishedInv, Published, IsBuilder, IsMessage, Loadable,
               ValidDirectory
  <1> QED BY <1>2, <1>3, <1>4, <1>5 DEF Next, DaemonStep

\* Before anything is published there is no database with rows.
LEMMA UnpublishedEmpty ==
  ASSUME TInv, ~Published
  PROVE  /\ db.inodes = <<>> /\ db.metadata = Null
         /\ opens = 0 /\ step \notin {"file", "tables", "version", "open", "closed"}
         /\ seen.st # "ok"
  <1>1. db.inodes = <<>> /\ db.metadata = Null
    BY DEF TInv, RowsInv, MetadataInv
  <1>2. opens = 0
    <2>1. opens \in 0..MaxOpens
      BY SMTT(30) DEF TInv, TypeOK
    <2>2. ~(opens > 0)
      BY DEF TInv, MetadataInv
    <2> QED BY SMTT(30), <2>1, <2>2
  <1> QED BY Zenon, <1>1, <1>2 DEF TInv, MetadataInv

\* The rows stay those of the published message.
LEMMA RowsNext ==
  ASSUME TInv, [Next]_vars
  PROVE  RowsInv'
  <1>1. RowsInv
    BY DEF TInv
  <1>2. CASE AddEntry \/ EncodeAndPublish \/ PublishForeign
    <2>1. ~Published /\ UNCHANGED <<db, answer>>
      BY <1>2 DEF AddEntry, EncodeAndPublish, PublishForeign, Published
    <2>2. db.inodes = <<>>
      BY SMTT(30), <2>1, UnpublishedEmpty
    <2>3. answer.st # "refused"
      BY <2>1, UnpublishedEmpty DEF TInv, AnswerInv, NoAnswer
    <2> QED BY <2>1, <2>2, <2>3 DEF RowsInv
  <1>3. CASE LoadRoot
    BY Zenon, <1>3, LoadRootRows
  <1>4. ASSUME UNCHANGED <<blob, origin>>,
               db'.inodes \in {db.inodes, <<>>, NewRows},
               db'.inodes = NewRows => Published \/ db'.inodes = db.inodes,
               answer' \in {answer, NoAnswer}
        PROVE  RowsInv'
    <2>1. NewRows' = NewRows /\ LoadedRows' = LoadedRows /\ Published' = Published
      BY <1>4 DEF NewRows, LoadedRows, Published
    <2>2. NoAnswer.st # "refused"
      BY Zenon DEF NoAnswer
    <2> QED BY ZenonT(30), <1>1, <1>4, <2>1, <2>2 DEF RowsInv
  <1>5. CASE ReplaceTree
    BY <1>4, <1>5 DEF ReplaceTree, Database, pubVars
  <1>6. CASE CreateTables \/ RecordVersion
    BY <1>4, <1>6 DEF CreateTables, RecordVersion, pubVars, TInv, MetadataInv
  <1>7. CASE Initialize
    BY ZenonT(30), <1>4, <1>7 DEF Initialize, pubVars, TInv, MetadataInv, NewRows
  <1>8. CASE CloseSession
    BY <1>4, <1>8 DEF CloseSession, pubVars, TInv, MetadataInv
  <1>9. CASE ReadInodes \/ DaemonDies \/ InspectSession \/ UNCHANGED vars
    BY ZenonT(30), <1>4, <1>9 DEF ReadInodes, DaemonDies, InspectSession, pubVars, vars
  <1> QED BY SMTT(30), <1>2, <1>3, <1>5, <1>6, <1>7, <1>8, <1>9 DEF Next

\* Every step keeps the types.
LEMMA TypeNext ==
  ASSUME TInv, [Next]_vars
  PROVE  TypeOK' /\ AnswerInv'
  <1>1. TypeOK /\ AnswerInv
    BY DEF TInv
  <1>2. CASE AddEntry
    <2>1. ~Published /\ ~Published'
      BY SMTT(30), <1>2 DEF AddEntry, Published
    <2>2. listed' \in Seq(Stat) /\ origin' \in {"none", "refused"}
      BY <1>1, <1>2 DEF AddEntry, TypeOK
    <2> QED BY SMTT(30), <1>1, <1>2, <2>1, <2>2 DEF AddEntry, TypeOK, AnswerInv
  <1>3. CASE EncodeAndPublish \/ PublishForeign
    <2>1. /\ UNCHANGED <<own, listed, step, db, opens, answer>>
          /\ origin' \in {"upload", "foreign", "refused"}
      BY SMTT(30), <1>3 DEF EncodeAndPublish, PublishForeign
    <2>2. (Published <=> blob # NoBlob)'
      <3>1. Published' => blob' = Wire(blob'.directory) /\ IsMessage(blob'.directory)
        BY PublishedNext DEF PublishedInv
      <3>2. ~Published' => blob' = NoBlob
        BY Zenon, PublishedNext DEF PublishedInv
      <3> QED BY SMTT(30), <3>1, <3>2, PublishedDigest
    <2> QED BY ZenonT(30), <1>1, <2>1, <2>2 DEF TypeOK, AnswerInv
  <1>4. CASE ReplaceTree
    <2>1. opens' \in 0..MaxOpens
      BY SMTT(30), <1>1, <1>4 DEF ReplaceTree, TypeOK
    <2> QED BY Zenon, <1>1, <1>4, <2>1 DEF ReplaceTree, TypeOK, AnswerInv, Database, Published,
               pubVars, NoAnswer, SchemaVersion
  <1>5. CASE CreateTables \/ RecordVersion \/ Initialize
    <2>1. /\ UNCHANGED <<pubVars, opens, answer>>
          /\ step' \in {"tables", "version", "open", "down"}
      BY ZenonT(30), <1>5 DEF CreateTables, RecordVersion, Initialize
    <2>2. db'.version \in {0, SchemaVersion}
          /\ (db'.metadata # Null <=> db'.inodes # <<>>)
      <3>1. CASE CreateTables \/ RecordVersion
        BY SMTT(30), <1>1, <3>1 DEF CreateTables, RecordVersion, TypeOK, TInv, MetadataInv
      <3>2. CASE Initialize /\ UNCHANGED db
        BY <1>1, <3>2 DEF TypeOK
      <3>3. ASSUME NEW m, NEW r, db' = [db EXCEPT !.metadata = <<m>>, !.inodes = <<r>>]
            PROVE  /\ db'.version = db.version
                   /\ db'.metadata # Null /\ db'.inodes # <<>>
        BY SMTT(30), <3>3 DEF TInv, MetadataInv, Null
      <3>4. CASE Initialize /\ db' # db
        BY ZenonT(30), <1>1, <3>3, <3>4 DEF Initialize, TypeOK
      <3> QED BY <1>5, <3>1, <3>2, <3>4
    <2> QED BY SMTT(30), <1>1, <2>1, <2>2 DEF TypeOK, AnswerInv, Published, pubVars
  <1>6. CASE LoadRoot
    <2>1. UNCHANGED <<pubVars, step, opens>> /\ db.inodes # <<>> /\ db.metadata # Null
      BY Zenon, <1>1, <1>6 DEF LoadRoot, Active, TypeOK
    <2>2. answer'.st \in {"loaded", "refused"}
          /\ db'.version = db.version /\ db'.metadata = db.metadata
      BY <1>6 DEF LoadRoot, TInv, MetadataInv
    <2>3. db'.inodes # <<>>
      BY Zenon, <1>6, LoadRootRows
    <2>4. opens' > 0
      BY Zenon, <2>1 DEF TInv, MetadataInv
    <2> QED BY SMTT(30), <1>1, <2>1, <2>2, <2>3, <2>4 DEF TypeOK, AnswerInv, Published, pubVars
  <1>7. CASE CloseSession
    <2>1. /\ UNCHANGED <<pubVars, opens, answer>> /\ step' = "closed"
          /\ db'.version = db.version /\ db'.inodes = db.inodes
          /\ db.metadata # Null /\ db'.metadata # Null
      BY SMTT(30), <1>7 DEF CloseSession, TInv, MetadataInv, Active, Null
    <2> QED BY <1>1, <2>1 DEF TypeOK, AnswerInv, Published, pubVars
  <1>8. CASE ReadInodes \/ DaemonDies \/ InspectSession \/ UNCHANGED vars
    BY ZenonT(30), <1>1, <1>8 DEF ReadInodes, DaemonDies, InspectSession, TypeOK, AnswerInv, Published,
       pubVars, vars
  <1> QED BY Zenon, <1>2, <1>3, <1>4, <1>5, <1>6, <1>7, <1>8 DEF Next

\* The row of session_metadata is written once, whole, and closed once.
LEMMA MetadataNext ==
  ASSUME TInv, [Next]_vars
  PROVE  MetadataInv'
  <1>1. MetadataInv /\ TypeOK
    BY Zenon DEF TInv
  <1> USE DEF SchemaVersion
  <1>2. CASE AddEntry \/ EncodeAndPublish \/ PublishForeign
    <2>1. ~Published /\ UNCHANGED <<step, db, opens, seen>>
      BY <1>2 DEF AddEntry, EncodeAndPublish, PublishForeign, Published
    <2>2. /\ db.inodes = <<>> /\ db.metadata = Null
          /\ opens = 0 /\ step \notin {"file", "tables", "version", "open", "closed"}
          /\ seen.st # "ok"
      BY <2>1, UnpublishedEmpty
    <2> QED BY <1>1, <2>1, <2>2 DEF MetadataInv
  <1>3. ASSUME UNCHANGED <<blob, origin, opens>>
        PROVE  /\ Published' = Published
               /\ \A now : ActiveRow(now)' = ActiveRow(now)
               /\ \A now, end : ClosedRow(now, end)' = ClosedRow(now, end)
    BY Zenon, <1>3 DEF Published, ActiveRow, ClosedRow
  <1>4. CASE ReplaceTree
    <2>1. opens \in Nat
      BY <1>1 DEF TypeOK
    <2> QED BY SMTT(30), <1>1, <1>4, <2>1 DEF ReplaceTree, MetadataInv, Database, Published, pubVars,
               NoAnswer
  <1>5. CASE CreateTables \/ RecordVersion
    BY SMTT(30), <1>1, <1>3, <1>5 DEF CreateTables, RecordVersion, MetadataInv, pubVars, NoAnswer
  <1>6. CASE Initialize
    <2>0. UNCHANGED <<blob, origin, opens>> /\ step = "version"
      BY Zenon, <1>6 DEF Initialize, pubVars
    <2>1. CASE UNCHANGED <<db, seen>> /\ step' = "down"
      BY <1>1, <1>3, <2>0, <2>1 DEF MetadataInv
    <2>2. ASSUME NEW now \in Nat,
                 db' = [db EXCEPT !.metadata = <<ActiveRow(now)>>,
                                  !.inodes = <<RootColumns(DigestOf(blob))>>],
                 step' = "open", seen' = NoAnswer
          PROVE  MetadataInv'
      <3>1. /\ db'.metadata = <<ActiveRow(now)>> /\ db'.metadata # Null
            /\ db'.inodes # <<>> /\ db'.file = db.file /\ db'.version = db.version
            /\ db' = [file |-> db'.file, tables |-> db'.tables, version |-> db'.version,
                      metadata |-> db'.metadata, inodes |-> db'.inodes]
        BY ZenonT(30), <1>1, <2>2 DEF MetadataInv, Null
      <3>2. \E n \in Nat, end \in Nat :
              db'.metadata = <<IF step' = "closed" THEN ClosedRow(n, end)'
                                                   ELSE ActiveRow(n)'>>
        BY <1>3, <2>0, <2>2, <3>1
      <3> QED BY <1>1, <1>3, <2>0, <2>2, <3>1, <3>2 DEF MetadataInv, NoAnswer
    <2>3. \/ UNCHANGED <<db, seen>> /\ step' = "down"
          \/ \E now \in Nat :
                /\ db' = [db EXCEPT !.metadata = <<ActiveRow(now)>>,
                                    !.inodes = <<RootColumns(DigestOf(blob))>>]
                /\ step' = "open" /\ seen' = NoAnswer
      <3>1. PICK now \in Clock :
              IF now < 0
              THEN step' = "down" /\ UNCHANGED <<db, seen>>
              ELSE /\ db' = [db EXCEPT !.metadata = <<ActiveRow(now)>>,
                                       !.inodes = <<RootColumns(DigestOf(blob))>>]
                   /\ step' = "open"
                   /\ seen' = NoAnswer
        BY <1>6, ZenonT(30) DEF Initialize, ActiveRow
      <3>2. now < 0 \/ now \in Nat
        OBVIOUS
      <3> QED BY <3>1, <3>2, ZenonT(30)
    <2> QED BY ZenonT(30), <2>1, <2>2, <2>3
  <1>7. CASE LoadRoot
    <2>1. /\ UNCHANGED <<blob, origin, opens, step>> /\ seen' = NoAnswer
          /\ step = "open" /\ db'.inodes # <<>>
      BY ZenonT(30), <1>7, LoadRootRows DEF LoadRoot, pubVars
    <2>2. /\ db'.file = db.file /\ db'.version = db.version /\ db'.metadata = db.metadata
          /\ db' = [file |-> db'.file, tables |-> db'.tables, version |-> db'.version,
                    metadata |-> db'.metadata, inodes |-> db'.inodes]
      BY ZenonT(30), <1>1, <1>7 DEF LoadRoot, MetadataInv
    <2> QED BY Zenon, <1>1, <1>3, <2>1, <2>2 DEF MetadataInv, NoAnswer
  <1>8. CASE CloseSession
    <2>1. /\ UNCHANGED <<blob, origin, opens>> /\ seen' = NoAnswer
          /\ step = "open" /\ step' = "closed" /\ db.metadata # Null
      BY <1>8 DEF CloseSession, pubVars, Active
    <2>2. PICK end \in Nat :
             db' = [db EXCEPT !.metadata[1].lifecycle = "closed",
                              !.metadata[1].closed = <<end>>]
      <3>1. PICK end \in Clock :
              /\ end >= 0
              /\ db' = [db EXCEPT !.metadata[1].lifecycle = "closed",
                                  !.metadata[1].closed = <<end>>]
        BY <1>8, ZenonT(30) DEF CloseSession
      <3>2. end \in Nat
        BY SMTT(30), <3>1
      <3> QED BY <3>1, <3>2, ZenonT(30)
    <2>3. PICK now \in Nat : db.metadata = <<ActiveRow(now)>>
      BY SMTT(30), <1>1, <2>1 DEF MetadataInv
    <2>4. db'.metadata = <<ClosedRow(now, end)>>
      <3>1. db'.metadata = [db.metadata EXCEPT ![1].lifecycle = "closed",
                                               ![1].closed = <<end>>]
        BY <1>1, <2>2 DEF MetadataInv
      <3>2. \A r : [<<r>> EXCEPT ![1].lifecycle = "closed", ![1].closed = <<end>>]
                   = <<[r EXCEPT !.lifecycle = "closed", !.closed = <<end>>]>>
        OBVIOUS
      <3> QED BY ZenonT(30), <2>3, <3>1, <3>2 DEF ClosedRow
    <2>5. /\ db'.file = db.file /\ db'.version = db.version /\ db'.inodes = db.inodes
          /\ db' = [file |-> db'.file, tables |-> db'.tables, version |-> db'.version,
                    metadata |-> db'.metadata, inodes |-> db'.inodes]
      BY ZenonT(30), <1>1, <2>2 DEF MetadataInv
    <2>6. db'.metadata # Null
      BY <2>4 DEF Null
    <2>7. \E n \in Nat, e \in Nat :
            db'.metadata = <<IF step' = "closed" THEN ClosedRow(n, e)'
                                                 ELSE ActiveRow(n)'>>
      BY Zenon, <1>3, <2>1, <2>4
    <2> QED BY <1>1, <1>3, <2>1, <2>5, <2>6, <2>7 DEF MetadataInv, NoAnswer
  <1>9. CASE DaemonDies
    BY SMTT(30), <1>1, <1>3, <1>9 DEF DaemonDies, MetadataInv, pubVars
  <1>10. CASE ReadInodes \/ UNCHANGED vars
    BY ZenonT(30), <1>1, <1>3, <1>10 DEF ReadInodes, MetadataInv, pubVars, vars
  <1>11. CASE InspectSession
    <2>1. UNCHANGED <<blob, origin, opens, step, db>>
      BY ZenonT(30), <1>11 DEF InspectSession, pubVars
    <2>2. seen'.st = "ok" => db.metadata # Null
      BY ZenonT(30), <1>11 DEF InspectSession
    <2> QED BY SMTT(30), <1>1, <1>3, <2>1, <2>2 DEF MetadataInv
  <1> QED BY ZenonT(30), <1>2, <1>4, <1>5, <1>6, <1>7, <1>8, <1>9, <1>10, <1>11 DEF Next

\* An inspection reports the row of the last daemon, and no step but its own
\* answer changes what it says of a session that is still there.
LEMMA InspectNext ==
  ASSUME TInv, [Next]_vars
  PROVE  InspectIsHonest'
  <1>1. MetadataInv /\ TypeOK /\ InspectIsHonest /\ PublishedInv
    BY DEF TInv
  <1>2. CASE AddEntry \/ EncodeAndPublish \/ PublishForeign
    <2>1. ~Published /\ UNCHANGED <<step, opens, seen>>
      BY Zenon, <1>2 DEF AddEntry, EncodeAndPublish, PublishForeign, Published
    <2>2. seen.st # "ok"
      BY <2>1, UnpublishedEmpty
    <2> QED BY <1>1, <2>1, <2>2 DEF InspectIsHonest
  <1>3. CASE seen' = NoAnswer
    BY <1>3 DEF InspectIsHonest, NoAnswer
  <1>4. CASE /\ UNCHANGED <<blob, opens, seen>>
             /\ step' = step \/ (step' = "down" /\ step # "closed")
    <2>1. step' = "closed" <=> step = "closed"
      BY <1>4
    <2>2. step' \in {"open", "closed"} => step \in {"open", "closed"}
      BY <1>4
    <2> QED BY <1>1, <1>4, <2>1, <2>2 DEF InspectIsHonest
  <1>5. CASE InspectSession
    <2>1. UNCHANGED <<blob, origin, opens, step, db>>
      BY Zenon, <1>5 DEF InspectSession, pubVars
    <2>2. CASE db.metadata = Null
      <3>1. seen'.st # "ok" /\ step \notin {"open", "closed"}
        BY <1>1, <1>5, <2>2 DEF InspectSession, MetadataInv
      <3> QED BY Zenon, <2>1, <3>1 DEF InspectIsHonest
    <2>3. CASE db.metadata # Null
      <3>0. db.file /\ db.version = SchemaVersion /\ opens > 0 /\ Published
        BY Zenon, <1>1, <2>3 DEF MetadataInv
      <3> DEFINE x == DigestOf(blob)
                 m == db.metadata[1]
      <3>1. x = [hash |-> x.hash, size |-> x.size] /\ ValidDigest(x)
        BY Zenon, <1>1, <3>0, PublishedDigest DEF PublishedInv
      <3>2. PICK now \in Nat, t \in Nat :
               db.metadata = <<IF step = "closed" THEN ClosedRow(now, t) ELSE ActiveRow(now)>>
        BY Zenon, <1>1, <2>3 DEF MetadataInv
      <3> HIDE DEF x
      <3>3. /\ m.pid = opens /\ m.hash = x.hash /\ m.size = x.size /\ m.created = now
            /\ m.lifecycle = IF step = "closed" THEN "closed" ELSE "active"
            /\ m.closed = IF step = "closed" THEN <<t>> ELSE Null
        <4>1. /\ db.metadata[1] = IF step = "closed" THEN ClosedRow(now, t) ELSE ActiveRow(now)
          BY SMTT(30), <3>2
        <4>2. /\ ActiveRow(now).pid = opens /\ ActiveRow(now).created = now
              /\ ActiveRow(now).hash = x.hash /\ ActiveRow(now).size = x.size
              /\ ActiveRow(now).lifecycle = "active" /\ ActiveRow(now).closed = Null
          BY DEF ActiveRow, MetadataRow, x
        <4>3. /\ ClosedRow(now, t).pid = opens /\ ClosedRow(now, t).created = now
              /\ ClosedRow(now, t).hash = x.hash /\ ClosedRow(now, t).size = x.size
              /\ ClosedRow(now, t).lifecycle = "closed" /\ ClosedRow(now, t).closed = <<t>>
          BY DEF ClosedRow, ActiveRow, MetadataRow, x
        <4> QED BY SMTT(30), <4>1, <4>2, <4>3
      <3> HIDE DEF m
      <3>4. [hash |-> m.hash, size |-> m.size] = x
        BY Zenon, <3>1, <3>3
      <3>5. ReadableMetadata(m)
        BY <3>0, <3>1, <3>3, <3>4 DEF ReadableMetadata, Null
      <3>6. seen' = [st |-> "ok", pid |-> m.pid, root |-> x,
                     closed |-> m.lifecycle = "closed"]
        <4>1. ~(\/ db.version # SchemaVersion \/ db.metadata = Null
                \/ ~ReadableMetadata(db.metadata[1]))
          BY <2>3, <3>0, <3>5 DEF m
        <4>2. seen' = [st |-> "ok", pid |-> db.metadata[1].pid,
               root |-> [hash |-> db.metadata[1].hash, size |-> db.metadata[1].size],
               closed |-> db.metadata[1].lifecycle = "closed"]
          BY <1>5, <3>0, <4>1, ZenonT(30) DEF InspectSession
        <4> QED BY <3>4, <4>2, ZenonT(30) DEF m
      <3>7. /\ seen'.st = "ok" /\ seen'.pid = opens /\ seen'.root = x
            /\ seen'.closed <=> step = "closed"
        BY ZenonT(30), <3>3, <3>6
      <3> QED BY Zenon, <2>1, <3>7 DEF InspectIsHonest, x
    <2> QED BY Zenon, <2>2, <2>3
  <1>6. CASE ReplaceTree \/ CreateTables \/ RecordVersion \/ LoadRoot \/ CloseSession
    BY ZenonT(30), <1>3, <1>6 DEF ReplaceTree, CreateTables, RecordVersion, LoadRoot, CloseSession
  <1>7. CASE Initialize
    <2>1. /\ UNCHANGED <<blob, opens>> /\ step = "version"
          /\ seen' = NoAnswer \/ (seen' = seen /\ step' = "down")
      BY <1>7 DEF Initialize, pubVars
    <2> QED BY <1>3, <1>4, <2>1
  <1>8. CASE DaemonDies \/ ReadInodes \/ UNCHANGED vars
    <2>1. /\ UNCHANGED <<blob, opens, seen>>
          /\ step' = step \/ (step' = "down" /\ step # "closed")
      BY <1>8 DEF DaemonDies, ReadInodes, pubVars, vars
    <2> QED BY Zenon, <1>4, <2>1
  <1> QED BY <1>2, <1>5, <1>6, <1>7, <1>8 DEF Next

LEMMA NextTInv == TInv /\ [Next]_vars => TInv'
  <1> SUFFICES ASSUME TInv, [Next]_vars PROVE TInv'
      OBVIOUS
  <1>1. TypeOK' /\ AnswerInv'
    BY TypeNext
  <1>2. PublishedInv'
    BY PublishedNext
  <1>3. RowsInv'
    BY RowsNext
  <1>4. MetadataInv'
    BY MetadataNext
  <1>5. InspectIsHonest'
    BY InspectNext
  <1> QED BY <1>1, <1>2, <1>3, <1>4, <1>5 DEF TInv

\* The invariant holds for every directory, message and order of the steps of
\* upload, daemon and inspection.
THEOREM TransitInvariant == Spec => []TInv
  BY InitTInv, NextTInv, PTL DEF Spec

\* Every variable keeps its type, and the metadata row and the root row are
\* there together (initialize_database is one transaction).
THEOREM TransitTypes == Spec => []TypeOK
  <1>1. TInv => TypeOK
    BY SMTT(30) DEF TInv
  <1> QED BY <1>1, TransitInvariant, PTL

\* Whatever is listed, in whatever order, and whatever the bounds on names and
\* times: the directory rfs upload publishes is not refused on the way into a
\* mount, unless the bytes of the cache are damaged.
THEOREM UploadsLoad == Spec => []UploadedDirectoryLoads
  <1>1. TInv => UploadedDirectoryLoads
    BY DEF TInv, RowsInv, UploadedDirectoryLoads
  <1> QED BY <1>1, TransitInvariant, PTL

\* Session::inspect reports the last session opened, and its close, at every
\* point at which a daemon can have died.
THEOREM InspectionIsHonest == Spec => []InspectIsHonest
  <1>1. TInv => InspectIsHonest
    BY Zenon DEF TInv
  <1> QED BY <1>1, TransitInvariant, PTL

\* The columns always hold the table that SessionStore describes, readable
\* row by row, for any message, of any client: what SessionStore leaves out of
\* SQLite loses nothing.
THEOREM RowsAreTheTable == Spec => []RowsMatchStore
  <1>1. TInv => RowsMatchStore
    <2> SUFFICES ASSUME TInv, db.inodes # <<>> PROVE RowsMatchStore
      BY ZenonT(30) DEF RowsMatchStore
    <2> DEFINE d == blob.directory
               x == DigestOf(blob)
    <2>1. Published /\ RowsInv /\ blob = Wire(d) /\ IsMessage(d)
      BY Zenon DEF TInv, RowsInv, PublishedInv
    <2>2. x = [hash |-> x.hash, size |-> x.size] /\ ValidDigest(x)
      BY ZenonT(30), <2>1, PublishedDigest
    <2>3. CASE db.inodes = NewRows
      <3> DEFINE r == RootColumns(x)
                 t == Store!NewTable(x)
                 z == [RootColumns(x) EXCEPT !.loaded = <<0>>]
      <3>1. z = r /\ ReadableRow(1, z) /\ FromColumns(z) = [t[1] EXCEPT !.loaded = FALSE]
        <4>1. LET w == [RootColumns(x) EXCEPT !.loaded = <<0>>] IN
              /\ ReadableRow(1, w)
              /\ FromColumns(w) = [Store!NewTable(x)[1] EXCEPT !.loaded = (0 = 1)]
              /\ w = RootColumns(x)
          BY ZenonT(30), <2>2, RootCarried
        <4>2. (0 = 1) = FALSE
          OBVIOUS
        <4> QED BY ZenonT(30), <4>1, <4>2
      <3>2. z.loaded = <<0>>
        BY DEF RootColumns, Columns
      <3>3. t = <<t[1]>> /\ [t[1] EXCEPT !.loaded = FALSE] = t[1]
        <4> DEFINE w == Store!Row(0, [name |-> 0, kind |-> "directory",
                                      mode |-> Store!NoMode, mtime |-> Store!NoTime,
                                      content |-> x])
        <4>1. t = <<w>>
          BY DEF Store!NewTable
        <4>2. [w EXCEPT !.loaded = FALSE] = w
          <5> DEFINE no == FALSE
          <5>1. w = [parent |-> 0, name |-> 0, kind |-> "directory",
                     mode |-> Store!NoMode, mtime |-> Store!NoTime, content |-> x,
                     loaded |-> no]
            BY Zenon DEF Store!Row
          <5> HIDE DEF no, w
          <5>2. [w EXCEPT !.loaded = no] = w
            BY SMTT(30), <5>1
          <5> QED BY <5>2, ZenonT(30) DEF no
        <4> HIDE DEF w, t
        <4> QED BY SMTT(30), <4>1, <4>2
      <3>4. db.inodes = <<r>> /\ DOMAIN db.inodes = {1} /\ db.inodes[1] = r
        BY <2>3 DEF NewRows
      <3> HIDE DEF r, t, z
      <3>5. ~Loaded
        <4>1. <<0>> # <<1>>
          OBVIOUS
        <4> QED BY SMTT(30), <3>1, <3>2, <3>4, <4>1 DEF Loaded
      <3>6. [i \in DOMAIN db.inodes |-> FromColumns(db.inodes[i])] = t
        <4>1. [i \in {1} |-> t[1]] = <<t[1]>>
          OBVIOUS
        <4>2. FromColumns(db.inodes[1]) = t[1]
          BY ZenonT(30), <3>1, <3>3, <3>4
        <4>3. [i \in DOMAIN db.inodes |-> FromColumns(db.inodes[i])] = [i \in {1} |-> t[1]]
          BY <3>4, <4>2
        <4> QED BY SMTT(30), <3>3, <4>1, <4>3
      <3>7. \A i \in DOMAIN db.inodes : ReadableRow(i, db.inodes[i])
        BY <3>1, <3>4
      <3> QED BY <3>5, <3>6, <3>7 DEF RowsMatchStore, t
    <2>4. CASE /\ db.inodes = LoadedRows /\ Convertible(d)
               /\ \A i \in DOMAIN LoadedRows : ReadableRow(i, LoadedRows[i])
      <3>1. /\ LoadedRows[1] = [RootColumns(x) EXCEPT !.loaded = <<1>>]
            /\ [i \in DOMAIN LoadedRows |-> FromColumns(LoadedRows[i])]
                 = Store!WithChildren(Store!NewTable(x), 1, Children(d))
        BY ZenonT(30), <2>1, <2>2, <2>4, RowsCarried DEF LoadedRows, NewRows
      <3>2. LoadedRows[1].loaded = <<1>>
        BY SMTT(30), <3>1 DEF RootColumns, Columns
      <3>3. Loaded
        BY <2>4, <3>2 DEF Loaded
      <3> QED BY <2>4, <3>1, <3>3 DEF RowsMatchStore
    <2> QED BY Zenon, <2>1, <2>3, <2>4 DEF RowsInv
  <1> QED BY <1>1, TransitInvariant, PTL

=============================================================================
