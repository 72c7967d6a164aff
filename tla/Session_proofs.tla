---------------------------- MODULE Session_proofs ----------------------------
(***************************************************************************)
(* The lazily loaded namespace for any number of threads, calls and blobs  *)
(* and any remote tree: a directory is loaded whole or not at all, an      *)
(* inode never changes, nothing is stored after close, and lookups,        *)
(* listings and reads answer what the remote store holds.  SInv is the     *)
(* inductive invariant of the table (the inode lock is what makes it       *)
(* inductive), AInv that of the answers.                                   *)
(***************************************************************************)
EXTENDS Session, FiniteSetTheorems, TLAPS

\* The nodes of all directories of the remote store, and the rows of them.
Nodes == UNION {Range(Decode(b)) : b \in {x \in Blob : Decode(x) # Malformed}}
RowSet ==
    [parent : Nat, name : {n.name : n \in Nodes} \cup {0}, kind : Kinds,
     mode : {NoMode} \cup 0..MaxMode, mtime : {n.mtime : n \in Nodes} \cup {NoTime},
     content : {n.content : n \in Nodes} \cup Digest, loaded : BOOLEAN]
CallSet ==
    [st : {"idle"}] \cup [st : {"waiting", "fetched", "err"}, dig : Digest]
    \cup [st : {"ok"}, dig : Digest, bytes : Blob, downloaded : BOOLEAN]
Control == {"idle", "lock", "check", "fetch", "record", "query", "get", "close"}

\* A row is a row of its parent; a file or a directory is a blob.
Table ==
    /\ rows \in Seq(RowSet)
    /\ Len(rows) >= 1
    /\ \A i \in DOMAIN rows :
          /\ rows[i].parent <= Len(rows)
          /\ rows[i].kind # "symlink" => rows[i].content \in Digest
          /\ rows[i].loaded => rows[i].kind = "directory"

CounterType ==
    counters \in [dirDown : Nat, dirHits : Nat, fileDown : Nat, fileHits : Nat]
OpType ==
    /\ op \in [Thread -> UNION {OpsOf[t] : t \in Thread}]
    /\ \A t \in Thread : op[t] \in OpsOf[t]

Types ==
    /\ Table
    /\ life \in {"active", "closed"}
    /\ gate \in [Inode -> SUBSET Thread]
    /\ poisoned \in SUBSET Inode
    /\ CounterType
    /\ pc \in [Thread -> Control]
    /\ OpType
    /\ avail \in SUBSET Digest
    /\ call \in [Thread -> CallSet]

\* Who is between lock() and the end of the guard's scope holds the lock.
Holding(t) == pc[t] \in {"check", "fetch", "record"}
LockInv ==
    \A t \in Thread :
        /\ pc[t] \in {"lock", "check", "fetch", "record"} =>
              op[t].fn \in {"lookup", "list", "read"}
        /\ Holding(t) => gate[op[t].inode] = {t}

\* While the blob is read, its row is as get_visible_inode found it.
FetchInv ==
    \A t \in Thread : pc[t] = "fetch" =>
        /\ op[t].inode \in DOMAIN rows
        /\ call[t].st # "idle"
        /\ call[t].dig = rows[op[t].inode].content
        /\ Loads(t) => /\ rows[op[t].inode].kind = "directory"
                       /\ ~rows[op[t].inode].loaded
        /\ ~Loads(t) => rows[op[t].inode].kind = "file"

\* The bytes the cache answered hash to the digest (BlobService).
AnsweredInv ==
    \A t \in Thread : call[t].st = "ok" => DigestOf(call[t].bytes) = call[t].dig

SInv == Types /\ LockInv /\ FetchInv /\ AnsweredInv /\ LoadedComplete

\* The length of a concatenation.
LEMMA ConcatLength ==
  ASSUME NEW S, NEW a \in Seq(S), NEW b \in Seq(S)
  PROVE  Len(a \o b) = Len(a) + Len(b)
  OBVIOUS

\* What decode_directory gives are nodes.
LEMMA DecodedNodes ==
  ASSUME NEW b \in Blob, Decode(b) # Malformed
  PROVE  /\ Decode(b) \in Seq(Nodes)
         /\ \A n \in Nodes : IsNode(n)
         /\ Range(Decode(b)) \subseteq Nodes
  <1>1. Range(Decode(b)) \subseteq Nodes
    BY DEF Nodes
  <1>2. ASSUME NEW n \in Nodes PROVE IsNode(n)
    BY DecodeAssumption DEF Nodes
  <1>3. Decode(b) \in Seq(Range(Decode(b)))
    BY DecodeAssumption
  <1>4. Decode(b) \in Seq(Nodes)
    BY <1>1, <1>3
  <1> QED BY <1>1, <1>2, <1>4

\* The digest decides the blob.
LEMMA RemoteIs ==
  ASSUME NEW b \in Blob
  PROVE  Remote(DigestOf(b)) = Decode(b)
  <1>1. (CHOOSE c \in Blob : DigestOf(c) = DigestOf(b)) = b
    BY BlobAssumption
  <1> QED BY ZenonT(30), <1>1 DEF Remote

\* A node that validate_remote_children accepts becomes a row.
LEMMA NodeRow ==
  ASSUME NEW n \in Nodes, IsNode(n), n.mode <= MaxMode, NEW p \in Nat
  PROVE  /\ Row(p, n) \in RowSet
         /\ NodeOf(Row(p, n)) = n
         /\ Row(p, n).parent = p
         /\ Row(p, n).kind # "symlink" => Row(p, n).content \in Digest
         /\ Row(p, n).loaded = FALSE
  <1>1. n.mode \in {NoMode} \cup 0..MaxMode
    <2>1. MaxMode \in Nat
      BY DEF MaxMode
    <2>2. n.mode \in {NoMode} \cup Nat
      BY DEF IsNode
    <2> QED BY <2>1, <2>2
  <1>2. Row(p, n) \in RowSet
    BY <1>1 DEF Row, RowSet, IsNode
  <1>3. NodeOf(Row(p, n)) = n
    BY DEF NodeOf, Row, IsNode
  <1> QED BY <1>2, <1>3 DEF Row, IsNode

Appended(table, p, nodes, new) ==
    /\ new \in Seq(RowSet)
    /\ Len(new) = Len(table) + Len(nodes)
    /\ \A i \in 1..Len(table) :
          new[i] = IF i = p THEN [table[i] EXCEPT !.loaded = TRUE] ELSE table[i]
    /\ \A j \in 1..Len(nodes) : new[Len(table) + j] = Row(p, nodes[j])
FittingModes(nodes) == \A j \in DOMAIN nodes : nodes[j].mode <= MaxMode

\* get_or_create_remote_dir_children appends the children and marks the parent.
LEMMA AppendedRows ==
  ASSUME NEW table \in Seq(RowSet), NEW p \in DOMAIN table, NEW nodes \in Seq(Nodes),
         Nodes \subseteq {n \in Nodes : IsNode(n)}, FittingModes(nodes)
  PROVE  Appended(table, p, nodes, WithChildren(table, p, nodes))
  <1> DEFINE old == [table EXCEPT ![p].loaded = TRUE]
             new == [j \in DOMAIN nodes |-> Row(p, nodes[j])]
  <1>1. p \in Nat /\ p \in 1..Len(table) /\ table[p] \in RowSet
    OBVIOUS
  <1>2. [table[p] EXCEPT !.loaded = TRUE] \in RowSet
    BY ZenonT(30), <1>1 DEF RowSet
  <1>3. old \in Seq(RowSet) /\ Len(old) = Len(table)
    <2> DEFINE x == [table[p] EXCEPT !.loaded = TRUE]
    <2>1. old = [table EXCEPT ![p] = x]
      OBVIOUS
    <2> HIDE DEF x, old
    <2>2. x \in RowSet
      BY <1>2 DEF x
    <2> QED BY <1>1, <2>1, <2>2
  <1>4. \A i \in 1..Len(table) : old[i] =
          IF i = p THEN [table[i] EXCEPT !.loaded = TRUE] ELSE table[i]
    <2> DEFINE x == [table[p] EXCEPT !.loaded = TRUE]
    <2>1. old = [table EXCEPT ![p] = x]
      OBVIOUS
    <2> HIDE DEF x, old
    <2>2. \A i \in 1..Len(table) : old[i] = IF i = p THEN x ELSE table[i]
      BY <1>1, <2>1
    <2> QED BY ZenonT(30), <2>2 DEF x
  <1>5. \A j \in DOMAIN nodes : Row(p, nodes[j]) \in RowSet
    <2>1. \A j \in DOMAIN nodes : nodes[j] \in Nodes
      OBVIOUS
    <2> QED BY ZenonT(30), <1>1, <2>1, NodeRow DEF FittingModes
  <1>6. new \in Seq(RowSet) /\ Len(new) = Len(nodes)
    <2>1. DOMAIN nodes = 1..Len(nodes) /\ Len(nodes) \in Nat
      OBVIOUS
    <2> QED BY <1>5, <2>1
  <1>7. \A j \in 1..Len(nodes) : new[j] = Row(p, nodes[j])
    OBVIOUS
  <1>8. WithChildren(table, p, nodes) = old \o new
    BY DEF WithChildren
  <1> HIDE DEF old, new
  <1>9. (old \o new) \in Seq(RowSet) /\ Len(old \o new) = Len(table) + Len(nodes)
    <2>1. (old \o new) \in Seq(RowSet)
      BY <1>3, <1>6
    <2>2. Len(old \o new) = Len(old) + Len(new)
      BY ZenonT(30), <1>3, <1>6, ConcatLength
    <2> QED BY <1>3, <1>6, <2>1, <2>2
  <1>10. \A i \in 1..Len(table) : (old \o new)[i] = old[i]
    <2> SUFFICES ASSUME NEW i \in 1..Len(table)
                 PROVE  (old \o new)[i] = old[i]
      BY ZenonT(30)
    <2>1. Len(table) \in Nat /\ Len(nodes) \in Nat
      OBVIOUS
    <2>2. i \in 1..(Len(old) + Len(new)) /\ i <= Len(old)
      BY <1>3, <1>6, <2>1
    <2> QED BY <1>3, <1>6, <2>2
  <1>11. \A j \in 1..Len(nodes) : (old \o new)[Len(table) + j] = new[j]
    <2> SUFFICES ASSUME NEW j \in 1..Len(nodes)
                 PROVE  (old \o new)[Len(table) + j] = new[j]
      BY ZenonT(30)
    <2>1. Len(table) \in Nat /\ Len(nodes) \in Nat
      OBVIOUS
    <2> DEFINE k == Len(table) + j
    <2>2. k \in 1..(Len(old) + Len(new)) /\ ~(k <= Len(old)) /\ k - Len(old) = j
      BY <1>3, <1>6, <2>1
    <2> HIDE DEF k
    <2>3. (old \o new)[k] = new[k - Len(old)]
      BY <1>3, <1>6, <2>2
    <2> QED BY <2>2, <2>3 DEF k
  <1> QED BY ZenonT(30), <1>4, <1>7, <1>8, <1>9, <1>10, <1>11 DEF Appended

\* Loading a directory keeps the table well-formed and every directory whole.
LEMMA LoadKeeps ==
  ASSUME Table, LoadedComplete,
         NEW p \in DOMAIN rows, rows[p].kind = "directory", ~rows[p].loaded,
         NEW b \in Blob, rows[p].content = DigestOf(b), Decode(b) # Malformed,
         ValidChildren(Decode(b)), rows' = WithChildren(rows, p, Decode(b))
  PROVE  /\ Table'
         /\ LoadedComplete'
         /\ \A i \in DOMAIN rows :
               /\ i \in DOMAIN rows'
               /\ rows'[i] = IF i = p THEN [rows[i] EXCEPT !.loaded = TRUE] ELSE rows[i]
         /\ \A k \in DOMAIN rows' : k \notin DOMAIN rows => ~rows'[k].loaded
  <1> DEFINE nodes == Decode(b)
             n == Len(rows)
             m == Len(nodes)
  <1>1. /\ rows \in Seq(RowSet) /\ nodes \in Seq(Nodes)
        /\ \A x \in Nodes : IsNode(x)
        /\ \A j \in DOMAIN nodes : nodes[j].mode <= MaxMode
    BY DecodedNodes DEF Table, ValidChildren
  <1>2. n \in Nat /\ m \in Nat /\ p \in 1..n /\ DOMAIN rows = 1..n /\ DOMAIN nodes = 1..m
    BY <1>1
  <1>3. /\ rows' \in Seq(RowSet)
        /\ Len(rows') = n + m
        /\ \A i \in 1..n :
              rows'[i] = IF i = p THEN [rows[i] EXCEPT !.loaded = TRUE] ELSE rows[i]
        /\ \A j \in 1..m : rows'[n + j] = Row(p, nodes[j])
    <2>1. FittingModes(nodes) /\ Nodes \subseteq {x \in Nodes : IsNode(x)}
      BY <1>1 DEF FittingModes
    <2>2. Appended(rows, p, nodes, rows')
      BY <1>1, <2>1, AppendedRows
    <2> QED BY ZenonT(30), <2>2 DEF Appended
  <1>4. DOMAIN rows' = 1..(n + m)
    BY <1>3
  <1> HIDE DEF n, m, nodes
  <1>5. ASSUME NEW k \in 1..(n + m), k \notin 1..n
        PROVE  /\ k - n \in 1..m
               /\ rows'[k] = Row(p, nodes[k - n])
               /\ nodes[k - n] \in Nodes /\ IsNode(nodes[k - n])
               /\ nodes[k - n].mode <= MaxMode
    <2>1. k - n \in 1..m /\ n + (k - n) = k
      BY <1>2, <1>5
    <2> DEFINE j == k - n
    <2> HIDE DEF j
    <2>2. j \in 1..m /\ n + j = k
      BY <2>1 DEF j
    <2>3. rows'[k] = Row(p, nodes[j]) /\ nodes[j] \in Nodes /\ nodes[j].mode <= MaxMode
      BY <1>1, <1>2, <1>3, <2>2
    <2> QED BY <1>1, <2>1, <2>3 DEF j
  <1>6. ASSUME NEW k \in 1..(n + m), k \notin 1..n
        PROVE  /\ rows'[k].parent = p
               /\ rows'[k].kind # "symlink" => rows'[k].content \in Digest
               /\ rows'[k].loaded = FALSE
               /\ NodeOf(rows'[k]) = nodes[k - n]
    <2>1. p \in Nat
      BY <1>2
    <2>2. /\ rows'[k] = Row(p, nodes[k - n])
          /\ nodes[k - n] \in Nodes /\ IsNode(nodes[k - n])
          /\ nodes[k - n].mode <= MaxMode
      BY <1>5, <1>6
    <2> DEFINE x == nodes[k - n]
               y == rows'[k]
    <2> HIDE DEF x, y
    <2>3. y = Row(p, x) /\ x \in Nodes /\ IsNode(x) /\ x.mode <= MaxMode
      BY <2>2 DEF x, y
    <2>4. /\ y.parent = p
          /\ y.kind # "symlink" => y.content \in Digest
          /\ y.loaded = FALSE
          /\ NodeOf(y) = x
      BY ZenonT(30), <2>1, <2>3, NodeRow
    <2> QED BY <2>4 DEF x, y
  <1>7. ASSUME NEW i \in 1..n
        PROVE  /\ rows[i] \in RowSet
               /\ rows'[i].parent = rows[i].parent /\ rows'[i].content = rows[i].content
               /\ rows'[i].kind = rows[i].kind /\ NodeOf(rows'[i]) = NodeOf(rows[i])
               /\ rows'[i].loaded = IF i = p THEN TRUE ELSE rows[i].loaded
    <2>1. rows[i] \in RowSet
      BY <1>1, <1>2
    <2>2. rows'[i] = IF i = p THEN [rows[i] EXCEPT !.loaded = TRUE] ELSE rows[i]
      BY <1>3
    <2> QED BY <2>1, <2>2 DEF RowSet, NodeOf
  <1>8. Table'
    <2> SUFFICES ASSUME NEW k \in 1..(n + m)
                 PROVE  /\ rows'[k].parent <= n + m
                        /\ rows'[k].kind # "symlink" => rows'[k].content \in Digest
                        /\ rows'[k].loaded => rows'[k].kind = "directory"
      BY <1>2, <1>3, <1>4 DEF Table
    <2>1. CASE k \in 1..n
      <3>1. /\ rows[k].parent <= n
            /\ rows[k].kind # "symlink" => rows[k].content \in Digest
            /\ rows[k].loaded => rows[k].kind = "directory"
        BY <1>2, <2>1 DEF Table, n
      <3>2. rows[k].parent \in Nat
        BY ZenonT(30), <1>7, <2>1 DEF RowSet
      <3>3. rows'[k].parent <= n + m
        <4>1. rows'[k].parent = rows[k].parent
          BY ZenonT(30), <1>7, <2>1
        <4> DEFINE q == rows[k].parent
        <4> HIDE DEF q
        <4>2. q \in Nat /\ q <= n
          BY <3>1, <3>2 DEF q
        <4> QED BY <1>2, <4>1, <4>2 DEF q
      <3> QED BY ZenonT(30), <1>7, <2>1, <3>1, <3>3
    <2>2. CASE k \notin 1..n
      <3>1. p <= n + m
        BY <1>2
      <3> QED BY ZenonT(30), <1>6, <2>2, <3>1
    <2> QED BY <2>1, <2>2
  <1>9. ASSUME NEW i \in 1..n, i # p
        PROVE  ChildrenOf(rows', i) = ChildrenOf(rows, i)
    <2>1. \A k \in 1..n : rows'[k].parent = rows[k].parent
      BY ZenonT(30), <1>7
    <2>2. \A k \in 1..(n + m) : k \notin 1..n => rows'[k].parent # i
      BY ZenonT(30), <1>6, <1>9
    <2>3. 1..n \subseteq 1..(n + m)
      BY <1>2
    <2> HIDE DEF Table
    <2> QED BY ZenonT(30), <1>2, <1>4, <2>1, <2>2, <2>3 DEF ChildrenOf
  <1>10. ChildrenOf(rows', p) = (n + 1)..(n + m)
    <2>1. ChildrenOf(rows, p) = {}
      BY DEF LoadedComplete
    <2>2. \A k \in 1..n : rows'[k].parent # p
      BY ZenonT(30), <1>2, <1>7, <2>1 DEF ChildrenOf
    <2>3. \A k \in (n + 1)..(n + m) : k \in 1..(n + m) /\ k \notin 1..n
      BY <1>2
    <2>4. \A k \in 1..(n + m) : k \in 1..n \/ k \in (n + 1)..(n + m)
      BY <1>2
    <2> QED BY ZenonT(30), <1>4, <1>6, <2>2, <2>3, <2>4 DEF ChildrenOf
  <1>11. ASSUME NEW k \in 1..(n + m), k \notin 1..n
         PROVE  ChildrenOf(rows', k) = {}
    <2>1. k > n
      BY <1>2, <1>11
    <2>2. \A i \in 1..n : rows'[i].parent # k
      <3> SUFFICES ASSUME NEW i \in 1..n PROVE rows'[i].parent # k
        OBVIOUS
      <3>1. rows[i].parent \in Nat /\ rows[i].parent <= n
        BY ZenonT(30), <1>2, <1>7 DEF RowSet, Table, n
      <3>2. rows'[i].parent = rows[i].parent
        BY ZenonT(30), <1>7
      <3> DEFINE q == rows[i].parent
      <3> HIDE DEF q
      <3>3. q \in Nat /\ q <= n
        BY <3>1 DEF q
      <3>4. q # k
        BY <1>2, <2>1, <3>3
      <3> QED BY <3>2, <3>4 DEF q
    <2>3. p # k
      BY <1>2, <2>1
    <2>4. \A i \in 1..(n + m) : i \notin 1..n => rows'[i].parent = p
      BY ZenonT(30), <1>6
    <2> QED BY ZenonT(30), <1>4, <2>2, <2>3, <2>4 DEF ChildrenOf
  <1>12. LoadedComplete'
    <2> SUFFICES ASSUME NEW i \in 1..(n + m)
                 PROVE  IF rows'[i].kind = "directory" /\ rows'[i].loaded
                        THEN /\ Remote(rows'[i].content) # Malformed
                             /\ {NodeOf(rows'[c]) : c \in ChildrenOf(rows', i)}
                                    = Range(Remote(rows'[i].content))
                             /\ Cardinality(ChildrenOf(rows', i))
                                    = Len(Remote(rows'[i].content))
                        ELSE ChildrenOf(rows', i) = {}
      BY ZenonT(30), <1>4 DEF LoadedComplete
    <2>1. CASE i \notin 1..n
      BY ZenonT(30), <1>6, <1>11, <2>1
    <2>2. CASE i \in 1..n /\ i # p
      <3>1. /\ ChildrenOf(rows', i) = ChildrenOf(rows, i)
            /\ rows'[i].kind = rows[i].kind /\ rows'[i].content = rows[i].content
            /\ rows'[i].loaded = rows[i].loaded
        BY ZenonT(30), <1>7, <1>9, <2>2
      <3>2. \A c \in ChildrenOf(rows, i) : NodeOf(rows'[c]) = NodeOf(rows[c])
        BY ZenonT(30), <1>2, <1>7 DEF ChildrenOf
      <3>3. {NodeOf(rows'[c]) : c \in ChildrenOf(rows, i)}
              = {NodeOf(rows[c]) : c \in ChildrenOf(rows, i)}
        BY ZenonT(30), <3>2
      <3>4. IF rows[i].kind = "directory" /\ rows[i].loaded
            THEN /\ Remote(rows[i].content) # Malformed
                 /\ {NodeOf(rows[c]) : c \in ChildrenOf(rows, i)}
                        = Range(Remote(rows[i].content))
                 /\ Cardinality(ChildrenOf(rows, i)) = Len(Remote(rows[i].content))
            ELSE ChildrenOf(rows, i) = {}
        BY ZenonT(30), <1>2, <2>2 DEF LoadedComplete
      <3> QED BY ZenonT(30), <3>1, <3>3, <3>4
    <2>3. CASE i = p
      <3>1. /\ rows'[i].kind = "directory" /\ rows'[i].loaded
            /\ Remote(rows'[i].content) = nodes
        BY ZenonT(30), <1>2, <1>7, <2>3, RemoteIs DEF nodes
      <3>2. Cardinality((n + 1)..(n + m)) = m
        <4>1. n + 1 \in Int /\ n + m \in Int
          BY <1>2
        <4>2. Cardinality((n + 1)..(n + m))
                = IF n + 1 > n + m THEN 0 ELSE (n + m) - (n + 1) + 1
          BY <4>1, FS_Interval
        <4> QED BY <1>2, <4>2
      <3>3. {NodeOf(rows'[c]) : c \in (n + 1)..(n + m)} = Range(nodes)
        <4>1. ASSUME NEW c \in (n + 1)..(n + m)
              PROVE  c - n \in 1..m /\ NodeOf(rows'[c]) = nodes[c - n]
          <5>1. c \in 1..(n + m) /\ c \notin 1..n
            BY <1>2
          <5> QED BY ZenonT(30), <1>5, <1>6, <5>1
        <4>2. ASSUME NEW j \in 1..m
              PROVE  n + j \in (n + 1)..(n + m) /\ (n + j) - n = j
          BY <1>2
        <4>3. ASSUME NEW j \in 1..m
              PROVE  NodeOf(rows'[n + j]) = nodes[j]
          BY <4>1, <4>2
        <4>4. Range(nodes) = {nodes[j] : j \in 1..m}
          BY <1>2 DEF Range
        <4>5. \A c \in (n + 1)..(n + m) : \E j \in 1..m : NodeOf(rows'[c]) = nodes[j]
          BY <4>1
        <4>6. \A j \in 1..m : \E c \in (n + 1)..(n + m) : NodeOf(rows'[c]) = nodes[j]
          BY <4>2, <4>3
        <4> DEFINE stored == {NodeOf(rows'[c]) : c \in (n + 1)..(n + m)}
                   remote == {nodes[j] : j \in 1..m}
        <4>7. \A x \in stored : x \in remote
          BY <4>5
        <4>8. \A x \in remote : x \in stored
          BY <4>6
        <4>9. stored = remote
          <5> HIDE DEF stored, remote
          <5> QED BY <4>7, <4>8
        <4> QED BY ZenonT(30), <4>4, <4>9
      <3> QED BY ZenonT(30), <1>10, <2>3, <3>1, <3>2, <3>3 DEF m, nodes
    <2> QED BY <2>1, <2>2, <2>3
  <1>13. \A k \in DOMAIN rows' : k \notin DOMAIN rows => ~rows'[k].loaded
    BY ZenonT(30), <1>2, <1>4, <1>6
  <1>14. \A i \in DOMAIN rows :
            /\ i \in DOMAIN rows'
            /\ rows'[i] = IF i = p THEN [rows[i] EXCEPT !.loaded = TRUE] ELSE rows[i]
    BY <1>2, <1>3, <1>4
  <1> QED BY <1>8, <1>12, <1>13, <1>14

\* A new session has the unloaded root and nobody at work.
LEMMA InitSInv == Init => SInv
  <1> SUFFICES ASSUME Init PROVE SInv
    OBVIOUS
  <1> DEFINE root == [parent |-> 0, name |-> 0, kind |-> "directory", mode |-> NoMode,
                      mtime |-> NoTime, content |-> RootDigest, loaded |-> FALSE]
  <1>1. rows = <<root>>
    BY DEF Init, NewTable, Row
  <1>2. root \in RowSet
    BY BlobAssumption DEF RowSet, Kinds
  <1>3. Table
    <2>1. rows \in Seq(RowSet) /\ Len(rows) = 1 /\ DOMAIN rows = {1} /\ rows[1] = root
      <3> HIDE DEF root
      <3> QED BY <1>1, <1>2
    <2> QED BY <2>1, BlobAssumption DEF Table
  <1>4. LoadedComplete
    <2>1. DOMAIN rows = {1} /\ rows[1].parent = 0 /\ rows[1].loaded = FALSE
      BY <1>1
    <2>2. ChildrenOf(rows, 1) = {}
      BY <2>1 DEF ChildrenOf
    <2> QED BY <2>1, <2>2 DEF LoadedComplete
  <1>5. op \in [Thread -> UNION {OpsOf[t] : t \in Thread}]
        /\ \A t \in Thread : op[t] \in OpsOf[t]
    <2>1. \A t \in Thread : (CHOOSE o \in OpsOf[t] : TRUE) \in OpsOf[t]
      BY CallAssumption
    <2> QED BY <2>1 DEF Init
  <1>6. call \in [Thread -> CallSet] /\ \A t \in Thread : call[t].st = "idle"
    BY DEF Init, CallSet, Service!Idle
  <1>7. Types
    BY SMTT(30), <1>3, <1>5, <1>6 DEF Init, Types, OpType, CounterType, NoCounts, Control
  <1>8. LockInv /\ FetchInv
    BY DEF Init, LockInv, FetchInv, Holding
  <1> QED BY <1>4, <1>6, <1>7, <1>8 DEF SInv, AnsweredInv

\* What get_visible_inode and the checks on the row establish.
LEMMA CheckedRead ==
  ASSUME NEW t \in Thread, Checked(t).st = "read"
  PROVE  /\ op[t].inode \in DOMAIN rows
         /\ Checked(t).digest = rows[op[t].inode].content
         /\ Loads(t) => /\ rows[op[t].inode].kind = "directory"
                        /\ ~rows[op[t].inode].loaded
         /\ ~Loads(t) => rows[op[t].inode].kind \notin {"directory", "symlink"}
  <1>1. life = "active" /\ op[t].inode \in DOMAIN rows
    BY DEF Checked, Err
  <1> DEFINE r == rows[op[t].inode]
  <1>2. Checked(t) =
           CASE Loads(t) /\ r.kind # "directory" -> Err("notdir")
             [] Loads(t) /\ r.kind = "directory" /\ r.loaded -> Err("loaded")
             [] ~Loads(t) /\ r.kind = "directory" -> Err("isdir")
             [] ~Loads(t) /\ r.kind = "symlink" -> Err("internal")
             [] OTHER -> [st |-> "read", digest |-> r.content]
    BY <1>1 DEF Checked
  <1> HIDE DEF r
  <1>3. /\ Loads(t) => r.kind = "directory" /\ ~r.loaded
        /\ ~Loads(t) => r.kind \notin {"directory", "symlink"}
    BY <1>2 DEF Err
  <1>4. Checked(t) = [st |-> "read", digest |-> r.content]
    BY SMTT(30), <1>2, <1>3 DEF Err
  <1> QED BY SMTT(30), <1>1, <1>3, <1>4 DEF r

LoadedRows == {i \in DOMAIN rows : rows[i].loaded}

\* The rows other loads and reads rely on.
Kept(t) ==
    /\ Table'
    /\ LoadedComplete'
    /\ \A j \in DOMAIN rows :
          /\ j \in DOMAIN rows'
          /\ j # op[t].inode => rows'[j] = rows[j]
          /\ rows'[j] = [rows[j] EXCEPT !.loaded = rows'[j].loaded]
          /\ rows[j].loaded => rows'[j].loaded
    /\ rows' # rows => life = "active"

\* The transaction that stores the children of the directory t has locked.
LEMMA LoadStep ==
  ASSUME SInv, NEW t \in Thread, Materialize(t),
         Refusal(t, Decode(call[t].bytes)) = "none"
  PROVE  /\ Kept(t)
         /\ op[t].inode \in DOMAIN rows \ LoadedRows
         /\ LoadedRows' = LoadedRows \cup {op[t].inode}
  <1>1. Table /\ LoadedComplete
    BY Zenon DEF SInv, Types
  <1> DEFINE i == op[t].inode
             b == call[t].bytes
  <1>2. /\ i \in DOMAIN rows /\ rows[i].kind = "directory" /\ ~rows[i].loaded
        /\ call[t].dig = rows[i].content /\ call[t].st = "ok"
    BY SMTT(30) DEF Materialize, SInv, FetchInv
  <1>3. b \in Blob /\ rows[i].content = DigestOf(b)
    <2>1. call[t] \in CallSet
      BY DEF SInv, Types
    <2>2. b \in Blob
      BY Zenon, <1>2, <2>1 DEF CallSet
    <2> QED BY <1>2, <2>2 DEF SInv, AnsweredInv
  <1>4. rows' = WithChildren(rows, i, Decode(b))
    BY <1>2 DEF Materialize
  <1>5. Decode(b) # Malformed /\ life = "active" /\ ValidChildren(Decode(b))
    BY <1>2 DEF Refusal
  <1>6. /\ Table' /\ LoadedComplete'
        /\ \A j \in DOMAIN rows :
              /\ j \in DOMAIN rows'
              /\ rows'[j] = IF j = i THEN [rows[j] EXCEPT !.loaded = TRUE] ELSE rows[j]
        /\ \A k \in DOMAIN rows' : k \notin DOMAIN rows => ~rows'[k].loaded
    <2> HIDE DEF i, b
    <2> QED BY Zenon, <1>1, <1>2, <1>3, <1>4, <1>5, LoadKeeps
  <1>7. \A j \in DOMAIN rows : rows[j] \in RowSet
    BY <1>1 DEF Table
  <1>8. Kept(t)
    BY ZenonT(30), <1>5, <1>6, <1>7 DEF Kept, RowSet
  <1>9. \A j \in DOMAIN rows : rows'[j].loaded = IF j = i THEN TRUE ELSE rows[j].loaded
    BY ZenonT(30), <1>6, <1>7 DEF RowSet
  <1>10. LoadedRows' = LoadedRows \cup {i}
    BY ZenonT(30), <1>2, <1>6, <1>9 DEF LoadedRows
  <1> QED BY <1>2, <1>8, <1>10 DEF LoadedRows

\* A step stores the children of the directory it locked, or nothing.
LEMMA StepKeeps ==
  ASSUME SInv, NEW t \in Thread, Start(t) \/ Step(t)
  PROVE  Kept(t)
  <1>1. Table /\ LoadedComplete
    BY DEF SInv, Types
  <1>2. ASSUME UNCHANGED rows PROVE Kept(t)
    <2>1. \A j \in DOMAIN rows : rows[j] = [rows[j] EXCEPT !.loaded = rows[j].loaded]
      <3> SUFFICES ASSUME NEW j \in DOMAIN rows
                   PROVE  rows[j] = [rows[j] EXCEPT !.loaded = rows[j].loaded]
        OBVIOUS
      <3>1. rows[j] \in RowSet
        BY SMTT(30), <1>1 DEF Table
      <3> QED BY <3>1 DEF RowSet
    <2>2. Table' /\ LoadedComplete'
      BY <1>1, <1>2 DEF Table, LoadedComplete
    <2> QED BY <1>2, <2>1, <2>2 DEF Kept
  <1>3. CASE Materialize(t)
    <2>1. CASE Refusal(t, Decode(call[t].bytes)) = "none"
      BY SMTT(30), <1>3, <2>1, LoadStep
    <2>2. CASE Refusal(t, Decode(call[t].bytes)) # "none"
      BY Zenon, <1>2, <1>3, <2>2 DEF Materialize
    <2> QED BY <2>1, <2>2
  <1>4. Materialize(t) \/ UNCHANGED rows
    BY DEF Start, Step, Lock, Check, Serve, sessVars, FetchFailed, FetchPanics, Record,
           Query, GetInode, ReadRange, Close, StoreFails
  <1> QED BY <1>2, <1>3, <1>4

\* Every action keeps the types.
LEMMA TypesNext ==
  ASSUME SInv, NEW t \in Thread, Start(t) \/ Step(t)
  PROVE  Types'
  <1>0. Table' /\ Types
    BY SMTT(30), StepKeeps DEF Kept, SInv, Types
  <1>a. IsOp(op[t]) /\ op[t] \in OpsOf[t]
    BY SMTT(30), <1>0, CallAssumption DEF Types, OpType
  <1>b. ASSUME pc[t] \in {"lock", "check", "fetch", "record"} PROVE op[t].inode \in Inode
    BY Zenon, <1>a, <1>b DEF SInv, LockInv, IsOp
  <1> USE DEF Control, Goto
  <1>c. OpType'
    <2>1. CASE Start(t)
      <3>1. PICK o \in OpsOf[t] : op' = [op EXCEPT ![t] = o]
        BY ZenonT(30), <2>1 DEF Start
      <3> QED BY <1>0, <3>1 DEF Types, OpType
    <2>2. CASE UNCHANGED op
      BY Zenon, <1>0, <2>2 DEF Types, OpType
    <2> QED
      BY SMTT(30), <2>1, <2>2 DEF Step, Lock, Check, Serve, sessVars, FetchFailed, FetchPanics,
         Materialize, Record, Query, GetInode, ReadRange, Close, StoreFails
  <1>d. CounterType'
    <2>1. CASE Record(t) \/ ReadRange(t)
      BY <1>0, <2>1 DEF Record, ReadRange, Types, CounterType
    <2>2. CASE UNCHANGED counters
      BY <1>0, <2>2 DEF Types, CounterType
    <2> QED
      BY <2>1, <2>2 DEF Start, Step, Lock, Check, Serve, sessVars, FetchFailed,
         FetchPanics, Materialize, Query, GetInode, Close, StoreFails
  <1>1. CASE Start(t)
    <2>1. PICK o \in OpsOf[t] :
             /\ op' = [op EXCEPT ![t] = o]
             /\ pc' = [pc EXCEPT ![t] = CASE o.fn = "get" -> "get"
                                          [] o.fn = "close" -> "close"
                                          [] OTHER -> "lock"]
      BY ZenonT(30), <1>1 DEF Start
    <2>2. pc' \in [Thread -> Control]
      BY SMTT(30), <1>0, <1>c, <1>d, <2>1 DEF Types
    <2> QED BY SMTT(30), <1>0, <1>c, <1>d, <1>1, <2>2 DEF Start, Types
  <1>2. CASE Lock(t)
    BY SMTT(30), <1>0, <1>c, <1>d, <1>2, <1>b DEF Lock, Answer, Types
  <1>3. CASE Check(t)
    <2>1. CASE Checked(t).st = "read"
      <3>1. Checked(t).digest \in Digest
        BY ZenonT(30), <1>0, <2>1, CheckedRead DEF Types, Table
      <3>2. call' = [call EXCEPT ![t] = [st |-> "waiting", dig |-> Checked(t).digest]]
            /\ UNCHANGED <<avail, gate>> /\ pc' = [pc EXCEPT ![t] = "fetch"]
        BY SMTT(30), <1>3, <2>1 DEF Check, Service!Waiting, Service!Request
      <3>3. [st |-> "waiting", dig |-> Checked(t).digest] \in CallSet
        BY SMTT(30), <3>1 DEF CallSet
      <3>4. call' \in [Thread -> CallSet]
        BY SMTT(30), <1>0, <1>c, <1>d, <3>2, <3>3 DEF Types
      <3> QED BY SMTT(30), <1>0, <1>c, <1>d, <1>3, <3>2, <3>4 DEF Check, Types
    <2>2. CASE Checked(t).st # "read"
      <3>1. op[t].inode \in Inode
        BY <1>3, <1>b DEF Check
      <3>2. gate' = [gate EXCEPT ![op[t].inode] = {}] /\ UNCHANGED <<avail, call>>
            /\ \E l \in {"idle", "query"} : pc' = [pc EXCEPT ![t] = l]
        BY <1>3, <2>2 DEF Check, Exit, Answer, Unlock
      <3> QED BY SMTT(30), <1>0, <1>c, <1>d, <1>3, <3>1, <3>2 DEF Check, Types
    <2> QED BY <2>1, <2>2
  <1>4. CASE Serve(t)
    <2>1. call[t] \in CallSet
      BY SMTT(30), <1>0 DEF Types
    <2>2. ASSUME NEW c \in CallSet, call' = [call EXCEPT ![t] = c], avail' \in SUBSET Digest
          PROVE  Types'
      <3>1. call' \in [Thread -> CallSet]
        BY <1>0, <1>c, <1>d, <2>2 DEF Types
      <3> QED BY SMTT(30), <1>0, <1>c, <1>d, <1>4, <2>2, <3>1 DEF Serve, sessVars, Types
    <2>3. CASE Service!Fetch(t)
      <3>1. call[t].dig \in Digest
        BY SMTT(30), <2>1, <2>3 DEF Service!Fetch, CallSet
      <3>2. Service!Fetched(call[t].dig) \in CallSet
        BY <3>1 DEF Service!Fetched, CallSet
      <3>3. avail' \in SUBSET Digest
        BY SMTT(30), <1>0, <1>c, <1>d, <2>3, <3>1 DEF Service!Fetch, Types
      <3> QED BY ZenonT(30), <2>2, <2>3, <3>2, <3>3 DEF Service!Fetch
    <2>4. ASSUME NEW b \in Blob, Service!InProgress(t), Service!Return(t),
                 call' = [call EXCEPT ![t] =
                            Service!Answer(call[t].dig, b, call[t].st = "fetched")]
          PROVE  Types'
      <3>1. call[t].dig \in Digest
        BY SMTT(30), <2>1, <2>4 DEF Service!InProgress, CallSet
      <3>2. Service!Answer(call[t].dig, b, call[t].st = "fetched") \in CallSet
        BY <3>1 DEF Service!Answer, CallSet
      <3>3. avail' \in SUBSET Digest
        BY <1>0, <1>c, <1>d, <2>4 DEF Service!Return, Types
      <3> QED BY ZenonT(30), <2>2, <2>4, <3>2, <3>3
    <2>5. CASE Service!Fail(t)
      <3>1. call[t].dig \in Digest
        BY <2>1, <2>5 DEF Service!Fail, Service!InProgress, CallSet
      <3>2. Service!Failed(call[t].dig) \in CallSet
        BY <3>1 DEF Service!Failed, CallSet
      <3>3. avail' \in SUBSET Digest
        BY <1>0, <1>c, <1>d, <2>5 DEF Service!Fail, Types
      <3> QED BY ZenonT(30), <2>2, <2>5, <3>2, <3>3 DEF Service!Fail
    <2> QED BY SMTT(30), <1>4, <2>3, <2>4, <2>5 DEF Serve
  <1>5. CASE FetchFailed(t) \/ ReadRange(t) \/ Record(t) \/ FetchPanics(t) \/ Materialize(t)
    <2>1. op[t].inode \in Inode
      BY SMTT(30), <1>5, <1>b DEF FetchFailed, ReadRange, Record, FetchPanics, Materialize
    <2>2. CASE FetchFailed(t)
      BY Zenon, <1>0, <1>c, <1>d, <2>1, <2>2 DEF FetchFailed, Exit, Answer, Unlock, Types
    <2>3. CASE ReadRange(t)
      BY <1>0, <1>c, <1>d, <2>1, <2>3 DEF ReadRange, Exit, Answer, Unlock, Types
    <2>4. CASE Record(t)
      BY SMTT(30), <1>0, <1>c, <1>d, <2>1, <2>4 DEF Record, Unlock, Types
    <2>5. CASE FetchPanics(t)
      <3>1. call' = [call EXCEPT ![t] = [st |-> "idle"]]
        BY <2>5 DEF FetchPanics, Service!Idle
      <3>2. [st |-> "idle"] \in CallSet
        BY DEF CallSet
      <3>3. call' \in [Thread -> CallSet]
        BY Zenon, <1>0, <1>c, <1>d, <3>1, <3>2 DEF Types
      <3> QED BY Zenon, <1>0, <1>c, <1>d, <2>1, <2>5, <3>3 DEF FetchPanics, Exit, Answer, Unlock, Types
    <2>6. CASE Materialize(t)
      BY Zenon, <1>0, <1>c, <1>d, <2>1, <2>6 DEF Materialize, Exit, Answer, Unlock, Types
    <2> QED BY Zenon, <1>5, <2>2, <2>3, <2>4, <2>5, <2>6
  <1>6. CASE Query(t) \/ GetInode(t) \/ Close(t)
    BY ZenonT(30), <1>0, <1>c, <1>d, <1>6 DEF Query, GetInode, Close, Answer, Types
  <1>7. CASE StoreFails(t)
    BY ZenonT(30), <1>0, <1>c, <1>d, <1>7, <1>b DEF StoreFails, Unlock, Answer, Types
  <1> QED
    BY SMTT(30), <1>1, <1>2, <1>3, <1>4, <1>5, <1>6, <1>7 DEF Step

\* The lock is taken when free, and given up by who holds it.
Frame(t) ==
    /\ \A u \in Thread \ {t} :
          pc'[u] = pc[u] /\ op'[u] = op[u] /\ call'[u] = call[u]
    /\ \A i \in Inode :
          \/ gate'[i] = gate[i]
          \/ i = op[t].inode /\ gate[i] = {} /\ pc[t] = "lock" /\ pc'[t] = "check"
             /\ gate'[i] = {t}
          \/ i = op[t].inode /\ gate'[i] = {} /\ Holding(t) /\ ~Holding(t)'

LEMMA FrameNext ==
  ASSUME SInv, NEW t \in Thread, Start(t) \/ Step(t)
  PROVE  Frame(t)
  <1>0. Types
    BY DEF SInv
  <1>a. ASSUME pc[t] \in {"lock", "check", "fetch", "record"} PROVE op[t].inode \in Inode
    <2>1. IsOp(op[t])
      BY Zenon, <1>0, CallAssumption DEF Types, OpType
    <2> QED BY Zenon, <1>a, <2>1 DEF SInv, LockInv, IsOp
  <1> DEFINE Others == \A u \in Thread \ {t} :
               pc'[u] = pc[u] /\ op'[u] = op[u] /\ call'[u] = call[u]
  <1>b. ASSUME Others, UNCHANGED gate PROVE Frame(t)
    BY Zenon, <1>b DEF Frame
  <1>c. ASSUME Others, Holding(t), pc'[t] \in {"idle", "query"},
               gate' = [gate EXCEPT ![op[t].inode] = {}]
        PROVE  Frame(t)
    <2>1. op[t].inode \in Inode /\ ~Holding(t)'
      BY Zenon, <1>a, <1>c DEF Holding
    <2>2. \A i \in Inode : gate'[i] = IF i = op[t].inode THEN {} ELSE gate[i]
      BY Zenon, <1>0, <1>c, <2>1 DEF Types
    <2> QED BY Zenon, <1>c, <2>1, <2>2 DEF Frame
  <1> USE DEF Goto
  <1>1. CASE Start(t)
    <2>1. Others /\ UNCHANGED gate
      BY SMTT(30), <1>0, <1>1 DEF Start, Types
    <2> QED BY <1>b, <2>1
  <1>2. CASE Lock(t)
    <2>1. Others
      BY <1>0, <1>2 DEF Lock, Answer, Types
    <2>2. CASE UNCHANGED gate
      BY Zenon, <1>b, <2>1, <2>2
    <2>3. CASE gate' = [gate EXCEPT ![op[t].inode] = {t}] /\ pc' = [pc EXCEPT ![t] = "check"]
      <3>1. op[t].inode \in Inode /\ gate[op[t].inode] = {} /\ pc[t] = "lock"
        BY SMTT(30), <1>2, <1>a DEF Lock
      <3>2. \A i \in Inode : gate'[i] = IF i = op[t].inode THEN {t} ELSE gate[i]
        BY SMTT(30), <1>0, <2>3, <3>1 DEF Types
      <3>3. pc'[t] = "check"
        BY <1>0, <2>3 DEF Types
      <3> QED BY Zenon, <2>1, <3>1, <3>2, <3>3 DEF Frame
    <2> QED BY Zenon, <1>2, <2>2, <2>3 DEF Lock
  <1>3. CASE Check(t)
    <2>1. Holding(t)
      BY SMTT(30), <1>3 DEF Check, Holding
    <2>2. CASE Checked(t).st = "read"
      <3>1. Others /\ UNCHANGED gate
        BY Zenon, <1>0, <1>3, <2>2 DEF Check, Types
      <3> QED BY <1>b, <3>1
    <2>3. CASE Checked(t).st # "read"
      <3>1. /\ gate' = [gate EXCEPT ![op[t].inode] = {}] /\ UNCHANGED <<call, op>>
            /\ \E l \in {"idle", "query"} : pc' = [pc EXCEPT ![t] = l]
        BY SMTT(30), <1>3, <2>3 DEF Check, Exit, Answer, Unlock
      <3>2. Others /\ pc'[t] \in {"idle", "query"}
        BY Zenon, <1>0, <3>1 DEF Types
      <3> QED BY Zenon, <1>c, <2>1, <3>1, <3>2
    <2> QED BY <2>2, <2>3
  <1>4. CASE Serve(t)
    <2>1. \E c : call' = [call EXCEPT ![t] = c]
      BY SMTT(30), <1>4 DEF Serve, Service!Fetch, Service!Fail
    <2>2. Others /\ UNCHANGED gate
      BY Zenon, <1>0, <1>4, <2>1 DEF Serve, sessVars, Types
    <2> QED BY <1>b, <2>2
  <1>5. CASE FetchFailed(t) \/ ReadRange(t) \/ Record(t) \/ FetchPanics(t)
    <2>1. /\ Holding(t) /\ gate' = [gate EXCEPT ![op[t].inode] = {}] /\ UNCHANGED op
          /\ \E l \in {"idle", "query"} : pc' = [pc EXCEPT ![t] = l]
      BY <1>5 DEF FetchFailed, ReadRange, Record, FetchPanics, Exit, Answer, Unlock, Holding
    <2>2. \E c : call' = [call EXCEPT ![t] = c]
      <3>1. call = [call EXCEPT ![t] = call[t]]
        BY <1>0 DEF Types
      <3> QED BY SMTT(30), <1>5, <3>1 DEF FetchFailed, ReadRange, Record, FetchPanics
    <2>3. Others /\ pc'[t] \in {"idle", "query"}
      BY SMTT(30), <1>0, <2>1, <2>2 DEF Types
    <2> QED BY SMTT(30), <1>c, <2>1, <2>3
  <1>6. CASE Materialize(t)
    <2>1. Holding(t) /\ UNCHANGED <<call, op>>
      BY Zenon, <1>6 DEF Materialize, Holding
    <2>2. \/ UNCHANGED gate /\ pc' = [pc EXCEPT ![t] = "record"]
          \/ gate' = [gate EXCEPT ![op[t].inode] = {}] /\ pc' = [pc EXCEPT ![t] = "idle"]
      BY SMTT(30), <1>6 DEF Materialize, Exit, Answer, Unlock
    <2>3. Others /\ (UNCHANGED gate \/ pc'[t] = "idle")
      BY SMTT(30), <1>0, <2>1, <2>2 DEF Types
    <2> QED BY Zenon, <1>b, <1>c, <2>1, <2>2, <2>3
  <1>7. CASE Query(t) \/ GetInode(t) \/ Close(t)
    <2>1. Others /\ UNCHANGED gate
      BY ZenonT(30), <1>0, <1>7 DEF Query, GetInode, Close, Answer, Types
    <2> QED BY <1>b, <2>1
  <1>8. CASE StoreFails(t)
    <2>1. Others /\ pc'[t] = "idle"
      BY SMTT(30), <1>0, <1>8 DEF StoreFails, Answer, Types
    <2>2. \/ UNCHANGED gate
          \/ Holding(t) /\ gate' = [gate EXCEPT ![op[t].inode] = {}]
      BY SMTT(30), <1>8 DEF StoreFails, Unlock, Holding
    <2> QED BY Zenon, <1>b, <1>c, <2>1, <2>2
  <1> QED
    BY ZenonT(30), <1>1, <1>2, <1>3, <1>4, <1>5, <1>6, <1>7, <1>8 DEF Step

\* Whoever is in the critical section has the lock, before and after.
LEMMA LockNext ==
  ASSUME SInv, NEW t \in Thread, Start(t) \/ Step(t)
  PROVE  LockInv'
  <1>0. Types /\ LockInv /\ Frame(t) /\ Types'
    BY SMTT(30), FrameNext, TypesNext DEF SInv
  <1>1. ASSUME NEW u \in Thread, pc[u] \in {"lock", "check", "fetch", "record"}
        PROVE op[u].inode \in Inode
    <2>1. IsOp(op[u])
      BY Zenon, <1>0, CallAssumption DEF Types, OpType
    <2> QED BY Zenon, <1>0, <1>1, <2>1 DEF LockInv, IsOp
  <1>2. ASSUME NEW u \in Thread \ {t}
        PROVE  /\ pc'[u] \in {"lock", "check", "fetch", "record"} =>
                     op'[u].fn \in {"lookup", "list", "read"}
               /\ Holding(u)' => gate'[op'[u].inode] = {u}
    <2>1. pc'[u] = pc[u] /\ op'[u] = op[u]
      BY SMTT(30), <1>0 DEF Frame
    <2>2. ASSUME Holding(u) PROVE gate'[op[u].inode] = {u}
      <3>1. op[u].inode \in Inode /\ gate[op[u].inode] = {u}
        BY Zenon, <1>0, <1>1, <2>2 DEF LockInv, Holding
      <3>2. ASSUME op[u].inode = op[t].inode, Holding(t) PROVE FALSE
        <4>1. gate[op[t].inode] = {t}
          BY Zenon, <1>0, <3>2 DEF LockInv
        <4> QED BY Zenon, <3>1, <3>2, <4>1
      <3> QED BY Zenon, <1>0, <3>1, <3>2 DEF Frame
    <2> QED BY Zenon, <1>0, <2>1, <2>2 DEF LockInv, Holding
  <1>3. /\ pc'[t] \in {"lock", "check", "fetch", "record"} =>
              op'[t].fn \in {"lookup", "list", "read"}
        /\ Holding(t)' => gate'[op'[t].inode] = {t}
    <2>1. CASE Start(t)
      <3>1. PICK o \in OpsOf[t] :
               /\ op' = [op EXCEPT ![t] = o]
               /\ pc' = [pc EXCEPT ![t] = CASE o.fn = "get" -> "get"
                                            [] o.fn = "close" -> "close"
                                            [] OTHER -> "lock"]
        BY ZenonT(30), <2>1 DEF Start, Goto
      <3>2. IsOp(o) /\ op'[t] = o
        BY <1>0, <3>1, CallAssumption DEF Types, OpType
      <3>3. /\ pc'[t] \in {"get", "close", "lock"}
            /\ pc'[t] = "lock" => o.fn \notin {"get", "close"}
        BY Zenon, <1>0, <3>1 DEF Types
      <3> QED BY SMTT(30), <3>2, <3>3 DEF IsOp, Holding
    <2>2. CASE Lock(t)
      <3>1. op[t].inode \in Inode /\ op[t].fn \in {"lookup", "list", "read"} /\ UNCHANGED op
        BY Zenon, <1>0, <1>1, <2>2 DEF Lock, LockInv
      <3>2. \/ pc'[t] = "idle"
            \/ gate' = [gate EXCEPT ![op[t].inode] = {t}]
        BY SMTT(30), <1>0, <2>2 DEF Lock, Answer, Goto, Types
      <3> QED BY Zenon, <1>0, <3>1, <3>2 DEF Types, Holding
    <2>3. CASE Step(t) /\ ~Lock(t)
      <3>1. /\ UNCHANGED op
            /\ pc'[t] = pc[t] \/ pc'[t] \in {"idle", "query"}
               \/ (pc[t] = "check" /\ pc'[t] = "fetch")
               \/ (pc[t] = "fetch" /\ pc'[t] = "record")
        <4>1. CASE Check(t)
          BY SMTT(30), <1>0, <4>1 DEF Check, Exit, Answer, Goto, Types
        <4>2. CASE Serve(t)
          BY SMTT(30), <4>2 DEF Serve, sessVars
        <4>3. CASE Materialize(t)
          BY ZenonT(30), <1>0, <4>3 DEF Materialize, Exit, Answer, Goto, Types
        <4>4. CASE FetchFailed(t) \/ FetchPanics(t) \/ Record(t) \/ ReadRange(t)
          BY SMTT(30), <1>0, <4>4 DEF FetchFailed, FetchPanics, Record, ReadRange, Exit, Answer,
                            Goto, Types
        <4>5. CASE Query(t) \/ GetInode(t) \/ Close(t) \/ StoreFails(t)
          BY ZenonT(30), <1>0, <4>5 DEF Query, GetInode, Close, StoreFails, Answer, Goto, Types
        <4> QED BY ZenonT(30), <2>3, <4>1, <4>2, <4>3, <4>4, <4>5 DEF Step
      <3>2. ASSUME Holding(t)' PROVE gate'[op[t].inode] = {t}
        <4>1. Holding(t)
          BY SMTT(30), <3>1, <3>2 DEF Holding
        <4>2. op[t].inode \in Inode /\ gate[op[t].inode] = {t} /\ pc[t] # "lock"
          BY ZenonT(30), <1>0, <1>1, <4>1 DEF LockInv, Holding
        <4> QED BY ZenonT(30), <1>0, <3>2, <4>2 DEF Frame
      <3> QED BY ZenonT(30), <1>0, <3>1, <3>2 DEF LockInv, Holding
    <2> QED BY Zenon, <2>1, <2>2, <2>3
  <1> QED BY <1>2, <1>3 DEF LockInv

\* The row under a load or a read in progress is nobody else's to change.
LEMMA FetchNext ==
  ASSUME SInv, NEW t \in Thread, Start(t) \/ Step(t)
  PROVE  FetchInv' /\ AnsweredInv'
  <1>0. Types /\ LockInv /\ FetchInv /\ AnsweredInv /\ Frame(t) /\ Kept(t)
    BY SMTT(30), FrameNext, StepKeeps DEF SInv
  <1>1. ASSUME NEW u \in Thread, pc'[u] = "fetch", pc[u] = "fetch",
               op'[u] = op[u], rows'[op[u].inode] = rows[op[u].inode],
               call'[u].dig = call[u].dig, call'[u].st # "idle"
        PROVE  /\ op'[u].inode \in DOMAIN rows'
               /\ call'[u].st # "idle"
               /\ call'[u].dig = rows'[op'[u].inode].content
               /\ Loads(u)' => /\ rows'[op'[u].inode].kind = "directory"
                               /\ ~rows'[op'[u].inode].loaded
               /\ ~Loads(u)' => rows'[op'[u].inode].kind = "file"
    <2> DEFINE r == rows[op[u].inode]
    <2>1. /\ op[u].inode \in DOMAIN rows /\ call[u].dig = r.content
          /\ Loads(u) => r.kind = "directory" /\ ~r.loaded
          /\ ~Loads(u) => r.kind = "file"
      BY <1>0, <1>1 DEF FetchInv
    <2>2. op[u].inode \in DOMAIN rows' /\ (Loads(u)' <=> Loads(u))
      BY ZenonT(30), <1>0, <1>1, <2>1 DEF Kept, Loads
    <2>3. rows'[op'[u].inode] = r
      BY Zenon, <1>1
    <2> HIDE DEF r
    <2> QED BY ZenonT(30), <1>1, <2>1, <2>2, <2>3
  <1>2. ASSUME NEW u \in Thread \ {t}, pc'[u] = "fetch"
        PROVE  /\ op'[u].inode \in DOMAIN rows'
               /\ call'[u].st # "idle"
               /\ call'[u].dig = rows'[op'[u].inode].content
               /\ Loads(u)' => /\ rows'[op'[u].inode].kind = "directory"
                               /\ ~rows'[op'[u].inode].loaded
               /\ ~Loads(u)' => rows'[op'[u].inode].kind = "file"
    <2>1. pc[u] = "fetch" /\ op'[u] = op[u] /\ call'[u] = call[u]
      BY Zenon, <1>0, <1>2 DEF Frame
    <2>2. op[u].inode \in DOMAIN rows /\ call[u].st # "idle"
      BY Zenon, <1>0, <2>1 DEF FetchInv
    <2>3. rows'[op[u].inode] = rows[op[u].inode]
      <3>1. CASE Materialize(t)
        <4>1. gate[op[u].inode] = {u} /\ gate[op[t].inode] = {t}
          BY ZenonT(30), <1>0, <2>1, <3>1 DEF Materialize, LockInv, Holding
        <4>2. op[u].inode # op[t].inode
          BY <4>1
        <4> QED BY ZenonT(30), <1>0, <2>2, <4>2 DEF Kept
      <3>2. CASE ~Materialize(t)
        <4>1. UNCHANGED rows
          BY <3>2 DEF Start, Step, Lock, Check, Serve, sessVars, FetchFailed, FetchPanics,
             Record, Query, GetInode, ReadRange, Close, StoreFails
        <4> QED BY Zenon, <4>1
      <3> QED BY <3>1, <3>2
    <2> QED BY Zenon, <1>1, <1>2, <2>1, <2>2, <2>3
  <1>3. CASE Serve(t)
    <2> DEFINE Served(c) ==
                 /\ call' = [call EXCEPT ![t] = c]
                 /\ c.dig = call[t].dig
                 /\ c.st # "idle"
                 /\ c.st = "ok" => DigestOf(c.bytes) = c.dig
    <2>1. \E c : Served(c)
      <3>1. CASE Service!Fetch(t)
        <4> DEFINE c == Service!Fetched(call[t].dig)
        <4>1. /\ call' = [call EXCEPT ![t] = c] /\ c.dig = call[t].dig
              /\ c.st = "fetched"
          BY <3>1 DEF Service!Fetch, Service!Fetched
        <4> QED BY ZenonT(30), <4>1
      <3>2. ASSUME NEW b \in Blob, Service!Return(t),
                   call' = [call EXCEPT ![t] =
                              Service!Answer(call[t].dig, b, call[t].st = "fetched")]
            PROVE  \E c : Served(c)
        <4> DEFINE c == Service!Answer(call[t].dig, b, call[t].st = "fetched")
        <4>1. c.dig = call[t].dig /\ c.st = "ok" /\ c.bytes = b
          BY DEF Service!Answer
        <4>2. call'[t] = c
          BY ZenonT(30), <1>0, <3>2 DEF Types
        <4>3. DigestOf(call'[t].bytes) = call[t].dig
          BY <3>2 DEF Service!Return
        <4> HIDE DEF c
        <4> QED BY ZenonT(30), <3>2, <4>1, <4>2, <4>3 DEF c
      <3>3. CASE Service!Fail(t)
        <4> DEFINE c == Service!Failed(call[t].dig)
        <4>1. /\ call' = [call EXCEPT ![t] = c] /\ c.dig = call[t].dig
              /\ c.st = "err"
          BY <3>3 DEF Service!Fail, Service!Failed
        <4> QED BY ZenonT(30), <4>1
      <3> HIDE DEF Served
      <3> QED BY <1>3, <3>1, <3>2, <3>3 DEF Serve
    <2>a. PICK c : Served(c)
      BY ZenonT(30), <2>1
    <2>2. call'[t] = c /\ UNCHANGED <<rows, op, pc>>
      BY <1>0, <1>3, <2>a DEF Serve, sessVars, Types
    <2>3. FetchInv'
      BY ZenonT(30), <1>1, <1>2, <2>a, <2>2 DEF FetchInv
    <2>4. \A u \in Thread \ {t} : call'[u] = call[u]
      BY Zenon, <1>0 DEF Frame
    <2>5. AnsweredInv'
      BY <1>0, <2>a, <2>2, <2>4 DEF AnsweredInv
    <2> QED BY Zenon, <2>3, <2>5
  <1>4. CASE ~Serve(t)
    <2>1. \/ UNCHANGED call
          \/ /\ Check(t) /\ Checked(t).st = "read"
             /\ call' = [call EXCEPT ![t] = [st |-> "waiting", dig |-> Checked(t).digest]]
          \/ call' = [call EXCEPT ![t] = [st |-> "idle"]]
      BY SMTT(30), <1>4 DEF Start, Step, Lock, Check, FetchFailed, FetchPanics, Materialize, Record,
         Query, GetInode, ReadRange, Close, StoreFails, Service!Waiting, Service!Idle
    <2>2. AnsweredInv'
      <3>1. call'[t] = call[t] \/ call'[t].st # "ok"
        <4>1. ASSUME NEW c, call' = [call EXCEPT ![t] = c] PROVE call'[t] = c
          BY Zenon, <1>0, <4>1 DEF Types
        <4> QED BY <2>1, <4>1
      <3>2. \A u \in Thread \ {t} : call'[u] = call[u]
        BY <1>0 DEF Frame
      <3> QED BY ZenonT(30), <1>0, <3>1, <3>2 DEF AnsweredInv
    <2>3. ASSUME pc'[t] = "fetch" PROVE Check(t) /\ Checked(t).st = "read"
      <3>1. CASE Check(t)
        BY <1>0, <2>3, <3>1 DEF Check, Exit, Answer, Goto, Types
      <3>2. CASE Start(t)
        BY <1>0, <2>3, <3>2 DEF Start, Goto, Types
      <3>3. CASE Lock(t) \/ Materialize(t)
        BY ZenonT(30), <1>0, <2>3, <3>3 DEF Lock, Materialize, Exit, Answer, Goto, Types
      <3>4. CASE FetchFailed(t) \/ FetchPanics(t) \/ Record(t) \/ ReadRange(t)
        BY SMTT(30), <1>0, <2>3, <3>4 DEF FetchFailed, FetchPanics, Record, ReadRange, Exit, Answer,
                                Goto, Types
      <3>5. CASE Query(t) \/ GetInode(t) \/ Close(t) \/ StoreFails(t)
        BY ZenonT(30), <1>0, <2>3, <3>5 DEF Query, GetInode, Close, StoreFails, Answer, Goto, Types
      <3> QED BY Zenon, <1>4, <3>1, <3>2, <3>3, <3>4, <3>5 DEF Step
    <2>4. FetchInv'
      <3>1. ASSUME pc'[t] = "fetch"
            PROVE  /\ op'[t].inode \in DOMAIN rows'
                   /\ call'[t].st # "idle"
                   /\ call'[t].dig = rows'[op'[t].inode].content
                   /\ Loads(t)' => /\ rows'[op'[t].inode].kind = "directory"
                                   /\ ~rows'[op'[t].inode].loaded
                   /\ ~Loads(t)' => rows'[op'[t].inode].kind = "file"
        <4>1. Check(t) /\ Checked(t).st = "read" /\ UNCHANGED <<rows, op>>
          BY <2>3, <3>1 DEF Check
        <4>2. call' = [call EXCEPT ![t] = [st |-> "waiting", dig |-> Checked(t).digest]]
          BY SMTT(30), <4>1 DEF Check, Service!Waiting
        <4>3. call'[t].st = "waiting" /\ call'[t].dig = Checked(t).digest
          BY ZenonT(30), <1>0, <4>2 DEF Types
        <4>4. op[t].inode \in DOMAIN rows /\ rows[op[t].inode].kind \in Kinds
          <5>1. op[t].inode \in DOMAIN rows
            BY Zenon, <4>1, CheckedRead
          <5>2. rows[op[t].inode] \in RowSet
            BY SMTT(30), <1>0, <5>1 DEF Types, Table
          <5> QED BY Zenon, <5>1, <5>2 DEF RowSet
        <4>5. Loads(t)' <=> Loads(t)
          BY <4>1 DEF Loads
        <4> QED BY ZenonT(30), <4>1, <4>3, <4>4, <4>5, CheckedRead DEF Kinds
      <3> QED BY ZenonT(30), <1>2, <3>1 DEF FetchInv
    <2> QED BY Zenon, <2>2, <2>4
  <1> QED BY <1>3, <1>4

\* Every step of every thread keeps the invariant.
LEMMA NextSInv == SInv /\ [Next]_vars => SInv'
  <1> SUFFICES ASSUME SInv, [Next]_vars PROVE SInv'
    OBVIOUS
  <1>1. ASSUME NEW t \in Thread, Start(t) \/ Step(t) PROVE SInv'
    BY SMTT(30), <1>1, TypesNext, LockNext, FetchNext, StepKeeps DEF SInv, Kept
  <1>2. CASE UNCHANGED vars
    <2>1. Types'
      BY ZenonT(30), <1>2 DEF vars, sessVars, SInv, Types, Table, OpType, CounterType
    <2>2. LockInv' /\ AnsweredInv'
      BY ZenonT(30), <1>2 DEF vars, sessVars, SInv, LockInv, Holding, AnsweredInv
    <2>3. FetchInv'
      BY ZenonT(30), <1>2 DEF vars, sessVars, SInv, FetchInv, Loads
    <2>4. LoadedComplete'
      <3>1. UNCHANGED rows
        BY <1>2 DEF vars, sessVars
      <3> QED BY ZenonT(30), <3>1 DEF SInv, LoadedComplete
    <2> QED BY SMTT(30), <2>1, <2>2, <2>3, <2>4 DEF SInv
  <1> QED BY <1>1, <1>2 DEF Next

\* The invariant holds for every tree, every number of threads and calls.
THEOREM SessionInvariant == Spec => []SInv
  <1>1. Init => SInv
    BY InitSInv
  <1>2. SInv /\ [Next]_vars => SInv'
    BY NextSInv
  <1> QED BY <1>1, <1>2, PTL DEF Spec

\* get_or_create_remote_dir_children is all or nothing, for every tree and
\* every interleaving of lookups, listings, reads, failures, panics and close.
THEOREM LoadsAreComplete == Spec => []LoadedComplete
  <1>1. SInv => LoadedComplete
    BY ZenonT(30) DEF SInv
  <1> QED BY <1>1, SessionInvariant, PTL

\* Every variable keeps its type, and a blob is only asked for by a digest.
THEOREM SessionTypes == Spec => []TypeOK
  <1>1. SInv => TypeOK
    <2> SUFFICES ASSUME SInv PROVE TypeOK
      OBVIOUS
    <2>1. Types
      BY DEF SInv
    <2>2. \A i \in DOMAIN rows : /\ rows[i].kind \in Kinds
                                 /\ rows[i].loaded \in BOOLEAN
                                 /\ rows[i].mode \in {NoMode} \cup 0..MaxMode
      <3> SUFFICES ASSUME NEW i \in DOMAIN rows
                   PROVE  rows[i] \in RowSet
        BY DEF RowSet
      <3> QED BY SMTT(30), <2>1 DEF Types, Table
    <2>3. \A t \in Thread : call[t].st # "idle" => call[t].dig \in Digest
      <3> SUFFICES ASSUME NEW t \in Thread, call[t].st # "idle"
                   PROVE  call[t].dig \in Digest
        BY SMTT(30)
      <3>1. call[t] \in CallSet
        BY Zenon, <2>1 DEF Types
      <3> QED BY <3>1 DEF CallSet
    <2>4. counters \in [DOMAIN NoCounts -> Nat]
      BY <2>1 DEF Types, CounterType, NoCounts
    <2> QED BY SMTT(30), <2>1, <2>2, <2>3, <2>4 DEF Types, OpType, TypeOK, Control
  <1> QED BY <1>1, SessionInvariant, PTL

\* An inode number keeps its parent, name, kind and content, and a loaded
\* directory stays loaded, whatever is loaded or closed meanwhile.
THEOREM InodesStay == Spec => InodesAreStable
  <1> DEFINE Stable == \A i \in DOMAIN rows :
          /\ i \in DOMAIN rows'
          /\ rows'[i] = [rows[i] EXCEPT !.loaded = rows'[i].loaded]
          /\ rows[i].loaded => rows'[i].loaded
  <1>1. SInv /\ [Next]_vars => [Stable]_rows
    <2> SUFFICES ASSUME SInv, [Next]_vars, rows' # rows PROVE Stable
      OBVIOUS
    <2>1. PICK t \in Thread : Start(t) \/ Step(t)
      BY DEF Next, vars, sessVars
    <2>2. Kept(t)
      BY <2>1, StepKeeps
    <2> QED BY <2>2 DEF Kept
  <1> QED BY <1>1, SessionInvariant, PTL DEF Spec, InodesAreStable

\* close is final: a load that had its blob in hand stores nothing, and the
\* session stays closed.
THEOREM CloseIsFinal == Spec => NothingAfterClose
  <1>1. SInv /\ [Next]_vars => [life = "closed" => UNCHANGED <<rows, life>>]_<<rows, life>>
    <2> SUFFICES ASSUME SInv, [Next]_vars, life = "closed"
                 PROVE  UNCHANGED <<rows, life>>
      OBVIOUS
    <2>1. ASSUME NEW t \in Thread, Start(t) \/ Step(t) PROVE UNCHANGED <<rows, life>>
      <3>1. UNCHANGED rows
        BY ZenonT(30), <2>1, StepKeeps DEF Kept
      <3>2. UNCHANGED life
        BY SMTT(30), <2>1 DEF Start, Step, Lock, Check, Serve, sessVars, FetchFailed, FetchPanics,
           Materialize, Record, Query, GetInode, ReadRange, Close, StoreFails
      <3> QED BY <3>1, <3>2
    <2> QED BY <2>1 DEF Next, vars, sessVars
  <1> QED BY <1>1, SessionInvariant, PTL DEF Spec, NothingAfterClose

Recording == {t \in Thread : pc[t] = "record"}

\* A load counts once: as recording from the transaction on, then recorded.
LEMMA CountsNext ==
  ASSUME SInv, CountersMatchLoads, [Next]_vars
  PROVE  CountersMatchLoads'
  <1>0. /\ Types /\ IsFiniteSet(Recording) /\ Cardinality(Recording) \in Nat
        /\ IsFiniteSet(LoadedRows) /\ Cardinality(LoadedRows) \in Nat
    <2>1. Types
      BY DEF SInv
    <2>2. IsFiniteSet(Recording)
      BY Zenon, CallAssumption, FS_Subset DEF Recording
    <2>3. rows \in Seq(RowSet) /\ Len(rows) \in Nat /\ DOMAIN rows = 1..Len(rows)
      BY <2>1 DEF Types, Table
    <2>4. IsFiniteSet(1..Len(rows))
      BY <2>3, FS_Interval
    <2>5. IsFiniteSet(LoadedRows)
      BY Zenon, <2>3, <2>4, FS_Subset DEF LoadedRows
    <2> QED BY SMTT(30), <2>1, <2>2, <2>5, FS_CardinalityType
  <1>1. /\ counters.dirDown \in Nat /\ counters.dirHits \in Nat
        /\ counters.dirDown + counters.dirHits + Cardinality(Recording)
              = Cardinality(LoadedRows)
    BY SMTT(30), <1>0 DEF Types, CounterType, CountersMatchLoads, Recording, LoadedRows
  <1> SUFFICES counters'.dirDown + counters'.dirHits + Cardinality(Recording')
                 = Cardinality(LoadedRows')
    BY DEF CountersMatchLoads, Recording, LoadedRows
  <1>2. ASSUME Recording' = Recording, LoadedRows' = LoadedRows,
               counters'.dirDown = counters.dirDown, counters'.dirHits = counters.dirHits
        PROVE  counters'.dirDown + counters'.dirHits + Cardinality(Recording')
                 = Cardinality(LoadedRows')
    BY SMTT(30), <1>1, <1>2
  <1>3. ASSUME NEW t \in Thread, Materialize(t),
               Refusal(t, Decode(call[t].bytes)) = "none"
        PROVE  counters'.dirDown + counters'.dirHits + Cardinality(Recording')
                 = Cardinality(LoadedRows')
    <2>1. t \notin Recording /\ Recording' = Recording \cup {t}
      BY ZenonT(30), <1>0, <1>3 DEF Materialize, Goto, Types, Recording
    <2>2. Cardinality(Recording') = Cardinality(Recording) + 1
      BY ZenonT(30), <1>0, <2>1, FS_AddElement
    <2>3. Cardinality(LoadedRows') = Cardinality(LoadedRows) + 1
      BY ZenonT(30), <1>0, <1>3, LoadStep, FS_AddElement
    <2>4. UNCHANGED counters
      BY SMTT(30), <1>3 DEF Materialize
    <2> QED BY SMTT(30), <1>0, <1>1, <2>2, <2>3, <2>4
  <1>4. ASSUME NEW t \in Thread, Record(t)
        PROVE  counters'.dirDown + counters'.dirHits + Cardinality(Recording')
                 = Cardinality(LoadedRows')
    <2>1. t \in Recording /\ Recording' = Recording \ {t}
      BY <1>0, <1>4 DEF Record, Goto, Types, Recording
    <2>2. Cardinality(Recording') = Cardinality(Recording) - 1
      BY ZenonT(30), <1>0, <2>1, FS_RemoveElement
    <2>3. counters'.dirDown + counters'.dirHits = counters.dirDown + counters.dirHits + 1
      BY <1>0, <1>1, <1>4 DEF Record, Types
    <2>4. LoadedRows' = LoadedRows
      BY <1>4 DEF Record, LoadedRows
    <2>5. counters'.dirDown \in Nat /\ counters'.dirHits \in Nat
      BY SMTT(30), <1>0, <1>1, <1>4 DEF Record, Types
    <2> QED BY SMTT(30), <1>0, <1>1, <2>2, <2>3, <2>4, <2>5
  <1>5. ASSUME NEW t \in Thread, Start(t) \/ Step(t), ~Record(t),
               ~(Materialize(t) /\ Refusal(t, Decode(call[t].bytes)) = "none")
        PROVE  /\ Recording' = Recording /\ LoadedRows' = LoadedRows
               /\ counters'.dirDown = counters.dirDown
               /\ counters'.dirHits = counters.dirHits
    <2>1. UNCHANGED rows
      BY Zenon, <1>5 DEF Start, Step, Lock, Check, Serve, sessVars, FetchFailed, FetchPanics,
         Materialize, Query, GetInode, ReadRange, Close, StoreFails
    <2>2. counters'.dirDown = counters.dirDown /\ counters'.dirHits = counters.dirHits
      <3>1. CASE ReadRange(t)
        BY SMTT(30), <1>0, <3>1 DEF ReadRange, Types
      <3>2. CASE ~ReadRange(t)
        BY Zenon, <1>5, <3>2 DEF Start, Step, Lock, Check, Serve, sessVars, FetchFailed,
           FetchPanics, Materialize, Query, GetInode, Close, StoreFails
      <3> QED BY <3>1, <3>2
    <2>3. UNCHANGED pc \/ \E l \in Control \ {"record"} :
             pc[t] # "record" /\ pc' = [pc EXCEPT ![t] = l]
      <3>1. CASE Start(t)
        BY ZenonT(30), <3>1 DEF Start, Goto, Control
      <3>2. CASE Lock(t) \/ Check(t)
        BY <3>2 DEF Lock, Check, Exit, Answer, Goto, Control
      <3>3. CASE Materialize(t)
        BY ZenonT(30), <1>5, <3>3 DEF Materialize, Exit, Answer, Goto, Control
      <3>4. CASE FetchFailed(t) \/ FetchPanics(t) \/ ReadRange(t)
        BY SMTT(30), <3>4 DEF FetchFailed, FetchPanics, ReadRange, Exit, Answer, Goto, Control
      <3>5. CASE Query(t) \/ GetInode(t) \/ Close(t) \/ StoreFails(t)
        BY ZenonT(30), <3>5 DEF Query, GetInode, Close, StoreFails, Answer, Goto, Control
      <3>6. CASE Serve(t)
        BY SMTT(30), <3>6 DEF Serve, sessVars
      <3> QED BY Zenon, <1>5, <3>1, <3>2, <3>3, <3>4, <3>5, <3>6 DEF Step
    <2>4. Recording' = Recording
      BY Zenon, <1>0, <2>3 DEF Types, Recording
    <2> QED BY Zenon, <2>1, <2>2, <2>4 DEF LoadedRows
  <1>6. CASE UNCHANGED vars
    BY Zenon, <1>2, <1>6 DEF vars, sessVars, Recording, LoadedRows
  <1>7. ASSUME NEW t \in Thread, Start(t) \/ Step(t)
        PROVE  counters'.dirDown + counters'.dirHits + Cardinality(Recording')
                 = Cardinality(LoadedRows')
    BY Zenon, <1>2, <1>3, <1>4, <1>5, <1>7
  <1> QED BY SMTT(30), <1>6, <1>7 DEF Next

\* Simultaneous loads of a directory are coalesced by the inode lock: each
\* loaded directory is counted exactly once, for any number of threads.
THEOREM LoadsCountOnce == Spec => []CountersMatchLoads
  <1>1. Init => CountersMatchLoads
    <2> SUFFICES ASSUME Init PROVE CountersMatchLoads
      OBVIOUS
    <2>1. {t \in Thread : pc[t] = "record"} = {}
      BY Zenon DEF Init
    <2>2. {i \in DOMAIN rows : rows[i].loaded} = {}
      BY SMTT(30) DEF Init, NewTable, Row
    <2>3. counters.dirDown = 0 /\ counters.dirHits = 0
      BY DEF Init, NoCounts
    <2>4. Cardinality({}) = 0
      BY FS_EmptySet
    <2>5. counters.dirDown + counters.dirHits + Cardinality({}) = Cardinality({})
      BY <2>3, <2>4
    <2> QED BY ZenonT(30), <2>1, <2>2, <2>5 DEF CountersMatchLoads
  <1>2. SInv /\ CountersMatchLoads /\ [Next]_vars => CountersMatchLoads'
    BY CountsNext
  <1> QED BY <1>1, <1>2, SessionInvariant, PTL DEF Spec
-----------------------------------------------------------------------------
\* The siblings that come before a row in basename order, and how many.
Before(table, p, c) == {j \in ChildrenOf(table, p) : table[j].name < table[c].name}
Rank(table, p, c) == Cardinality(Before(table, p, c))

\* What get_directory_children_on is asked for: the children of a directory,
\* each once, projected, in basename order.
ListAnswer(table, p, ns) ==
    /\ \A k \in DOMAIN ns : /\ ns[k].inode \in ChildrenOf(table, p)
                            /\ ns[k] = Project(table, ns[k].inode)
    /\ \A c \in ChildrenOf(table, p) : \E k \in DOMAIN ns : ns[k].inode = c
    /\ \A j, k \in DOMAIN ns : j < k => ns[j].name < ns[k].name

\* Siblings have different names: the index (parent, name) of the table.
Siblings(table, p) ==
    \A c, d \in ChildrenOf(table, p) : table[c].name = table[d].name => c = d

\* The rank orders siblings as their names do, and names a place in the list.
LEMMA Ranks ==
  ASSUME NEW table, NEW p, IsFiniteSet(ChildrenOf(table, p)), Siblings(table, p),
         \A c \in ChildrenOf(table, p) : table[c].name \in Nat
  PROVE  LET S == ChildrenOf(table, p) IN
         /\ \A c \in S : Rank(table, p, c) \in 0..(Cardinality(S) - 1)
         /\ \A c, d \in S : table[c].name < table[d].name =>
               Rank(table, p, c) < Rank(table, p, d)
  <1> DEFINE S == ChildrenOf(table, p)
  <1>0. Cardinality(S) \in Nat
    BY FS_CardinalityType
  <1>1. \A c \in S : /\ IsFiniteSet(Before(table, p, c)) /\ c \notin Before(table, p, c)
                     /\ Rank(table, p, c) \in Nat
    <2> SUFFICES ASSUME NEW c \in S
                 PROVE  /\ IsFiniteSet(Before(table, p, c)) /\ c \notin Before(table, p, c)
                        /\ Rank(table, p, c) \in Nat
      OBVIOUS
    <2>1. Before(table, p, c) \in SUBSET S
      BY Zenon DEF Before
    <2>2. c \notin Before(table, p, c)
      BY DEF Before
    <2>3. IsFiniteSet(Before(table, p, c))
      BY Zenon, <2>1, FS_Subset
    <2> QED BY Zenon, <2>2, <2>3, FS_CardinalityType DEF Rank
  <1>2. ASSUME NEW c \in S, NEW T \in SUBSET S, IsFiniteSet(T),
               Before(table, p, c) \subseteq T \ {c}, c \in T
        PROVE  Rank(table, p, c) < Cardinality(T)
    <2>1. /\ IsFiniteSet(T \ {c})
          /\ Cardinality(T \ {c}) = Cardinality(T) - 1
      BY Zenon, <1>2, FS_RemoveElement
    <2>2. Cardinality(Before(table, p, c)) <= Cardinality(T \ {c})
      BY Zenon, <1>2, <2>1, FS_Subset
    <2>3. Cardinality(T) \in Nat
      BY Zenon, <1>2, FS_CardinalityType
    <2> HIDE DEF S
    <2> QED BY <1>1, <2>1, <2>2, <2>3 DEF Rank
  <1>3. ASSUME NEW c \in S PROVE Rank(table, p, c) \in 0..(Cardinality(S) - 1)
    <2>1. Before(table, p, c) \subseteq S \ {c}
      BY Zenon, <1>1 DEF Before
    <2>2. Rank(table, p, c) < Cardinality(S)
      BY Zenon, <1>2, <2>1
    <2> HIDE DEF S
    <2> QED BY SMTT(30), <1>0, <1>1, <2>2
  <1>4. ASSUME NEW c \in S, NEW d \in S, table[c].name < table[d].name
        PROVE  Rank(table, p, c) < Rank(table, p, d)
    <2>1. c \in Before(table, p, d) /\ Before(table, p, d) \in SUBSET S
      BY Zenon, <1>4 DEF Before
    <2>2. Before(table, p, c) \subseteq Before(table, p, d) \ {c}
      <3> SUFFICES ASSUME NEW j \in Before(table, p, c)
                   PROVE  j \in Before(table, p, d) /\ j # c
        BY Zenon
      <3>1. j \in S /\ table[j].name < table[c].name
        BY Zenon DEF Before
      <3>2. table[j].name < table[d].name
        <4>1. table[j].name \in Nat /\ table[c].name \in Nat /\ table[d].name \in Nat
          BY Zenon, <3>1
        <4> QED BY <1>4, <3>1, <4>1
      <3> QED BY Zenon, <1>1, <3>1, <3>2 DEF Before
    <2> QED BY Zenon, <1>1, <1>2, <2>1, <2>2 DEF Rank
  <1> QED BY Zenon, <1>3, <1>4

\* The query lists every child once, in basename order.
LEMMA Listed ==
  ASSUME NEW table, NEW p, IsFiniteSet(ChildrenOf(table, p)), Siblings(table, p),
         \A c \in ChildrenOf(table, p) : table[c].name \in Nat
  PROVE  ListAnswer(table, p,
            [k \in 1..Cardinality(ChildrenOf(table, p)) |->
                Project(table, ListChildren(table, p)[k])])
  <1> DEFINE S == ChildrenOf(table, p)
             n == Cardinality(S)
             rank(c) == Rank(table, p, c)
             f == [c \in S |-> rank(c)]
             L == ListChildren(table, p)
  <1>0. n \in Nat
    BY FS_CardinalityType
  <1>1. /\ \A c \in S : rank(c) \in 0..(n - 1)
        /\ \A c, d \in S : table[c].name < table[d].name => rank(c) < rank(d)
    BY Zenon, Ranks
  <1>2. \A c \in S : table[c].name \in Nat
    OBVIOUS
  <1>3. L = [k \in 1..n |-> CHOOSE c \in S : rank(c) = k - 1]
    BY Zenon DEF ListChildren, Rank, Before
  <1>4. \A c, d \in S : table[c].name = table[d].name => c = d
    BY Zenon DEF Siblings
  <1> HIDE DEF S, rank, L
  <1>5. \A c, d \in S : rank(c) < rank(d) => table[c].name < table[d].name
    <2> SUFFICES ASSUME NEW c \in S, NEW d \in S, rank(c) < rank(d),
                        ~(table[c].name < table[d].name)
                 PROVE  FALSE
      BY Zenon
    <2>1. rank(c) \in Nat /\ rank(d) \in Nat
      BY SMTT(30), <1>0, <1>1
    <2>2. c = d \/ table[d].name < table[c].name
      BY SMTT(30), <1>2, <1>4
    <2> QED BY <1>1, <2>1, <2>2
  <1>6. \A c, d \in S : rank(c) = rank(d) => c = d
    <2> SUFFICES ASSUME NEW c \in S, NEW d \in S, rank(c) = rank(d), c # d
                 PROVE  FALSE
      BY Zenon
    <2>1. rank(c) \in Nat /\ rank(d) \in Nat
      BY SMTT(30), <1>0, <1>1
    <2>2. table[c].name < table[d].name \/ table[d].name < table[c].name
      BY <1>2, <1>4
    <2> QED BY <1>1, <2>1, <2>2
  <1>7. f \in Surjection(S, 0..(n - 1))
    <2>1. f \in Injection(S, 0..(n - 1))
      <3>1. f \in [S -> 0..(n - 1)] /\ DOMAIN f = S /\ \A c \in S : f[c] = rank(c)
        BY Zenon, <1>1
      <3> HIDE DEF f
      <3> QED BY Zenon, <1>6, <3>1 DEF Injection, IsInjective
    <2>2. IsFiniteSet(0..(n - 1)) /\ Cardinality(0..(n - 1)) = n
      <3> HIDE DEF n
      <3>1. 0 \in Int /\ n - 1 \in Int
        BY <1>0
      <3>2. /\ IsFiniteSet(0..(n - 1))
            /\ Cardinality(0..(n - 1)) = IF 0 > n - 1 THEN 0 ELSE (n - 1) - 0 + 1
        BY Zenon, <3>1, FS_Interval
      <3> QED BY <1>0, <3>2
    <2> HIDE DEF f
    <2> QED BY Zenon, <2>1, <2>2, FS_Injection
  <1>8. \A k \in 1..n : L[k] \in S /\ rank(L[k]) = k - 1
    <2> SUFFICES ASSUME NEW k \in 1..n PROVE L[k] \in S /\ rank(L[k]) = k - 1
      BY Zenon
    <2> HIDE DEF n
    <2>1. k - 1 \in 0..(n - 1)
      BY <1>0
    <2>2. \E c \in S : rank(c) = k - 1
      BY Zenon, <1>7, <2>1 DEF Surjection
    <2>3. L[k] = CHOOSE c \in S : rank(c) = k - 1
      BY Zenon, <1>3
    <2> QED BY Zenon, <2>2, <2>3
  <1>9. \A c \in S : \E k \in 1..n : L[k] = c
    <2> SUFFICES ASSUME NEW c \in S PROVE \E k \in 1..n : L[k] = c
      BY Zenon
    <2> DEFINE k == rank(c) + 1
    <2>1. k \in 1..n /\ k - 1 = rank(c)
      <3> HIDE DEF n
      <3> QED BY <1>0, <1>1
    <2> HIDE DEF k
    <2> QED BY Zenon, <1>6, <1>8, <2>1
  <1>10. \A j, k \in 1..n : j < k => table[L[j]].name < table[L[k]].name
    <2> SUFFICES ASSUME NEW j \in 1..n, NEW k \in 1..n, j < k
                 PROVE  table[L[j]].name < table[L[k]].name
      BY Zenon
    <2>1. L[j] \in S /\ L[k] \in S /\ rank(L[j]) = j - 1 /\ rank(L[k]) = k - 1
      BY Zenon, <1>8
    <2>2. rank(L[j]) < rank(L[k])
      <3> HIDE DEF n
      <3> QED BY <1>0, <2>1
    <2> QED BY Zenon, <1>5, <2>1, <2>2
  <1> DEFINE ns == [k \in 1..n |-> Project(table, L[k])]
  <1>11. DOMAIN ns = 1..n /\ \A k \in 1..n : ns[k] = Project(table, L[k])
    BY Zenon
  <1>12. \A c : Project(table, c).inode = c /\ Project(table, c).name = table[c].name
    BY DEF Project
  <1> HIDE DEF ns, n
  <1>13. ListAnswer(table, p, ns)
    <2>1. \A k \in DOMAIN ns : ns[k].inode = L[k] /\ ns[k].name = table[L[k]].name
      BY Zenon, <1>11, <1>12
    <2>2. \A k \in DOMAIN ns : ns[k].inode \in S /\ ns[k] = Project(table, ns[k].inode)
      BY Zenon, <1>8, <1>11, <2>1
    <2>3. ASSUME NEW c \in S PROVE \E k \in DOMAIN ns : ns[k].inode = c
      <3>1. PICK k \in 1..n : L[k] = c
        BY Zenon, <1>9
      <3>2. k \in DOMAIN ns /\ ns[k].inode = c
        BY Zenon, <1>11, <2>1, <3>1
      <3> QED BY Zenon, <3>2
    <2>4. \A j, k \in DOMAIN ns : j < k => ns[j].name < ns[k].name
      <3> SUFFICES ASSUME NEW j \in DOMAIN ns, NEW k \in DOMAIN ns, j < k
                   PROVE  ns[j].name < ns[k].name
        BY Zenon
      <3>1. table[L[j]].name < table[L[k]].name
        BY Zenon, <1>10, <1>11
      <3> QED BY Zenon, <2>1, <3>1
    <2> QED BY Zenon, <2>2, <2>3, <2>4 DEF ListAnswer, S
  <1> QED BY Zenon, <1>13 DEF ns, n, L, S

\* read_file_range cuts the bytes that were asked for and are there.
LEMMA RangeRead ==
  ASSUME NEW S, NEW b \in Seq(S), NEW offset \in Nat, NEW size \in Nat
  PROVE  LET wanted == {p \in DOMAIN b : offset < p /\ p <= offset + size}
             got == ReadFileRange(b, offset, size)
         IN /\ Len(got) = Cardinality(wanted)
            /\ \A p \in wanted : got[p - offset] = b[p]
  <1> DEFINE available == IF offset < Len(b) THEN Len(b) - offset ELSE 0
             count == IF available < size THEN available ELSE size
             wanted == {p \in DOMAIN b : offset < p /\ p <= offset + size}
             got == SubSeq(b, offset + 1, offset + count)
  <1>0. Len(b) \in Nat /\ DOMAIN b = 1..Len(b)
    OBVIOUS
  <1>1. count \in Nat /\ (count > 0 => offset + count <= Len(b))
    BY <1>0
  <1>2. wanted = (offset + 1)..(offset + count)
    BY <1>0
  <1> HIDE DEF count
  <1>3. Cardinality(wanted) = count
    <2>1. offset + 1 \in Int /\ offset + count \in Int
      BY <1>1
    <2>2. Cardinality((offset + 1)..(offset + count)) =
            IF offset + 1 > offset + count THEN 0 ELSE (offset + count) - (offset + 1) + 1
      BY Zenon, <2>1, FS_Interval
    <2> HIDE DEF wanted
    <2>3. Cardinality(wanted) = Cardinality((offset + 1)..(offset + count))
      BY Zenon, <1>2
    <2> QED BY SMTT(30), <1>1, <2>2, <2>3
  <1>4. Len(got) = count /\ \A k \in 1..count : got[k] = b[offset + k]
    <2> DEFINE m == offset + 1
               e == offset + count
    <2>1. m \in Nat /\ e \in Nat /\ m >= 1 /\ e - m + 1 = count
      BY <1>1
    <2>2. (m <= e => e <= Len(b)) /\ (\A k \in 1..count : m + k - 1 = offset + k)
      BY SMTT(30), <1>0, <1>1
    <2> HIDE DEF m, e
    <2>3. \A k \in m..e : b[k] \in S
      BY SMTT(30), <1>0, <2>1, <2>2
    <2>4. /\ Len(SubSeq(b, m, e)) = IF m <= e THEN e - m + 1 ELSE 0
          /\ \A k \in 1..(e - m + 1) : SubSeq(b, m, e)[k] = b[m + k - 1]
      BY SMTT(30), <1>0, <2>1, <2>3
    <2>5. Len(SubSeq(b, m, e)) = count
      BY SMTT(30), <1>1, <2>1, <2>4
    <2> QED BY Zenon, <2>1, <2>2, <2>4, <2>5 DEF m, e
  <1>5. ReadFileRange(b, offset, size) = got
    BY Zenon DEF ReadFileRange, count
  <1> HIDE DEF got
  <1>6. \A p \in wanted : got[p - offset] = b[p]
    <2> SUFFICES ASSUME NEW p \in (offset + 1)..(offset + count)
                 PROVE  got[p - offset] = b[p]
      BY Zenon, <1>2
    <2>1. p - offset \in 1..count /\ offset + (p - offset) = p
      BY <1>1
    <2> QED BY Zenon, <1>4, <2>1
  <1> QED BY Zenon, <1>3, <1>4, <1>5, <1>6
-----------------------------------------------------------------------------
\* What the queries run on: a thread that is to query has its directory loaded.
Ready(t) ==
    /\ pc[t] \in {"record", "query"} =>
          Loads(t) /\ op[t].inode \in DOMAIN rows /\ rows[op[t].inode].loaded
    /\ pc[t] = "get" => op[t].fn = "get"
ReadyInv == \A t \in Thread : Ready(t)

DistinctSiblings ==
    \A c, d \in DOMAIN rows :
        rows[c].parent = rows[d].parent /\ rows[c].name = rows[d].name => c = d

LoadAnswer(t) ==
    LET i == op[t].inode IN
    /\ i \in DOMAIN rows /\ rows[i].loaded
    /\ res[t].st = "notfound" => NamedChild(rows, i, op[t].name) = {}
    /\ res[t].st = "node" => \E c \in NamedChild(rows, i, op[t].name) :
                                res[t].node = Project(rows, c)
    /\ res[t].st = "list" => ListAnswer(rows, i, res[t].nodes)
ReadAnswer(t) ==
    /\ op[t].fn = "read" /\ op[t].inode \in DOMAIN rows
    /\ \E b \in Blob : /\ rows[op[t].inode].content = DigestOf(b)
                       /\ res[t].bytes = ReadFileRange(b, op[t].offset, op[t].size)

\* An answer stays true of the table for as long as the thread holds it.
Holds(t) ==
    /\ pc[t] # "idle" => res[t] = None
    /\ Loads(t) /\ res[t].st \in {"notfound", "node", "list"} => LoadAnswer(t)
    /\ res[t].st = "bytes" => ReadAnswer(t)
ResInv == DOMAIN res = Thread /\ \A t \in Thread : Holds(t)

AInv == DistinctSiblings /\ ReadyInv /\ ResInv

\* The rows a load appends are the children of the directory it loads, which
\* had none; validate_remote_children has checked that their names differ.
LEMMA NewRows ==
  ASSUME SInv, NEW t \in Thread, Materialize(t),
         Refusal(t, Decode(call[t].bytes)) = "none"
  PROVE  /\ ~rows[op[t].inode].loaded
         /\ ChildrenOf(rows, op[t].inode) = {}
         /\ \A k \in DOMAIN rows' \ DOMAIN rows : rows'[k].parent = op[t].inode
         /\ \A k, l \in DOMAIN rows' \ DOMAIN rows :
               rows'[k].name = rows'[l].name => k = l
  <1> DEFINE i == op[t].inode
             b == call[t].bytes
             nodes == Decode(b)
  <1>1. /\ i \in DOMAIN rows /\ rows[i].kind = "directory" /\ ~rows[i].loaded
        /\ call[t].dig = rows[i].content /\ call[t].st = "ok"
    BY Zenon DEF Materialize, SInv, FetchInv
  <1>2. b \in Blob
    <2>1. call[t] \in CallSet
      BY DEF SInv, Types
    <2> QED BY SMTT(30), <1>1, <2>1 DEF CallSet
  <1>3. rows' = WithChildren(rows, i, nodes)
    BY Zenon, <1>1 DEF Materialize
  <1>4. nodes # Malformed /\ ValidChildren(nodes) /\ ChildrenOf(rows, i) = {}
    BY Zenon, <1>1 DEF Refusal
  <1>5. nodes \in Seq(Nodes) /\ Nodes \subseteq {n \in Nodes : IsNode(n)}
    BY Zenon, <1>2, <1>4, DecodedNodes
  <1>6. rows \in Seq(RowSet)
    BY Zenon DEF SInv, Types, Table
  <1> HIDE DEF i, b, nodes
  <1>7. FittingModes(nodes)
    BY Zenon, <1>4 DEF FittingModes, ValidChildren
  <1>8. Appended(rows, i, nodes, rows')
    BY Zenon, <1>1, <1>3, <1>5, <1>6, <1>7, AppendedRows
  <1>9. /\ rows' \in Seq(RowSet) /\ Len(rows') = Len(rows) + Len(nodes)
        /\ \A j \in 1..Len(nodes) : rows'[Len(rows) + j] = Row(i, nodes[j])
    BY Zenon, <1>8 DEF Appended
  <1>10. \A k \in DOMAIN rows' \ DOMAIN rows :
            \E j \in 1..Len(nodes) : k = Len(rows) + j /\ rows'[k] = Row(i, nodes[j])
    <2> SUFFICES ASSUME NEW k \in DOMAIN rows' \ DOMAIN rows
                 PROVE  \E j \in 1..Len(nodes) :
                           k = Len(rows) + j /\ rows'[k] = Row(i, nodes[j])
      BY Zenon
    <2>1. Len(rows) \in Nat /\ Len(nodes) \in Nat
      BY SMTT(30), <1>5, <1>6
    <2>2. DOMAIN rows' = 1..Len(rows') /\ DOMAIN rows = 1..Len(rows)
      BY SMTT(30), <1>6, <1>9
    <2> DEFINE j == k - Len(rows)
    <2>3. j \in 1..Len(nodes) /\ k = Len(rows) + j
      BY SMTT(30), <1>9, <2>1, <2>2
    <2> HIDE DEF j
    <2> QED BY Zenon, <1>9, <2>3
  <1>11. \A j \in 1..Len(nodes) : /\ Row(i, nodes[j]).parent = i
                                  /\ Row(i, nodes[j]).name = nodes[j].name
    BY DEF Row
  <1>12. \A j, k \in 1..Len(nodes) : nodes[j].name = nodes[k].name => j = k
    <2>1. DOMAIN nodes = 1..Len(nodes)
      BY <1>5
    <2> QED BY Zenon, <1>4, <2>1 DEF ValidChildren
  <1>13. \A k \in DOMAIN rows' \ DOMAIN rows : rows'[k].parent = i
    BY Zenon, <1>10, <1>11
  <1>14. \A k, l \in DOMAIN rows' \ DOMAIN rows :
            rows'[k].name = rows'[l].name => k = l
    <2> SUFFICES ASSUME NEW k \in DOMAIN rows' \ DOMAIN rows,
                        NEW l \in DOMAIN rows' \ DOMAIN rows,
                        rows'[k].name = rows'[l].name
                 PROVE  k = l
      BY Zenon
    <2>1. PICK x \in 1..Len(nodes) : k = Len(rows) + x /\ rows'[k] = Row(i, nodes[x])
      BY Zenon, <1>10
    <2>2. PICK y \in 1..Len(nodes) : l = Len(rows) + y /\ rows'[l] = Row(i, nodes[y])
      BY Zenon, <1>10
    <2>3. nodes[x].name = nodes[y].name
      BY Zenon, <1>11, <2>1, <2>2
    <2> QED BY Zenon, <1>12, <2>1, <2>2, <2>3
  <1> QED BY Zenon, <1>1, <1>4, <1>13, <1>14 DEF i

\* What a step leaves alone: rows keep all but `loaded`, and rows are only
\* added to a directory that was not loaded and had no children.
Grows(t) ==
    /\ \A j \in DOMAIN rows :
          /\ j \in DOMAIN rows'
          /\ rows'[j].parent = rows[j].parent /\ rows'[j].name = rows[j].name
          /\ rows'[j].content = rows[j].content
          /\ Project(rows', j) = Project(rows, j)
          /\ rows[j].loaded => rows'[j].loaded
    /\ \A k \in DOMAIN rows' \ DOMAIN rows :
          /\ rows'[k].parent = op[t].inode
          /\ op[t].inode \in DOMAIN rows
          /\ ~rows[op[t].inode].loaded
          /\ ChildrenOf(rows, op[t].inode) = {}
    /\ \A k, l \in DOMAIN rows' \ DOMAIN rows :
          rows'[k].name = rows'[l].name => k = l

\* Every step grows the table in that way or leaves it.
LEMMA StepGrows ==
  ASSUME SInv, NEW t \in Thread, Start(t) \/ Step(t)
  PROVE  Grows(t)
  <1>1. Kept(t)
    BY Zenon, StepKeeps
  <1>2. \A j \in DOMAIN rows : rows[j] \in RowSet
    BY DEF SInv, Types, Table
  <1>3. ASSUME NEW j \in DOMAIN rows
        PROVE  /\ j \in DOMAIN rows'
               /\ rows'[j].parent = rows[j].parent /\ rows'[j].name = rows[j].name
               /\ rows'[j].content = rows[j].content
               /\ Project(rows', j) = Project(rows, j)
               /\ rows[j].loaded => rows'[j].loaded
    <2>1. /\ j \in DOMAIN rows'
          /\ rows'[j] = [rows[j] EXCEPT !.loaded = rows'[j].loaded]
          /\ rows[j].loaded => rows'[j].loaded
      BY Zenon, <1>1 DEF Kept
    <2>2. rows[j] \in RowSet
      BY Zenon, <1>2
    <2>3. /\ rows'[j].parent = rows[j].parent /\ rows'[j].name = rows[j].name
          /\ rows'[j].kind = rows[j].kind /\ rows'[j].mode = rows[j].mode
          /\ rows'[j].mtime = rows[j].mtime /\ rows'[j].content = rows[j].content
      BY Zenon, <2>1, <2>2 DEF RowSet
    <2>4. Project(rows', j) = Project(rows, j)
      BY Zenon, <2>3 DEF Project
    <2> QED BY Zenon, <2>1, <2>3, <2>4
  <1>4. CASE rows' = rows
    BY Zenon, <1>3, <1>4 DEF Grows
  <1>5. CASE rows' # rows
    <2>1. Materialize(t) \/ UNCHANGED rows
      BY DEF Start, Step, Lock, Check, Serve, sessVars, FetchFailed, FetchPanics, Record,
             Query, GetInode, ReadRange, Close, StoreFails
    <2>2. Materialize(t)
      BY Zenon, <1>5, <2>1
    <2>3. Refusal(t, Decode(call[t].bytes)) = "none"
      BY Zenon, <1>5, <2>2 DEF Materialize
    <2>4. op[t].inode \in DOMAIN rows
      BY Zenon, <2>2 DEF Materialize, SInv, FetchInv
    <2> QED BY Zenon, <1>3, <2>2, <2>3, <2>4, NewRows DEF Grows
  <1> QED BY Zenon, <1>4, <1>5

\* A load adds no second row of a name under its parent.
LEMMA SiblingsNext ==
  ASSUME DistinctSiblings, NEW t \in Thread, Grows(t)
  PROVE  DistinctSiblings'
  <1> SUFFICES ASSUME NEW c \in DOMAIN rows', NEW d \in DOMAIN rows',
                      rows'[c].parent = rows'[d].parent, rows'[c].name = rows'[d].name
               PROVE  c = d
    BY Zenon DEF DistinctSiblings
  <1>1. CASE c \in DOMAIN rows /\ d \in DOMAIN rows
    BY Zenon, <1>1 DEF Grows, DistinctSiblings
  <1>2. ASSUME NEW x \in DOMAIN rows, NEW y \in DOMAIN rows' \ DOMAIN rows,
               rows'[x].parent = rows'[y].parent
        PROVE  FALSE
    <2>1. rows[x].parent = op[t].inode /\ ChildrenOf(rows, op[t].inode) = {}
      BY Zenon, <1>2 DEF Grows
    <2> QED BY Zenon, <2>1 DEF ChildrenOf
  <1>3. CASE c \notin DOMAIN rows /\ d \notin DOMAIN rows
    BY Zenon, <1>3 DEF Grows
  <1> QED BY Zenon, <1>1, <1>2, <1>3

\* A loaded directory keeps its children, and they keep their names.
LEMMA SameChildren ==
  ASSUME NEW t \in Thread, Grows(t), NEW i \in DOMAIN rows, rows[i].loaded
  PROVE  /\ ChildrenOf(rows', i) = ChildrenOf(rows, i)
         /\ \A name : NamedChild(rows', i, name) = NamedChild(rows, i, name)
         /\ \A c \in ChildrenOf(rows, i) : Project(rows', c) = Project(rows, c)
  <1>1. \A c \in DOMAIN rows' : rows'[c].parent = i => c \in DOMAIN rows
    BY Zenon DEF Grows
  <1>2. ChildrenOf(rows', i) = ChildrenOf(rows, i)
    <2>1. \A c \in DOMAIN rows : c \in DOMAIN rows' /\ rows'[c].parent = rows[c].parent
      BY Zenon DEF Grows
    <2> QED BY Zenon, <1>1, <2>1 DEF ChildrenOf
  <1>3. \A c \in ChildrenOf(rows, i) : /\ rows'[c].name = rows[c].name
                                       /\ Project(rows', c) = Project(rows, c)
    BY Zenon DEF Grows, ChildrenOf
  <1>4. ASSUME NEW name PROVE NamedChild(rows', i, name) = NamedChild(rows, i, name)
    BY Zenon, <1>2, <1>3 DEF NamedChild
  <1> QED BY Zenon, <1>2, <1>3, <1>4

\* An answer given earlier is not made wrong by a later step.
LEMMA AnswerStays ==
  ASSUME NEW t \in Thread, Grows(t), NEW u \in Thread, Holds(u),
         op'[u] = op[u], res'[u] = res[u], pc'[u] = pc[u]
  PROVE  Holds(u)'
  <1> DEFINE i == op[u].inode
  <1>1. ASSUME Loads(u), res[u].st \in {"notfound", "node", "list"}
        PROVE  LoadAnswer(u)'
    <2>1. LoadAnswer(u)
      BY Zenon, <1>1 DEF Holds
    <2>2. i \in DOMAIN rows /\ rows[i].loaded
      BY Zenon, <2>1 DEF LoadAnswer
    <2>3. i \in DOMAIN rows' /\ rows'[i].loaded
      BY Zenon, <2>2 DEF Grows
    <2>4. /\ ChildrenOf(rows', i) = ChildrenOf(rows, i)
          /\ \A name : NamedChild(rows', i, name) = NamedChild(rows, i, name)
          /\ \A c \in ChildrenOf(rows, i) : Project(rows', c) = Project(rows, c)
      BY Zenon, <2>2, SameChildren
    <2>5. res[u].st = "notfound" => NamedChild(rows', i, op[u].name) = {}
      BY Zenon, <2>1, <2>4 DEF LoadAnswer
    <2>6. res[u].st = "node" => \E c \in NamedChild(rows', i, op[u].name) :
                                   res[u].node = Project(rows', c)
      BY Zenon, <2>1, <2>4 DEF LoadAnswer, NamedChild
    <2>7. res[u].st = "list" => ListAnswer(rows', i, res[u].nodes)
      BY Zenon, <2>1, <2>4 DEF LoadAnswer, ListAnswer
    <2> QED BY Zenon, <2>3, <2>5, <2>6, <2>7 DEF LoadAnswer
  <1>2. ASSUME res[u].st = "bytes" PROVE ReadAnswer(u)'
    <2>1. ReadAnswer(u)
      BY Zenon, <1>2 DEF Holds
    <2> QED BY Zenon, <2>1 DEF ReadAnswer, Grows
  <1>3. Loads(u)' <=> Loads(u)
    BY Zenon DEF Loads
  <1> QED BY Zenon, <1>1, <1>2, <1>3 DEF Holds

\* What get_visible_inode and the checks on the row can say.
LEMMA CheckedSays ==
  ASSUME NEW t \in Thread
  PROVE  /\ Checked(t).st \in {"precondition", "noinode", "notdir", "isdir", "internal",
                               "loaded", "read"}
         /\ Checked(t).st = "loaded" =>
               Loads(t) /\ op[t].inode \in DOMAIN rows /\ rows[op[t].inode].loaded
  <1> DEFINE r == rows[op[t].inode]
             rest ==
               CASE Loads(t) /\ r.kind # "directory" -> Err("notdir")
                 [] Loads(t) /\ r.kind = "directory" /\ r.loaded -> Err("loaded")
                 [] ~Loads(t) /\ r.kind = "directory" -> Err("isdir")
                 [] ~Loads(t) /\ r.kind = "symlink" -> Err("internal")
                 [] OTHER -> [st |-> "read", digest |-> r.content]
  <1>1. Checked(t) =
           CASE life # "active" -> Err("precondition")
             [] life = "active" /\ op[t].inode \notin DOMAIN rows -> Err("noinode")
             [] OTHER -> rest
    BY Zenon DEF Checked
  <1>2. /\ rest.st \in {"notdir", "loaded", "isdir", "internal", "read"}
        /\ rest.st = "loaded" => Loads(t) /\ r.loaded
    <2> HIDE DEF r
    <2> QED BY DEF Err
  <1> HIDE DEF rest
  <1>3. \/ Checked(t) = rest /\ op[t].inode \in DOMAIN rows
        \/ Checked(t).st \in {"precondition", "noinode"}
    BY <1>1 DEF Err
  <1> QED BY Zenon, <1>2, <1>3

\* What the step of a thread does to it: it goes on without an answer, or it
\* returns one, which only the last three actions fill with tree or file data.
Plain(r) == r.st \notin {"notfound", "node", "list", "bytes"}
GoesOn(t) == pc'[t] # "idle" /\ res'[t] = None /\ Ready(t)'
Returns(t) == pc'[t] = "idle" /\ Plain(res'[t])
Moves(t) ==
    \/ pc'[t] = pc[t] /\ op'[t] = op[t] /\ res'[t] = res[t]
    \/ GoesOn(t)
    \/ Returns(t)
    \/ Query(t) \/ GetInode(t) \/ ReadRange(t)

\* Every step of a thread moves it in one of these ways.
LEMMA StepMoves ==
  ASSUME SInv, ReadyInv, ResInv, NEW t \in Thread, Start(t) \/ Step(t)
  PROVE  Moves(t)
  <1>0. pc \in [Thread -> Control] /\ DOMAIN pc = Thread /\ DOMAIN res = Thread
    BY DEF SInv, Types, ResInv
  <1>a. DOMAIN op = Thread
    BY DEF SInv, Types, OpType
  <1>b. Holds(t) /\ Ready(t)
    BY Zenon DEF ResInv, ReadyInv
  <1>c. ASSUME NEW r, Answer(t, r), Plain(r) PROVE Moves(t)
    <2>1. pc'[t] = "idle" /\ res'[t] = r
      BY Zenon, <1>0, <1>c DEF Answer, Goto
    <2> QED BY Zenon, <1>c, <2>1 DEF Moves, Returns
  <1>d. ASSUME NEW l \in Control \ {"idle", "get", "query", "record"}, Goto(t, l), res'[t] = None
        PROVE  Moves(t)
    <2>1. pc'[t] = l
      BY Zenon, <1>0, <1>d DEF Goto
    <2> QED BY Zenon, <1>d, <2>1 DEF Moves, GoesOn, Ready
  <1>e. \A category : Err(category).st = category
    BY Zenon DEF Err
  <1>f. ASSUME NEW l \in {"query", "record"}, Goto(t, l), res'[t] = None, Loads(t)',
               op'[t].inode \in DOMAIN rows', rows'[op'[t].inode].loaded
        PROVE  Moves(t)
    <2>1. pc'[t] = l
      BY Zenon, <1>0, <1>f DEF Goto
    <2> QED BY Zenon, <1>f, <2>1 DEF Moves, GoesOn, Ready
  <1>1. CASE Start(t)
    <2>1. PICK o \in OpsOf[t] :
            /\ op' = [op EXCEPT ![t] = o]
            /\ Goto(t, CASE o.fn = "get" -> "get" [] o.fn = "close" -> "close"
                         [] OTHER -> "lock")
      BY Zenon, <1>1 DEF Start
    <2>2. res'[t] = None /\ op'[t] = o
      BY Zenon, <1>0, <1>a, <1>1, <2>1 DEF Start
    <2>3. CASE o.fn = "get"
      <3>1. pc'[t] = "get"
        BY Zenon, <1>0, <2>1, <2>3 DEF Goto
      <3> QED BY Zenon, <2>2, <2>3, <3>1 DEF Moves, GoesOn, Ready
    <2>4. CASE o.fn # "get"
      <3>1. Goto(t, "close") \/ Goto(t, "lock")
        BY <2>1, <2>4
      <3> QED BY Zenon, <1>d, <2>2, <3>1 DEF Control
    <2> QED BY Zenon, <2>3, <2>4
  <1>2. CASE Lock(t)
    <2>1. res[t] = None
      BY Zenon, <1>2, <1>b DEF Lock, Holds
    <2>2. CASE op[t].inode \in poisoned
      BY Zenon, <1>2, <2>2, <1>c, <1>e DEF Lock, Plain
    <2>3. CASE op[t].inode \notin poisoned
      BY Zenon, <1>2, <2>1, <2>3, <1>d DEF Lock, Control
    <2> QED BY Zenon, <2>2, <2>3
  <1>3. CASE Check(t)
    <2>1. res[t] = None /\ UNCHANGED rows /\ UNCHANGED op
      BY Zenon, <1>3, <1>b DEF Check, Holds
    <2>2. CASE Checked(t).st = "read"
      <3>1. Goto(t, "fetch") /\ UNCHANGED res
        BY Zenon, <1>3, <2>2 DEF Check
      <3> QED BY Zenon, <2>1, <3>1, <1>d DEF Control
    <2>3. CASE Checked(t).st = "loaded"
      <3>1. Goto(t, "query") /\ UNCHANGED res
        BY <1>3, <2>3 DEF Check
      <3>2. Loads(t) /\ op[t].inode \in DOMAIN rows /\ rows[op[t].inode].loaded
        BY Zenon, <2>3, CheckedSays
      <3>3. Loads(t)'
        BY Zenon, <2>1, <3>2 DEF Loads
      <3> QED BY Zenon, <2>1, <3>1, <3>2, <3>3, <1>f
    <2>4. CASE Checked(t).st \notin {"read", "loaded"}
      <3>1. Answer(t, Checked(t))
        BY <1>3, <2>4 DEF Check, Exit
      <3>2. Plain(Checked(t))
        BY Zenon, CheckedSays DEF Plain
      <3> QED BY Zenon, <3>1, <3>2, <1>c
    <2> QED BY Zenon, <2>2, <2>3, <2>4
  <1>4. CASE Serve(t)
    BY Zenon, <1>4 DEF Serve, sessVars, Moves
  <1>5. CASE FetchFailed(t)
    BY Zenon, <1>5, <1>c, <1>e DEF FetchFailed, Exit, Plain
  <1>6. CASE FetchPanics(t)
    <2>1. Plain(None)
      BY Zenon DEF None, Plain
    <2> QED BY Zenon, <1>6, <1>c, <2>1 DEF FetchPanics, Exit
  <1>7. CASE Materialize(t)
    <2> DEFINE why == Refusal(t, Decode(call[t].bytes))
    <2>1. why \in {"none", "internal", "precondition"}
      BY DEF Refusal
    <2>2. CASE why # "none"
      <3>1. Answer(t, Err(why))
        BY Zenon, <1>7, <2>2 DEF Materialize, Exit
      <3>2. Plain(Err(why))
        <4> HIDE DEF why
        <4> QED BY Zenon, <2>1, <2>2, <1>e DEF Plain
      <3> QED BY Zenon, <3>1, <3>2, <1>c
    <2>3. CASE why = "none"
      <3>1. Goto(t, "record") /\ UNCHANGED res /\ UNCHANGED op /\ Loads(t) /\ pc[t] = "fetch"
        BY Zenon, <1>7, <2>3 DEF Materialize
      <3>2. res[t] = None
        BY Zenon, <1>b, <3>1 DEF Holds
      <3>3. LoadedRows' = LoadedRows \cup {op[t].inode}
        BY Zenon, <1>7, <2>3, LoadStep
      <3>4. op[t].inode \in DOMAIN rows' /\ rows'[op[t].inode].loaded
        BY Zenon, <3>3 DEF LoadedRows
      <3>5. Loads(t)'
        BY Zenon, <3>1 DEF Loads
      <3> QED BY Zenon, <3>1, <3>2, <3>4, <3>5, <1>f
    <2> QED BY Zenon, <2>2, <2>3
  <1>8. CASE Record(t)
    <2>1. /\ Goto(t, "query") /\ UNCHANGED <<res, op, rows>> /\ pc[t] = "record"
      BY Zenon, <1>8 DEF Record
    <2>2. res[t] = None
      BY Zenon, <1>b, <2>1 DEF Holds
    <2>3. Loads(t) /\ op[t].inode \in DOMAIN rows /\ rows[op[t].inode].loaded
      BY Zenon, <1>b, <2>1 DEF Ready
    <2>4. Loads(t)'
      BY Zenon, <2>1, <2>3 DEF Loads
    <2> QED BY Zenon, <2>1, <2>2, <2>3, <2>4, <1>f
  <1>9. CASE Close(t)
    <2>1. Plain([st |-> "closed"])
      BY Zenon DEF Plain
    <2> QED BY Zenon, <1>9, <1>c, <1>e, <2>1 DEF Close, Plain
  <1>10. CASE StoreFails(t)
    BY Zenon, <1>10, <1>c, <1>e DEF StoreFails, Plain
  <1>11. CASE Query(t) \/ GetInode(t) \/ ReadRange(t)
    BY Zenon, <1>11 DEF Moves
  <1> QED BY Zenon, <1>1, <1>2, <1>3, <1>4, <1>5, <1>6, <1>7, <1>8, <1>9, <1>10, <1>11
          DEF Step

\* A step answers no other thread's call.
LEMMA ResFrame ==
  ASSUME ResInv, NEW t \in Thread, Start(t) \/ Step(t)
  PROVE  DOMAIN res' = Thread /\ \A u \in Thread \ {t} : res'[u] = res[u]
  <1>1. UNCHANGED res \/ \E r : res' = [res EXCEPT ![t] = r]
    <2>1. CASE Start(t)
      BY Zenon, <2>1 DEF Start
    <2>2. CASE Lock(t)
      BY Zenon, <2>2 DEF Lock, Answer
    <2>3. CASE Check(t)
      BY <2>3 DEF Check, Exit, Answer
    <2>4. CASE Serve(t) \/ Record(t)
      BY Zenon, <2>4 DEF Serve, sessVars, Record
    <2>5. CASE FetchFailed(t) \/ FetchPanics(t)
      BY Zenon, <2>5 DEF FetchFailed, FetchPanics, Exit, Answer
    <2>6. CASE Materialize(t)
      BY Zenon, <2>6 DEF Materialize, Exit, Answer
    <2>7. CASE Query(t)
      BY Zenon, <2>7 DEF Query, Answer
    <2>8. CASE GetInode(t)
      BY Zenon, <2>8 DEF GetInode, Answer
    <2>9. CASE ReadRange(t)
      BY Zenon, <2>9 DEF ReadRange, Exit, Answer
    <2>10. CASE Close(t) \/ StoreFails(t)
      BY Zenon, <2>10 DEF Close, StoreFails, Answer
    <2> QED BY Zenon, <2>1, <2>2, <2>3, <2>4, <2>5, <2>6, <2>7, <2>8, <2>9, <2>10 DEF Step
  <1>2. DOMAIN res = Thread
    BY Zenon DEF ResInv
  <1> QED BY Zenon, <1>1, <1>2

\* child and get_directory_children answer from a loaded directory.
LEMMA QueryHolds ==
  ASSUME SInv, AInv, NEW t \in Thread, Query(t)
  PROVE  Holds(t)'
  <1> DEFINE i == op[t].inode
             found == NamedChild(rows, i, op[t].name)
             listing == [k \in 1..Cardinality(ChildrenOf(rows, i)) |->
                           Project(rows, ListChildren(rows, i)[k])]
             r == IF life # "active" THEN Err("precondition")
                  ELSE IF op[t].fn = "list" THEN [st |-> "list", nodes |-> listing]
                  ELSE IF found = {} THEN Err("notfound")
                  ELSE [st |-> "node",
                        node |-> Project(rows, CHOOSE c \in found : TRUE)]
  <1>1. DOMAIN pc = Thread /\ DOMAIN res = Thread
    BY DEF SInv, Types, AInv, ResInv
  <1>2. Loads(t) /\ i \in DOMAIN rows /\ rows[i].loaded
    BY Zenon DEF AInv, ReadyInv, Ready, Query
  <1>3. Answer(t, r) /\ UNCHANGED rows /\ UNCHANGED op
    BY Zenon DEF Query
  <1>4. ListAnswer(rows, i, listing)
    <2>1. rows \in Seq(RowSet) /\ Len(rows) \in Nat /\ DOMAIN rows = 1..Len(rows)
      BY DEF SInv, Types, Table
    <2>2. IsFiniteSet(ChildrenOf(rows, i))
      <3>1. 1 \in Int /\ Len(rows) \in Int
        BY <2>1
      <3>2. IsFiniteSet(DOMAIN rows)
        BY Zenon, <2>1, <3>1, FS_Interval
      <3>3. ChildrenOf(rows, i) \in SUBSET DOMAIN rows
        BY Zenon DEF ChildrenOf
      <3> QED BY Zenon, <3>2, <3>3, FS_Subset
    <2>3. Siblings(rows, i)
      BY Zenon DEF AInv, DistinctSiblings, Siblings, ChildrenOf
    <2>4. \A c \in ChildrenOf(rows, i) : rows[c].name \in Nat
      <3> SUFFICES ASSUME NEW c \in DOMAIN rows PROVE rows[c].name \in Nat
        BY Zenon DEF ChildrenOf
      <3>1. rows[c] \in RowSet
        BY <2>1
      <3>2. rows[c].name \in {n.name : n \in Nodes} \cup {0}
        BY Zenon, <3>1 DEF RowSet
      <3>3. \A n \in Nodes : n.name \in Nat
        BY Zenon, DecodeAssumption DEF Nodes, IsNode
      <3> QED BY <3>2, <3>3
    <2> QED BY Zenon, <2>2, <2>3, <2>4, Listed
  <1> HIDE DEF listing, i
  <1>5. /\ Plain(r) \/ r.st \in {"list", "notfound", "node"}
        /\ r.st = "list" => r.nodes = listing
        /\ r.st = "notfound" => found = {}
        /\ r.st = "node" => \E c \in found : r.node = Project(rows, c)
    <2>1. CASE life # "active"
      BY Zenon, <2>1 DEF Err, Plain
    <2>2. CASE life = "active" /\ op[t].fn = "list"
      BY Zenon, <2>2
    <2>3. CASE life = "active" /\ op[t].fn # "list" /\ found = {}
      BY Zenon, <2>3 DEF Err
    <2>4. CASE life = "active" /\ op[t].fn # "list" /\ found # {}
      <3>1. r = [st |-> "node", node |-> Project(rows, CHOOSE c \in found : TRUE)]
        BY Zenon, <2>4
      <3>2. (CHOOSE c \in found : TRUE) \in found
        BY Zenon, <2>4
      <3> HIDE DEF r, found
      <3> QED BY Zenon, <3>1, <3>2
    <2> QED BY Zenon, <2>1, <2>2, <2>3, <2>4
  <1>6. pc'[t] = "idle" /\ res'[t] = r
    BY Zenon, <1>1, <1>3 DEF Answer, Goto
  <1> HIDE DEF r
  <1>7. r.st # "bytes"
    BY Zenon, <1>5 DEF Plain
  <1>8. r.st \in {"notfound", "node", "list"} => LoadAnswer(t)'
    BY Zenon, <1>2, <1>3, <1>4, <1>5, <1>6 DEF LoadAnswer, i
  <1> QED BY Zenon, <1>6, <1>7, <1>8 DEF Holds

\* read_file_range answers from the bytes of the row's digest.
LEMMA ReadHolds ==
  ASSUME SInv, AInv, NEW t \in Thread, ReadRange(t)
  PROVE  Holds(t)'
  <1> DEFINE b == call[t].bytes
             r == [st |-> "bytes", bytes |-> ReadFileRange(b, op[t].offset, op[t].size)]
  <1>1. DOMAIN pc = Thread /\ DOMAIN res = Thread
    BY DEF SInv, Types, AInv, ResInv
  <1>2. /\ pc[t] = "fetch" /\ ~Loads(t) /\ call[t].st = "ok"
        /\ Answer(t, r) /\ UNCHANGED rows /\ UNCHANGED op
    BY Zenon DEF ReadRange, Exit
  <1>3. op[t].fn = "read"
    BY Zenon, <1>2 DEF SInv, LockInv, Loads
  <1>4. op[t].inode \in DOMAIN rows /\ call[t].dig = rows[op[t].inode].content
    BY Zenon, <1>2 DEF SInv, FetchInv
  <1>5. b \in Blob /\ DigestOf(b) = call[t].dig
    <2>1. call[t] \in CallSet
      BY Zenon DEF SInv, Types
    <2>2. b \in Blob
      BY SMTT(30), <1>2, <2>1 DEF CallSet
    <2> QED BY Zenon, <1>2, <2>2 DEF SInv, AnsweredInv
  <1>6. pc'[t] = "idle" /\ res'[t] = r
    BY Zenon, <1>1, <1>2 DEF Answer, Goto
  <1>a. r.st = "bytes" /\ r.bytes = ReadFileRange(b, op[t].offset, op[t].size)
    BY Zenon
  <1> HIDE DEF r, b
  <1>7. ReadAnswer(t)'
    BY Zenon, <1>2, <1>3, <1>4, <1>5, <1>6, <1>a DEF ReadAnswer
  <1>8. res'[t].st = "bytes"
    BY Zenon, <1>6, <1>a
  <1> QED BY Zenon, <1>6, <1>7, <1>8 DEF Holds

\* A step keeps every answer true, of its thread and of the others.
LEMMA AnswersNext == SInv /\ AInv /\ [Next]_vars => AInv'
  <1> SUFFICES ASSUME SInv, AInv, [Next]_vars PROVE AInv'
    BY Zenon
  <1>0. DistinctSiblings /\ ReadyInv /\ ResInv
    BY Zenon DEF AInv
  <1>1. ASSUME NEW t \in Thread, Start(t) \/ Step(t) PROVE AInv'
    <2>1. Grows(t) /\ Moves(t) /\ Frame(t)
      BY Zenon, <1>0, <1>1, StepGrows, StepMoves, FrameNext
    <2>2. DOMAIN res' = Thread /\ \A u \in Thread \ {t} : res'[u] = res[u]
      BY Zenon, <1>0, <1>1, ResFrame
    <2>3. ASSUME NEW u \in Thread, pc'[u] = pc[u], op'[u] = op[u], res'[u] = res[u]
          PROVE  Ready(u)' /\ Holds(u)'
      <3>1. Holds(u) /\ Ready(u)
        BY Zenon, <1>0 DEF ResInv, ReadyInv
      <3>2. Holds(u)'
        BY Zenon, <2>1, <2>3, <3>1, AnswerStays
      <3>3. Loads(u)' <=> Loads(u)
        BY Zenon, <2>3 DEF Loads
      <3>4. \A j \in DOMAIN rows : j \in DOMAIN rows' /\ (rows[j].loaded => rows'[j].loaded)
        BY Zenon, <2>1 DEF Grows
      <3>5. Ready(u)'
        BY Zenon, <2>3, <3>1, <3>3, <3>4 DEF Ready
      <3> QED BY Zenon, <3>2, <3>5
    <2>4. ASSUME pc'[t] = "idle", Holds(t)' PROVE Ready(t)' /\ Holds(t)'
      BY Zenon, <2>4 DEF Ready
    <2>5. Ready(t)' /\ Holds(t)'
      <3>1. CASE pc'[t] = pc[t] /\ op'[t] = op[t] /\ res'[t] = res[t]
        BY Zenon, <2>3, <3>1
      <3>2. CASE GoesOn(t)
        BY <3>2 DEF GoesOn, Holds, None
      <3>3. CASE Returns(t)
        BY Zenon, <2>4, <3>3 DEF Returns, Plain, Holds
      <3>4. ASSUME NEW r, Answer(t, r) PROVE pc'[t] = "idle" /\ res'[t] = r
        BY Zenon, <1>0, <3>4 DEF SInv, Types, Answer, Goto, ResInv
      <3>5. CASE Query(t)
        <4>1. pc'[t] = "idle"
          BY Zenon, <3>4, <3>5 DEF Query
        <4> QED BY Zenon, <2>4, <3>5, <4>1, QueryHolds
      <3>6. CASE ReadRange(t)
        <4>1. pc'[t] = "idle"
          BY Zenon, <3>4, <3>6 DEF ReadRange, Exit
        <4> QED BY Zenon, <2>4, <3>6, <4>1, ReadHolds
      <3>7. CASE GetInode(t)
        <4>1. PICK r : Answer(t, r) /\ r.st # "bytes"
          <5> DEFINE a == Err("precondition")
                     b == Err("noinode")
                     c == [st |-> "node", node |-> Project(rows, op[t].inode)]
          <5>1. Answer(t, a) \/ Answer(t, b) \/ Answer(t, c)
            BY Zenon, <3>7 DEF GetInode
          <5>2. a.st # "bytes" /\ b.st # "bytes" /\ c.st # "bytes"
            BY Zenon DEF Err
          <5> HIDE DEF a, b, c
          <5> QED BY Zenon, <5>1, <5>2
        <4>2. pc'[t] = "idle" /\ res'[t] = r
          BY Zenon, <3>4, <4>1
        <4>3. op[t].fn = "get" /\ op' = op
          BY Zenon, <1>0, <3>7 DEF GetInode, ReadyInv, Ready
        <4>4. ~Loads(t)'
          BY Zenon, <4>3 DEF Loads
        <4> QED BY Zenon, <2>4, <4>1, <4>2, <4>4 DEF Holds
      <3> QED BY Zenon, <2>1, <3>1, <3>2, <3>3, <3>5, <3>6, <3>7 DEF Moves
    <2>6. \A u \in Thread : Ready(u)' /\ Holds(u)'
      BY Zenon, <2>1, <2>2, <2>3, <2>5 DEF Frame
    <2>7. DistinctSiblings'
      BY Zenon, <1>0, <2>1, SiblingsNext
    <2> QED BY Zenon, <2>2, <2>6, <2>7 DEF AInv, ReadyInv, ResInv
  <1>2. CASE UNCHANGED vars
    <2>1. UNCHANGED <<rows, pc, op, res>>
      BY Zenon, <1>2 DEF vars, sessVars
    <2> QED BY Zenon, <1>0, <2>1 DEF AInv, DistinctSiblings, ReadyInv, Ready, Loads, ResInv,
               Holds, LoadAnswer, ReadAnswer
  <1> QED BY Zenon, <1>1, <1>2 DEF Next

\* A new session has one row and has answered nothing.
LEMMA InitAInv == Init => AInv
  <1> SUFFICES ASSUME Init PROVE AInv
    BY Zenon
  <1>1. /\ DOMAIN res = Thread
        /\ \A t \in Thread : pc[t] = "idle" /\ res[t] = None
    BY Zenon DEF Init
  <1>2. \A t \in Thread : res[t].st = "none"
    BY <1>1 DEF None
  <1>3. ReadyInv /\ ResInv
    BY Zenon, <1>1, <1>2 DEF ReadyInv, Ready, ResInv, Holds
  <1>4. \A c, d \in DOMAIN rows : c = d
    BY DEF Init, NewTable
  <1> QED BY Zenon, <1>3, <1>4 DEF AInv, DistinctSiblings

\* Answers hold of the table for as long as a thread has them.
THEOREM AnswersInvariant == Spec => [](SInv /\ AInv)
  <1>1. Init => SInv /\ AInv
    BY InitSInv, InitAInv
  <1>2. SInv /\ AInv /\ [Next]_vars => (SInv /\ AInv)'
    BY NextSInv, AnswersNext
  <1> QED BY <1>1, <1>2, PTL DEF Spec

\* A read answers the bytes of the file's digest at the offset, all that were
\* asked for unless the file ends before, for any file, offset and size.
THEOREM ReadsAreFaithful == Spec => []ReadIsFaithful
  <1>1. SInv /\ AInv => ReadIsFaithful
    <2> SUFFICES ASSUME SInv, AInv, NEW t \in Thread, res[t].st = "bytes"
                 PROVE  LET b == CHOOSE x \in Blob : DigestOf(x) = rows[op[t].inode].content
                            wanted == {p \in DOMAIN b : op[t].offset < p
                                                        /\ p <= op[t].offset + op[t].size}
                        IN /\ Len(res[t].bytes) = Cardinality(wanted)
                           /\ \A p \in wanted : res[t].bytes[p - op[t].offset] = b[p]
      BY Zenon DEF ReadIsFaithful
    <2>1. ReadAnswer(t)
      BY Zenon DEF AInv, ResInv, Holds
    <2>2. PICK b \in Blob : /\ rows[op[t].inode].content = DigestOf(b)
                            /\ res[t].bytes = ReadFileRange(b, op[t].offset, op[t].size)
      BY Zenon, <2>1 DEF ReadAnswer
    <2>3. (CHOOSE x \in Blob : DigestOf(x) = rows[op[t].inode].content) = b
      BY Zenon, <2>2, BlobAssumption
    <2>4. op[t].offset \in Nat /\ op[t].size \in Nat
      <3>1. IsOp(op[t])
        BY Zenon, CallAssumption DEF SInv, Types, OpType
      <3>2. op[t].fn = "read"
        BY Zenon, <2>1 DEF ReadAnswer
      <3> QED BY Zenon, <3>1, <3>2 DEF IsOp
    <2>5. b \in Seq(Chunk)
      BY Zenon, BlobAssumption
    <2> DEFINE wanted == {p \in DOMAIN b : op[t].offset < p
                                           /\ p <= op[t].offset + op[t].size}
    <2>6. /\ Len(ReadFileRange(b, op[t].offset, op[t].size)) = Cardinality(wanted)
          /\ \A p \in wanted :
                ReadFileRange(b, op[t].offset, op[t].size)[p - op[t].offset] = b[p]
      BY Zenon, <2>4, <2>5, RangeRead
    <2>7. /\ Len(res[t].bytes) = Cardinality(wanted)
          /\ \A p \in wanted : res[t].bytes[p - op[t].offset] = b[p]
      <3> HIDE DEF wanted
      <3> QED BY Zenon, <2>2, <2>6
    <2> QED BY Zenon, <2>3, <2>7
  <1> QED BY <1>1, AnswersInvariant, PTL

\* A lookup or a listing answers what the remote Directory of the parent says,
\* for every tree, every interleaving and every load and close meanwhile.
THEOREM AnswersAreTheTree == Spec => []AnswersMatchTree
  <1>1. SInv /\ AInv => AnswersMatchTree
    <2> DEFINE entry(n) == [name |-> n.name, kind |-> n.kind,
                            mode |-> rows[n.inode].mode,
                            mtime |-> rows[n.inode].mtime,
                            content |-> rows[n.inode].content]
    <2>1. ASSUME SInv, AInv, NEW t \in Thread, Loads(t),
                 res[t].st \in {"notfound", "node", "list"}
          PROVE  LET i == op[t].inode
                     entries == Range(Remote(rows[i].content))
                 IN /\ res[t].st = "notfound" => ~\E e \in entries : e.name = op[t].name
                    /\ res[t].st = "node" =>
                         /\ res[t].node.name = op[t].name
                         /\ res[t].node = Project(rows, res[t].node.inode)
                         /\ res[t].node.parent = i
                         /\ entry(res[t].node) \in entries
                    /\ res[t].st = "list" =>
                         /\ {entry(res[t].nodes[k]) : k \in DOMAIN res[t].nodes} = entries
                         /\ \A j, k \in DOMAIN res[t].nodes :
                               j < k => res[t].nodes[j].name < res[t].nodes[k].name
      <3> DEFINE i == op[t].inode
                 entries == Range(Remote(rows[i].content))
                 S == ChildrenOf(rows, i)
      <3>1. LoadAnswer(t)
        BY Zenon, <2>1 DEF AInv, ResInv, Holds
      <3>2. i \in DOMAIN rows /\ rows[i].loaded
        BY Zenon, <3>1 DEF LoadAnswer
      <3>3. rows[i].kind = "directory" /\ i # 0
        <4>1. rows[i].kind = "directory"
          BY Zenon, <2>1, <3>2 DEF SInv, Types, Table
        <4>2. rows \in Seq(RowSet)
          BY Zenon, <2>1 DEF SInv, Types, Table
        <4>3. i # 0
          BY <3>2, <4>2
        <4> QED BY Zenon, <4>1, <4>3
      <3>4. {NodeOf(rows[c]) : c \in S} = entries
        BY Zenon, <2>1, <3>2, <3>3 DEF SInv, LoadedComplete
      <3>5. ASSUME NEW c \in S
            PROVE  /\ entry(Project(rows, c)) = NodeOf(rows[c])
                   /\ Project(rows, c).inode = c
                   /\ Project(rows, c).name = rows[c].name
                   /\ Project(rows, c).parent = i
        <4>1. rows[c].parent = i
          BY Zenon DEF ChildrenOf
        <4>2. /\ Project(rows, c).inode = c /\ Project(rows, c).name = rows[c].name
              /\ Project(rows, c).kind = rows[c].kind
              /\ Project(rows, c).parent = i
          <5> HIDE DEF i
          <5> QED BY Zenon, <3>3, <4>1 DEF Project
        <4>3. entry(Project(rows, c)) = NodeOf(rows[c])
          BY Zenon, <4>2 DEF NodeOf
        <4> QED BY Zenon, <4>2, <4>3
      <3>6. \A c : NodeOf(rows[c]).name = rows[c].name
        BY DEF NodeOf
      <3> HIDE DEF entries, i, entry
      <3>7. ASSUME res[t].st = "notfound", NEW e \in entries PROVE e.name # op[t].name
        <4>1. PICK c \in S : e = NodeOf(rows[c])
          BY Zenon, <3>4
        <4>2. NamedChild(rows, i, op[t].name) = {}
          BY Zenon, <3>1, <3>7 DEF LoadAnswer, i
        <4> QED BY Zenon, <3>6, <4>1, <4>2 DEF NamedChild
      <3>8. ASSUME res[t].st = "node"
            PROVE  /\ res[t].node.name = op[t].name
                   /\ res[t].node = Project(rows, res[t].node.inode)
                   /\ res[t].node.parent = i
                   /\ entry(res[t].node) \in entries
        <4>1. PICK c \in NamedChild(rows, i, op[t].name) : res[t].node = Project(rows, c)
          BY Zenon, <3>1, <3>8 DEF LoadAnswer, i
        <4>2. c \in S /\ rows[c].name = op[t].name
          BY Zenon DEF NamedChild
        <4> QED BY Zenon, <3>4, <3>5, <4>1, <4>2
      <3>9. ASSUME res[t].st = "list"
            PROVE  /\ {entry(res[t].nodes[k]) : k \in DOMAIN res[t].nodes} = entries
                   /\ \A j, k \in DOMAIN res[t].nodes :
                         j < k => res[t].nodes[j].name < res[t].nodes[k].name
        <4> DEFINE ns == res[t].nodes
        <4>1. ListAnswer(rows, i, ns)
          BY Zenon, <3>1, <3>9 DEF LoadAnswer, i
        <4> HIDE DEF ns
        <4>2. \A k \in DOMAIN ns : /\ ns[k].inode \in S
                                   /\ entry(ns[k]) = NodeOf(rows[ns[k].inode])
          BY Zenon, <3>5, <4>1 DEF ListAnswer
        <4>3. \A c \in S : \E k \in DOMAIN ns : ns[k].inode = c
          BY Zenon, <4>1 DEF ListAnswer
        <4>4. {entry(ns[k]) : k \in DOMAIN ns} = {NodeOf(rows[c]) : c \in S}
          <5>1. ASSUME NEW k \in DOMAIN ns
                PROVE  entry(ns[k]) \in {NodeOf(rows[c]) : c \in S}
            BY Zenon, <4>2
          <5>2. ASSUME NEW c \in S PROVE \E k \in DOMAIN ns : entry(ns[k]) = NodeOf(rows[c])
            BY Zenon, <4>2, <4>3
          <5> QED BY Zenon, <5>1, <5>2
        <4>5. \A j, k \in DOMAIN ns : j < k => ns[j].name < ns[k].name
          BY Zenon, <4>1 DEF ListAnswer
        <4> QED BY Zenon, <3>4, <4>4, <4>5 DEF ns
      <3> QED BY Zenon, <3>7, <3>8, <3>9 DEF entries, i, entry
    <2> QED BY Zenon, <2>1 DEF AnswersMatchTree
  <1> QED BY <1>1, AnswersInvariant, PTL
===============================================================================
