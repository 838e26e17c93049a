------------------------------ MODULE WalkPick -------------------------------
(***************************************************************************)
(* From an SNMP walk to an exporter module: the varbinds are clustered     *)
(* into scalars and tables (walkcluster.go), what the shipped library does *)
(* not scrape is drafted as a pick (walkcover.go, walkpick.go), and the    *)
(* pick becomes a module.  An OID is a sequence of numbers, a varbind      *)
(* [oid, type], a walk a sequence of varbinds, the library a set of OIDs.  *)
(* Names and samples are left out.                                         *)
(***************************************************************************)
EXTENDS Integers, Sequences, FiniteSets, SequencesExt, Lists

CONSTANTS
  MaxPieces,    \* 8 in the code: the longest index a lone column may have
  LongIndex,    \* 6 in the code: from here on a lone column needs three rows
  StringTypes,  \* types that are texts: isStringType
  LabelTypes    \* these and IpAddress: the types DraftPick makes labels of

ASSUME WalkAssumption ==
  /\ MaxPieces \in Nat /\ LongIndex \in Nat
  /\ StringTypes \subseteq LabelTypes

Oids(walk)     == {v.oid : v \in Range(walk)}
Under(O, p)    == {o \in O : IsPrefix(p, o)}
Parent(o)      == SubSeq(o, 1, Len(o) - 1)
DotZero(o)     == Last(o) = 0

OidLess(a, b) ==
  \/ IsStrictPrefix(a, b)
  \/ \E i \in 1 .. Len(a) : /\ i <= Len(b) /\ a[i] < b[i]
                            /\ \A j \in 1 .. i - 1 : a[j] = b[j]

FilterWalk(walk, prefix) ==
  ElementsAt(walk, {i \in DOMAIN walk : IsPrefix(prefix, walk[i].oid)})

-----------------------------------------------------------------------------
(* The trie of a walk, as the set of its OIDs.                             *)

Nodes(O)       == UNION {{SubSeq(o, 1, n) : n \in 0 .. Len(o)} : o \in O}
ChildKeys(O, p) == {o[Len(p) + 1] : o \in Under(O, p) \ {p}}
IsLeaf(O, p)   == p \in O /\ ChildKeys(O, p) = {}
InstanceSuffixes(O, p) ==
  {SubSeq(o, Len(p) + 1, Len(o)) : o \in {q \in Under(O, p) : IsLeaf(O, q)}}
SameLen(suffixes) == \A s, t \in suffixes : Len(s) = Len(t)

\* Mutant: any child with children of its own looks like a column.
ColumnLikeAny(O, c) == ~IsLeaf(O, c)

\* A child looks like a column when its instances have equally long indexes.
ColumnLike(O, c) == ~IsLeaf(O, c) /\ SameLen(InstanceSuffixes(O, c))

Pieces(O, c) == Len(CHOOSE s \in InstanceSuffixes(O, c) : TRUE)
Alike(O, c, d) ==
  /\ Pieces(O, c) = Pieces(O, d)
  /\ InstanceSuffixes(O, c) \cap InstanceSuffixes(O, d) # {}

\* The columns of an entry that go with column k.
GroupOf(O, p, k) ==
  {j \in ChildKeys(O, p) :
     /\ j >= k /\ ColumnLike(O, Append(p, k)) /\ ColumnLike(O, Append(p, j))
     /\ j = k \/ Alike(O, Append(p, k), Append(p, j))}

Rows(O, p, cols) == UNION {InstanceSuffixes(O, Append(p, k)) : k \in cols}

\* visit: the first group of two columns or more makes the table of this
\* entry, unless its only row is .0.
TablesOf(O, p) ==
  LET fit == {k \in ChildKeys(O, p) :
                LET cols == GroupOf(O, p, k)
                IN  Cardinality(cols) >= 2 /\ Rows(O, p, cols) # {<<0>>}}
  IN  {[entry |-> p, columns |-> GroupOf(O, p, k),
        pieces |-> Pieces(O, Append(p, k))] :
         k \in {k \in fit : \A j \in fit : k <= j}}

ColumnOids(t) == {Append(t.entry, k) : k \in t.columns}

\* Mutant: all of the entry is marked, its other children too.
MarkEntry(O, tables) == UNION {Under(O, t.entry) : t \in tables}

\* markSubtree of every column.
Mark(O, tables) == UNION {UNION {Under(O, c) : c \in ColumnOids(t)} : t \in tables}

-----------------------------------------------------------------------------
(* clusterSingleColumns: what is left is grouped by all but its last n     *)
(* numbers.  A group counts varbinds, a table's rows are distinct.         *)

Instances(left, col, n) ==
  {i \in DOMAIN left : Len(left[i].oid) = Len(col) + n /\ IsPrefix(col, left[i].oid)}
LoneRows(left, col, n) == Cardinality({left[i].oid : i \in Instances(left, col, n)})

Groups(left, col, n) ==
  LET vs == Instances(left, col, n)
  IN  Cardinality(vs) >= 2 /\ \E i \in vs : ~DotZero(left[i].oid)

\* The index length that is kept for a column, 0 when there is none.
BestPieces(left, col) ==
  LET best[n \in 0 .. MaxPieces] ==
        IF n = 0 THEN 0
        ELSE IF /\ Groups(left, col, n)
                /\ best[n - 1] # 0 =>
                     LoneRows(left, col, best[n - 1]) < Cardinality(Instances(left, col, n))
        THEN n ELSE best[n - 1]
  IN  best[MaxPieces]

\* Columns are taken longest first.  The code means to skip one whose
\* instances a longer column has claimed, but the test it makes (that the
\* column begins with a longer OID) is never true, so none is skipped.
SingleColumns(left) ==
  LET cols == {c \in Nodes(Oids(left)) \ {<<>>} : BestPieces(left, c) # 0}
      table(c) == [entry |-> Parent(c), columns |-> {Last(c)}, pieces |-> BestPieces(left, c)]
  IN  {table(c) : c \in {c \in cols :
         BestPieces(left, c) < LongIndex \/ LoneRows(left, c, BestPieces(left, c)) >= 3}}

ClusterWalk(walk) ==
  LET O      == Oids(walk)
      tables == UNION {TablesOf(O, p) : p \in Nodes(O)}
      used   == Mark(O, tables)
      left   == ElementsAt(walk, {i \in DOMAIN walk : walk[i].oid \notin used})
      lone   == SingleColumns(left)
  IN  [tables |-> tables, lone |-> lone, scalars |-> Oids(left) \ Mark(O, lone)]

-----------------------------------------------------------------------------
(* DraftPick and EmitPickModule.                                           *)

\* A scalar has the type of its first varbind.  byOID keeps the last one of an
\* OID, and a column has the type of the least of the OIDs it was made from.
ScalarType(walk, oid) == walk[CHOOSE i \in DOMAIN walk : /\ walk[i].oid = oid
                                /\ \A j \in DOMAIN walk : walk[j].oid = oid => i <= j].type
TypeAt(walk, oid) == walk[CHOOSE i \in DOMAIN walk : /\ walk[i].oid = oid
                            /\ \A j \in DOMAIN walk : walk[j].oid = oid => j <= i].type
ColumnType(walk, from, c) ==
  LET under == Under(from, c)
  IN  TypeAt(walk, CHOOSE o \in under : \A q \in under \ {o} : OidLess(o, q))

\* Lookup: an OID of the library, or below one.
Lookup(lib, oid) == \E h \in lib : IsPrefix(h, oid)

DraftTable(walk, lib, t, from) ==
  LET new == {k \in t.columns : ~Lookup(lib, Append(t.entry, k))}
      labels == {k \in new : ColumnType(walk, from, Append(t.entry, k)) \in LabelTypes}
  IN  [entry |-> t.entry, pieces |-> t.pieces, metrics |-> new \ labels, labels |-> labels]

\* A lone column was made from the varbinds that were left, with its index length.
DraftTables(walk, cat, lib) ==
  LET O       == Oids(walk)
      rows(t) == {o \in O \ Mark(O, cat.tables) : Len(o) = Len(t.entry) + 1 + t.pieces}
  IN  {DraftTable(walk, lib, t, O) : t \in cat.tables} \cup
      {DraftTable(walk, lib, t, rows(t)) : t \in cat.lone}

DraftPick(walk, cat, lib) ==
  [scalars |-> {o \in cat.scalars : ~Lookup(lib, o) /\ ScalarType(walk, o) \notin StringTypes},
   tables  |-> {d \in DraftTables(walk, cat, lib) : d.metrics # {}}]

\* LoadPickFile and the error of EmitPickModule.
Emits(pick) ==
  /\ pick.scalars # {} \/ pick.tables # {}
  /\ \A t \in pick.tables : t.metrics # {}

\* A scalar is fetched at its .0 instance, a table by its columns.
EmitPickModule(pick) ==
  [get  |-> {IF DotZero(o) THEN o ELSE Append(o, 0) : o \in pick.scalars},
   walk |-> UNION {{Append(t.entry, k) : k \in t.metrics \cup t.labels} : t \in pick.tables}]
=============================================================================
