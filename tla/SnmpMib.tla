------------------------------- MODULE SnmpMib -------------------------------
(***************************************************************************)
(* The MIB of the simulated switch (snmp_mib.c): a table of leaves in walk *)
(* order, each with an object identifier derived from its place.  A leaf   *)
(* is its index in the table, and 0 is no leaf.  Values are left out.      *)
(***************************************************************************)
EXTENDS Naturals, Sequences

CONSTANT Rows     \* sim_switch_if_count()

ASSUME RowsAssumption == Rows \in Nat \ {0}

\* if_columns[]
Columns == <<1, 2, 3, 4, 5, 7, 8, 10, 11, 16, 17>>

System == <<1, 3, 6, 1, 2, 1, 1>>
IfNumber == <<1, 3, 6, 1, 2, 1, 2, 1, 0>>
IfEntry == <<1, 3, 6, 1, 2, 1, 2, 2, 1>>
SysObjectId == <<1, 3, 6, 1, 4, 1, 99999, 1>>

Scalars == 8
Cells == Len(Columns) * Rows
FirmwareScalars == 3
LeafCount == Scalars + Cells + FirmwareScalars
Leaves == 1 .. LeafCount
NoLeaf == 0

Cell(i) == i - Scalars - 1
ColumnOf(i) == Columns[1 + (Cell(i) \div Rows)]
RowOf(i) == 1 + (Cell(i) % Rows)

\* mib_init() and mib_leaf_oid(): system scalars, ifNumber, the columns of the
\* interface table, each with all its rows, and the firmware's scalars.
LeafOid(i) ==
  CASE i < Scalars           -> System \o <<i, 0>>
    [] i = Scalars           -> IfNumber
    [] i \in Scalars + 1 .. Scalars + Cells -> IfEntry \o <<ColumnOf(i), RowOf(i)>>
    [] i > Scalars + Cells   -> SysObjectId \o <<i - Scalars - Cells, 0>>

\* oid_cmp() < 0: at the first difference, or where the shorter one ends.
OidLess(a, b) ==
  \E i \in 1 .. Len(b) :
    /\ i <= Len(a) + 1
    /\ \A j \in 1 .. i - 1 : a[j] = b[j]
    /\ i <= Len(a) => a[i] < b[i]

First(test) == IF test = {} THEN NoLeaf ELSE CHOOSE i \in test : \A j \in test : i <= j

\* mib_get_exact(), mib_get_next() and mib_next_leaf()
GetExact(oid) == First({i \in Leaves : LeafOid(i) = oid})
GetNext(oid) == First({i \in Leaves : OidLess(oid, LeafOid(i))})
NextLeaf(i) == IF i + 1 > LeafCount THEN NoLeaf ELSE i + 1
=============================================================================
