----------------------------- MODULE SnmpProofs -----------------------------
(***************************************************************************)
(* Proofs about the SNMP firmware, for all numbers of interfaces, contexts *)
(* and timeouts.  The table of snmp_mib.c is in the order of its names     *)
(* (WalkOrder); so the search for a name finds its neighbour in the table  *)
(* (CursorIsLookup) and the name itself finds its own leaf                 *)
(* (ExactIsLookup).  What the codec reads it writes back (IntegersReturn,  *)
(* OidsReturn).  With these, every answer is the one that the manager      *)
(* expects (AgentConforms), those to a GETBULK by an invariant of the      *)
(* walkers of plan_getbulk() (BulkAnswers).  The watchdog never resets a   *)
(* device whose contexts work, and a manager that gets all traps follows   *)
(* the interfaces.                                                         *)
(***************************************************************************)
EXTENDS SnmpDevice, RecursionTheorems, FiniteSetTheorems, TLAPS

-----------------------------------------------------------------------------
(* Names are compared by the arcs in which they can differ: 5 (mgmt or     *)
(* private), 7 (group), 8 to 11 (place in a group).                        *)

\* Division with remainder, and what it does to the order of two numbers.
LEMMA Division ==
  ASSUME NEW n \in Nat, NEW d \in Nat \ {0}
  PROVE  /\ n \div d \in Nat /\ n % d \in Nat
         /\ n % d < d
         /\ n = d * (n \div d) + (n % d)
BY SMT

LEMMA Quotients ==
  ASSUME NEW m \in Nat, NEW n \in Nat, NEW d \in Nat \ {0}, m < n
  PROVE  m \div d < n \div d \/ (m \div d = n \div d /\ m % d < n % d)
<1> DEFINE p == m \div d
           q == n \div d
           r == m % d
           s == n % d
<1>1. /\ p \in Nat /\ q \in Nat /\ r \in Nat /\ s \in Nat
      /\ r < d /\ s < d /\ m = d * p + r /\ n = d * q + s
  BY Division
<1>2. ASSUME q < p PROVE FALSE
  <2>1. PICK k \in Nat : p = q + 1 + k
    BY <1>1, <1>2
  <2>2. d * p = d * q + d + d * k /\ d * k >= 0
    BY <2>1, <1>1
  <2> HIDE DEF p, q, r, s
  <2>3. QED
    BY <2>2, <1>1
<1> HIDE DEF p, q, r, s
<1>3. p < q \/ (p = q /\ r < s)
  <2>1. CASE p = q
    BY <2>1, <1>1
  <2>2. QED
    BY <2>1, <1>1, <1>2
<1>4. QED
  BY <1>3 DEF p, q, r, s

-----------------------------------------------------------------------------
(* The names of the leaves, arc by arc                                     *)

LEMMA Shape == /\ Scalars = 8 /\ FirmwareScalars = 3 /\ Cells = 11 * Rows
               /\ Cells \in Nat /\ Cells >= 11
               /\ LeafCount = 11 + Cells /\ Leaves = 1 .. 11 + Cells
BY RowsAssumption DEF Scalars, FirmwareScalars, Cells, Columns, LeafCount, Leaves

\* A prefix and two arcs.
Under(prefix, x, y) == prefix \o <<x, y>>

IsUnder(name, prefix, x, y) ==
  /\ name \in Seq(Nat) /\ Len(name) = Len(prefix) + 2
  /\ \A k \in 1 .. Len(prefix) : name[k] = prefix[k]
  /\ name[Len(prefix) + 1] = x /\ name[Len(prefix) + 2] = y

LEMMA Named ==
  ASSUME NEW prefix \in Seq(Nat), NEW x \in Nat, NEW y \in Nat
  PROVE  IsUnder(Under(prefix, x, y), prefix, x, y)
BY DEF Under, IsUnder

\* The arcs all names share.
Common(name) == name[1] = 1 /\ name[2] = 3 /\ name[3] = 6 /\ name[4] = 1 /\ name[6] = 1

LEMMA SystemIs ==
  /\ System \in Seq(Nat) /\ Len(System) = 7
  /\ Common(System) /\ System[5] = 2 /\ System[7] = 1
BY DEF System, Common

LEMMA NumberIs ==
  /\ IfNumber \in Seq(Nat) /\ Len(IfNumber) = 9
  /\ Common(IfNumber) /\ IfNumber[5] = 2 /\ IfNumber[7] = 2 /\ IfNumber[8] = 1
BY DEF IfNumber, Common

LEMMA EntryIs ==
  /\ IfEntry \in Seq(Nat) /\ Len(IfEntry) = 9
  /\ Common(IfEntry) /\ IfEntry[5] = 2 /\ IfEntry[7] = 2 /\ IfEntry[8] = 2 /\ IfEntry[9] = 1
BY DEF IfEntry, Common

LEMMA SysObjectIs ==
  /\ SysObjectId \in Seq(Nat) /\ Len(SysObjectId) = 8
  /\ Common(SysObjectId) /\ SysObjectId[5] = 4 /\ SysObjectId[7] = 99999
  /\ SysObjectId[8] = 1
BY DEF SysObjectId, Common

LEMMA CellPlace ==
  ASSUME NEW i \in 9 .. 8 + Cells
  PROVE  /\ Cell(i) \in Nat /\ Cell(i) \div Rows \in 0 .. 10
         /\ ColumnOf(i) \in Nat /\ RowOf(i) \in 1 .. Rows
<1>1. Cell(i) \in 0 .. 11 * Rows - 1
  BY Shape DEF Cell
<1>2. Cell(i) \div Rows \in Nat /\ Cell(i) % Rows \in 0 .. Rows - 1
  BY <1>1, Division, RowsAssumption
<1>3. Cell(i) \div Rows \in 0 .. 10
  BY <1>1, RowsAssumption, SMT
<1>4. QED
  BY <1>1, <1>2, <1>3, RowsAssumption DEF ColumnOf, RowOf, Columns

\* What the name of a leaf is, as far as two names need be compared.
Arcs(name) == name \in Seq(Nat) /\ Common(name)

Leads(name, prefix, x, y) ==
  /\ Arcs(name) /\ Len(name) = Len(prefix) + 2
  /\ name[5] = prefix[5] /\ name[7] = prefix[7]
  /\ Len(prefix) >= 8 => name[8] = prefix[8]
  /\ Len(prefix) >= 9 => name[9] = prefix[9]
  /\ name[Len(prefix) + 1] = x /\ name[Len(prefix) + 2] = y

LEMMA Leading ==
  ASSUME NEW prefix \in Seq(Nat), NEW x \in Nat, NEW y \in Nat,
         NEW name, IsUnder(name, prefix, x, y), Len(prefix) >= 7, Common(prefix)
  PROVE  Leads(name, prefix, x, y)
<1>1. /\ name \in Seq(Nat) /\ Len(name) = Len(prefix) + 2
      /\ \A k \in 1 .. Len(prefix) : name[k] = prefix[k]
      /\ name[Len(prefix) + 1] = x /\ name[Len(prefix) + 2] = y
  BY DEF IsUnder
<1>2. Len(prefix) \in Nat
  OBVIOUS
<1>3. ASSUME NEW k \in Nat, 1 <= k, k <= Len(prefix)
      PROVE  name[k] = prefix[k]
  BY <1>1, <1>2, <1>3
<1>4. /\ name[1] = prefix[1] /\ name[2] = prefix[2] /\ name[3] = prefix[3]
      /\ name[4] = prefix[4] /\ name[6] = prefix[6]
  BY <1>2, <1>3
<1>5. /\ name[5] = prefix[5] /\ name[7] = prefix[7]
      /\ Len(prefix) >= 8 => name[8] = prefix[8]
      /\ Len(prefix) >= 9 => name[9] = prefix[9]
  BY <1>2, <1>3
<1>6. Arcs(name)
  BY <1>1, <1>4 DEF Arcs, Common
<1>7. QED
  BY <1>1, <1>5, <1>6 DEF Leads

LEMMA SystemArcs ==
  ASSUME NEW i \in 1 .. 7
  PROVE  /\ Arcs(LeafOid(i)) /\ Len(LeafOid(i)) = 9
         /\ LeafOid(i)[5] = 2 /\ LeafOid(i)[7] = 1 /\ LeafOid(i)[8] = i
<1>1. LeafOid(i) = Under(System, i, 0)
  <2>1. i < Scalars /\ ~ i = Scalars /\ ~ i \in Scalars + 1 .. Scalars + Cells
        /\ ~ i > Scalars + Cells
    BY Shape
  <2>2. QED
    BY <2>1, Zenon DEF LeafOid, Under
<1>2. IsUnder(LeafOid(i), System, i, 0)
  <2>1. System \in Seq(Nat)
    BY SystemIs
  <2>2. i \in Nat /\ 0 \in Nat
    OBVIOUS
  <2>3. IsUnder(Under(System, i, 0), System, i, 0)
    BY <2>1, <2>2, Named, Zenon
  <2>4. QED
    BY <2>3, <1>1, Zenon
<1>3. Leads(LeafOid(i), System, i, 0)
  <2>1. i \in Nat /\ 0 \in Nat
    BY Shape, RowsAssumption
  <2>2. System \in Seq(Nat) /\ Len(System) >= 7 /\ Common(System)
    BY SystemIs
  <2>3. QED
    BY <1>2, <2>1, <2>2, Leading, Zenon
<1>4. QED
  BY <1>3, SystemIs DEF Leads

LEMMA NumberArcs ==
  /\ Arcs(LeafOid(8)) /\ Len(LeafOid(8)) = 9
  /\ LeafOid(8)[5] = 2 /\ LeafOid(8)[7] = 2 /\ LeafOid(8)[8] = 1
<1>1. LeafOid(8) = IfNumber
  <2>1. ~ 8 < Scalars /\ 8 = Scalars /\ ~ 8 \in Scalars + 1 .. Scalars + Cells
        /\ ~ 8 > Scalars + Cells
    BY Shape
  <2>2. QED
    BY <2>1, Zenon DEF LeafOid
<1>2. QED
  BY <1>1, NumberIs DEF Arcs

LEMMA CellArcs ==
  ASSUME NEW i \in 9 .. 8 + Cells
  PROVE  /\ Arcs(LeafOid(i)) /\ Len(LeafOid(i)) = 11
         /\ LeafOid(i)[5] = 2 /\ LeafOid(i)[7] = 2 /\ LeafOid(i)[8] = 2 /\ LeafOid(i)[9] = 1
         /\ LeafOid(i)[10] = ColumnOf(i) /\ LeafOid(i)[11] = RowOf(i)
<1>1. LeafOid(i) = Under(IfEntry, ColumnOf(i), RowOf(i))
  <2>1. ~ i < Scalars /\ ~ i = Scalars /\ i \in Scalars + 1 .. Scalars + Cells
        /\ ~ i > Scalars + Cells
    BY Shape
  <2>2. QED
    BY <2>1, Zenon DEF LeafOid, Under
<1>2. ColumnOf(i) \in Nat /\ RowOf(i) \in Nat
  BY CellPlace, RowsAssumption
<1>3. IsUnder(LeafOid(i), IfEntry, ColumnOf(i), RowOf(i))
  <2>1. IfEntry \in Seq(Nat)
    BY EntryIs
  <2>2. IsUnder(Under(IfEntry, ColumnOf(i), RowOf(i)), IfEntry, ColumnOf(i), RowOf(i))
    BY <2>1, <1>2, Named, Zenon
  <2>3. QED
    BY <2>2, <1>1, Zenon
<1>4. Leads(LeafOid(i), IfEntry, ColumnOf(i), RowOf(i))
  <2>1. ColumnOf(i) \in Nat /\ RowOf(i) \in Nat
    BY <1>2, Shape, RowsAssumption
  <2>2. IfEntry \in Seq(Nat) /\ Len(IfEntry) >= 7 /\ Common(IfEntry)
    BY EntryIs
  <2>3. QED
    BY <1>3, <2>1, <2>2, Leading, Zenon
<1>5. QED
  BY <1>4, EntryIs DEF Leads

LEMMA FirmwareArcs ==
  ASSUME NEW i \in 9 + Cells .. 11 + Cells
  PROVE  /\ Arcs(LeafOid(i)) /\ Len(LeafOid(i)) = 10
         /\ LeafOid(i)[5] = 4 /\ LeafOid(i)[7] = 99999 /\ LeafOid(i)[8] = 1
         /\ LeafOid(i)[9] = i - 8 - Cells
<1>1. LeafOid(i) = Under(SysObjectId, i - 8 - Cells, 0)
  <2>1. ~ i < Scalars /\ ~ i = Scalars /\ ~ i \in Scalars + 1 .. Scalars + Cells
        /\ i > Scalars + Cells /\ i - Scalars - Cells = i - 8 - Cells
    BY Shape
  <2>2. QED
    BY <2>1, Zenon DEF LeafOid, Under
<1>2. i - 8 - Cells \in Nat
  BY Shape
<1>3. IsUnder(LeafOid(i), SysObjectId, i - 8 - Cells, 0)
  <2>1. SysObjectId \in Seq(Nat)
    BY SysObjectIs
  <2>2. i - 8 - Cells \in Nat /\ 0 \in Nat
    BY <1>2
  <2>3. IsUnder(Under(SysObjectId, i - 8 - Cells, 0), SysObjectId, i - 8 - Cells, 0)
    BY <2>1, <2>2, Named, Zenon
  <2>4. QED
    BY <2>3, <1>1, Zenon
<1>4. Leads(LeafOid(i), SysObjectId, i - 8 - Cells, 0)
  <2>1. i - 8 - Cells \in Nat /\ 0 \in Nat
    BY <1>2, Shape, RowsAssumption
  <2>2. SysObjectId \in Seq(Nat) /\ Len(SysObjectId) >= 7 /\ Common(SysObjectId)
    BY SysObjectIs
  <2>3. QED
    BY <1>3, <2>1, <2>2, Leading, Zenon
<1>5. QED
  BY <1>4, SysObjectIs DEF Leads

-----------------------------------------------------------------------------
(* The order of names                                                      *)

\* Two names whose first difference is at k.
LEMMA Differ ==
  ASSUME NEW a \in Seq(Nat), NEW b \in Seq(Nat), NEW k \in 1 .. Len(b),
         k <= Len(a), \A j \in 1 .. k - 1 : a[j] = b[j], a[k] < b[k]
  PROVE  OidLess(a, b)
<1> SUFFICES \E i \in 1 .. Len(b) :
               /\ i <= Len(a) + 1
               /\ \A j \in 1 .. i - 1 : a[j] = b[j]
               /\ i <= Len(a) => a[i] < b[i]
  BY DEF OidLess
<1> WITNESS k \in 1 .. Len(b)
<1> QED
  BY Len(a) \in Nat, k \in Nat

LEMMA Asymmetric ==
  ASSUME NEW a \in Seq(Nat), NEW b \in Seq(Nat), OidLess(a, b)
  PROVE  ~ OidLess(b, a)
<1>1. PICK i \in 1 .. Len(b) : /\ i <= Len(a) + 1
                               /\ \A j \in 1 .. i - 1 : a[j] = b[j]
                               /\ i <= Len(a) => a[i] < b[i]
  BY DEF OidLess
<1>2. SUFFICES ASSUME NEW k \in 1 .. Len(a), k <= Len(b) + 1,
                      \A j \in 1 .. k - 1 : b[j] = a[j],
                      k <= Len(b) => b[k] < a[k]
               PROVE  FALSE
  BY DEF OidLess
<1>3. CASE i < k
  <2>1. a[i] = b[i] /\ i <= Len(a) /\ a[i] \in Nat
    BY <1>1, <1>2, <1>3
  <2>2. QED
    BY <1>1, <2>1
<1>4. CASE k < i
  <2>1. a[k] = b[k] /\ k <= Len(b) /\ a[k] \in Nat
    BY <1>1, <1>2, <1>4
  <2>2. QED
    BY <1>2, <2>1
<1>5. CASE i = k
  <2>1. a[k] \in Nat /\ b[k] \in Nat /\ a[k] < b[k] /\ b[k] < a[k]
    BY <1>1, <1>2, <1>5
  <2>2. QED
    BY <2>1
<1>6. QED
  BY <1>1, <1>2, <1>3, <1>4, <1>5

\* Two names agree up to arc k, given the arcs that can differ before it.
Until(k, a, b) == \A j \in {5, 7, 8, 9, 10} : j < k => a[j] = b[j]

LEMMA Agree ==
  ASSUME NEW a, NEW b, Arcs(a), Arcs(b), NEW k \in {5, 7, 8, 9, 10, 11},
         Len(a) >= k, Len(b) >= k, Until(k, a, b), a[k] < b[k]
  PROVE  OidLess(a, b)
<1>1. a \in Seq(Nat) /\ b \in Seq(Nat) /\ Common(a) /\ Common(b)
  BY DEF Arcs
<1>2. /\ a[1] = b[1] /\ a[2] = b[2] /\ a[3] = b[3] /\ a[4] = b[4] /\ a[6] = b[6]
  BY <1>1 DEF Common
<1>3. ASSUME NEW j \in 1 .. k - 1 PROVE a[j] = b[j]
  <2>1. j \in {1, 2, 3, 4, 6} \/ (j \in {5, 7, 8, 9, 10} /\ j < k)
    OBVIOUS
  <2>2. QED
    BY <2>1, <1>2 DEF Until
<1>4. k \in 1 .. Len(b) /\ k <= Len(a)
  BY <1>1
<1>5. QED
  BY <1>1, <1>3, <1>4, Differ

LEMMA CellOrder ==
  ASSUME NEW i \in 9 .. 8 + Cells, NEW j \in 9 .. 8 + Cells, i < j
  PROVE  \/ ColumnOf(i) < ColumnOf(j)
         \/ ColumnOf(i) = ColumnOf(j) /\ RowOf(i) < RowOf(j)
<1> DEFINE p == Cell(i) \div Rows
           q == Cell(j) \div Rows
<1>1. /\ Cell(i) \in Nat /\ Cell(j) \in Nat /\ p \in 0 .. 10 /\ q \in 0 .. 10
  BY CellPlace
<1>2. Cell(i) < Cell(j)
  BY Shape DEF Cell
<1>3. p < q \/ (p = q /\ Cell(i) % Rows < Cell(j) % Rows)
  BY <1>1, <1>2, Quotients, RowsAssumption
<1>4. ColumnOf(i) = Columns[1 + p] /\ ColumnOf(j) = Columns[1 + q]
  BY DEF ColumnOf
<1>5. RowOf(i) = 1 + (Cell(i) % Rows) /\ RowOf(j) = 1 + (Cell(j) % Rows)
  BY DEF RowOf
<1>6. Cell(i) % Rows \in Nat /\ Cell(j) % Rows \in Nat
  BY <1>1, Division, RowsAssumption
<1> HIDE DEF p, q
<1>7. CASE p < q
  <2>1. Columns[1 + p] < Columns[1 + q]
    BY <1>1, <1>7 DEF Columns
  <2>2. QED
    BY <2>1, <1>4
<1>8. QED
  BY <1>3, <1>4, <1>5, <1>6, <1>7

\* A name long enough to be compared by Agree up to arc 9.
Long(name) == Arcs(name) /\ Len(name) >= 9

LEMMA LongNames ==
  ASSUME NEW i \in Leaves
  PROVE  Long(LeafOid(i))
<1>1. CASE i \in 1 .. 7
  <2>1. Arcs(LeafOid(i)) /\ Len(LeafOid(i)) = 9
    BY <1>1, SystemArcs, Zenon
  <2>2. QED
    BY <2>1 DEF Long
<1>2. CASE i = 8
  <2>1. Arcs(LeafOid(i)) /\ Len(LeafOid(i)) = 9
    BY <1>2, NumberArcs, Zenon
  <2>2. QED
    BY <2>1 DEF Long
<1>3. CASE i \in 9 .. 8 + Cells
  <2>1. Arcs(LeafOid(i)) /\ Len(LeafOid(i)) = 11
    BY <1>3, CellArcs, Zenon
  <2>2. QED
    BY <2>1 DEF Long
<1>4. CASE i \in 9 + Cells .. 11 + Cells
  <2>1. Arcs(LeafOid(i)) /\ Len(LeafOid(i)) = 10
    BY <1>4, FirmwareArcs
  <2>2. QED
    BY <2>1 DEF Long
<1>5. QED
  BY <1>1, <1>2, <1>3, <1>4, Shape

\* What comes before the firmware's scalars has 2 as its fifth arc.
LEMMA Mib2Names ==
  ASSUME NEW i \in 1 .. 8 + Cells
  PROVE  /\ LeafOid(i)[5] = 2
         /\ i >= 8 => LeafOid(i)[7] = 2
         /\ i <= 7 => LeafOid(i)[7] = 1
<1>1. CASE i \in 1 .. 7
  BY <1>1, SystemArcs
<1>2. CASE i = 8
  BY <1>2, NumberArcs
<1>3. CASE i \in 9 .. 8 + Cells
  BY <1>3, CellArcs
<1>4. QED
  BY <1>1, <1>2, <1>3, Shape

(* snmp_mib.c builds its table in the order of the names, whatever the number
   of interfaces: mib_get_next() takes the first leaf that is greater for the
   next one, so a table out of order would make a walk skip or repeat leaves. *)
THEOREM WalkOrder ==
  ASSUME NEW i \in Leaves, NEW j \in Leaves, i < j
  PROVE  OidLess(LeafOid(i), LeafOid(j))
<1> DEFINE a == LeafOid(i)
           b == LeafOid(j)
<1> SUFFICES OidLess(a, b)
  OBVIOUS
<1>0. /\ Arcs(a) /\ Arcs(b) /\ Len(a) >= 9 /\ Len(b) >= 9
  BY LongNames DEF Long
<1>1. CASE i \in 1 .. 7 /\ j \in 1 .. 7
  <2>1. Until(8, a, b) /\ a[8] < b[8]
    BY <1>1, SystemArcs DEF Until
  <2> HIDE DEF a, b
  <2>2. QED
    BY <1>0, <2>1, Agree
<1>2. CASE i \in 1 .. 7 /\ j \in 8 .. 8 + Cells
  <2>1. i \in 1 .. 8 + Cells /\ j \in 1 .. 8 + Cells
    BY <1>2, Shape
  <2>2. a[5] = b[5] /\ a[7] = 1 /\ b[7] = 2
    BY <1>2, <2>1, Mib2Names
  <2>3. Until(7, a, b) /\ a[7] < b[7]
    BY <2>2 DEF Until
  <2> HIDE DEF a, b
  <2>4. QED
    BY <1>0, <2>3, Agree
<1>3. CASE i <= 8 + Cells /\ j > 8 + Cells
  <2>1. i \in 1 .. 8 + Cells /\ j \in 9 + Cells .. 11 + Cells
    BY <1>3, Shape
  <2>2. a[5] = 2 /\ b[5] = 4
    BY <2>1, Mib2Names, FirmwareArcs
  <2>3. Until(5, a, b) /\ a[5] < b[5]
    BY <2>2 DEF Until
  <2> HIDE DEF a, b
  <2>4. QED
    BY <1>0, <2>3, Agree
<1>4. CASE i = 8 /\ j \in 9 .. 8 + Cells
  <2>1. Until(8, a, b) /\ a[8] < b[8]
    BY <1>4, NumberArcs, CellArcs DEF Until
  <2> HIDE DEF a, b
  <2>2. QED
    BY <1>0, <2>1, Agree
<1>5. CASE i \in 9 .. 8 + Cells /\ j \in 9 .. 8 + Cells
  <2>1. /\ Len(a) = 11 /\ Len(b) = 11
        /\ Until(10, a, b)
        /\ a[10] = ColumnOf(i) /\ b[10] = ColumnOf(j)
        /\ a[11] = RowOf(i) /\ b[11] = RowOf(j)
    BY <1>5, CellArcs DEF Until
  <2>2. CASE ColumnOf(i) < ColumnOf(j)
    <3>1. a[10] < b[10]
      BY <2>1, <2>2
    <3> HIDE DEF a, b
    <3>2. QED
      BY <1>0, <2>1, <3>1, Agree
  <2>3. CASE ColumnOf(i) = ColumnOf(j) /\ RowOf(i) < RowOf(j)
    <3>1. Until(11, a, b) /\ a[11] < b[11]
      BY <2>1, <2>3 DEF Until
    <3>2. Len(a) >= 11 /\ Len(b) >= 11
      BY <2>1
    <3> HIDE DEF a, b
    <3>3. QED
      BY <1>0, <3>1, <3>2, Agree
  <2>4. QED
    BY <1>5, <2>2, <2>3, CellOrder
<1>6. CASE i > 8 + Cells /\ j > 8 + Cells
  <2>1. i \in 9 + Cells .. 11 + Cells /\ j \in 9 + Cells .. 11 + Cells
    BY <1>6, Shape
  <2>2. Until(9, a, b) /\ a[9] < b[9]
    BY <2>1, FirmwareArcs, Shape DEF Until
  <2> HIDE DEF a, b
  <2>3. QED
    BY <1>0, <2>2, Agree
<1>7. QED
  BY <1>1, <1>2, <1>3, <1>4, <1>5, <1>6, Shape

LEMMA NotItself ==
  ASSUME NEW a \in Seq(Nat)
  PROVE  ~ OidLess(a, a)
<1> SUFFICES ASSUME NEW i \in 1 .. Len(a), i <= Len(a) => a[i] < a[i] PROVE FALSE
  BY DEF OidLess
<1>1. i <= Len(a) /\ a[i] \in Nat
  BY Len(a) \in Nat
<1>2. QED
  BY <1>1

(* The cursor of a repeater in plan_getbulk(), which moves from a leaf to its
   neighbour in the table, names the same leaf as the search that mib_get_next()
   would make for that name: for every number of interfaces, at every leaf, and
   with the end of the table being the end of the view. *)
THEOREM CursorIsLookup ==
  ASSUME NEW i \in Leaves
  PROVE  GetNext(LeafOid(i)) = NextLeaf(i)
<1> DEFINE after == {j \in Leaves : OidLess(LeafOid(i), LeafOid(j))}
<1>1. ASSUME NEW j \in Leaves
      PROVE  OidLess(LeafOid(i), LeafOid(j)) <=> j > i
  <2>1. LeafOid(i) \in Seq(Nat) /\ LeafOid(j) \in Seq(Nat)
    BY LongNames DEF Long, Arcs
  <2>2. CASE i < j
    BY <2>2, WalkOrder
  <2>3. CASE i = j
    <3>1. ~ OidLess(LeafOid(i), LeafOid(i))
      BY <2>1, NotItself
    <3>2. QED
      BY <2>3, <3>1, Shape
  <2>4. CASE j < i
    <3>1. OidLess(LeafOid(j), LeafOid(i))
      BY <2>4, WalkOrder
    <3>2. ~ OidLess(LeafOid(i), LeafOid(j))
      BY <2>1, <3>1, Asymmetric
    <3>3. QED
      BY <2>4, <3>2, Shape
  <2>5. QED
    BY <2>2, <2>3, <2>4, Shape
<1>2. after = {j \in Leaves : j > i}
  BY <1>1
<1>3. GetNext(LeafOid(i)) = First(after)
  BY DEF GetNext
<1> HIDE DEF after
<1>4. CASE i = LeafCount
  <2>1. after = {}
    BY <1>2, <1>4, Shape
  <2>2. QED
    BY <1>3, <1>4, <2>1, Shape DEF First, NextLeaf
<1>5. CASE i < LeafCount
  <2>1. i + 1 \in after /\ \A j \in after : i + 1 <= j
    BY <1>2, <1>5, Shape
  <2>2. ASSUME NEW k \in after, \A j \in after : k <= j PROVE k = i + 1
    BY <1>2, <2>1, <2>2, Shape
  <2>3. First(after) = i + 1
    BY <2>1, <2>2 DEF First
  <2>4. QED
    BY <1>3, <1>5, <2>3, Shape DEF NextLeaf
<1>6. QED
  BY <1>4, <1>5, Shape

(* No two leaves share a name, so that mib_get_exact() finds the one that the
   cursor of a walk has reached. *)
THEOREM ExactIsLookup ==
  ASSUME NEW i \in Leaves
  PROVE  GetExact(LeafOid(i)) = i
<1>1. ASSUME NEW j \in Leaves, LeafOid(j) = LeafOid(i) PROVE j = i
  <2>1. LeafOid(i) \in Seq(Nat)
    BY LongNames DEF Long, Arcs
  <2>2. ~ OidLess(LeafOid(i), LeafOid(j)) /\ ~ OidLess(LeafOid(j), LeafOid(i))
    BY <1>1, <2>1, NotItself
  <2>3. ~ (i < j) /\ ~ (j < i)
    BY <2>2, WalkOrder
  <2>4. QED
    BY <2>3, Shape
<1>2. {j \in Leaves : LeafOid(j) = LeafOid(i)} = {i}
  BY <1>1
<1>3. First({i}) = i
  BY Shape DEF First
<1>4. QED
  BY <1>2, <1>3 DEF GetExact

-----------------------------------------------------------------------------
(* Integers as octets                                                      *)

Signs == {-1, 0}

LEMMA OctetIs == ASSUME NEW b \in Octet PROVE b \in Int /\ 0 <= b /\ b <= 255
BY DEF Octet

\* The sum that ber_get_int() forms, octet by octet.
Extends(octets) == IF octets[1] >= 128 THEN -1 ELSE 0

LEMMA ValueFollows ==
  ASSUME NEW octets \in Octets
  PROVE  \E f : /\ GetInt(octets) = f[Len(octets)]
                /\ f[0] = Extends(octets)
                /\ \A i \in 1 .. Len(octets) : f[i] = 256 * f[i - 1] + octets[i]
<1> DEFINE N == Len(octets)
           IsValue(f) == f = [i \in 0 .. N |->
                                IF i = 0 THEN (IF octets[1] >= 128 THEN -1 ELSE 0)
                                ELSE 256 * f[i - 1] + octets[i]]
           step == [i \in 1 .. N |-> [v \in Int |-> 256 * v + octets[i]]]
           value == CHOOSE f : IsValue(f)
<1>1. GetInt(octets) = value[N]
  BY Zenon DEF GetInt
<1>2. N \in Nat /\ \A i \in 1 .. N : octets[i] \in Int
  <2>1. \A i \in 1 .. N : octets[i] \in Octet
    BY DEF Octets
  <2>2. QED
    BY <2>1, OctetIs DEF Octets
<1>3. step \in [1 .. N -> [Int -> Int]]
  BY <1>2
<1>4. PICK f \in [0 .. N -> Int] : Follows(f, Extends(octets), step, N)
  <2>1. Extends(octets) \in Int
    BY DEF Extends
  <2> HIDE DEF step, N
  <2>2. QED
    BY <1>2, <1>3, <2>1, Recursion
<1>5. /\ f[0] = Extends(octets)
      /\ \A i \in 1 .. N : f[i] = 256 * f[i - 1] + octets[i]
  <2>1. ASSUME NEW i \in 1 .. N PROVE f[i - 1] \in Int
    BY <1>2
  <2>2. QED
    BY <1>4, <2>1 DEF Follows
<1>6. IsValue(f)
  <2>1. f = [i \in 0 .. N |-> f[i]]
    OBVIOUS
  <2>2. ASSUME NEW i \in 0 .. N PROVE i = 0 \/ i \in 1 .. N
    BY <1>2
  <2>3. QED
    BY <1>5, <2>1, <2>2 DEF Extends
<1>7. IsValue(value)
  <2> HIDE DEF IsValue
  <2>1. QED
    BY <1>6
<1>8. value[0] = Extends(octets)
  <2>1. 0 \in 0 .. N
    BY <1>2
  <2> HIDE DEF value
  <2>2. QED
    BY <1>7, <2>1 DEF Extends
<1>9. ASSUME NEW i \in 1 .. N PROVE value[i] = 256 * value[i - 1] + octets[i]
  <2>1. i \in 0 .. N /\ i # 0
    BY <1>2
  <2> HIDE DEF value
  <2>2. QED
    BY <1>7, <2>1
<1> HIDE DEF value
<1>10. QED
  BY <1>1, <1>8, <1>9

\* Octets taken off one by one, or at once.
LEMMA Shifted ==
  ASSUME NEW v \in Int
  PROVE  /\ v \div 1 = v
         /\ v \div (256 * 256) = (v \div 256) \div 256
         /\ v \div (256 * 256 * 256) = ((v \div 256) \div 256) \div 256
BY SMT

LEMMA Weights ==
  /\ Weight[1] = 1 /\ Weight[2] = 256 /\ Weight[3] = 256 * 256
  /\ Weight[4] = 256 * 256 * 256
BY DEF Weight

LEMMA FitsFirst ==
  ASSUME NEW s \in Signs, NEW a \in Octet, s = -1 <=> a >= 128
  PROVE  /\ 256 * s + a \in Int /\ Fits(1, 256 * s + a)
         /\ (256 * s + a) % 256 = a
BY Weights, SMT DEF Fits, Signs, Octet

\* A value with an octet more.
Extended(u, b, v) == u \in Int /\ b \in Octet /\ v = 256 * u + b

LEMMA FitsOn ==
  ASSUME NEW u, NEW b, NEW v, Extended(u, b, v)
  PROVE  /\ v \in Int /\ v % 256 = b /\ v \div 256 = u
         /\ Fits(1, u) <=> Fits(2, v)
         /\ Fits(2, u) <=> Fits(3, v)
         /\ ~ Fits(1, u) => ~ Fits(1, v)
         /\ ~ Fits(2, u) => ~ Fits(2, v)
<1>1. /\ v \in Int /\ v % 256 = b /\ v \div 256 = u
  BY SMT DEF Extended, Octet
<1>2. Fits(1, u) <=> Fits(2, v)
  BY Weights, SMT DEF Extended, Octet, Fits
<1>3. Fits(2, u) <=> Fits(3, v)
  BY Weights, SMT DEF Extended, Octet, Fits
<1>4. ~ Fits(1, u) => ~ Fits(1, v)
  BY Weights, SMT DEF Extended, Octet, Fits
<1>5. ~ Fits(2, u) => ~ Fits(2, v)
  BY Weights, SMT DEF Extended, Octet, Fits
<1>6. QED
  BY <1>1, <1>2, <1>3, <1>4, <1>5

LEMMA FitsNotOne ==
  ASSUME NEW s \in Signs, NEW a \in Octet, s = -1 <=> a >= 128, NEW b \in Octet,
         ~ (a = 0 /\ b < 128), ~ (a = 255 /\ b >= 128)
  PROVE  ~ Fits(1, 256 * (256 * s + a) + b)
BY Weights, SMT DEF Fits, Signs, Octet

\* The length that ber_put_int() settles for.
LEMMA IntegerPut ==
  ASSUME NEW v \in Int, NEW n \in 1 .. 4, n = 4 \/ Fits(n, v),
         \A m \in 1 .. n - 1 : ~ Fits(m, v)
  PROVE  PutInt(v) = [i \in 1 .. n |-> (v \div Weight[1 + n - i]) % 256]
<1> DEFINE Shortest(k) == Holds(k, v) /\ \A m \in 1 .. k - 1 : ~ Holds(m, v)
<1>1. \A m \in 1 .. 4 : Holds(m, v) <=> m = 4 \/ Fits(m, v)
  BY DEF Holds
<1>2. Shortest(n)
  BY <1>1
<1>3. ASSUME NEW k \in 1 .. 4, Shortest(k) PROVE k = n
  BY <1>2, <1>3
<1>4. IntLength(v) = CHOOSE k \in 1 .. 4 : Shortest(k)
  BY DEF IntLength
<1>5. IntLength(v) = n
  <2> HIDE DEF Shortest
  <2>1. QED
    BY <1>2, <1>3, <1>4
<1>6. QED
  BY <1>5 DEF PutInt

(* An identifier comes back in the octets it came in: ber_put_int() writes what
   ber_get_int() has read, as long as the manager did not waste an octet. *)
THEOREM IntegersReturn ==
  ASSUME NEW octets, Minimal(octets)
  PROVE  GetInt(octets) \in Int /\ PutInt(GetInt(octets)) = octets
<1> DEFINE v == GetInt(octets)
           len == Len(octets)
           s == Extends(octets)
<1>1. /\ octets \in Octets /\ len \in 1 .. 4
      /\ \A i \in 1 .. len : octets[i] \in Octet
      /\ octets = [i \in 1 .. len |-> octets[i]]
  BY DEF Minimal, Octets
<1>2. PICK f : /\ v = f[len] /\ f[0] = s
               /\ \A i \in 1 .. len : f[i] = 256 * f[i - 1] + octets[i]
  BY <1>1, ValueFollows
<1>3. s \in Signs /\ (s = -1 <=> octets[1] >= 128)
  BY DEF Extends, Signs
<1> HIDE DEF v, s
<1>4. /\ octets[1] \in Octet /\ f[1] = 256 * s + octets[1] /\ f[1] \in Int
      /\ Fits(1, f[1]) /\ f[1] % 256 = octets[1]
  BY <1>1, <1>2, <1>3, FitsFirst
<1>5. ASSUME len >= 2
      PROVE  Extended(f[1], octets[2], f[2]) /\ Fits(2, f[2]) /\ ~ Fits(1, f[2])
  <2>1. octets[2] \in Octet /\ f[2] = 256 * f[1] + octets[2]
    BY <1>1, <1>2, <1>5
  <2>2. ~ Fits(1, f[2])
    BY <1>3, <1>4, <1>5, <2>1, FitsNotOne DEF Minimal
  <2>3. Extended(f[1], octets[2], f[2])
    BY <1>4, <2>1 DEF Extended
  <2>4. QED
    BY <1>4, <2>2, <2>3, FitsOn
<1>6. ASSUME len >= 3
      PROVE  /\ Extended(f[2], octets[3], f[3])
             /\ Fits(3, f[3]) /\ ~ Fits(2, f[3]) /\ ~ Fits(1, f[3])
  <2>1. octets[3] \in Octet /\ f[3] = 256 * f[2] + octets[3]
    BY <1>1, <1>2, <1>6
  <2>2. Extended(f[1], octets[2], f[2]) /\ Fits(2, f[2]) /\ ~ Fits(1, f[2])
    BY <1>1, <1>5, <1>6
  <2>3. Extended(f[2], octets[3], f[3])
    BY <2>1, <2>2, FitsOn DEF Extended
  <2>4. QED
    BY <2>2, <2>3, FitsOn
<1>7. ASSUME len = 4
      PROVE  /\ Extended(f[3], octets[4], f[4])
             /\ ~ Fits(3, f[4]) /\ ~ Fits(2, f[4]) /\ ~ Fits(1, f[4])
  <2>1. octets[4] \in Octet /\ f[4] = 256 * f[3] + octets[4]
    BY <1>1, <1>2, <1>7
  <2>2. Extended(f[2], octets[3], f[3]) /\ ~ Fits(2, f[3]) /\ ~ Fits(1, f[3])
    BY <1>1, <1>6, <1>7
  <2>3. Extended(f[3], octets[4], f[4])
    BY <2>1, <2>2, FitsOn DEF Extended
  <2>4. QED
    BY <2>2, <2>3, FitsOn
\* Each length on its own.
<1>8. ASSUME v \in Int, len = 4 \/ Fits(len, v), \A m \in 1 .. len - 1 : ~ Fits(m, v),
             \A i \in 1 .. len : (v \div Weight[1 + len - i]) % 256 = octets[i]
      PROVE  v \in Int /\ PutInt(v) = octets
  <2>1. PutInt(v) = [i \in 1 .. len |-> (v \div Weight[1 + len - i]) % 256]
    BY <1>1, <1>8, IntegerPut
  <2>2. QED
    BY <1>1, <1>8, <2>1
<1>9. CASE len = 1
  <2>1. /\ f[1] % 256 = octets[1]
        /\ v = f[1]
        /\ Fits(1, v)
    BY <1>2, <1>4, <1>9
  <2>2. v \in Int
    BY <1>4, <2>1, FitsOn
  <2>3. (v \div Weight[1]) % 256 = octets[1]
    BY <2>1, <2>2, FitsOn, Shifted, Weights
  <2>4. ASSUME NEW i \in 1 .. len PROVE (v \div Weight[1 + len - i]) % 256 = octets[i]
    <3>1. i = 1
      BY <1>9
    <3>2. QED
      BY <1>9, <3>1, <2>3
  <2>5. len = 4 \/ Fits(len, v)
    BY <1>9, <2>1
  <2>6. ASSUME NEW m \in 1 .. len - 1 PROVE ~ Fits(m, v)
    BY <1>9
  <2>7. QED
    BY <1>8, <2>2, <2>4, <2>5, <2>6 DEF v
<1>10. CASE len = 2
  <2>1. /\ f[1] % 256 = octets[1]
        /\ v = f[2]
        /\ Extended(f[1], octets[2], f[2])
        /\ Fits(2, v)
        /\ ~ Fits(1, v)
    BY <1>2, <1>4, <1>5, <1>10
  <2>2. v \in Int
    BY <1>4, <2>1, FitsOn
  <2>3. (v \div Weight[2]) % 256 = octets[1]
    BY <2>1, <2>2, FitsOn, Shifted, Weights
  <2>4. (v \div Weight[1]) % 256 = octets[2]
    BY <2>1, <2>2, FitsOn, Shifted, Weights
  <2>5. ASSUME NEW i \in 1 .. len PROVE (v \div Weight[1 + len - i]) % 256 = octets[i]
    <3>1. i = 1 \/ i = 2
      BY <1>10
    <3>2. QED
      BY <1>10, <3>1, <2>3, <2>4
  <2>6. len = 4 \/ Fits(len, v)
    BY <1>10, <2>1
  <2>7. ASSUME NEW m \in 1 .. len - 1 PROVE ~ Fits(m, v)
    <3>1. m = 1
      BY <1>10
    <3>2. QED
      BY <2>1, <3>1
  <2>8. QED
    BY <1>8, <2>2, <2>5, <2>6, <2>7 DEF v
<1>11. CASE len = 3
  <2>1. /\ f[1] % 256 = octets[1]
        /\ v = f[3]
        /\ Extended(f[1], octets[2], f[2])
        /\ Extended(f[2], octets[3], f[3])
        /\ Fits(3, v)
        /\ ~ Fits(1, v)
        /\ ~ Fits(2, v)
    BY <1>2, <1>4, <1>5, <1>6, <1>11
  <2>2. v \in Int
    BY <1>4, <2>1, FitsOn
  <2>3. (v \div Weight[3]) % 256 = octets[1]
    BY <2>1, <2>2, FitsOn, Shifted, Weights
  <2>4. (v \div Weight[2]) % 256 = octets[2]
    BY <2>1, <2>2, FitsOn, Shifted, Weights
  <2>5. (v \div Weight[1]) % 256 = octets[3]
    BY <2>1, <2>2, FitsOn, Shifted, Weights
  <2>6. ASSUME NEW i \in 1 .. len PROVE (v \div Weight[1 + len - i]) % 256 = octets[i]
    <3>1. i = 1 \/ i = 2 \/ i = 3
      BY <1>11
    <3>2. QED
      BY <1>11, <3>1, <2>3, <2>4, <2>5
  <2>7. len = 4 \/ Fits(len, v)
    BY <1>11, <2>1
  <2>8. ASSUME NEW m \in 1 .. len - 1 PROVE ~ Fits(m, v)
    <3>1. m = 1 \/ m = 2
      BY <1>11
    <3>2. QED
      BY <2>1, <3>1
  <2>9. QED
    BY <1>8, <2>2, <2>6, <2>7, <2>8 DEF v
<1>12. CASE len = 4
  <2>1. /\ f[1] % 256 = octets[1]
        /\ v = f[4]
        /\ Extended(f[1], octets[2], f[2])
        /\ Extended(f[2], octets[3], f[3])
        /\ Extended(f[3], octets[4], f[4])
        /\ ~ Fits(1, v)
        /\ ~ Fits(2, v)
        /\ ~ Fits(3, v)
    BY <1>2, <1>4, <1>5, <1>6, <1>7, <1>12, <1>7
  <2>2. v \in Int
    BY <1>4, <2>1, FitsOn
  <2>3. (v \div Weight[4]) % 256 = octets[1]
    BY <2>1, <2>2, FitsOn, Shifted, Weights
  <2>4. (v \div Weight[3]) % 256 = octets[2]
    BY <2>1, <2>2, FitsOn, Shifted, Weights
  <2>5. (v \div Weight[2]) % 256 = octets[3]
    BY <2>1, <2>2, FitsOn, Shifted, Weights
  <2>6. (v \div Weight[1]) % 256 = octets[4]
    BY <2>1, <2>2, FitsOn, Shifted, Weights
  <2>7. ASSUME NEW i \in 1 .. len PROVE (v \div Weight[1 + len - i]) % 256 = octets[i]
    <3>1. i = 1 \/ i = 2 \/ i = 3 \/ i = 4
      BY <1>12
    <3>2. QED
      BY <1>12, <3>1, <2>3, <2>4, <2>5, <2>6
  <2>8. len = 4 \/ Fits(len, v)
    BY <1>12, <2>1
  <2>9. ASSUME NEW m \in 1 .. len - 1 PROVE ~ Fits(m, v)
    <3>1. m = 1 \/ m = 2 \/ m = 3
      BY <1>12
    <3>2. QED
      BY <2>1, <3>1
  <2>10. QED
    BY <1>8, <2>2, <2>7, <2>8, <2>9 DEF v
<1>13. QED
  BY <1>1, <1>9, <1>10, <1>11, <1>12 DEF v

-----------------------------------------------------------------------------
(* Names as octets                                                         *)

Readings == [arcs : Seq(Nat), value : Nat, open : BOOLEAN]

LEMMA ReadTyped ==
  ASSUME NEW s \in Readings, NEW b \in Octet
  PROVE  /\ Read(s, b) \in Readings
         /\ b >= 128 => Read(s, b) = [arcs |-> s.arcs, value |-> 128 * s.value + b - 128,
                                      open |-> TRUE]
<1>1. b \in Int /\ 0 <= b /\ b <= 255
  BY OctetIs
<1>2. CASE b >= 128
  <2>1. Read(s, b) = [arcs |-> s.arcs, value |-> 128 * s.value + b - 128, open |-> TRUE]
    BY <1>2 DEF Read, Readings
  <2>2. 128 * s.value + b - 128 \in Nat
    BY <1>1, <1>2 DEF Readings
  <2>3. QED
    BY <2>1, <2>2 DEF Readings
<1>3. CASE ~ (b >= 128)
  <2>1. 128 * s.value + b \in Nat
    BY <1>1 DEF Readings
  <2>2. QED
    BY <1>3, <2>1 DEF Readings, Read
<1>4. QED
  BY <1>2, <1>3

LEMMA NoArcsIs == NoArcs \in Readings
BY DEF NoArcs, Readings

LEMMA ReadFollows ==
  ASSUME NEW octets \in Octets
  PROVE  \E f : /\ ReadArcs(octets) = f[Len(octets)]
                /\ f[0] = NoArcs
                /\ \A i \in 1 .. Len(octets) : f[i] = Read(f[i - 1], octets[i])
<1> DEFINE N == Len(octets)
           IsRead(f) == f = [i \in 0 .. N |->
                               IF i = 0 THEN NoArcs ELSE Read(f[i - 1], octets[i])]
           step == [i \in 1 .. N |-> [s \in Readings |-> Read(s, octets[i])]]
           read == CHOOSE f : IsRead(f)
<1>1. ReadArcs(octets) = read[N]
  BY Zenon DEF ReadArcs
<1>2. N \in Nat /\ \A i \in 1 .. N : octets[i] \in Octet
  BY DEF Octets
<1>3. step \in [1 .. N -> [Readings -> Readings]]
  BY <1>2, ReadTyped
<1>4. PICK f \in [0 .. N -> Readings] : Follows(f, NoArcs, step, N)
  <2> HIDE DEF step, N
  <2>1. QED
    BY <1>2, <1>3, NoArcsIs, Recursion
<1>5. f[0] = NoArcs /\ \A i \in 1 .. N : f[i] = Read(f[i - 1], octets[i])
  <2>1. ASSUME NEW i \in 1 .. N PROVE f[i - 1] \in Readings
    BY <1>2
  <2>2. QED
    BY <1>4, <2>1 DEF Follows
<1>6. IsRead(f)
  <2>1. f = [i \in 0 .. N |-> f[i]]
    OBVIOUS
  <2>2. ASSUME NEW i \in 0 .. N PROVE i = 0 \/ i \in 1 .. N
    BY <1>2
  <2>3. QED
    BY <1>5, <2>1, <2>2
<1>7. IsRead(read)
  <2> HIDE DEF IsRead
  <2>1. QED
    BY <1>6
<1>8. read[0] = NoArcs
  <2>1. 0 \in 0 .. N
    BY <1>2
  <2> HIDE DEF read
  <2>2. QED
    BY <1>7, <2>1
<1>9. ASSUME NEW i \in 1 .. N PROVE read[i] = Read(read[i - 1], octets[i])
  <2>1. i \in 0 .. N /\ i # 0
    BY <1>2
  <2> HIDE DEF read
  <2>2. QED
    BY <1>7, <2>1
<1> HIDE DEF read
<1>10. QED
  BY <1>1, <1>8, <1>9

\* Reading goes on where it stopped.
LEMMA ReadOn ==
  ASSUME NEW s \in Octets, NEW b \in Octet
  PROVE  /\ Append(s, b) \in Octets
         /\ ReadArcs(s) \in Readings
         /\ ReadArcs(Append(s, b)) = Read(ReadArcs(s), b)
<1> DEFINE t == Append(s, b)
<1>1. /\ t \in Octets /\ Len(s) \in Nat /\ Len(t) = Len(s) + 1 /\ t[Len(t)] = b
      /\ \A i \in 1 .. Len(s) : t[i] = s[i] /\ s[i] \in Octet
  BY DEF Octets
<1> HIDE DEF t
<1>2. PICK f : /\ ReadArcs(s) = f[Len(s)] /\ f[0] = NoArcs
               /\ \A i \in 1 .. Len(s) : f[i] = Read(f[i - 1], s[i])
  BY ReadFollows
<1>3. PICK g : /\ ReadArcs(t) = g[Len(t)] /\ g[0] = NoArcs
               /\ \A i \in 1 .. Len(t) : g[i] = Read(g[i - 1], t[i])
  BY <1>1, ReadFollows
<1> DEFINE S == {n \in Nat : n <= Len(s) => f[n] = g[n] /\ f[n] \in Readings}
<1>4. 0 \in S
  BY <1>2, <1>3, NoArcsIs
<1>5. ASSUME NEW n \in Nat, n \in S PROVE n + 1 \in S
  <2>1. SUFFICES ASSUME n + 1 <= Len(s) PROVE f[n + 1] = g[n + 1] /\ f[n + 1] \in Readings
    OBVIOUS
  <2>2. n + 1 \in 1 .. Len(s) /\ n + 1 \in 1 .. Len(t) /\ (n + 1) - 1 = n
    BY <1>1, <2>1
  <2>3. f[n] = g[n] /\ f[n] \in Readings
    BY <1>1, <1>5, <2>1
  <2>4. f[n + 1] = Read(f[n], s[n + 1]) /\ g[n + 1] = Read(g[n], t[n + 1])
    BY <1>2, <1>3, <2>2
  <2>5. QED
    BY <1>1, <2>2, <2>3, <2>4, ReadTyped
<1> HIDE DEF S
<1>6. Nat \subseteq S
  BY <1>4, <1>5, SetInduction
<1>7. f[Len(s)] = g[Len(s)] /\ f[Len(s)] \in Readings
  BY <1>1, <1>6 DEF S
<1>8. Len(t) \in 1 .. Len(t) /\ Len(t) - 1 = Len(s)
  BY <1>1
<1>9. g[Len(t)] = Read(g[Len(s)], b)
  BY <1>1, <1>3, <1>8
<1>10. QED
  BY <1>1, <1>2, <1>3, <1>7, <1>9 DEF t

\* Whole arcs: the state between two sub-identifiers.
Whole(list) == [arcs |-> list, value |-> 0, open |-> FALSE]

LEMMA SeptetWeights ==
  /\ SeptetWeight[1] = 1 /\ SeptetWeight[2] = 128 /\ SeptetWeight[3] = 128 * 128
  /\ SeptetWeight[4] = 128 * 128 * 128
BY DEF SeptetWeight

\* Short sequences, item by item.
LEMMA Tuples ==
  ASSUME NEW f, NEW n, f = [i \in 1 .. n |-> f[i]]
  PROVE  /\ n = 1 => f = <<f[1]>>
         /\ n = 2 => f = <<f[1], f[2]>>
         /\ n = 3 => f = <<f[1], f[2], f[3]>>
         /\ n = 4 => f = <<f[1], f[2], f[3], f[4]>>
<1>1. n = 1 => f = <<f[1]>>
  OBVIOUS
<1>2. n = 2 => f = <<f[1], f[2]>>
  OBVIOUS
<1>3. n = 3 => f = <<f[1], f[2], f[3]>>
  OBVIOUS
<1>4. n = 4 => f = <<f[1], f[2], f[3], f[4]>>
  OBVIOUS
<1>5. QED
  BY <1>1, <1>2, <1>3, <1>4

\* The octets of a sub-identifier by its quotients.
LEMMA SeptetsAre ==
  ASSUME NEW v \in Arc
  PROVE  LET p == v \div 128
             q == p \div 128
             r == q \div 128
         IN  \/ p = 0 /\ Septets(v) = <<v % 128>>
             \/ p # 0 /\ q = 0 /\ Septets(v) = <<(p % 128) + 128, v % 128>>
             \/ q # 0 /\ r = 0 /\ Septets(v) = <<(q % 128) + 128, (p % 128) + 128, v % 128>>
             \/ r # 0 /\ r < 128 /\ Septets(v) = <<(r % 128) + 128, (q % 128) + 128, (p % 128) + 128, v % 128>>
<1> DEFINE p == v \div 128
           q == p \div 128
           r == q \div 128
           IsCount(n) == /\ v < 128 * SeptetWeight[n]
                         /\ \A m \in 1 .. n - 1 : v >= 128 * SeptetWeight[m]
<1>1. v \in Nat /\ p \in Nat /\ q \in Nat /\ r \in Nat /\ r < 128
  BY SeptetWeights, SMT DEF Arc
<1>2. /\ v < 128 <=> p = 0
      /\ v < 128 * 128 <=> q = 0
      /\ v < 128 * (128 * 128) <=> r = 0
      /\ v < 128 * (128 * 128 * 128)
      /\ p = 0 => q = 0
      /\ q = 0 => r = 0
  BY SeptetWeights, SMT DEF Arc
<1>3. v \div (128 * 128) = q /\ v \div (128 * 128 * 128) = r /\ v \div 1 = v
  BY <1>1, SMT
<1>4. SeptetCount(v) = CHOOSE n \in 1 .. 4 : IsCount(n)
  BY DEF SeptetCount
<1> HIDE DEF p, q, r
<1>5. ASSUME NEW n \in 1 .. 4, IsCount(n) PROVE SeptetCount(v) = n
  <2>1. ASSUME NEW k \in 1 .. 4, IsCount(k) PROVE k = n
    <3>1. \A m \in 1 .. 4 : 128 * SeptetWeight[m] \in Nat
      BY SeptetWeights
    <3>2. ~ (k < n) /\ ~ (n < k)
      BY <1>1, <1>5, <2>1, <3>1
    <3>3. QED
      BY <3>2
  <2> HIDE DEF IsCount
  <2>2. QED
    BY <1>4, <1>5, <2>1
<1> DEFINE octets == Septets(v)
<1>6. ASSUME NEW n \in 1 .. 4, IsCount(n)
      PROVE  /\ octets = [i \in 1 .. n |-> octets[i]]
             /\ octets[n] = v % 128
             /\ n >= 2 => octets[n - 1] = (p % 128) + 128
             /\ n >= 3 => octets[n - 2] = (q % 128) + 128
             /\ n = 4 => octets[1] = (r % 128) + 128
  <2>1. octets = [i \in 1 .. n |-> ((v \div SeptetWeight[1 + n - i]) % 128)
                                      + (IF i < n THEN 128 ELSE 0)]
    BY <1>5, <1>6 DEF Septets
  <2> HIDE DEF octets
  <2>2. /\ 1 + n - n = 1 /\ 1 + n - (n - 1) = 2 /\ 1 + n - (n - 2) = 3 /\ 1 + 4 - 1 = 4
        /\ n - 1 < n /\ n - 2 < n
    OBVIOUS
  <2>3. octets[n] = v % 128
    <3>1. octets[n] = ((v \div SeptetWeight[1 + n - n]) % 128) + 0
      BY <2>1
    <3>2. QED
      BY <3>1, <2>2, <1>1, <1>3, SeptetWeights
  <2>4. ASSUME n >= 2 PROVE octets[n - 1] = (p % 128) + 128
    <3>1. octets[n - 1] = ((v \div SeptetWeight[1 + n - (n - 1)]) % 128) + 128
      BY <2>1, <2>4
    <3>2. QED
      BY <3>1, <2>2, <1>3, SeptetWeights DEF p
  <2>5. ASSUME n >= 3 PROVE octets[n - 2] = (q % 128) + 128
    <3>1. octets[n - 2] = ((v \div SeptetWeight[1 + n - (n - 2)]) % 128) + 128
      BY <2>1, <2>5
    <3>2. QED
      BY <3>1, <2>2, <1>3, SeptetWeights
  <2>6. ASSUME n = 4 PROVE octets[1] = (r % 128) + 128
    <3>1. octets[1] = ((v \div SeptetWeight[1 + n - 1]) % 128) + 128
      BY <2>1, <2>6
    <3>2. QED
      BY <3>1, <2>2, <2>6, <1>3, SeptetWeights
  <2>7. QED
    BY <2>1, <2>3, <2>4, <2>5, <2>6
<1> HIDE DEF octets
<1>7. CASE p = 0
  <2>1. IsCount(1)
    BY <1>2, <1>7, SeptetWeights
  <2>2. octets = [i \in 1 .. 1 |-> octets[i]]
        /\ octets[1] = v % 128
    BY <1>6, <2>1
  <2>3. octets = <<v % 128>>
    BY <2>2, Tuples
  <2>4. QED
    BY <1>7, <2>3 DEF p, octets
<1>8. CASE p # 0 /\ q = 0
  <2>1. IsCount(2)
    BY <1>1, <1>2, <1>8, SeptetWeights
  <2>2. octets = [i \in 1 .. 2 |-> octets[i]]
        /\ octets[1] = (p % 128) + 128 /\ octets[2] = v % 128
    BY <1>6, <2>1
  <2>3. octets = <<(p % 128) + 128, v % 128>>
    BY <2>2, Tuples
  <2>4. QED
    BY <1>8, <2>3 DEF p, q, octets
<1>9. CASE q # 0 /\ r = 0
  <2>1. IsCount(3)
    BY <1>1, <1>2, <1>9, SeptetWeights
  <2>2. octets = [i \in 1 .. 3 |-> octets[i]]
        /\ octets[1] = (q % 128) + 128 /\ octets[2] = (p % 128) + 128 /\ octets[3] = v % 128
    BY <1>6, <2>1
  <2>3. octets = <<(q % 128) + 128, (p % 128) + 128, v % 128>>
    BY <2>2, Tuples
  <2>4. QED
    BY <1>9, <2>3 DEF p, q, r, octets
<1>10. CASE r # 0
  <2>1. IsCount(4)
    BY <1>1, <1>2, <1>10, SeptetWeights
  <2>2. octets = [i \in 1 .. 4 |-> octets[i]]
        /\ octets[1] = (r % 128) + 128 /\ octets[2] = (q % 128) + 128 /\ octets[3] = (p % 128) + 128 /\ octets[4] = v % 128
    BY <1>6, <2>1
  <2>3. octets = <<(r % 128) + 128, (q % 128) + 128, (p % 128) + 128, v % 128>>
    BY <2>2, Tuples
  <2>4. QED
    BY <1>1, <1>10, <2>3 DEF p, q, r, octets
<1>11. QED
  BY <1>7, <1>8, <1>9, <1>10

\* Seven bits more of a sub-identifier, marked or its last.
LEMMA SeptetRead ==
  ASSUME NEW list \in Seq(Nat), NEW w \in Nat, NEW open \in BOOLEAN, NEW d \in Septet
  PROVE  LET s == [arcs |-> list, value |-> w, open |-> open]
         IN  /\ d \in Octet /\ d + 128 \in Octet
             /\ Read(s, d + 128) = [arcs |-> list, value |-> 128 * w + d, open |-> TRUE]
             /\ Read(s, d) = Whole(Append(list, 128 * w + d))
<1>1. d \in Int /\ 0 <= d /\ d <= 127 /\ ~ (d >= 128) /\ d + 128 >= 128
      /\ 128 * w + (d + 128) - 128 = 128 * w + d
  BY DEF Septet
<1>2. d \in Octet /\ d + 128 \in Octet
  BY <1>1 DEF Octet
<1>3. QED
  BY <1>1, <1>2 DEF Read, Whole

\* Octets added one by one, or at once.
LEMMA Appended ==
  ASSUME NEW s \in Octets, NEW a \in Octet
  PROVE  s \o <<a>> = Append(s, a)
BY DEF Octets

LEMMA AppendedTwo ==
  ASSUME NEW s \in Octets, NEW a \in Octet, NEW b \in Octet
  PROVE  s \o <<a, b>> = Append(Append(s, a), b)
BY DEF Octets

LEMMA AppendedThree ==
  ASSUME NEW s \in Octets, NEW a \in Octet, NEW b \in Octet, NEW c \in Octet
  PROVE  s \o <<a, b, c>> = Append(Append(Append(s, a), b), c)
BY DEF Octets

LEMMA AppendedFour ==
  ASSUME NEW s \in Octets, NEW a \in Octet, NEW b \in Octet, NEW c \in Octet, NEW d \in Octet
  PROVE  s \o <<a, b, c, d>> = Append(Append(Append(Append(s, a), b), c), d)
BY DEF Octets

\* What reading the octets u has come to.
Reads(u, list, w, open) ==
  u \in Octets /\ ReadArcs(u) = [arcs |-> list, value |-> w, open |-> open]

\* A number with seven bits more.
Join(w, d) == 128 * w + d

LEMMA SeptetOn ==
  ASSUME NEW list \in Seq(Nat), NEW w \in Nat, NEW open \in BOOLEAN, NEW u,
         Reads(u, list, w, open), NEW d \in Septet
  PROVE  /\ Reads(Append(u, d + 128), list, Join(w, d), TRUE)
         /\ Reads(Append(u, d), Append(list, Join(w, d)), 0, FALSE)
<1>1. d \in Octet /\ d + 128 \in Octet
  BY SeptetRead
<1>2. u \in Octets /\ ReadArcs(u) = [arcs |-> list, value |-> w, open |-> open]
  BY DEF Reads
<1>3. ReadArcs(Append(u, d + 128)) = Read(ReadArcs(u), d + 128)
      /\ Append(u, d + 128) \in Octets
  BY <1>1, <1>2, ReadOn
<1>4. ReadArcs(Append(u, d)) = Read(ReadArcs(u), d) /\ Append(u, d) \in Octets
  BY <1>1, <1>2, ReadOn
<1>5. QED
  BY <1>2, <1>3, <1>4, SeptetRead DEF Reads, Whole, Join

LEMMA SeptetDivision ==
  ASSUME NEW n \in Nat
  PROVE  /\ n \div 128 \in Nat /\ n % 128 \in Septet
         /\ n = 128 * (n \div 128) + (n % 128)
         /\ n < 128 => n % 128 = n
         /\ 128 * 0 + n = n
<1>1. n \div 128 \in Nat /\ n % 128 \in Septet /\ n = 128 * (n \div 128) + (n % 128)
  BY SMT DEF Septet
<1>2. n < 128 => n % 128 = n
  BY SMT
<1>3. QED
  BY <1>1, <1>2

LEMMA SeptetMarked == ASSUME NEW d \in Septet PROVE d \in Octet /\ d + 128 \in Octet
BY SMT DEF Septet, Octet

\* A sub-identifier after whole arcs is read as an arc more.
LEMMA ArcRead ==
  ASSUME NEW s, NEW list \in Seq(Nat), Reads(s, list, 0, FALSE), NEW v \in Arc
  PROVE  Reads(s \o Septets(v), Append(list, v), 0, FALSE)
<1> DEFINE p == v \div 128
           q == p \div 128
           r == q \div 128
           x == v % 128
           y == p % 128
           z == q % 128
           t == r % 128
<1>1. v \in Nat /\ p \in Nat /\ q \in Nat /\ r \in Nat
  BY SeptetDivision DEF Arc
<1>2. x \in Septet /\ y \in Septet /\ z \in Septet /\ t \in Septet
  BY <1>1, SeptetDivision
<1>3. /\ v = Join(p, x) /\ p = Join(q, y) /\ q = Join(r, z)
      /\ r < 128 => r = Join(0, t)
  BY <1>1, SeptetDivision DEF Join
<1>4. \/ p = 0 /\ Septets(v) = <<x>>
      \/ q = 0 /\ Septets(v) = <<y + 128, x>>
      \/ r = 0 /\ Septets(v) = <<z + 128, y + 128, x>>
      \/ r < 128 /\ Septets(v) = <<t + 128, z + 128, y + 128, x>>
  BY SeptetsAre
<1> HIDE DEF p, q, r, x, y, z, t
<1>5. x \in Octet /\ y + 128 \in Octet /\ z + 128 \in Octet /\ t + 128 \in Octet
  BY <1>2, SeptetMarked
<1>6. s \in Octets
  BY DEF Reads
<1>7. 0 \in Nat /\ FALSE \in BOOLEAN /\ TRUE \in BOOLEAN
  OBVIOUS
<1>8. ASSUME NEW u, Reads(u, list, p, TRUE) \/ (p = 0 /\ Reads(u, list, 0, FALSE))
      PROVE  Reads(Append(u, x), Append(list, v), 0, FALSE)
  BY <1>1, <1>2, <1>3, <1>7, <1>8, SeptetOn, Zenon
<1>9. ASSUME NEW u, Reads(u, list, q, TRUE) \/ (q = 0 /\ Reads(u, list, 0, FALSE))
      PROVE  Reads(Append(u, y + 128), list, p, TRUE)
  BY <1>1, <1>2, <1>3, <1>7, <1>9, SeptetOn, Zenon
<1>10. ASSUME NEW u, Reads(u, list, r, TRUE) \/ (r = 0 /\ Reads(u, list, 0, FALSE))
       PROVE  Reads(Append(u, z + 128), list, q, TRUE)
  BY <1>1, <1>2, <1>3, <1>7, <1>10, SeptetOn, Zenon
<1>11. r < 128 => Reads(Append(s, t + 128), list, r, TRUE)
  BY <1>2, <1>3, <1>7, SeptetOn, Zenon
<1>12. CASE p = 0 /\ Septets(v) = <<x>>
  <2>1. Reads(Append(s, x), Append(list, v), 0, FALSE)
    BY <1>8, <1>12
  <2>2. s \o <<x>> = Append(s, x)
    BY <1>5, <1>6, Appended
  <2>3. QED
    BY <1>12, <2>1, <2>2, Zenon
<1>13. CASE q = 0 /\ Septets(v) = <<y + 128, x>>
  <2>1. Reads(Append(Append(s, y + 128), x), Append(list, v), 0, FALSE)
    BY <1>8, <1>9, <1>13, Zenon
  <2>2. s \o <<y + 128, x>> = Append(Append(s, y + 128), x)
    BY <1>5, <1>6, AppendedTwo
  <2>3. QED
    BY <1>13, <2>1, <2>2, Zenon
<1>14. CASE r = 0 /\ Septets(v) = <<z + 128, y + 128, x>>
  <2>1. Reads(Append(Append(Append(s, z + 128), y + 128), x), Append(list, v), 0, FALSE)
    BY <1>8, <1>9, <1>10, <1>14, Zenon
  <2>2. s \o <<z + 128, y + 128, x>> = Append(Append(Append(s, z + 128), y + 128), x)
    BY <1>5, <1>6, AppendedThree
  <2>3. QED
    BY <1>14, <2>1, <2>2, Zenon
<1>15. CASE r < 128 /\ Septets(v) = <<t + 128, z + 128, y + 128, x>>
  <2>1. Reads(Append(Append(Append(Append(s, t + 128), z + 128), y + 128), x),
              Append(list, v), 0, FALSE)
    BY <1>8, <1>9, <1>10, <1>11, <1>15, Zenon
  <2>2. s \o <<t + 128, z + 128, y + 128, x>>
          = Append(Append(Append(Append(s, t + 128), z + 128), y + 128), x)
    BY <1>5, <1>6, AppendedFour
  <2>3. QED
    BY <1>15, <2>1, <2>2, Zenon
<1>16. QED
  BY <1>4, <1>12, <1>13, <1>14, <1>15

\* A name that fits, with two first arcs that make one octet.
FirstOctet(oid) == 40 * oid[1] + oid[2]

Nameable(oid) ==
  /\ oid \in Seq(Nat) /\ Len(oid) \in 2 .. MaxOid
  /\ oid[2] < 40 /\ FirstOctet(oid) \in Septet
  /\ \A i \in 3 .. Len(oid) : oid[i] \in Arc

LEMMA SeptetsTyped == ASSUME NEW v \in Arc PROVE Septets(v) \in Octets
<1> DEFINE p == v \div 128
           q == p \div 128
           r == q \div 128
           x == v % 128
           y == (p % 128) + 128
           z == (q % 128) + 128
           t == (r % 128) + 128
<1>1. v \in Nat /\ p \in Nat /\ q \in Nat /\ r \in Nat
  BY SeptetDivision DEF Arc
<1>2. v % 128 \in Septet /\ p % 128 \in Septet /\ q % 128 \in Septet /\ r % 128 \in Septet
  BY <1>1, SeptetDivision
<1>3. x \in Octet /\ y \in Octet /\ z \in Octet /\ t \in Octet
  BY <1>2, SeptetMarked
<1>4. \/ Septets(v) = <<x>> \/ Septets(v) = <<y, x>>
      \/ Septets(v) = <<z, y, x>> \/ Septets(v) = <<t, z, y, x>>
  BY SeptetsAre
<1> HIDE DEF x, y, z, t
<1>5. /\ <<x>> \in Seq(Octet) /\ <<y, x>> \in Seq(Octet)
      /\ <<z, y, x>> \in Seq(Octet) /\ <<t, z, y, x>> \in Seq(Octet)
  BY <1>3
<1>6. QED
  BY <1>4, <1>5 DEF Octets

LEMMA SeptetOne == ASSUME NEW v \in Septet PROVE v \in Arc /\ Septets(v) = <<v>>
<1>1. v \in Nat /\ v < 128
  BY DEF Septet
<1>2. v \in Arc
  BY <1>1, SeptetWeights DEF Arc
<1>3. v \div 128 = 0 /\ v % 128 = v /\ 0 \div 128 = 0
  BY <1>1, SMT
<1>4. QED
  BY <1>2, <1>3, SeptetsAre

LEMMA PutOidFollows ==
  ASSUME NEW oid, Nameable(oid)
  PROVE  \E f : /\ PutOid(oid) = f[Len(oid) - 2]
                /\ f[0] = <<FirstOctet(oid)>>
                /\ \A i \in 1 .. Len(oid) - 2 : f[i] = f[i - 1] \o Septets(oid[i + 2])
<1> DEFINE N == Len(oid) - 2
           z == Septets(40 * oid[1] + oid[2])
           IsPut(f) == f = [k \in 0 .. N |-> IF k = 0 THEN z
                                             ELSE f[k - 1] \o Septets(oid[k + 2])]
           step == [i \in 1 .. N |-> [s \in Octets |-> s \o Septets(oid[i + 2])]]
           put == CHOOSE f : IsPut(f)
<1>1. PutOid(oid) = put[N]
  BY Zenon DEF PutOid
<1>2. N \in Nat /\ z = <<FirstOctet(oid)>> /\ z \in Octets
      /\ \A i \in 1 .. N : Septets(oid[i + 2]) \in Octets
  <2>1. N \in Nat
    BY DEF Nameable
  <2>2. z = <<FirstOctet(oid)>> /\ z \in Octets
    BY SeptetOne, SeptetsTyped DEF Nameable, FirstOctet
  <2>3. ASSUME NEW i \in 1 .. N PROVE oid[i + 2] \in Arc
    BY DEF Nameable
  <2>4. QED
    BY <2>1, <2>2, <2>3, SeptetsTyped
<1> HIDE DEF z
<1>3. step \in [1 .. N -> [Octets -> Octets]]
  <2>1. ASSUME NEW a \in Octets, NEW b \in Octets PROVE a \o b \in Octets
    BY DEF Octets
  <2>2. QED
    BY <1>2, <2>1
<1>4. PICK f \in [0 .. N -> Octets] : Follows(f, z, step, N)
  <2> HIDE DEF step, N
  <2>1. QED
    BY <1>2, <1>3, Recursion
<1>5. f[0] = z /\ \A i \in 1 .. N : f[i] = f[i - 1] \o Septets(oid[i + 2])
  <2>1. ASSUME NEW i \in 1 .. N PROVE f[i - 1] \in Octets
    BY <1>2
  <2>2. QED
    BY <1>4, <2>1 DEF Follows
<1>6. IsPut(f)
  <2>1. f = [i \in 0 .. N |-> f[i]]
    OBVIOUS
  <2>2. ASSUME NEW i \in 0 .. N PROVE i = 0 \/ i \in 1 .. N
    BY <1>2
  <2>3. QED
    BY <1>5, <2>1, <2>2
<1>7. IsPut(put)
  <2> HIDE DEF IsPut
  <2>1. QED
    BY <1>6
<1>8. put[0] = z
  <2>1. 0 \in 0 .. N
    BY <1>2
  <2> HIDE DEF put
  <2>2. QED
    BY <1>7, <2>1
<1>9. ASSUME NEW i \in 1 .. N PROVE put[i] = put[i - 1] \o Septets(oid[i + 2])
  <2>1. i \in 0 .. N /\ i # 0
    BY <1>2
  <2> HIDE DEF put
  <2>2. QED
    BY <1>7, <2>1
<1> HIDE DEF put
<1>10. QED
  BY <1>1, <1>2, <1>8, <1>9

\* The arcs of a name after the first two, up to the k-th of them.
Rest(oid, k) == [i \in 1 .. k |-> oid[i + 2]]

\* What is put after the first octet.
After(b, u) == <<b>> \o u

LEMMA AfterIs ==
  ASSUME NEW b \in Octet, NEW u \in Octets
  PROVE  /\ After(b, u) # <<>> /\ After(b, u)[1] = b /\ Tail(After(b, u)) = u
         /\ \A w \in Octets : After(b, u) \o w = After(b, u \o w)
<1>1. After(b, u) # <<>> /\ After(b, u)[1] = b
  BY DEF After, Octets
<1>2. Tail(After(b, u)) = u
  BY DEF After, Octets
<1>3. ASSUME NEW w \in Octets PROVE After(b, u) \o w = After(b, u \o w)
  BY DEF After, Octets
<1>4. QED
  BY <1>1, <1>2, <1>3

LEMMA RestIs ==
  ASSUME NEW oid, Nameable(oid)
  PROVE  /\ Rest(oid, 0) = <<>>
         /\ \A k \in 0 .. Len(oid) - 2 : Rest(oid, k) \in Seq(Nat) /\ Len(Rest(oid, k)) = k
         /\ \A k \in 0 .. Len(oid) - 3 : Rest(oid, k + 1) = Append(Rest(oid, k), oid[k + 3])
<1>1. oid \in Seq(Nat) /\ Len(oid) \in Nat
  BY DEF Nameable
<1>2. Rest(oid, 0) = <<>>
  BY DEF Rest
<1>3. ASSUME NEW k \in 0 .. Len(oid) - 2
      PROVE  Rest(oid, k) \in Seq(Nat) /\ Len(Rest(oid, k)) = k
  BY <1>1 DEF Rest
<1>4. ASSUME NEW k \in 0 .. Len(oid) - 3
      PROVE  Rest(oid, k + 1) = Append(Rest(oid, k), oid[k + 3])
  BY <1>1 DEF Rest
<1>5. QED
  BY <1>2, <1>3, <1>4

\* What has been put so far reads as what has been put.
LEMMA PutOidReads ==
  ASSUME NEW oid, Nameable(oid)
  PROVE  \E u : /\ PutOid(oid) = After(FirstOctet(oid), u)
                /\ Reads(u, Rest(oid, Len(oid) - 2), 0, FALSE)
<1> DEFINE N == Len(oid) - 2
           b == FirstOctet(oid)
<1>1. N \in Nat /\ b \in Octet /\ b \in Septet
  <2>1. Len(oid) \in 2 .. MaxOid /\ b \in Septet
    BY DEF Nameable
  <2>2. N \in Nat
    BY <2>1
  <2>3. QED
    BY <2>1, <2>2, SeptetMarked
<1>2. PICK f : /\ PutOid(oid) = f[N] /\ f[0] = <<b>>
               /\ \A i \in 1 .. N : f[i] = f[i - 1] \o Septets(oid[i + 2])
  BY PutOidFollows
<1> DEFINE Has(k) == \E u : f[k] = After(b, u) /\ Reads(u, Rest(oid, k), 0, FALSE)
           S == {k \in Nat : k <= N => Has(k)}
<1> HIDE DEF b
<1>3. ASSUME NEW k \in Nat, k <= N => Has(k) PROVE k \in S
  BY <1>3
<1>4. 0 \in S
  <2>1. f[0] = After(b, <<>>)
    BY <1>1, <1>2 DEF After
  <2>2. <<>> \in Octets
    BY DEF Octets
  <2>3. ReadArcs(<<>>) = NoArcs
    BY <2>2, ReadFollows
  <2>4. Reads(<<>>, Rest(oid, 0), 0, FALSE)
    BY <2>2, <2>3, RestIs DEF Reads, NoArcs
  <2>5. QED
    BY <2>1, <2>4
<1>5. ASSUME NEW k \in Nat, k \in S PROVE k + 1 \in S
  <2>1. SUFFICES ASSUME k + 1 <= N PROVE Has(k + 1)
    <3>1. k + 1 \in Nat
      OBVIOUS
    <3> HIDE DEF S, Has
    <3>2. QED
      BY <1>3, <3>1
  <2>2. k + 1 \in 1 .. N /\ (k + 1) - 1 = k /\ k <= N /\ (k + 1) + 2 = k + 3
        /\ k \in 0 .. N /\ k \in 0 .. Len(oid) - 3 /\ k + 3 \in 3 .. Len(oid)
    BY <1>1, <2>1 DEF Nameable
  <2>3. PICK u : f[k] = After(b, u) /\ Reads(u, Rest(oid, k), 0, FALSE)
    BY <1>5, <2>2
  <2>4. f[k + 1] = f[k] \o Septets(oid[k + 3]) /\ oid[k + 3] \in Arc
    BY <1>2, <2>2 DEF Nameable
  <2>5. Reads(u \o Septets(oid[k + 3]), Rest(oid, k + 1), 0, FALSE)
    BY <2>2, <2>3, <2>4, RestIs, ArcRead
  <2>6. f[k + 1] = After(b, u \o Septets(oid[k + 3]))
    <3>1. u \in Octets /\ Septets(oid[k + 3]) \in Octets
      BY <2>3, <2>4, SeptetsTyped DEF Reads
    <3>2. QED
      BY <1>1, <2>3, <2>4, <3>1, AfterIs
  <2>7. QED
    BY <2>5, <2>6
<1> HIDE DEF S
<1>6. Nat \subseteq S
  BY <1>4, <1>5, SetInduction
<1>7. Has(N)
  <2>1. N \in S /\ N <= N
    BY <1>1, <1>6
  <2>2. QED
    BY <2>1, Zenon DEF S
<1>8. QED
  BY <1>2, <1>7 DEF b

(* A name comes back as it was: ber_get_oid() reads what ber_put_oid() writes,
   for every name whose first two arcs make one octet and that has room. *)
THEOREM OidsReturn ==
  ASSUME NEW oid, Nameable(oid)
  PROVE  GetOid(PutOid(oid)) = oid
<1> DEFINE N == Len(oid) - 2
           b == FirstOctet(oid)
<1>1. /\ N \in Nat /\ oid \in Seq(Nat) /\ Len(oid) = N + 2 /\ N + 2 <= MaxOid
      /\ b \in Septet /\ b \in Octet
  <2>1. oid \in Seq(Nat) /\ Len(oid) \in 2 .. MaxOid /\ b \in Septet
    BY DEF Nameable
  <2>2. N \in Nat /\ Len(oid) = N + 2 /\ N + 2 <= MaxOid
    BY <2>1, MaxOidAssumption
  <2>3. QED
    BY <2>1, <2>2, SeptetMarked
<1>2. b \div 40 = oid[1] /\ b % 40 = oid[2]
  <2>1. oid[1] \in Nat /\ oid[2] \in Nat /\ oid[2] < 40
    BY <1>1 DEF Nameable
  <2>2. QED
    BY <2>1, SMT DEF FirstOctet
<1>3. PICK u : PutOid(oid) = After(b, u) /\ Reads(u, Rest(oid, N), 0, FALSE)
  BY PutOidReads
<1> HIDE DEF b
<1>4. /\ PutOid(oid) # <<>> /\ PutOid(oid)[1] = b
      /\ Tail(PutOid(oid)) = u
  BY <1>1, <1>3, AfterIs DEF Reads
<1>5. ReadArcs(u).arcs = Rest(oid, N) /\ ReadArcs(u).open = FALSE
  BY <1>3 DEF Reads
<1>6. Len(Rest(oid, N)) + 2 = N + 2 /\ ~ (Len(Rest(oid, N)) + 2 > MaxOid)
  <2>1. N \in 0 .. Len(oid) - 2
    BY <1>1
  <2>2. Len(Rest(oid, N)) = N
    BY <2>1, RestIs
  <2> HIDE DEF N
  <2>3. QED
    BY <1>1, <2>2, MaxOidAssumption
<1>7. GetOid(PutOid(oid)) = <<oid[1], oid[2]>> \o Rest(oid, N)
  <2>1. /\ ReadArcs(Tail(PutOid(oid))).arcs = Rest(oid, N)
        /\ ~ ReadArcs(Tail(PutOid(oid))).open
    BY <1>4, <1>5
  <2> HIDE DEF N
  <2>2. QED
    BY <1>2, <1>4, <1>6, <2>1, Zenon DEF GetOid
<1>8. <<oid[1], oid[2]>> \o Rest(oid, N) = oid
  BY <1>1 DEF Rest
<1>9. QED
  BY <1>7, <1>8

-----------------------------------------------------------------------------
(* The names of the leaves and of the requests can be put and got          *)

LEMMA LeafOidIs ==
  ASSUME NEW i \in Leaves
  PROVE  \/ i \in 1 .. 7 /\ LeafOid(i) = Under(System, i, 0)
         \/ LeafOid(i) = IfNumber
         \/ i \in 9 .. 8 + Cells /\ LeafOid(i) = Under(IfEntry, ColumnOf(i), RowOf(i))
         \/ i \in 9 + Cells .. 11 + Cells /\ LeafOid(i) = Under(SysObjectId, i - 8 - Cells, 0)
<1>1. CASE i \in 1 .. 7
  <2>1. i < Scalars /\ ~ i = Scalars /\ ~ i \in Scalars + 1 .. Scalars + Cells
        /\ ~ i > Scalars + Cells
    BY <1>1, Shape
  <2>2. QED
    BY <1>1, <2>1, Zenon DEF LeafOid, Under
<1>2. CASE i = 8
  <2>1. ~ i < Scalars /\ i = Scalars /\ ~ i \in Scalars + 1 .. Scalars + Cells
        /\ ~ i > Scalars + Cells
    BY <1>2, Shape
  <2>2. QED
    BY <2>1, Zenon DEF LeafOid
<1>3. CASE i \in 9 .. 8 + Cells
  <2>1. ~ i < Scalars /\ ~ i = Scalars /\ i \in Scalars + 1 .. Scalars + Cells
        /\ ~ i > Scalars + Cells
    BY <1>3, Shape
  <2>2. QED
    BY <1>3, <2>1, Zenon DEF LeafOid, Under
<1>4. CASE i \in 9 + Cells .. 11 + Cells
  <2>1. /\ ~ i < Scalars /\ ~ i = Scalars /\ ~ i \in Scalars + 1 .. Scalars + Cells
        /\ i > Scalars + Cells /\ i - Scalars - Cells = i - 8 - Cells
    BY <1>4, Shape
  <2>2. LeafOid(i) = SysObjectId \o <<i - Scalars - Cells, 0>>
    BY <2>1, Zenon DEF LeafOid
  <2>3. QED
    BY <1>4, <2>1, <2>2 DEF Under
<1>5. QED
  BY <1>1, <1>2, <1>3, <1>4, Shape

Small == {k \in Nat : k <= 100000}

LEMMA SmallArcs == ASSUME NEW v \in Small PROVE v \in Arc /\ v \in Nat
<1>1. v \in Nat /\ v < 128 * (128 * 128 * 128)
  BY SMT DEF Small
<1>2. QED
  BY <1>1, SeptetWeights DEF Arc

LEMMA SmallNumbers == ASSUME NEW k \in Nat, k <= 100000 PROVE k \in Small
BY DEF Small

LEMMA SmallColumns == ASSUME NEW k \in 0 .. 10 PROVE Columns[1 + k] \in Small
<1>1. Columns[1 + k] \in Nat /\ Columns[1 + k] <= 17
  BY DEF Columns
<1>2. QED
  BY <1>1, SmallNumbers

\* Names that begin with iso.org.
IsoPrefix(name) ==
  /\ name \in Seq(Nat) /\ Len(name) \in 7 .. 9 /\ name[1] = 1 /\ name[2] = 3
  /\ \A k \in 3 .. Len(name) : name[k] \in Arc

LEMMA LeafPrefixes ==
  IsoPrefix(System) /\ IsoPrefix(IfNumber) /\ IsoPrefix(IfEntry) /\ IsoPrefix(SysObjectId)
<1>1. ASSUME NEW name, name \in Seq(Nat), name \in Seq(Small), Len(name) \in 7 .. 9,
             name[1] = 1, name[2] = 3
      PROVE  IsoPrefix(name)
  <2>1. name \in Seq(Nat)
    BY <1>1
  <2>2. ASSUME NEW k \in 3 .. Len(name) PROVE name[k] \in Small
    BY <1>1
  <2>3. ASSUME NEW k \in 3 .. Len(name) PROVE name[k] \in Arc
    BY <2>2, SmallArcs
  <2>4. QED
    BY <1>1, <2>1, <2>3 DEF IsoPrefix
<1>2. /\ System \in Seq(Nat) /\ System \in Seq(Small) /\ Len(System) \in 7 .. 9
      /\ System[1] = 1 /\ System[2] = 3
  BY DEF System, Small
<1>3. /\ IfNumber \in Seq(Nat) /\ IfNumber \in Seq(Small) /\ Len(IfNumber) \in 7 .. 9
      /\ IfNumber[1] = 1 /\ IfNumber[2] = 3
  BY DEF IfNumber, Small
<1>4. /\ IfEntry \in Seq(Nat) /\ IfEntry \in Seq(Small) /\ Len(IfEntry) \in 7 .. 9
      /\ IfEntry[1] = 1 /\ IfEntry[2] = 3
  BY DEF IfEntry, Small
<1>5. /\ SysObjectId \in Seq(Nat) /\ SysObjectId \in Seq(Small) /\ Len(SysObjectId) \in 7 .. 9
      /\ SysObjectId[1] = 1 /\ SysObjectId[2] = 3
  BY DEF SysObjectId, Small
<1>6. QED
  BY <1>1, <1>2, <1>3, <1>4, <1>5

LEMMA IsoOrg ==
  ASSUME NEW name, name \in Seq(Nat), name[1] = 1, name[2] = 3
  PROVE  FirstOctet(name) \in Septet /\ name[2] < 40
BY DEF FirstOctet, Septet

LEMMA PrefixRoom == ASSUME NEW n \in 7 .. 9, NEW m \in Nat, m >= 11 PROVE n \in 2 .. m
BY SMT

LEMMA PrefixNameable ==
  ASSUME RoomForLeaves, NEW name, IsoPrefix(name)
  PROVE  Nameable(name)
<1>1. Len(name) \in 2 .. MaxOid
  <2>1. Len(name) \in 7 .. 9 /\ MaxOid \in Nat /\ MaxOid >= 11
    BY MaxOidAssumption DEF RoomForLeaves, IsoPrefix
  <2>2. QED
    BY <2>1, PrefixRoom, Zenon
<1>2. FirstOctet(name) \in Septet /\ name[2] < 40
  BY IsoOrg DEF IsoPrefix
<1>3. QED
  BY <1>1, <1>2 DEF IsoPrefix, Nameable

LEMMA UnderNameable ==
  ASSUME RoomForLeaves, NEW prefix, IsoPrefix(prefix), NEW x \in Arc, NEW y \in Arc
  PROVE  Nameable(Under(prefix, x, y))
<1> DEFINE name == Under(prefix, x, y)
           n == Len(prefix)
<1>1. /\ prefix \in Seq(Nat) /\ x \in Nat /\ y \in Nat /\ n \in 7 .. 9
      /\ prefix[1] = 1 /\ prefix[2] = 3
      /\ \A k \in 3 .. n : prefix[k] \in Arc
  BY DEF IsoPrefix, Arc
<1>2. /\ name \in Seq(Nat) /\ Len(name) = n + 2
      /\ \A k \in 1 .. n : name[k] = prefix[k]
      /\ name[n + 1] = x /\ name[n + 2] = y
  BY <1>1, Named DEF IsUnder
<1> HIDE DEF name, n
<1>3. Len(name) \in 2 .. MaxOid
  BY <1>1, <1>2, MaxOidAssumption DEF RoomForLeaves
<1>4. FirstOctet(name) \in Septet /\ name[2] < 40
  <2>1. name[1] = 1 /\ name[2] = 3
    BY <1>1, <1>2
  <2>2. QED
    BY <1>2, <2>1, IsoOrg
<1>5. ASSUME NEW k \in 3 .. Len(name) PROVE name[k] \in Arc
  <2>1. k \in 3 .. n \/ k = n + 1 \/ k = n + 2
    BY <1>1, <1>2
  <2>2. ASSUME k \in 3 .. n PROVE k \in 1 .. n
    BY <1>1, <2>2
  <2>3. QED
    BY <1>1, <1>2, <2>1, <2>2
<1>6. QED
  BY <1>2, <1>3, <1>4, <1>5 DEF Nameable, name

LEMMA LeafNameable ==
  ASSUME RoomForLeaves, NEW i \in Leaves
  PROVE  Nameable(LeafOid(i))
<1>1. 0 \in Arc /\ 0 \in Nat
  BY SmallArcs, SmallNumbers
<1>2. CASE i \in 1 .. 7 /\ LeafOid(i) = Under(System, i, 0)
  <2>1. i \in Nat /\ i <= 100000
    BY <1>2
  <2>2. i \in Arc
    BY <2>1, SmallNumbers, SmallArcs
  <2>3. QED
    BY <1>1, <1>2, <2>2, LeafPrefixes, UnderNameable
<1>3. CASE LeafOid(i) = IfNumber
  BY <1>3, LeafPrefixes, PrefixNameable
<1>4. CASE i \in 9 .. 8 + Cells /\ LeafOid(i) = Under(IfEntry, ColumnOf(i), RowOf(i))
  <2>1. RowOf(i) \in Arc
    <3>1. RowOf(i) \in 1 .. Rows
      BY <1>4, CellPlace
    <3>2. Rows \in Nat /\ SeptetWeight[4] \in Nat
      BY SeptetWeights, RowsAssumption
    <3>3. QED
      BY <3>1, <3>2 DEF RoomForLeaves, Arc
  <2>2. ColumnOf(i) \in Arc
    <3>1. Cell(i) \div Rows \in 0 .. 10
      BY <1>4, CellPlace
    <3>2. ColumnOf(i) \in Small
      BY <3>1, SmallColumns DEF ColumnOf
    <3>3. QED
      BY <3>2, SmallArcs
  <2>3. QED
    BY <1>4, <2>1, <2>2, LeafPrefixes, UnderNameable
<1>5. CASE i \in 9 + Cells .. 11 + Cells /\ LeafOid(i) = Under(SysObjectId, i - 8 - Cells, 0)
  <2>1. i - 8 - Cells \in 1 .. 3
    BY <1>5, Shape
  <2> DEFINE n == i - 8 - Cells
  <2>2. n \in Arc
    <3>1. n \in Nat /\ n <= 100000
      BY <2>1
    <3> HIDE DEF n
    <3>2. QED
      BY <3>1, SmallNumbers, SmallArcs
  <2>3. QED
    BY <1>1, <1>5, <2>2, LeafPrefixes, UnderNameable
<1>6. QED
  BY <1>2, <1>3, <1>4, <1>5, LeafOidIs

LEMMA ReadArcsTyped == ASSUME NEW s \in Octets PROVE ReadArcs(s) \in Readings
<1>1. 0 \in Octet
  BY DEF Octet
<1>2. QED
  BY <1>1, ReadOn

LEMMA TwoBefore ==
  ASSUME NEW x \in Nat, NEW y \in Nat, NEW s \in Seq(Nat)
  PROVE  /\ <<x, y>> \o s \in Seq(Nat) /\ Len(<<x, y>> \o s) = Len(s) + 2 /\ Len(s) \in Nat
         /\ (<<x, y>> \o s)[1] = x /\ (<<x, y>> \o s)[2] = y
OBVIOUS

LEMMA GotNameable ==
  ASSUME NEW octets, Echoable(octets), GetOid(octets) # NotAnOid
  PROVE  Nameable(GetOid(octets))
<1> DEFINE rest == ReadArcs(Tail(octets))
           b == octets[1]
           oid == GetOid(octets)
<1>1. /\ octets # <<>> /\ Len(rest.arcs) + 2 <= MaxOid
      /\ oid = <<b \div 40, b % 40>> \o rest.arcs
  <2>1. octets # <<>> /\ ~ (Len(rest.arcs) + 2 > MaxOid)
        /\ oid = <<b \div 40, b % 40>> \o rest.arcs
    BY Zenon DEF GetOid, NotAnOid
  <2>2. Tail(octets) \in Octets
    BY <2>1 DEF Echoable, Octets
  <2>3. rest.arcs \in Seq(Nat)
    BY <2>2, ReadArcsTyped DEF Readings
  <2>4. Len(rest.arcs) \in Nat
    BY <2>3
  <2>5. QED
    BY <2>1, <2>4, MaxOidAssumption
<1>2. b \in Septet
  BY <1>1 DEF Echoable
<1>3. b \div 40 \in Nat /\ b % 40 \in Nat /\ b % 40 < 40 /\ 40 * (b \div 40) + (b % 40) = b
  BY <1>2, SMT DEF Septet
<1>4. rest.arcs \in Seq(Nat)
  <2>1. Tail(octets) \in Octets
    BY <1>1 DEF Echoable, Octets
  <2>2. QED
    BY <2>1, ReadArcsTyped DEF Readings
<1> HIDE DEF rest, b, oid
<1>5. oid \in Seq(Nat) /\ Len(oid) = Len(rest.arcs) + 2 /\ Len(rest.arcs) \in Nat
      /\ oid[1] = b \div 40 /\ oid[2] = b % 40
  <2> DEFINE x == b \div 40
             y == b % 40
             list == rest.arcs
  <2>1. x \in Nat /\ y \in Nat /\ list \in Seq(Nat) /\ oid = <<x, y>> \o list
    BY <1>1, <1>3, <1>4
  <2> HIDE DEF x, y, list
  <2>2. oid \in Seq(Nat) /\ Len(oid) = Len(list) + 2 /\ Len(list) \in Nat
        /\ oid[1] = x /\ oid[2] = y
    BY <2>1, TwoBefore
  <2>3. QED
    BY <2>2 DEF x, y, list
<1>6. Len(oid) \in 2 .. MaxOid
  BY <1>1, <1>5, MaxOidAssumption
<1>7. FirstOctet(oid) \in Septet /\ oid[2] < 40
  BY <1>2, <1>3, <1>5 DEF FirstOctet
<1>8. \A k \in 3 .. Len(oid) : oid[k] \in Arc
  BY DEF Echoable, oid
<1>9. QED
  BY <1>5, <1>6, <1>7, <1>8 DEF Nameable, oid

-----------------------------------------------------------------------------
(* What is found for a name                                                *)

LEMMA LeastLeaf ==
  ASSUME NEW test \in SUBSET Leaves, test # {}
  PROVE  First(test) \in test /\ \A i \in test : First(test) <= i
<1> DEFINE R == {p \in Nat \X Nat : p[1] < p[2]}
<1>1. IsWellFoundedOn(R, Nat)
  BY LessIsWellFounded
<1>2. test \subseteq Nat
  BY Shape
<1> HIDE DEF R
<1>3. PICK x \in test : \A y \in test : ~ (<<y, x>> \in R)
  BY <1>1, <1>2, WFMin
<1>4. ASSUME NEW y \in test PROVE x <= y
  <2>1. ~ (<<y, x>> \in R) /\ x \in Nat /\ y \in Nat
    BY <1>2, <1>3
  <2>2. QED
    BY <2>1 DEF R
<1>5. First(test) = CHOOSE i \in test : \A j \in test : i <= j
  BY DEF First
<1>6. QED
  BY <1>3, <1>4, <1>5

\* mib_get_next(): the first leaf after a name, if there is one.
LEMMA NextFound ==
  ASSUME NEW oid
  PROVE  /\ GetNext(oid) = NoLeaf => \A i \in Leaves : ~ OidLess(oid, LeafOid(i))
         /\ GetNext(oid) # NoLeaf =>
              /\ GetNext(oid) \in Leaves /\ OidLess(oid, LeafOid(GetNext(oid)))
              /\ \A i \in Leaves : OidLess(oid, LeafOid(i)) => GetNext(oid) <= i
<1> DEFINE test == {i \in Leaves : OidLess(oid, LeafOid(i))}
<1>1. GetNext(oid) = First(test)
  BY DEF GetNext
<1>2. CASE test = {}
  <2>1. GetNext(oid) = NoLeaf
    BY <1>1, <1>2 DEF First
  <2>2. QED
    BY <1>2, <2>1
<1>3. CASE test # {}
  <2>1. First(test) \in test /\ \A i \in test : First(test) <= i
    BY <1>3, LeastLeaf
  <2>2. First(test) \in Leaves /\ First(test) # NoLeaf
    BY <2>1, Shape DEF NoLeaf
  <2>3. QED
    BY <1>1, <2>1, <2>2
<1>4. QED
  BY <1>2, <1>3

\* mib_get_exact(): the leaf of a name, if there is one.
LEMMA ExactFound ==
  ASSUME NEW oid
  PROVE  /\ GetExact(oid) = NoLeaf <=> oid \notin Oids
         /\ GetExact(oid) # NoLeaf =>
              GetExact(oid) \in Leaves /\ LeafOid(GetExact(oid)) = oid
<1>1. CASE oid \in Oids
  <2>1. PICK i \in Leaves : oid = LeafOid(i)
    BY <1>1 DEF Oids
  <2>2. GetExact(oid) = i /\ i # NoLeaf
    BY <2>1, ExactIsLookup, Shape DEF NoLeaf
  <2>3. QED
    BY <1>1, <2>1, <2>2
<1>2. CASE oid \notin Oids
  <2>1. {i \in Leaves : LeafOid(i) = oid} = {}
    BY <1>2 DEF Oids
  <2>2. GetExact(oid) = NoLeaf
    BY <2>1 DEF GetExact, First
  <2>3. QED
    BY <1>2, <2>2
<1>3. QED
  BY <1>1, <1>2

Asked(oid) == [name |-> oid, ended |-> FALSE]

NextAnswer(oid) ==
  IF GetNext(oid) = NoLeaf THEN [name |-> oid, ended |-> TRUE]
  ELSE Asked(LeafOid(GetNext(oid)))

\* The least name after one is that of the first leaf after it.
LEMMA FollowIs ==
  ASSUME NEW oid
  PROVE  Follow(Asked(oid)) = NextAnswer(oid)
<1> DEFINE after == {o \in Oids : OidLess(oid, o)}
           m == GetNext(oid)
           IsNext(o) == \A p \in after : ~ OidLess(p, o)
           next == CHOOSE o \in after : IsNext(o)
<1>1. Follow(Asked(oid)) = IF after = {} THEN [name |-> oid, ended |-> TRUE]
                           ELSE [name |-> next, ended |-> FALSE]
  <2>1. Asked(oid).name = oid
    BY DEF Asked
  <2>2. QED
    BY <2>1, Zenon DEF Follow
<1>2. CASE m = NoLeaf
  <2>1. after = {}
    BY <1>2, NextFound DEF Oids
  <2>2. QED
    BY <1>1, <1>2, <2>1 DEF NextAnswer
<1>3. CASE m # NoLeaf
  <2>1. /\ m \in Leaves /\ LeafOid(m) \in after
        /\ \A i \in Leaves : OidLess(oid, LeafOid(i)) => m <= i
    BY <1>3, NextFound DEF Oids
  <2>2. ASSUME NEW o \in after
        PROVE  /\ ~ OidLess(o, LeafOid(m))
               /\ o # LeafOid(m) => OidLess(LeafOid(m), o)
    <3>1. PICK i \in Leaves : o = LeafOid(i) /\ m <= i
      BY <2>1, <2>2 DEF Oids
    <3>2. LeafOid(m) \in Seq(Nat) /\ LeafOid(i) \in Seq(Nat)
      BY <2>1, LongNames DEF Long, Arcs
    <3>3. CASE m = i
      BY <3>1, <3>2, <3>3, NotItself
    <3>4. CASE m < i
      <4>1. OidLess(LeafOid(m), LeafOid(i))
        BY <2>1, <3>4, WalkOrder
      <4>2. QED
        BY <3>1, <3>2, <4>1, Asymmetric
    <3>5. m \in Nat /\ i \in Nat
      BY <2>1, Shape
    <3>6. QED
      BY <3>1, <3>3, <3>4, <3>5
  <2> HIDE DEF after
  <2>3. IsNext(LeafOid(m)) /\ \A o \in after : IsNext(o) => o = LeafOid(m)
    BY <2>1, <2>2
  <2> HIDE DEF IsNext
  <2>4. next = LeafOid(m)
    BY <2>1, <2>3
  <2>5. QED
    BY <1>1, <1>3, <2>1, <2>4 DEF NextAnswer, Asked
<1>4. QED
  BY <1>2, <1>3

-----------------------------------------------------------------------------
(* One answer, and what it says to the manager                             *)

LEMMA LeafAnswers ==
  ASSUME RoomForLeaves, NEW i \in Leaves
  PROVE  /\ Answer(LeafVb(i)) = Asked(LeafOid(i))
         /\ Answer(Ended(i)) = [name |-> LeafOid(i), ended |-> TRUE]
<1>1. GetOid(PutOid(LeafOid(i))) = LeafOid(i)
  BY LeafNameable, OidsReturn
<1>2. QED
  BY <1>1 DEF Answer, LeafVb, Ended, Asked

\* set_vb_next()
LEMMA NextAnswers ==
  ASSUME RoomForLeaves, NEW oid, Nameable(oid)
  PROVE  Answer(NextVb(oid)) = NextAnswer(oid)
<1>1. CASE GetNext(oid) = NoLeaf
  <2>1. GetOid(PutOid(oid)) = oid
    BY OidsReturn
  <2>2. QED
    BY <1>1, <2>1 DEF NextVb, NextAnswer, EchoVb, Answer
<1>2. CASE GetNext(oid) # NoLeaf
  <2>1. GetNext(oid) \in Leaves
    BY <1>2, NextFound
  <2>2. QED
    BY <1>2, <2>1, LeafAnswers DEF NextVb, NextAnswer
<1>3. QED
  BY <1>1, <1>2

-----------------------------------------------------------------------------
(* One answer after the other                                              *)

On(answer) == IF answer.ended THEN answer ELSE NextAnswer(answer.name)

Replies(oid) == [name : {oid} \cup Oids, ended : BOOLEAN]

LEMMA OnTyped ==
  ASSUME NEW oid, NEW a \in Replies(oid)
  PROVE  /\ On(a) \in Replies(oid)
         /\ (IF a.ended THEN a ELSE Follow(a)) = On(a)
<1>1. CASE a.ended
  BY <1>1 DEF On
<1>2. CASE ~ a.ended
  <2>1. a = Asked(a.name)
    BY <1>2 DEF Asked, Replies
  <2>2. (IF a.ended THEN a ELSE Follow(a)) = On(a)
    BY <1>2, <2>1, FollowIs DEF On
  <2>3. NextAnswer(a.name) \in Replies(oid)
    <3>1. CASE GetNext(a.name) = NoLeaf
      BY <3>1 DEF NextAnswer, Replies
    <3>2. CASE GetNext(a.name) # NoLeaf
      <4>1. LeafOid(GetNext(a.name)) \in Oids
        BY <3>2, NextFound DEF Oids
      <4>2. QED
        BY <3>2, <4>1 DEF NextAnswer, Asked, Replies
    <3>3. QED
      BY <3>1, <3>2
  <2>4. QED
    BY <1>2, <2>2, <2>3 DEF On
<1>3. QED
  BY <1>1, <1>2

LEMMA RepeatedFollows ==
  ASSUME NEW oid, NEW n \in Nat
  PROVE  \E f : /\ Repeated(oid, n) = f[n]
                /\ f[0] = Asked(oid)
                /\ \A k \in 1 .. n : f[k - 1] \in Replies(oid) /\ f[k] = On(f[k - 1])
                /\ f[n] \in Replies(oid)
<1> DEFINE Step(a) == IF a.ended THEN a ELSE Follow(a)
           IsAnswer(f) == f = [k \in 0 .. n |->
                                 IF k = 0 THEN [name |-> oid, ended |-> FALSE]
                                 ELSE IF f[k - 1].ended THEN f[k - 1] ELSE Follow(f[k - 1])]
           step == [k \in 1 .. n |-> [a \in Replies(oid) |-> On(a)]]
           answer == CHOOSE f : IsAnswer(f)
<1>1. Repeated(oid, n) = answer[n]
  BY Zenon DEF Repeated
<1>2. Asked(oid) \in Replies(oid)
  BY DEF Asked, Replies
<1>3. step \in [1 .. n -> [Replies(oid) -> Replies(oid)]]
  BY OnTyped
<1>4. PICK f \in [0 .. n -> Replies(oid)] : Follows(f, Asked(oid), step, n)
  <2> HIDE DEF step
  <2>1. QED
    BY <1>2, <1>3, Recursion
<1>5. f[0] = Asked(oid)
      /\ \A k \in 1 .. n : f[k - 1] \in Replies(oid) /\ f[k] = On(f[k - 1])
  <2>1. ASSUME NEW k \in 1 .. n PROVE f[k - 1] \in Replies(oid)
    OBVIOUS
  <2>2. QED
    BY <1>4, <2>1 DEF Follows
<1>6. IsAnswer(f)
  <2>1. f = [k \in 0 .. n |-> f[k]]
    OBVIOUS
  <2>2. ASSUME NEW k \in 0 .. n PROVE k = 0 \/ k \in 1 .. n
    OBVIOUS
  <2>3. QED
    BY <1>5, <2>1, <2>2, OnTyped DEF Asked
<1>7. IsAnswer(answer)
  <2> HIDE DEF IsAnswer
  <2>1. QED
    BY <1>6
\* It is f: the same at 0, and at each number after.
<1> DEFINE S == {k \in Nat : k <= n => answer[k] = f[k]}
<1>8. 0 \in S
  <2>1. 0 \in 0 .. n
    OBVIOUS
  <2> HIDE DEF answer
  <2>2. answer[0] = [name |-> oid, ended |-> FALSE]
    BY <1>7, <2>1
  <2>3. QED
    BY <1>5, <2>2 DEF Asked
<1>9. ASSUME NEW k \in Nat, k \in S PROVE k + 1 \in S
  <2> HIDE DEF answer
  <2>1. SUFFICES ASSUME k + 1 <= n PROVE answer[k + 1] = f[k + 1]
    OBVIOUS
  <2>2. k + 1 \in 0 .. n /\ k + 1 # 0 /\ (k + 1) - 1 = k /\ k + 1 \in 1 .. n
    BY <2>1
  <2>3. answer[k] = f[k]
    BY <1>9, <2>1
  <2>4. answer[k + 1] = IF answer[k].ended THEN answer[k] ELSE Follow(answer[k])
    BY <1>7, <2>2
  <2>5. f[k] \in Replies(oid) /\ f[k + 1] = On(f[k])
    BY <1>5, <2>2
  <2>6. QED
    BY <2>3, <2>4, <2>5, OnTyped
<1> HIDE DEF S
<1>10. Nat \subseteq S
  BY <1>8, <1>9, SetInduction
<1>11. answer[n] = f[n]
  BY <1>10 DEF S
<1>12. f[n] \in Replies(oid)
  OBVIOUS
<1> HIDE DEF answer
<1>13. QED
  BY <1>1, <1>5, <1>11, <1>12

LEMMA RepeatedOn ==
  ASSUME NEW oid, NEW n \in Nat
  PROVE  /\ Repeated(oid, n) \in Replies(oid)
         /\ Repeated(oid, 0) = Asked(oid)
         /\ Repeated(oid, n + 1) = On(Repeated(oid, n))
<1>1. PICK f : /\ Repeated(oid, n) = f[n]
               /\ f[0] = Asked(oid)
               /\ \A k \in 1 .. n : f[k - 1] \in Replies(oid) /\ f[k] = On(f[k - 1])
               /\ f[n] \in Replies(oid)
  BY RepeatedFollows
<1>2. n + 1 \in Nat
  OBVIOUS
<1>3. PICK g : /\ Repeated(oid, n + 1) = g[n + 1]
               /\ g[0] = Asked(oid)
               /\ \A k \in 1 .. n + 1 : g[k - 1] \in Replies(oid) /\ g[k] = On(g[k - 1])
               /\ g[n + 1] \in Replies(oid)
  BY <1>2, RepeatedFollows
<1> DEFINE S == {k \in Nat : k <= n => f[k] = g[k]}
<1>4. 0 \in S
  BY <1>1, <1>3
<1>5. ASSUME NEW k \in Nat, k \in S PROVE k + 1 \in S
  <2>1. ASSUME k + 1 <= n PROVE f[k + 1] = g[k + 1]
    <3>1. k + 1 \in 1 .. n /\ k + 1 \in 1 .. n + 1 /\ (k + 1) - 1 = k /\ k <= n
      BY <2>1
    <3>2. f[k] = g[k]
      BY <1>5, <3>1
    <3>3. QED
      BY <1>1, <1>3, <3>1, <3>2
  <2>2. QED
    BY <2>1
<1> HIDE DEF S
<1>6. Nat \subseteq S
  BY <1>4, <1>5, SetInduction
<1>7. f[n] = g[n]
  BY <1>6 DEF S
<1>8. n + 1 \in 1 .. n + 1 /\ (n + 1) - 1 = n
  OBVIOUS
<1>9. g[n + 1] = On(g[n])
  BY <1>3, <1>8
<1>10. Repeated(oid, 0) = Asked(oid)
  <2>1. PICK h : Repeated(oid, 0) = h[0] /\ h[0] = Asked(oid)
    BY RepeatedFollows
  <2>2. QED
    BY <2>1
<1>11. QED
  BY <1>1, <1>3, <1>7, <1>9, <1>10

-----------------------------------------------------------------------------
(* The plans of GET and GETNEXT                                            *)

\* What a list of varbinds says to the manager.
Answers(list) == [i \in DOMAIN list |-> Answer(list[i])]

AllNameable(names) == \A i \in DOMAIN names : Nameable(names[i])

\* A varbind takes the room its answer takes: texts are the values of the first
\* leaves, and no other leaf has the name of one of them.
TextVb(vb) == vb.value \in 1 .. Scalars - 1
TextAnswer(answer) == ~ answer.ended /\ answer.name \in Texts

LEMMA LeafTexts ==
  ASSUME NEW i \in Leaves
  PROVE  LeafOid(i) \in Texts <=> i \in 1 .. Scalars - 1
<1>1. 1 .. Scalars - 1 \subseteq Leaves
  BY Shape
<1>2. ASSUME NEW j \in 1 .. Scalars - 1, LeafOid(j) = LeafOid(i) PROVE i = j
  <2>1. GetExact(LeafOid(j)) = j /\ GetExact(LeafOid(i)) = i
    BY <1>1, ExactIsLookup
  <2>2. QED
    BY <1>2, <2>1
<1>3. QED
  BY <1>2, Zenon DEF Texts

LEMMA VbTexts ==
  ASSUME RoomForLeaves, NEW i \in Leaves
  PROVE  /\ TextVb(LeafVb(i)) <=> TextAnswer(Answer(LeafVb(i)))
         /\ TextVb(Ended(i)) <=> TextAnswer(Answer(Ended(i)))
<1>1. Answer(LeafVb(i)) = Asked(LeafOid(i)) /\ Answer(Ended(i)).ended
  BY LeafAnswers
<1>2. LeafVb(i).value = i /\ Ended(i).value = 0
  BY DEF LeafVb, Ended, NoLeaf
<1>3. 0 \notin 1 .. Scalars - 1
  BY Shape
<1>4. QED
  BY <1>1, <1>2, <1>3, LeafTexts DEF TextVb, TextAnswer, Asked

LEMMA NextTexts ==
  ASSUME RoomForLeaves, NEW oid, Nameable(oid)
  PROVE  TextVb(NextVb(oid)) <=> TextAnswer(Answer(NextVb(oid)))
<1>1. CASE GetNext(oid) = NoLeaf
  <2>1. Answer(NextVb(oid)).ended
    BY <1>1, NextAnswers DEF NextAnswer
  <2>2. NextVb(oid).value = 0
    BY <1>1 DEF NextVb, EchoVb, NoLeaf
  <2>3. 0 \notin 1 .. Scalars - 1
    BY Shape
  <2>4. QED
    BY <2>1, <2>2, <2>3 DEF TextVb, TextAnswer
<1>2. CASE GetNext(oid) # NoLeaf
  <2>1. GetNext(oid) \in Leaves
    BY <1>2, NextFound
  <2>2. NextVb(oid) = LeafVb(GetNext(oid))
    BY <1>2 DEF NextVb
  <2>3. QED
    BY <2>1, <2>2, VbTexts
<1>3. QED
  BY <1>1, <1>2

LEMMA GetAnswers ==
  ASSUME RoomForLeaves, NEW names, AllNameable(names), NEW i \in DOMAIN names
  PROVE  /\ Answer(PlanGet(names)[i]) = Asked(names[i])
         /\ PlanGet(names)[i].exception = "none" <=> names[i] \in Oids
         /\ TextVb(PlanGet(names)[i]) <=> TextAnswer(Answer(PlanGet(names)[i]))
<1> DEFINE leaf == GetExact(names[i])
<1>1. PlanGet(names)[i] = IF leaf = NoLeaf THEN EchoVb(names[i], "noSuchInstance")
                          ELSE LeafVb(leaf)
  BY DEF PlanGet
<1>2. leaf = NoLeaf <=> names[i] \notin Oids
  BY ExactFound
<1>3. CASE leaf = NoLeaf
  <2>1. GetOid(PutOid(names[i])) = names[i]
    BY OidsReturn DEF AllNameable
  <2>2. PlanGet(names)[i] = EchoVb(names[i], "noSuchInstance")
    BY <1>1, <1>3
  <2>3. Answer(PlanGet(names)[i]) = Asked(names[i])
    <3>1. /\ PlanGet(names)[i].name = PutOid(names[i])
          /\ PlanGet(names)[i].exception = "noSuchInstance"
      BY <2>2 DEF EchoVb
    <3> DEFINE vb == PlanGet(names)[i]
    <3> HIDE DEF vb
    <3>2. Answer(vb) = [name |-> GetOid(vb.name), ended |-> vb.exception = "endOfMibView"]
      BY DEF Answer
    <3>3. (vb.exception = "endOfMibView") = FALSE
      BY <3>1 DEF vb
    <3>4. GetOid(vb.name) = names[i]
      BY <2>1, <3>1, Zenon DEF vb
    <3>5. QED
      BY <3>2, <3>3, <3>4 DEF vb, Asked
  <2>4. names[i] \notin Texts
    <3>1. 1 .. Scalars - 1 \subseteq Leaves
      BY Shape
    <3>2. QED
      BY <1>2, <1>3, <3>1, Zenon DEF Texts, Oids
  <2>5. PlanGet(names)[i].value = 0 /\ PlanGet(names)[i].exception = "noSuchInstance"
    BY <2>2 DEF EchoVb, NoLeaf
  <2>6. 0 \notin 1 .. Scalars - 1
    BY Shape
  <2>7. ~ TextVb(PlanGet(names)[i])
    BY <2>5, <2>6 DEF TextVb
  <2>8. ~ TextAnswer(Answer(PlanGet(names)[i]))
    <3>1. Asked(names[i]).name = names[i]
      BY DEF Asked
    <3>2. QED
      BY <2>3, <2>4, <3>1 DEF TextAnswer
  <2>9. QED
    BY <1>2, <1>3, <2>3, <2>5, <2>7, <2>8
<1>4. CASE leaf # NoLeaf
  <2>1. leaf \in Leaves /\ LeafOid(leaf) = names[i]
    BY <1>4, ExactFound
  <2>2. PlanGet(names)[i] = LeafVb(leaf)
    BY <1>1, <1>4
  <2>3. Answer(LeafVb(leaf)) = Asked(names[i])
    BY <2>1, LeafAnswers
  <2>4. LeafVb(leaf).exception = "none"
    BY DEF LeafVb
  <2>5. QED
    BY <1>2, <1>4, <2>1, <2>2, <2>3, <2>4, VbTexts
<1>5. QED
  BY <1>3, <1>4

LEMMA OnceAnswered == ASSUME NEW oid PROVE Repeated(oid, 1) = NextAnswer(oid)
<1>1. Repeated(oid, 0) = Asked(oid) /\ Repeated(oid, 0 + 1) = On(Repeated(oid, 0))
  BY RepeatedOn
<1>2. On(Asked(oid)) = NextAnswer(oid)
  BY DEF On, Asked
<1>3. QED
  BY <1>1, <1>2

LEMMA GetNextAnswers ==
  ASSUME RoomForLeaves, NEW names, AllNameable(names)
  PROVE  /\ DOMAIN PlanGetNext(names) = DOMAIN names
         /\ Answers(PlanGetNext(names)) = [i \in DOMAIN names |-> Repeated(names[i], 1)]
<1>1. ASSUME NEW i \in DOMAIN names
      PROVE  Answer(PlanGetNext(names)[i]) = Repeated(names[i], 1)
  <2>1. PlanGetNext(names)[i] = NextVb(names[i])
    BY DEF PlanGetNext
  <2>2. Nameable(names[i])
    BY DEF AllNameable
  <2>3. QED
    BY <2>1, <2>2, NextAnswers, OnceAnswered
<1>2. DOMAIN PlanGetNext(names) = DOMAIN names
  BY DEF PlanGetNext
<1>3. QED
  BY <1>1, <1>2 DEF Answers

-----------------------------------------------------------------------------
(* The answer to a request                                                 *)

LEMMA NamesGot ==
  ASSUME NEW r, Askable(r), Kept(r), ~ TooMany(r)
  PROVE  /\ Len(r.names) \in 1 .. MaxNames
         /\ Names(r) \in Seq(Seq(Nat)) /\ Len(Names(r)) = Len(r.names)
         /\ AllNameable(Names(r))
<1>1. /\ r.names \in Seq(Octets) /\ DOMAIN r.names = 1 .. Len(r.names) /\ Len(r.names) \in Nat
      /\ r.names # <<>> /\ Len(r.names) <= MaxNames
  BY AgentAssumption DEF Askable, Kept, TooMany
<1>2. Len(r.names) \in 1 .. MaxNames
  BY <1>1, AgentAssumption
<1>3. ASSUME NEW i \in 1 .. Len(r.names)
      PROVE  Nameable(GetOid(r.names[i]))
  <2>1. i <= MaxNames
    BY <1>1, AgentAssumption
  <2>2. GetOid(r.names[i]) # NotAnOid
    BY <2>1 DEF Kept
  <2>3. Echoable(r.names[i])
    BY <1>1 DEF Askable
  <2>4. QED
    BY <2>2, <2>3, GotNameable
<1>4. ASSUME NEW i \in 1 .. Len(r.names)
      PROVE  GetOid(r.names[i]) \in Seq(Nat)
  BY <1>3 DEF Nameable
<1>5. Names(r) \in Seq(Seq(Nat)) /\ Len(Names(r)) = Len(r.names)
      /\ DOMAIN Names(r) = 1 .. Len(r.names)
  BY <1>1, <1>4 DEF Names
<1>6. AllNameable(Names(r))
  BY <1>3, <1>5 DEF AllNameable, Names
<1>7. QED
  BY <1>2, <1>5, <1>6

Reading(r) == r.pdu \in {"GET", "GETNEXT", "GETBULK"}

LEMMA Handled ==
  ASSUME NEW r, Askable(r), Kept(r)
  PROVE  \/ /\ HandleRequest(r) = Response(r, "none", 0, Plan(r))
            /\ ~ TooMany(r) /\ Reading(r) /\ ~ (Size(Plan(r)) > TxRoom)
         \/ /\ \E error, index : /\ HandleRequest(r) = Response(r, error, index, <<>>)
                                 /\ error # "none" /\ error # "dropped"
            /\ ~ TooMany(r) /\ Reading(r) => Size(Plan(r)) > TxRoom
<1>1. CASE TooMany(r)
  <2>1. HandleRequest(r) = Response(r, "tooBig", 0, <<>>)
    BY <1>1, Zenon DEF HandleRequest
  <2>2. "tooBig" # "none" /\ "tooBig" # "dropped"
    OBVIOUS
  <2>3. QED
    BY <1>1, <2>1, <2>2
<1>2. CASE ~ TooMany(r) /\ r.pdu = "SET"
  <2>1. HandleRequest(r) = Response(r, "notWritable", 1, <<>>)
    <3>1. ~ (Kept(r) /\ TooMany(r)) /\ r.pdu # "unknown"
      BY <1>2
    <3>2. QED
      BY <1>2, <3>1, Zenon DEF HandleRequest
  <2>2. "notWritable" # "none" /\ "notWritable" # "dropped" /\ ~ Reading(r)
    BY <1>2 DEF Reading
  <2>3. QED
    BY <2>1, <2>2
<1>3. CASE ~ TooMany(r) /\ r.pdu = "unknown"
  <2>1. HandleRequest(r) = Response(r, "genErr", 0, <<>>)
    <3>1. ~ (Kept(r) /\ TooMany(r)) /\ r.pdu # "SET"
      BY <1>3
    <3>2. QED
      BY <1>3, <3>1, Zenon DEF HandleRequest
  <2>2. "genErr" # "none" /\ "genErr" # "dropped" /\ ~ Reading(r)
    BY <1>3 DEF Reading
  <2>3. QED
    BY <2>1, <2>2
<1>4. CASE ~ TooMany(r) /\ Reading(r)
  <2>1. r.pdu # "SET" /\ r.pdu # "unknown"
    BY <1>4 DEF Reading
  <2>2. HandleRequest(r) = IF Size(Plan(r)) > TxRoom THEN Response(r, "tooBig", 0, <<>>)
                           ELSE Response(r, "none", 0, Plan(r))
    BY <1>4, <2>1, Zenon DEF HandleRequest
  <2>3. "tooBig" # "none" /\ "tooBig" # "dropped"
    OBVIOUS
  <2>4. QED
    BY <1>4, <2>2, <2>3, Zenon
<1>5. QED
  BY <1>1, <1>2, <1>3, <1>4 DEF Askable, Reading

\* What is left to see to of a list.
ListConforms(r, list) ==
  /\ Answers(list) = Expectation(r)
  /\ r.pdu = "GET" =>
       \A i \in DOMAIN list : list[i].exception = "none" <=> Names(r)[i] \in Oids
  /\ list \in Seq({list[i] : i \in DOMAIN list})
  /\ \A i \in DOMAIN list : TextVb(list[i]) <=> TextAnswer(Answer(list[i]))

\* The agent and the manager agree on the room that it takes.
LEMMA RoomIs ==
  ASSUME NEW r, NEW list, ListConforms(r, list)
  PROVE  Size(list) = Room(Expectation(r)) /\ Size(list) \in Nat
<1> DEFINE answers == Answers(list)
           n == Len(list)
<1>1. n \in Nat /\ DOMAIN list = 1 .. n
  BY DEF ListConforms
<1>2. DOMAIN answers = DOMAIN list
  BY DEF Answers
<1>3. Len(answers) = n
  <2> DEFINE f == [i \in 1 .. n |-> Answer(list[i])]
  <2>1. answers = f
    BY <1>1 DEF Answers
  <2> HIDE DEF n
  <2>2. Len(f) = n
    BY <1>1
  <2> HIDE DEF f, answers
  <2>3. QED
    BY <2>1, <2>2
<1>4. ASSUME NEW i \in DOMAIN list
      PROVE  list[i].value \in 1 .. Scalars - 1
               <=> ~ answers[i].ended /\ answers[i].name \in Texts
  BY DEF ListConforms, Answers, TextVb, TextAnswer
<1> DEFINE texts == {i \in DOMAIN list : list[i].value \in 1 .. Scalars - 1}
<1>5. texts = {i \in DOMAIN answers : ~ answers[i].ended /\ answers[i].name \in Texts}
  BY <1>2, <1>4, Zenon
<1>6. Cardinality(texts) \in Nat
  <2>1. IsFiniteSet(1 .. n)
    BY <1>1, FS_Interval
  <2>2. texts \subseteq 1 .. n
    BY <1>1
  <2> HIDE DEF texts, n
  <2>3. QED
    BY <2>1, <2>2, FS_Subset, FS_CardinalityType
<1>7. Size(list) = n + Cardinality(texts)
  BY DEF Size
<1>8. Room(answers) = Len(answers) + Cardinality(texts)
  BY <1>5, Zenon DEF Room
<1>9. answers = Expectation(r)
  BY DEF ListConforms
<1> HIDE DEF answers, texts, n
<1>10. QED
  BY <1>1, <1>3, <1>6, <1>7, <1>8, <1>9

\* Whoever is not to be answered in full gets an error under its own id.
LEMMA Identified ==
  ASSUME NEW r, Askable(r), Kept(r), ~ TooMany(r) /\ Reading(r) => ListConforms(r, Plan(r))
  PROVE  Conforms(r)
<1>1. PutInt(GetInt(r.id)) = r.id
  BY IntegersReturn DEF Askable
<1>2. Answerable(r) <=> ~ TooMany(r) /\ Reading(r) /\ ~ (Size(Plan(r)) > TxRoom)
  <2>1. CASE TooMany(r) \/ ~ Reading(r)
    BY <2>1 DEF Answerable, Reading
  <2>2. CASE ~ TooMany(r) /\ Reading(r)
    <3>1. Size(Plan(r)) = Room(Expectation(r)) /\ Size(Plan(r)) \in Nat
      BY <2>2, RoomIs
    <3> DEFINE size == Size(Plan(r))
               room == Room(Expectation(r))
    <3>2. Answerable(r) <=> room <= TxRoom
      BY <2>2 DEF Answerable, Reading
    <3> HIDE DEF size, room
    <3>3. room <= TxRoom <=> ~ (size > TxRoom)
      BY <3>1, AgentAssumption DEF size, room
    <3>4. QED
      BY <2>2, <3>2, <3>3 DEF size
  <2>3. QED
    BY <2>1, <2>2
<1>3. ASSUME NEW error, NEW index, HandleRequest(r) = Response(r, error, index, <<>>),
             error # "none", error # "dropped", ~ Answerable(r)
      PROVE  Conforms(r)
  <2>1. /\ HandleRequest(r).id = r.id /\ HandleRequest(r).error = error
        /\ HandleRequest(r).list = <<>>
    BY <1>1, <1>3 DEF Response
  <2>2. QED
    BY <1>3, <2>1, Zenon DEF Conforms
<1>4. ASSUME HandleRequest(r) = Response(r, "none", 0, Plan(r)), Answerable(r),
             ListConforms(r, Plan(r))
      PROVE  Conforms(r)
  <2>1. /\ HandleRequest(r).id = r.id /\ HandleRequest(r).error = "none"
        /\ HandleRequest(r).list = Plan(r)
    BY <1>1, <1>4 DEF Response
  <2>2. "none" # "dropped"
    OBVIOUS
  <2>3. QED
    BY <1>4, <2>1, <2>2, Zenon DEF Conforms, ListConforms, Answers
<1>5. QED
  BY <1>2, <1>3, <1>4, Handled

LEMMA GetConforms ==
  ASSUME RoomForLeaves, NEW r, Askable(r), Kept(r), ~ TooMany(r), r.pdu = "GET"
  PROVE  ListConforms(r, Plan(r))
<1> DEFINE names == Names(r)
           list == PlanGet(names)
<1>1. Plan(r) = list
  BY Zenon DEF Plan
<1>2. names \in Seq(Seq(Nat)) /\ AllNameable(names)
  BY NamesGot
<1>3. list \in Seq({list[i] : i \in DOMAIN list})
  <2>1. DOMAIN names = 1 .. Len(names) /\ Len(names) \in Nat
    BY <1>2
  <2>2. list = [i \in 1 .. Len(names) |-> list[i]] /\ DOMAIN list = 1 .. Len(names)
    BY <2>1 DEF PlanGet
  <2> HIDE DEF list, names
  <2>3. QED
    BY <2>1, <2>2
<1>4. DOMAIN list = DOMAIN names
  BY DEF PlanGet
<1>5. \A i \in DOMAIN names :
        /\ Answer(list[i]) = Asked(names[i])
        /\ list[i].exception = "none" <=> names[i] \in Oids
        /\ TextVb(list[i]) <=> TextAnswer(Answer(list[i]))
  BY <1>2, GetAnswers
<1> HIDE DEF list, names
<1>6. Answers(list) = [i \in DOMAIN names |-> [name |-> names[i], ended |-> FALSE]]
  BY <1>4, <1>5 DEF Answers, Asked
<1>7. Expectation(r) = [i \in DOMAIN names |-> [name |-> names[i], ended |-> FALSE]]
  BY Zenon DEF Expectation, names
<1>8. Answers(list) = Expectation(r)
  BY <1>6, <1>7, Zenon
<1>9. \A i \in DOMAIN list : list[i].exception = "none" <=> Names(r)[i] \in Oids
  BY <1>4, <1>5, Zenon DEF names
<1>10. \A i \in DOMAIN list : TextVb(list[i]) <=> TextAnswer(Answer(list[i]))
  BY <1>4, <1>5, Zenon
<1>11. ListConforms(r, list)
  BY <1>3, <1>8, <1>9, <1>10, Zenon DEF ListConforms
<1>12. QED
  BY <1>1, <1>11, Zenon

LEMMA GetNextConforms ==
  ASSUME RoomForLeaves, NEW r, Askable(r), Kept(r), ~ TooMany(r), r.pdu = "GETNEXT"
  PROVE  ListConforms(r, Plan(r))
<1> DEFINE names == Names(r)
           list == PlanGetNext(names)
<1>1. r.pdu # "GET"
  OBVIOUS
<1>2. Plan(r) = list /\ Expectation(r) = [i \in DOMAIN names |-> Repeated(names[i], 1)]
  BY <1>1, Zenon DEF Plan, Expectation
<1>3. names \in Seq(Seq(Nat)) /\ AllNameable(names)
  BY NamesGot
<1>4. DOMAIN list = DOMAIN names
      /\ Answers(list) = [i \in DOMAIN names |-> Repeated(names[i], 1)]
  BY <1>3, GetNextAnswers
<1>5. list \in Seq({list[i] : i \in DOMAIN list})
  <2>1. DOMAIN names = 1 .. Len(names) /\ Len(names) \in Nat
    BY <1>3
  <2>2. list = [i \in 1 .. Len(names) |-> list[i]] /\ DOMAIN list = 1 .. Len(names)
    BY <2>1 DEF PlanGetNext
  <2> HIDE DEF list, names
  <2>3. QED
    BY <2>1, <2>2
<1>6. ASSUME NEW i \in DOMAIN list
      PROVE  TextVb(list[i]) <=> TextAnswer(Answer(list[i]))
  <2>1. list[i] = NextVb(names[i]) /\ Nameable(names[i])
    BY <1>3, <1>4 DEF PlanGetNext, AllNameable
  <2>2. QED
    BY <2>1, NextTexts
<1> HIDE DEF list, names
<1>7. QED
  BY <1>1, <1>2, <1>4, <1>5, <1>6, Zenon DEF ListConforms

-----------------------------------------------------------------------------
(* Turns of the two loops                                                  *)

LEMMA QuotientIs ==
  ASSUME NEW d \in Nat \ {0}, NEW a \in Nat, NEW b \in Nat, b < d, NEW n, n = d * a + b
  PROVE  n \div d = a /\ n % d = b
OBVIOUS

\* How often the walker j of nrep had its turn in the first k turns.
TurnsOf(j, k, nrep) == (k \div nrep) + (IF j <= k % nrep THEN 1 ELSE 0)

LEMMA TurnsAre ==
  ASSUME NEW nrep \in Nat \ {0}, NEW k \in Nat
  PROVE  LET j == 1 + (k % nrep)
             m == k \div nrep
         IN  /\ j \in 1 .. nrep /\ m \in Nat
             /\ TurnsOf(j, k, nrep) = m /\ TurnsOf(j, k + 1, nrep) = m + 1
             /\ \A i \in 1 .. nrep : i # j => TurnsOf(i, k + 1, nrep) = TurnsOf(i, k, nrep)
             /\ \A i \in 1 .. nrep : TurnsOf(i, k, nrep) \in Nat /\ TurnsOf(i, 0, nrep) = 0
<1> DEFINE j == 1 + (k % nrep)
           m == k \div nrep
           s == k % nrep
<1>1. m \in Nat /\ s \in Nat /\ s < nrep /\ k = nrep * m + s
  BY Division
<1>2. CASE s + 1 < nrep
  <2>1. k + 1 = nrep * m + (s + 1)
    BY <1>1
  <2>2. (k + 1) \div nrep = m /\ (k + 1) % nrep = s + 1
    <3> DEFINE n == k + 1
               t == s + 1
    <3>1. t \in Nat /\ t < nrep /\ n = nrep * m + t
      BY <1>1, <1>2, <2>1
    <3> HIDE DEF m, n, t
    <3>2. n \div nrep = m /\ n % nrep = t
      BY <1>1, <3>1, QuotientIs
    <3>3. QED
      BY <3>2 DEF n, t
  <2>3. 0 = nrep * 0 + 0
    OBVIOUS
  <2>4. 0 \div nrep = 0 /\ 0 % nrep = 0
    BY <2>3, QuotientIs
  <2>5. QED
    BY <1>1, <1>2, <2>2, <2>4 DEF TurnsOf
<1>3. CASE s + 1 = nrep
  <2>1. k + 1 = nrep * (m + 1) + 0
    BY <1>1, <1>3
  <2>2. (k + 1) \div nrep = m + 1 /\ (k + 1) % nrep = 0
    <3>1. m + 1 \in Nat /\ 0 < nrep
      BY <1>1
    <3> HIDE DEF m, s
    <3>2. QED
      BY <2>1, <3>1, QuotientIs
  <2>3. 0 = nrep * 0 + 0
    OBVIOUS
  <2>4. 0 \div nrep = 0 /\ 0 % nrep = 0
    BY <2>3, QuotientIs
  <2>5. QED
    BY <1>1, <1>3, <2>2, <2>4 DEF TurnsOf
<1>4. QED
  BY <1>1, <1>2, <1>3

LEMMA IntegerTyped == ASSUME NEW octets \in Octets PROVE GetInt(octets) \in Int
<1> DEFINE N == Len(octets)
<1>1. N \in Nat /\ \A i \in 1 .. N : octets[i] \in Octet
  BY DEF Octets
<1>2. PICK f : /\ GetInt(octets) = f[N] /\ f[0] = Extends(octets)
               /\ \A i \in 1 .. N : f[i] = 256 * f[i - 1] + octets[i]
  BY ValueFollows
<1> HIDE DEF N
<1> DEFINE S == {n \in Nat : n <= N => f[n] \in Int}
<1>3. 0 \in S
  BY <1>2 DEF Extends
<1>4. ASSUME NEW n \in Nat, n \in S PROVE n + 1 \in S
  <2>1. ASSUME n + 1 <= N PROVE f[n + 1] \in Int
    <3>1. n + 1 \in 1 .. N /\ (n + 1) - 1 = n /\ n <= N
      BY <1>1, <2>1
    <3>2. f[n] \in Int /\ octets[n + 1] \in Octet
      BY <1>1, <1>4, <3>1
    <3>3. f[n + 1] = 256 * f[n] + octets[n + 1]
      BY <1>2, <3>1
    <3>4. octets[n + 1] \in Int
      BY <3>2, OctetIs
    <3>5. QED
      BY <3>2, <3>3, <3>4
  <2>2. QED
    BY <2>1
<1> HIDE DEF S
<1>5. Nat \subseteq S
  BY <1>3, <1>4, SetInduction
<1>6. f[N] \in Int
  BY <1>1, <1>5 DEF S
<1>7. QED
  BY <1>2, <1>6 DEF N

-----------------------------------------------------------------------------
(* The walkers of a GETBULK, turn by turn                                  *)

\* A request for nonRep of the names once and maxRep times for the others.
Bulk(names, nonRep, maxRep) ==
  /\ names \in Seq(Seq(Nat)) /\ AllNameable(names)
  /\ nonRep \in 0 .. Len(names) /\ Len(names) <= MaxNames /\ maxRep \in Nat

Repeaters(names, nonRep) == Len(names) - nonRep

\* The name whose turn it is after k turns.
Turned(names, nonRep, k) == names[nonRep + 1 + (k % Repeaters(names, nonRep))]

Said(names) ==
  {LeafVb(i) : i \in Leaves} \cup {Ended(i) : i \in Leaves}
    \cup {NextVb(names[i]) : i \in DOMAIN names}

Walks(names, nonRep) ==
  [out : Seq(Said(names)), cursor : [1 .. Repeaters(names, nonRep) -> Leaves \cup {NoLeaf}],
   done : SUBSET (1 .. Repeaters(names, nonRep))]

LEMMA BulkShape ==
  ASSUME NEW names, NEW nonRep, NEW maxRep, Bulk(names, nonRep, maxRep)
  PROVE  /\ DOMAIN names = 1 .. Len(names) /\ Len(names) \in Nat /\ nonRep \in Nat
         /\ Repeaters(names, nonRep) \in Nat
         /\ Repeaters(names, nonRep) * maxRep \in Nat
         /\ \A j \in 1 .. Repeaters(names, nonRep) : nonRep + j \in DOMAIN names
         /\ MaxVarbinds \in Nat /\ nonRep <= MaxVarbinds /\ Least(nonRep, MaxVarbinds) = nonRep
<1>1. names \in Seq(Seq(Nat)) /\ nonRep \in 0 .. Len(names) /\ Len(names) <= MaxNames
      /\ maxRep \in Nat
  BY DEF Bulk
<1>2. DOMAIN names = 1 .. Len(names) /\ Len(names) \in Nat /\ nonRep \in Nat
  BY <1>1
<1>3. Repeaters(names, nonRep) \in Nat
  BY <1>1, <1>2 DEF Repeaters
<1>4. Repeaters(names, nonRep) * maxRep \in Nat
  BY <1>1, <1>3
<1>5. ASSUME NEW j \in 1 .. Repeaters(names, nonRep) PROVE nonRep + j \in DOMAIN names
  BY <1>1, <1>2 DEF Repeaters
<1>6. MaxVarbinds \in Nat /\ nonRep <= MaxVarbinds
  BY <1>1, <1>2, AgentAssumption DEF MaxVarbinds
<1>7. QED
  BY <1>2, <1>3, <1>4, <1>5, <1>6 DEF Least

LEMMA NextLeafIs ==
  ASSUME NEW i \in Leaves
  PROVE  NextLeaf(i) # NoLeaf => NextLeaf(i) \in Leaves
BY Shape DEF NextLeaf, NoLeaf

\* What a turn says, and where it leaves the walker.
Turning(w, j, name) ==
  IF w.cursor[j] = NoLeaf THEN [vb |-> NextVb(name), next |-> GetNext(name)]
  ELSE [vb |-> IF NextLeaf(w.cursor[j]) = NoLeaf THEN Ended(w.cursor[j])
               ELSE LeafVb(NextLeaf(w.cursor[j])),
        next |-> NextLeaf(w.cursor[j])]

LEMMA TurnIs ==
  ASSUME NEW w, NEW j, NEW name
  PROVE  LET t == Turning(w, j, name)
         IN  Turn(w, j, name) =
               IF j \in w.done \/ Len(w.out) >= MaxVarbinds THEN w
               ELSE [out |-> Append(w.out, t.vb),
                     cursor |-> IF t.next = NoLeaf THEN w.cursor
                                ELSE [w.cursor EXCEPT ![j] = t.next],
                     done |-> IF t.next = NoLeaf THEN w.done \cup {j} ELSE w.done]
<1>1. CASE w.cursor[j] = NoLeaf
  BY <1>1 DEF Turn, Turning
<1>2. CASE w.cursor[j] # NoLeaf
  BY <1>2 DEF Turn, Turning
<1>3. QED
  BY <1>1, <1>2

LEMMA TurningTyped ==
  ASSUME NEW names, NEW nonRep, NEW maxRep, Bulk(names, nonRep, maxRep),
         NEW w \in Walks(names, nonRep), NEW j \in 1 .. Repeaters(names, nonRep),
         NEW i \in DOMAIN names
  PROVE  /\ Turning(w, j, names[i]).vb \in Said(names)
         /\ Turning(w, j, names[i]).next \in Leaves \cup {NoLeaf}
<1>1. w.cursor[j] \in Leaves \cup {NoLeaf}
  BY DEF Walks
<1>2. CASE w.cursor[j] = NoLeaf
  <2>1. NextVb(names[i]) \in Said(names)
    BY DEF Said
  <2>2. GetNext(names[i]) \in Leaves \cup {NoLeaf}
    BY NextFound
  <2>3. QED
    BY <1>2, <2>1, <2>2 DEF Turning
<1>3. CASE w.cursor[j] # NoLeaf
  <2>1. w.cursor[j] \in Leaves
    BY <1>1, <1>3
  <2>2. NextLeaf(w.cursor[j]) \in Leaves \cup {NoLeaf}
    BY <2>1, NextLeafIs
  <2>3. CASE NextLeaf(w.cursor[j]) = NoLeaf
    BY <1>3, <2>1, <2>2, <2>3 DEF Turning, Said
  <2>4. CASE NextLeaf(w.cursor[j]) # NoLeaf
    BY <1>3, <2>1, <2>2, <2>4 DEF Turning, Said
  <2>5. QED
    BY <2>3, <2>4
<1>4. QED
  BY <1>2, <1>3

LEMMA TurnTyped ==
  ASSUME NEW names, NEW nonRep, NEW maxRep, Bulk(names, nonRep, maxRep),
         NEW w \in Walks(names, nonRep), NEW j \in 1 .. Repeaters(names, nonRep),
         NEW i \in DOMAIN names
  PROVE  Turn(w, j, names[i]) \in Walks(names, nonRep)
<1> DEFINE t == Turning(w, j, names[i])
<1>1. t.vb \in Said(names) /\ t.next \in Leaves \cup {NoLeaf}
  BY TurningTyped
<1>2. /\ w.out \in Seq(Said(names)) /\ w.done \in SUBSET (1 .. Repeaters(names, nonRep))
      /\ w.cursor \in [1 .. Repeaters(names, nonRep) -> Leaves \cup {NoLeaf}]
  BY DEF Walks
<1> HIDE DEF t
<1> DEFINE out == Append(w.out, t.vb)
           cursor == IF t.next = NoLeaf THEN w.cursor ELSE [w.cursor EXCEPT ![j] = t.next]
           done == IF t.next = NoLeaf THEN w.done \cup {j} ELSE w.done
<1>3. out \in Seq(Said(names))
  BY <1>1, <1>2
<1>4. cursor \in [1 .. Repeaters(names, nonRep) -> Leaves \cup {NoLeaf}]
  BY <1>1, <1>2
<1>5. done \in SUBSET (1 .. Repeaters(names, nonRep))
  BY <1>2
<1>6. Turn(w, j, names[i]) = IF j \in w.done \/ Len(w.out) >= MaxVarbinds THEN w
                             ELSE [out |-> out, cursor |-> cursor, done |-> done]
  BY TurnIs DEF t
<1> HIDE DEF out, cursor, done
<1>7. QED
  BY <1>3, <1>4, <1>5, <1>6 DEF Walks

Setting(names, nonRep) ==
  [out |-> PlanGetNext(SubSeq(names, 1, Least(nonRep, MaxVarbinds))),
   cursor |-> [j \in 1 .. Repeaters(names, nonRep) |-> NoLeaf], done |-> {}]

LEMMA SettingTyped ==
  ASSUME NEW names, NEW nonRep, NEW maxRep, Bulk(names, nonRep, maxRep)
  PROVE  /\ Setting(names, nonRep) \in Walks(names, nonRep)
         /\ Setting(names, nonRep).out = [i \in 1 .. nonRep |-> NextVb(names[i])]
<1>1. /\ names \in Seq(Seq(Nat)) /\ nonRep \in 0 .. Len(names) /\ Len(names) \in Nat
      /\ Least(nonRep, MaxVarbinds) = nonRep /\ DOMAIN names = 1 .. Len(names)
  BY BulkShape DEF Bulk
<1>2. SubSeq(names, 1, nonRep) = [i \in 1 .. nonRep |-> names[i]]
  BY <1>1
<1>3. PlanGetNext(SubSeq(names, 1, nonRep)) = [i \in 1 .. nonRep |-> NextVb(names[i])]
  BY <1>2 DEF PlanGetNext
<1>4. ASSUME NEW i \in 1 .. nonRep PROVE NextVb(names[i]) \in Said(names)
  <2>1. i \in DOMAIN names
    BY <1>1
  <2>2. QED
    BY <2>1 DEF Said
<1>5. [i \in 1 .. nonRep |-> NextVb(names[i])] \in Seq(Said(names))
  BY <1>1, <1>4
<1>6. Setting(names, nonRep).out = [i \in 1 .. nonRep |-> NextVb(names[i])]
  BY <1>1, <1>3 DEF Setting
<1>7. QED
  BY <1>1, <1>3, <1>5, <1>6 DEF Setting, Walks

LEMMA PlanBulkFollows ==
  ASSUME NEW names, NEW nonRep, NEW maxRep, Bulk(names, nonRep, maxRep)
  PROVE  LET nrep == Repeaters(names, nonRep)
         IN  \E f : /\ PlanBulk(names, nonRep, maxRep) = f[nrep * maxRep].out
                    /\ f[0] = Setting(names, nonRep)
                    /\ \A k \in 1 .. nrep * maxRep :
                         f[k] = Turn(f[k - 1], 1 + ((k - 1) % nrep), Turned(names, nonRep, k - 1))
<1> DEFINE nrep == Repeaters(names, nonRep)
           N == nrep * maxRep
           W == Walks(names, nonRep)
           z == Setting(names, nonRep)
           IsWalk(f) == f = [k \in 0 .. N |->
                               IF k = 0 THEN z
                               ELSE Turn(f[k - 1], 1 + ((k - 1) % nrep),
                                         names[nonRep + 1 + ((k - 1) % nrep)])]
           step == [k \in 1 .. N |-> [w \in W |-> Turn(w, 1 + ((k - 1) % nrep),
                                                       names[nonRep + 1 + ((k - 1) % nrep)])]]
           walk == CHOOSE f : IsWalk(f)
<1>1. PlanBulk(names, nonRep, maxRep) = walk[N].out
  BY Zenon DEF PlanBulk, Setting, Repeaters
<1>2. N \in Nat /\ nrep \in Nat /\ z \in W
  BY BulkShape, SettingTyped
<1>3. ASSUME NEW k \in 1 .. N
      PROVE  /\ 1 + ((k - 1) % nrep) \in 1 .. nrep
             /\ nonRep + 1 + ((k - 1) % nrep) \in DOMAIN names
  <2>1. nrep # 0
    <3>1. maxRep \in Nat
      BY DEF Bulk
    <3> HIDE DEF nrep
    <3>2. nrep = 0 => N = 0
      BY <3>1
    <3> HIDE DEF N
    <3>3. QED
      BY <1>2, <3>2
  <2>2. k - 1 \in Nat
    BY <1>2
  <2>3. (k - 1) % nrep \in Nat /\ (k - 1) % nrep < nrep
    BY <1>2, <2>1, <2>2, Division
  <2> DEFINE j == 1 + ((k - 1) % nrep)
  <2>4. j \in 1 .. nrep /\ nonRep + 1 + ((k - 1) % nrep) = nonRep + j
    BY <1>2, <2>3, BulkShape
  <2> HIDE DEF j
  <2>5. nonRep + j \in DOMAIN names
    BY <2>4, BulkShape
  <2>6. QED
    BY <2>4, <2>5 DEF j
<1>4. step \in [1 .. N -> [W -> W]]
  <2>1. ASSUME NEW k \in 1 .. N, NEW w \in W
        PROVE  Turn(w, 1 + ((k - 1) % nrep), names[nonRep + 1 + ((k - 1) % nrep)]) \in W
    BY <1>3, TurnTyped
  <2> HIDE DEF N, W, nrep
  <2>2. QED
    BY <2>1
<1>5. PICK f \in [0 .. N -> W] : Follows(f, z, step, N)
  <2> HIDE DEF step, N, z, W
  <2>1. QED
    BY <1>2, <1>4, Recursion
<1>6. f[0] = z /\ \A k \in 1 .. N : f[k] = Turn(f[k - 1], 1 + ((k - 1) % nrep),
                                                names[nonRep + 1 + ((k - 1) % nrep)])
  <2> HIDE DEF N, W, z, nrep
  <2>1. ASSUME NEW k \in 1 .. N PROVE f[k - 1] \in W
    BY <1>2
  <2>2. QED
    BY <1>5, <2>1 DEF Follows
<1>7. IsWalk(f)
  <2> HIDE DEF N, W, z, nrep
  <2>1. f = [k \in 0 .. N |-> f[k]]
    OBVIOUS
  <2>2. ASSUME NEW k \in 0 .. N PROVE k = 0 \/ k \in 1 .. N
    BY <1>2
  <2>3. QED
    BY <1>6, <2>1, <2>2
<1>8. IsWalk(walk)
  <2> HIDE DEF IsWalk
  <2>1. QED
    BY <1>7
<1>9. walk[0] = z
  <2>1. 0 \in 0 .. N
    BY <1>2
  <2> HIDE DEF walk, N, z, nrep
  <2>2. QED
    BY <1>8, <2>1
<1>10. ASSUME NEW k \in 1 .. N
       PROVE  walk[k] = Turn(walk[k - 1], 1 + ((k - 1) % nrep), Turned(names, nonRep, k - 1))
  <2> DEFINE name == names[nonRep + 1 + ((k - 1) % nrep)]
  <2>1. k \in 0 .. N /\ k # 0
    BY <1>2
  <2> HIDE DEF walk, N, z
  <2>2. walk[k] = Turn(walk[k - 1], 1 + ((k - 1) % nrep), name)
    BY <1>8, <2>1
  <2>3. name = Turned(names, nonRep, k - 1)
    BY DEF Turned
  <2>4. QED
    BY <2>2, <2>3
<1> HIDE DEF walk
<1>11. QED
  BY <1>1, <1>9, <1>10

\* ... and what is to come of it, turn by turn.
Expected(list, name, round) ==
  IF Repeated(name, round - 1).ended THEN list ELSE Append(list, Repeated(name, round))

Replied(names) == UNION {Replies(names[i]) : i \in DOMAIN names}

LEMMA ExpectedTyped ==
  ASSUME NEW names, NEW i \in DOMAIN names, NEW list \in Seq(Replied(names)), NEW round \in Nat
  PROVE  Expected(list, names[i], round) \in Seq(Replied(names))
<1>1. Repeated(names[i], round) \in Replies(names[i])
  BY RepeatedOn
<1>2. Repeated(names[i], round) \in Replied(names)
  BY <1>1 DEF Replied
<1> DEFINE a == Repeated(names[i], round)
<1> HIDE DEF a
<1>3. Append(list, a) \in Seq(Replied(names))
  BY <1>2 DEF a
<1>4. QED
  BY <1>3 DEF Expected, a

\* An answer of RFC 3416's rounds only repeats an end when the walk of its name
\* had ended a round earlier.
LEMMA RoundsAre ==
  ASSUME NEW names, NEW nonRep, NEW maxRep, Bulk(names, nonRep, maxRep),
         NEW k \in 1 .. Repeaters(names, nonRep) * maxRep
  PROVE  LET nrep == Repeaters(names, nonRep)
             name == names[nonRep + 1 + ((k - 1) % nrep)]
             round == 1 + ((k - 1) \div nrep)
         IN  /\ InRounds(names, nonRep, k) = Repeated(name, round)
             /\ EndsAgain(names, nonRep, k) <=> Repeated(name, round - 1).ended
<1> DEFINE nrep == Repeaters(names, nonRep)
           s == (k - 1) % nrep
           m == (k - 1) \div nrep
           name == names[nonRep + 1 + s]
<1>1. nrep \in Nat \ {0} /\ k \in Nat \ {0}
  <2>1. nrep \in Nat /\ maxRep \in Nat /\ nrep * maxRep \in Nat
    BY BulkShape DEF Bulk
  <2>2. nrep = 0 => nrep * maxRep = 0
    <3> HIDE DEF nrep
    <3>1. QED
      BY <2>1
  <2> DEFINE N == nrep * maxRep
  <2> HIDE DEF N
  <2>3. QED
    BY <2>1, <2>2 DEF N
<1>2. m \in Nat /\ s \in Nat /\ s < nrep /\ k - 1 = nrep * m + s
  <2>1. k - 1 \in Nat
    BY <1>1
  <2> HIDE DEF nrep
  <2>2. QED
    BY <1>1, <2>1, Division
<1>3. InRounds(names, nonRep, k) = Repeated(name, 1 + m)
  BY Zenon DEF InRounds, Repeaters
<1>4. CASE m = 0
  <2>1. ~ (k > nrep)
    <3> HIDE DEF nrep, s, m
    <3>1. k - 1 = s
      BY <1>1, <1>2, <1>4
    <3>2. QED
      BY <1>1, <1>2, <3>1
  <2>2. ~ EndsAgain(names, nonRep, k)
    BY <2>1 DEF EndsAgain, Repeaters
  <2>3. Repeated(name, 0) = Asked(name)
    BY RepeatedOn
  <2>4. ~ Repeated(name, 0).ended
    BY <2>3 DEF Asked
  <2>5. (1 + m) - 1 = 0
    BY <1>4
  <2>6. QED
    BY <1>3, <2>2, <2>4, <2>5
<1>5. CASE m # 0
  <2>1. PICK p \in Nat : m = p + 1
    <3> HIDE DEF m
    <3>1. m - 1 \in Nat
      BY <1>2, <1>5
    <3>2. QED
      BY <1>2, <3>1
  <2>2. k > nrep /\ (k - nrep) - 1 = nrep * p + s
    <3> HIDE DEF nrep, s, m
    <3>1. nrep * m = nrep * p + nrep /\ nrep * p \in Nat
      BY <1>1, <2>1
    <3>2. QED
      BY <1>1, <1>2, <3>1
  <2>3. ((k - nrep) - 1) \div nrep = p /\ ((k - nrep) - 1) % nrep = s
    <3> HIDE DEF nrep, s, m
    <3>1. QED
      BY <1>1, <1>2, <2>2, QuotientIs
  <2>4. InRounds(names, nonRep, k - nrep) = Repeated(name, 1 + p)
    <3>1. InRounds(names, nonRep, k - nrep)
            = Repeated(names[nonRep + 1 + (((k - nrep) - 1) % nrep)],
                       1 + (((k - nrep) - 1) \div nrep))
      BY Zenon DEF InRounds, Repeaters
    <3> HIDE DEF nrep, s
    <3>2. QED
      BY <2>3, <3>1
  <2>5. (1 + m) - 1 = 1 + p
    BY <2>1
  <2>6. EndsAgain(names, nonRep, k) <=> Repeated(name, 1 + p).ended
    <3>1. EndsAgain(names, nonRep, k) <=>
            k > nrep /\ InRounds(names, nonRep, k - nrep).ended
      BY Zenon DEF EndsAgain, Repeaters
    <3>2. QED
      BY <2>2, <2>4, <3>1, Zenon
  <2> HIDE DEF m, name
  <2>7. QED
    BY <1>3, <2>5, <2>6 DEF m, name
<1>6. QED
  BY <1>4, <1>5

OnceEach(names, nonRep) == [i \in 1 .. nonRep |-> Repeated(names[i], 1)]

LEMMA ExpectedBulkFollows ==
  ASSUME NEW names, NEW nonRep, NEW maxRep, Bulk(names, nonRep, maxRep)
  PROVE  LET nrep == Repeaters(names, nonRep)
         IN  \E f : /\ ExpectedBulk(names, nonRep, maxRep) =
                         SubSeq(f[nrep * maxRep], 1, Least(Len(f[nrep * maxRep]), MaxVarbinds))
                    /\ f[0] = OnceEach(names, nonRep)
                    /\ \A k \in 1 .. nrep * maxRep :
                         f[k] = Expected(f[k - 1], Turned(names, nonRep, k - 1),
                                         1 + ((k - 1) \div nrep))
<1> DEFINE nrep == Repeaters(names, nonRep)
           N == nrep * maxRep
           L == Seq(Replied(names))
           z == OnceEach(names, nonRep)
           name(k) == names[nonRep + 1 + ((k - 1) % nrep)]
           round(k) == 1 + ((k - 1) \div nrep)
           IsAll(f) == f = [k \in 0 .. N |-> IF k = 0 THEN z
                                             ELSE Expected(f[k - 1], name(k), round(k))]
           step == [k \in 1 .. N |-> [list \in L |-> Expected(list, name(k), round(k))]]
           all == CHOOSE f : IsAll(f)
           IsTheirs(f) == f = [k \in 0 .. N |->
                               IF k = 0 THEN z
                               ELSE IF EndsAgain(names, nonRep, k) THEN f[k - 1]
                               ELSE Append(f[k - 1], InRounds(names, nonRep, k))]
           theirs == CHOOSE f : IsTheirs(f)
<1>0. ExpectedBulk(names, nonRep, maxRep) =
        SubSeq(theirs[N], 1, Least(Len(theirs[N]), MaxVarbinds))
  BY Zenon DEF ExpectedBulk, OnceEach, Repeaters
<1>2. N \in Nat /\ nrep \in Nat
  BY BulkShape
<1>3. z \in L
  <2>1. nonRep \in Nat /\ nonRep <= Len(names) /\ DOMAIN names = 1 .. Len(names)
        /\ Len(names) \in Nat
    BY BulkShape DEF Bulk
  <2>2. ASSUME NEW i \in 1 .. nonRep PROVE Repeated(names[i], 1) \in Replied(names)
    <3>1. i \in DOMAIN names
      BY <2>1
    <3>2. Repeated(names[i], 1) \in Replies(names[i])
      BY RepeatedOn
    <3>3. QED
      BY <3>1, <3>2 DEF Replied
  <2>3. QED
    BY <2>1, <2>2 DEF OnceEach
<1>4. ASSUME NEW k \in 1 .. N
      PROVE  nonRep + 1 + ((k - 1) % nrep) \in DOMAIN names /\ round(k) \in Nat
  <2>1. nrep # 0
    <3>1. maxRep \in Nat
      BY DEF Bulk
    <3> HIDE DEF nrep
    <3>2. nrep = 0 => N = 0
      BY <3>1
    <3> HIDE DEF N
    <3>3. QED
      BY <1>2, <3>2
  <2>2. k - 1 \in Nat
    BY <1>2
  <2>3. (k - 1) % nrep \in Nat /\ (k - 1) % nrep < nrep /\ (k - 1) \div nrep \in Nat
    BY <1>2, <2>1, <2>2, Division
  <2> DEFINE j == 1 + ((k - 1) % nrep)
  <2>4. j \in 1 .. nrep /\ nonRep + 1 + ((k - 1) % nrep) = nonRep + j
    BY <1>2, <2>3, BulkShape
  <2> HIDE DEF j
  <2>5. nonRep + j \in DOMAIN names
    BY <2>4, BulkShape
  <2>6. QED
    BY <2>3, <2>4, <2>5
<1>1. ExpectedBulk(names, nonRep, maxRep) =
        SubSeq(all[N], 1, Least(Len(all[N]), MaxVarbinds))
  <2>1. ASSUME NEW f PROVE IsTheirs(f) <=> IsAll(f)
    <3>1. ASSUME NEW k \in 1 .. N
          PROVE  /\ InRounds(names, nonRep, k) = Repeated(name(k), round(k))
                 /\ EndsAgain(names, nonRep, k) <=> Repeated(name(k), round(k) - 1).ended
      BY RoundsAre
    <3>2. ASSUME NEW k \in 0 .. N PROVE k = 0 \/ k \in 1 .. N
      BY <1>2
    <3> HIDE DEF N, z, name, round
    <3>3. ASSUME NEW k \in 0 .. N
          PROVE  (IF k = 0 THEN z
                  ELSE IF EndsAgain(names, nonRep, k) THEN f[k - 1]
                  ELSE Append(f[k - 1], InRounds(names, nonRep, k)))
                 = (IF k = 0 THEN z ELSE Expected(f[k - 1], name(k), round(k)))
      BY <3>1, <3>2, Zenon DEF Expected
    <3>4. QED
      BY <3>3
  <2> HIDE DEF IsTheirs, IsAll, N
  <2>2. theirs = all
    BY <2>1
  <2>3. QED
    BY <1>0, <2>2
<1>5. step \in [1 .. N -> [L -> L]]
  <2>1. ASSUME NEW k \in 1 .. N, NEW list \in L
        PROVE  Expected(list, name(k), round(k)) \in L
    BY <1>4, ExpectedTyped
  <2> HIDE DEF N, L, name, round
  <2>2. QED
    BY <2>1
<1>6. PICK f \in [0 .. N -> L] : Follows(f, z, step, N)
  <2> HIDE DEF step, N, z, L
  <2>1. QED
    BY <1>2, <1>3, <1>5, Recursion
<1>7. f[0] = z /\ \A k \in 1 .. N : f[k] = Expected(f[k - 1], name(k), round(k))
  <2> HIDE DEF N, L, z, name, round
  <2>1. ASSUME NEW k \in 1 .. N PROVE f[k - 1] \in L
    BY <1>2
  <2>2. QED
    BY <1>6, <2>1 DEF Follows
<1>8. IsAll(f)
  <2> HIDE DEF N, L, z, name, round
  <2>1. f = [k \in 0 .. N |-> f[k]]
    OBVIOUS
  <2>2. ASSUME NEW k \in 0 .. N PROVE k = 0 \/ k \in 1 .. N
    BY <1>2
  <2>3. QED
    BY <1>7, <2>1, <2>2
<1>9. IsAll(all)
  <2> HIDE DEF IsAll
  <2>1. QED
    BY <1>8
<1>10. all[0] = z
  <2>1. 0 \in 0 .. N
    BY <1>2
  <2> HIDE DEF all, N, z, name, round
  <2>2. QED
    BY <1>9, <2>1
<1>11. ASSUME NEW k \in 1 .. N
       PROVE  all[k] = Expected(all[k - 1], Turned(names, nonRep, k - 1), 1 + ((k - 1) \div nrep))
  <2>1. k \in 0 .. N /\ k # 0
    BY <1>2
  <2>2. name(k) = Turned(names, nonRep, k - 1)
    BY DEF Turned
  <2> HIDE DEF all, N, z, name
  <2>3. all[k] = Expected(all[k - 1], name(k), round(k))
    BY <1>9, <2>1
  <2>4. QED
    BY <2>2, <2>3
<1> HIDE DEF all
<1>12. QED
  BY <1>1, <1>10, <1>11

-----------------------------------------------------------------------------
(* A walker stands where the questions, one after the other, have led      *)

Stands(w, j, name, m) ==
  LET a == Repeated(name, m)
  IN  /\ j \in w.done <=> a.ended
      /\ ~ a.ended /\ m = 0 => w.cursor[j] = NoLeaf
      /\ ~ a.ended /\ m # 0 => w.cursor[j] \in Leaves /\ a.name = LeafOid(w.cursor[j])

LEMMA TurningAnswers ==
  ASSUME RoomForLeaves, NEW w, NEW j, NEW name, Nameable(name), NEW m \in Nat,
         Stands(w, j, name, m), j \notin w.done
  PROVE  LET t == Turning(w, j, name)
         IN  /\ Answer(t.vb) = Repeated(name, m + 1)
             /\ Repeated(name, m + 1).ended <=> t.next = NoLeaf
             /\ t.next # NoLeaf => t.next \in Leaves /\ Repeated(name, m + 1).name = LeafOid(t.next)
<1> DEFINE a == Repeated(name, m)
           b == Repeated(name, m + 1)
           t == Turning(w, j, name)
           here == w.cursor[j]
<1>1. ~ a.ended /\ b = NextAnswer(a.name)
  <2>1. ~ a.ended
    BY DEF Stands
  <2>2. b = On(a)
    BY RepeatedOn
  <2>3. QED
    BY <2>1, <2>2 DEF On
<1>2. CASE m = 0
  <2>1. a = Asked(name) /\ a.name = name
    BY <1>2, RepeatedOn DEF Asked
  <2>2. here = NoLeaf
    BY <1>1, <1>2 DEF Stands
  <2>3. t = [vb |-> NextVb(name), next |-> GetNext(name)]
    BY <2>2 DEF Turning
  <2>4. Answer(t.vb) = b
    BY <1>1, <2>1, <2>3, NextAnswers
  <2>5. CASE GetNext(name) = NoLeaf
    BY <1>1, <2>1, <2>3, <2>4, <2>5 DEF NextAnswer
  <2>6. CASE GetNext(name) # NoLeaf
    BY <1>1, <2>1, <2>3, <2>4, <2>6, NextFound DEF NextAnswer, Asked
  <2>7. QED
    BY <2>5, <2>6
<1>3. CASE m # 0
  <2>1. here \in Leaves /\ a.name = LeafOid(here) /\ here # NoLeaf
    BY <1>1, <1>3, Shape DEF Stands, NoLeaf
  <2>2. GetNext(LeafOid(here)) = NextLeaf(here)
    BY <2>1, CursorIsLookup
  <2>3. CASE NextLeaf(here) = NoLeaf
    <3>1. t = [vb |-> Ended(here), next |-> NoLeaf]
      BY <2>1, <2>3 DEF Turning
    <3>2. b = [name |-> LeafOid(here), ended |-> TRUE]
      BY <1>1, <2>1, <2>2, <2>3 DEF NextAnswer
    <3> HIDE DEF t, b, here
    <3>3. /\ Answer(t.vb) = b /\ (b.ended <=> t.next = NoLeaf)
          /\ t.next # NoLeaf => t.next \in Leaves /\ b.name = LeafOid(t.next)
      BY <2>1, <3>1, <3>2, LeafAnswers
    <3>4. QED
      BY <3>3 DEF t, b
  <2>4. CASE NextLeaf(here) # NoLeaf
    <3>1. t = [vb |-> LeafVb(NextLeaf(here)), next |-> NextLeaf(here)]
      BY <2>1, <2>4 DEF Turning
    <3>2. b = Asked(LeafOid(NextLeaf(here))) /\ NextLeaf(here) \in Leaves
      BY <1>1, <2>1, <2>2, <2>4, NextLeafIs DEF NextAnswer
    <3> HIDE DEF t, b, here
    <3>3. /\ Answer(t.vb) = b /\ (b.ended <=> t.next = NoLeaf)
          /\ t.next # NoLeaf => t.next \in Leaves /\ b.name = LeafOid(t.next)
      BY <2>4, <3>1, <3>2, LeafAnswers DEF Asked
    <3>4. QED
      BY <3>3 DEF t, b
  <2>5. QED
    BY <2>3, <2>4
<1>4. QED
  BY <1>2, <1>3

\* As long as there is room, what is said is what is expected; after that, what
\* has been said is the first of it.
Abreast(w, list, names, nonRep, k) ==
  /\ w \in Walks(names, nonRep) /\ list \in Seq(Replied(names))
  /\ Len(w.out) = Least(Len(list), MaxVarbinds)
  /\ \A i \in 1 .. Len(w.out) : Answer(w.out[i]) = list[i]
  /\ Len(w.out) < MaxVarbinds =>
       \A j \in 1 .. Repeaters(names, nonRep) :
         Stands(w, j, names[nonRep + j], TurnsOf(j, k, Repeaters(names, nonRep)))

LEMMA StartAbreast ==
  ASSUME RoomForLeaves, NEW names, NEW nonRep, NEW maxRep, Bulk(names, nonRep, maxRep)
  PROVE  Abreast(Setting(names, nonRep), OnceEach(names, nonRep), names, nonRep, 0)
<1> DEFINE w == Setting(names, nonRep)
           list == OnceEach(names, nonRep)
           nrep == Repeaters(names, nonRep)
<1>1. /\ w \in Walks(names, nonRep)
      /\ w.out = [i \in 1 .. nonRep |-> NextVb(names[i])]
  BY SettingTyped
<1>2. /\ nonRep \in Nat /\ nonRep <= MaxVarbinds /\ MaxVarbinds \in Nat
      /\ Least(nonRep, MaxVarbinds) = nonRep /\ nrep \in Nat
      /\ DOMAIN names = 1 .. Len(names) /\ Len(names) \in Nat /\ nonRep <= Len(names)
  <2>1. /\ nonRep \in Nat /\ nonRep <= MaxVarbinds /\ MaxVarbinds \in Nat
        /\ Least(nonRep, MaxVarbinds) = nonRep /\ nrep \in Nat
        /\ DOMAIN names = 1 .. Len(names) /\ Len(names) \in Nat
    BY BulkShape
  <2>2. nonRep \in 0 .. Len(names)
    BY DEF Bulk
  <2>3. QED
    BY <2>1, <2>2
<1>3. ASSUME NEW i \in 1 .. nonRep
      PROVE  /\ Repeated(names[i], 1) \in Replied(names)
             /\ Answer(NextVb(names[i])) = Repeated(names[i], 1)
  <2>1. i \in DOMAIN names
    BY <1>2
  <2>2. Repeated(names[i], 1) \in Replies(names[i])
    BY RepeatedOn
  <2>3. Nameable(names[i])
    BY <2>1 DEF Bulk, AllNameable
  <2>4. Answer(NextVb(names[i])) = Repeated(names[i], 1)
    BY <2>3, NextAnswers, OnceAnswered
  <2>5. QED
    BY <2>1, <2>2, <2>4 DEF Replied
<1>4. list = [i \in 1 .. nonRep |-> Repeated(names[i], 1)]
  BY DEF OnceEach
<1>5. list \in Seq(Replied(names)) /\ Len(list) = nonRep /\ Len(w.out) = nonRep
  BY <1>1, <1>2, <1>3, <1>4
<1>6. \A i \in 1 .. Len(w.out) : Answer(w.out[i]) = list[i]
  BY <1>1, <1>3, <1>4, <1>5
<1>7. ASSUME NEW j \in 1 .. nrep
      PROVE  Stands(w, j, names[nonRep + j], TurnsOf(j, 0, nrep))
  <2>1. TurnsOf(j, 0, nrep) = 0
    <3>1. nrep \in Nat \ {0} /\ 0 \in Nat
      BY <1>2
    <3> HIDE DEF nrep
    <3>2. QED
      BY <3>1, TurnsAre
  <2>2. Repeated(names[nonRep + j], 0) = Asked(names[nonRep + j])
    BY RepeatedOn
  <2>3. ~ Repeated(names[nonRep + j], 0).ended
    BY <2>2 DEF Asked
  <2>4. w.cursor[j] = NoLeaf /\ j \notin w.done
    BY DEF Setting
  <2> HIDE DEF w
  <2>5. QED
    BY <2>1, <2>3, <2>4 DEF Stands
<1> HIDE DEF w, list
<1>8. QED
  BY <1>1, <1>2, <1>5, <1>6, <1>7 DEF Abreast, w, list

LEMMA TurnAbreast ==
  ASSUME RoomForLeaves, NEW names, NEW nonRep, NEW maxRep, Bulk(names, nonRep, maxRep),
         NEW k \in Nat, Repeaters(names, nonRep) # 0,
         NEW w, NEW list, Abreast(w, list, names, nonRep, k)
  PROVE  LET nrep == Repeaters(names, nonRep)
         IN  Abreast(Turn(w, 1 + (k % nrep), Turned(names, nonRep, k)),
                     Expected(list, Turned(names, nonRep, k), 1 + (k \div nrep)),
                     names, nonRep, k + 1)
<1> DEFINE nrep == Repeaters(names, nonRep)
           j == 1 + (k % nrep)
           m == k \div nrep
           name == Turned(names, nonRep, k)
           v == Turn(w, j, name)
           more == Expected(list, name, 1 + m)
           t == Turning(w, j, name)
<1>1. nrep \in Nat \ {0} /\ MaxVarbinds \in Nat
  BY BulkShape
<1>2. /\ j \in 1 .. nrep /\ m \in Nat
      /\ TurnsOf(j, k, nrep) = m /\ TurnsOf(j, k + 1, nrep) = m + 1
      /\ \A i \in 1 .. nrep : i # j => TurnsOf(i, k + 1, nrep) = TurnsOf(i, k, nrep)
  <2> HIDE DEF nrep
  <2>1. QED
    BY <1>1, TurnsAre
<1>3. nonRep + j \in DOMAIN names /\ name = names[nonRep + j] /\ Nameable(name)
  <2>1. nonRep + j \in DOMAIN names
    BY <1>2, BulkShape
  <2>2. nonRep + 1 + (k % nrep) = nonRep + j
    <3>1. nonRep \in Nat /\ k % nrep \in Nat
      BY <1>1, BulkShape, Division
    <3>2. QED
      BY <3>1
  <2>3. name = names[nonRep + j]
    BY <2>2 DEF Turned
  <2>4. QED
    BY <2>1, <2>3 DEF Bulk, AllNameable
<1>4. /\ w \in Walks(names, nonRep) /\ list \in Seq(Replied(names))
      /\ Len(w.out) = Least(Len(list), MaxVarbinds)
      /\ \A i \in 1 .. Len(w.out) : Answer(w.out[i]) = list[i]
      /\ Len(w.out) < MaxVarbinds =>
           \A i \in 1 .. nrep : Stands(w, i, names[nonRep + i], TurnsOf(i, k, nrep))
  BY DEF Abreast
<1>5. v \in Walks(names, nonRep) /\ more \in Seq(Replied(names))
  <2>1. v \in Walks(names, nonRep)
    BY <1>2, <1>3, <1>4, TurnTyped
  <2>2. 1 + m \in Nat
    BY <1>2
  <2> HIDE DEF m, name
  <2>3. more \in Seq(Replied(names))
    BY <1>3, <1>4, <2>2, ExpectedTyped
  <2>4. QED
    BY <2>1, <2>3
<1>6. v = IF j \in w.done \/ Len(w.out) >= MaxVarbinds THEN w
          ELSE [out |-> Append(w.out, t.vb),
                cursor |-> IF t.next = NoLeaf THEN w.cursor
                           ELSE [w.cursor EXCEPT ![j] = t.next],
                done |-> IF t.next = NoLeaf THEN w.done \cup {j} ELSE w.done]
  BY TurnIs
<1>7. more = IF Repeated(name, m).ended THEN list ELSE Append(list, Repeated(name, m + 1))
  <2>1. (1 + m) - 1 = m /\ 1 + m = m + 1
    BY <1>2
  <2> HIDE DEF m, name
  <2>2. QED
    BY <2>1 DEF Expected
<1>8. Len(list) \in Nat /\ Len(w.out) \in Nat
  BY <1>4 DEF Walks
<1> HIDE DEF nrep, j, m, name, v, more, t
\* No room: the walkers have stopped, and what is expected begins as it did.
<1>9. CASE Len(w.out) >= MaxVarbinds
  <2>1. v = w
    BY <1>6, <1>9
  <2>2. /\ Len(more) >= Len(list) /\ Len(more) \in Nat
        /\ \A i \in 1 .. Len(list) : more[i] = list[i]
    BY <1>4, <1>7, <1>8
  <2>3. Len(w.out) = MaxVarbinds /\ Len(list) >= MaxVarbinds
    BY <1>1, <1>4, <1>8, <1>9 DEF Least
  <2>4. Len(w.out) = Least(Len(more), MaxVarbinds)
    BY <1>1, <1>8, <2>2, <2>3 DEF Least
  <2>5. \A i \in 1 .. Len(w.out) : Answer(w.out[i]) = more[i]
    BY <1>1, <1>4, <1>8, <2>2, <2>3
  <2>6. ~ Len(v.out) < MaxVarbinds
    BY <1>1, <2>1, <2>3
  <2>7. QED
    BY <1>5, <2>1, <2>4, <2>5, <2>6 DEF Abreast, v, more, nrep, j, m, name
<1>10. CASE ~ Len(w.out) >= MaxVarbinds
  <2>1. /\ Len(w.out) < MaxVarbinds /\ Len(list) = Len(w.out)
        /\ Stands(w, j, name, m)
        /\ \A i \in 1 .. nrep : Stands(w, i, names[nonRep + i], TurnsOf(i, k, nrep))
    <3>1. Len(w.out) < MaxVarbinds /\ Len(list) = Len(w.out)
      BY <1>1, <1>4, <1>8, <1>10 DEF Least
    <3>2. QED
      BY <1>2, <1>3, <1>4, <3>1
\* The walker has ended: it says nothing, and nothing is expected.
  <2>2. CASE j \in w.done
    <3>1. Repeated(name, m).ended
      BY <2>1, <2>2 DEF Stands
    <3>2. v = w /\ more = list
      BY <1>6, <1>7, <2>2, <3>1
    <3>3. Repeated(name, m + 1).ended
      BY <1>2, <3>1, RepeatedOn DEF On
    <3>4. Stands(w, j, name, m + 1)
      BY <2>2, <3>3 DEF Stands
    <3>5. ASSUME NEW i \in 1 .. nrep
          PROVE  Stands(v, i, names[nonRep + i], TurnsOf(i, k + 1, nrep))
      BY <1>2, <1>3, <2>1, <3>2, <3>4
    <3>6. QED
      BY <1>4, <1>5, <3>2, <3>5 DEF Abreast, v, more, nrep, j, m, name
\* It says what is expected, and stands one further.
  <2>3. CASE j \notin w.done
    <3>1. ~ Repeated(name, m).ended
      BY <2>1, <2>3 DEF Stands
    <3>2. /\ Answer(t.vb) = Repeated(name, m + 1)
          /\ Repeated(name, m + 1).ended <=> t.next = NoLeaf
          /\ t.next # NoLeaf => t.next \in Leaves /\ Repeated(name, m + 1).name = LeafOid(t.next)
      BY <1>2, <1>3, <2>1, <2>3, TurningAnswers DEF t
    <3>3. /\ v.out = Append(w.out, t.vb)
          /\ v.cursor = IF t.next = NoLeaf THEN w.cursor ELSE [w.cursor EXCEPT ![j] = t.next]
          /\ v.done = IF t.next = NoLeaf THEN w.done \cup {j} ELSE w.done
      BY <1>6, <1>10, <2>3
    <3>4. more = Append(list, Repeated(name, m + 1))
      BY <1>7, <3>1
    <3>5. w.out \in Seq(Said(names)) /\ w.cursor \in [1 .. nrep -> Leaves \cup {NoLeaf}]
      BY <1>4 DEF Walks, nrep
    <3>6. Len(v.out) = Len(w.out) + 1 /\ Len(more) = Len(list) + 1
      BY <1>4, <3>3, <3>4, <3>5
    <3>7. Len(v.out) = Least(Len(more), MaxVarbinds)
      BY <1>1, <1>8, <2>1, <3>6 DEF Least
    <3>8. ASSUME NEW i \in 1 .. Len(v.out) PROVE Answer(v.out[i]) = more[i]
      <4>1. CASE i = Len(v.out)
        <5>1. v.out[i] = t.vb
          BY <3>3, <3>5, <3>6, <4>1
        <5>2. more[i] = Repeated(name, m + 1)
          BY <1>4, <2>1, <3>4, <3>6, <4>1
        <5>3. QED
          BY <3>2, <5>1, <5>2
      <4>2. CASE i \in 1 .. Len(w.out)
        <5>1. v.out[i] = w.out[i]
          BY <3>3, <3>5, <4>2
        <5>2. more[i] = list[i]
          <6> DEFINE x == Repeated(name, m + 1)
          <6>1. i \in 1 .. Len(list) /\ more = Append(list, x)
            BY <2>1, <3>4, <4>2
          <6> HIDE DEF x
          <6>2. QED
            BY <1>4, <1>8, <6>1
        <5>3. QED
          BY <1>4, <4>2, <5>1, <5>2
      <4>3. QED
        BY <1>8, <3>6, <4>1, <4>2
    <3>9. Stands(v, j, name, m + 1)
      <4>1. m + 1 # 0
        BY <1>2
      <4>2. j \in v.done <=> t.next = NoLeaf
        BY <2>3, <3>3
      <4>3. t.next # NoLeaf => v.cursor[j] = t.next
        BY <1>2, <3>3, <3>5
      <4>4. QED
        BY <3>2, <4>1, <4>2, <4>3 DEF Stands
    <3>10. ASSUME NEW i \in 1 .. nrep
           PROVE  Stands(v, i, names[nonRep + i], TurnsOf(i, k + 1, nrep))
      <4>1. CASE i = j
        BY <1>2, <1>3, <3>9, <4>1
      <4>2. CASE i # j
        <5>1. (i \in v.done <=> i \in w.done) /\ v.cursor[i] = w.cursor[i]
          BY <1>2, <3>3, <3>5, <4>2
        <5>2. Stands(w, i, names[nonRep + i], TurnsOf(i, k + 1, nrep))
          BY <1>2, <2>1, <4>2
        <5>3. QED
          BY <5>1, <5>2 DEF Stands
      <4>3. QED
        BY <4>1, <4>2
    <3>11. QED
      BY <1>5, <3>7, <3>8, <3>10 DEF Abreast, v, more, nrep, j, m, name
  <2>4. QED
    BY <2>2, <2>3
<1>11. QED
  BY <1>9, <1>10 DEF v, more, nrep, j, m, name

(* A GETBULK brings what its rounds of questions, one after the other, would
   bring, but for the repetitions of an end and for what comes after the last
   place: the walkers of plan_getbulk(), each with a cursor, say what is found
   by the names alone, turn by turn. *)
THEOREM BulkAnswers ==
  ASSUME RoomForLeaves, NEW names, NEW nonRep, NEW maxRep, Bulk(names, nonRep, maxRep)
  PROVE  /\ Answers(PlanBulk(names, nonRep, maxRep)) = ExpectedBulk(names, nonRep, maxRep)
         /\ PlanBulk(names, nonRep, maxRep) \in Seq(Said(names))
<1> DEFINE nrep == Repeaters(names, nonRep)
           N == nrep * maxRep
<1>1. N \in Nat /\ nrep \in Nat /\ maxRep \in Nat /\ MaxVarbinds \in Nat
  BY BulkShape DEF Bulk
<1>2. PICK f : /\ PlanBulk(names, nonRep, maxRep) = f[N].out
               /\ f[0] = Setting(names, nonRep)
               /\ \A k \in 1 .. N :
                    f[k] = Turn(f[k - 1], 1 + ((k - 1) % nrep), Turned(names, nonRep, k - 1))
  BY PlanBulkFollows
<1>3. PICK g : /\ ExpectedBulk(names, nonRep, maxRep) =
                    SubSeq(g[N], 1, Least(Len(g[N]), MaxVarbinds))
               /\ g[0] = OnceEach(names, nonRep)
               /\ \A k \in 1 .. N :
                    g[k] = Expected(g[k - 1], Turned(names, nonRep, k - 1), 1 + ((k - 1) \div nrep))
  BY ExpectedBulkFollows
<1> DEFINE Has(k) == Abreast(f[k], g[k], names, nonRep, k)
           S == {k \in Nat : k <= N => Has(k)}
<1>4. 0 \in S
  BY <1>2, <1>3, StartAbreast
<1>5. ASSUME NEW k \in Nat, k \in S PROVE k + 1 \in S
  <2>1. ASSUME k + 1 <= N PROVE Has(k + 1)
    <3>1. nrep # 0
      <4> HIDE DEF nrep
      <4>1. nrep = 0 => N = 0
        BY <1>1
      <4> HIDE DEF N
      <4>2. QED
        BY <1>1, <2>1, <4>1
    <3> HIDE DEF N
    <3>2. k + 1 \in 1 .. N /\ (k + 1) - 1 = k /\ k <= N
      BY <1>1, <2>1
    <3>3. Has(k)
      BY <1>5, <3>2
    <3>4. f[k + 1] = Turn(f[k], 1 + (k % nrep), Turned(names, nonRep, k))
      BY <1>2, <3>2
    <3>5. g[k + 1] = Expected(g[k], Turned(names, nonRep, k), 1 + (k \div nrep))
      BY <1>3, <3>2
    <3>6. QED
      BY <3>1, <3>3, <3>4, <3>5, TurnAbreast
  <2> HIDE DEF Has, N
  <2>2. QED
    BY <2>1
<1> HIDE DEF S
<1>6. Nat \subseteq S
  BY <1>4, <1>5, SetInduction
<1>7. Has(N)
  <2> HIDE DEF Has
  <2>1. N \in S /\ N <= N
    BY <1>1, <1>6
  <2>2. QED
    BY <2>1, Zenon DEF S
<1> DEFINE out == f[N].out
           list == g[N]
           most == Least(Len(list), MaxVarbinds)
<1>8. /\ list \in Seq(Replied(names)) /\ Len(out) = most
      /\ \A i \in 1 .. most : Answer(out[i]) = list[i]
      /\ out \in Seq(Said(names))
  BY <1>7 DEF Abreast, Walks
<1> HIDE DEF out, list
<1>9. most \in Nat /\ most <= Len(list)
  BY <1>1, <1>8 DEF Least
<1>10. SubSeq(list, 1, most) = [i \in 1 .. most |-> list[i]]
  <2> HIDE DEF most
  <2>1. QED
    BY <1>8, <1>9
<1>11. DOMAIN out = 1 .. most
  BY <1>8
<1>12. Answers(out) = [i \in 1 .. most |-> list[i]]
  BY <1>8, <1>11 DEF Answers
<1>13. QED
  BY <1>2, <1>3, <1>8, <1>10, <1>12 DEF out, list

LEMMA BulkConforms ==
  ASSUME RoomForLeaves, NEW r, Askable(r), Kept(r), ~ TooMany(r), r.pdu = "GETBULK"
  PROVE  ListConforms(r, Plan(r))
<1> DEFINE names == Names(r)
           nonRep == Least(Most(GetInt(r.field2), 0), Len(names))
           maxRep == Most(GetInt(r.field3), 0)
<1>1. r.pdu # "GET" /\ r.pdu # "GETNEXT"
  OBVIOUS
<1>2. names \in Seq(Seq(Nat)) /\ AllNameable(names) /\ Len(names) = Len(r.names)
      /\ Len(names) \in 1 .. MaxNames
  BY NamesGot
<1>3. Plan(r) = PlanBulk(names, nonRep, maxRep)
  BY <1>1, <1>2, Zenon DEF Plan
<1>4. Bulk(names, nonRep, maxRep)
  <2>1. GetInt(r.field2) \in Int /\ GetInt(r.field3) \in Int
    BY IntegerTyped DEF Askable
  <2>2. Len(names) \in Nat /\ Len(names) <= MaxNames
    BY <1>2, AgentAssumption
  <2>3. nonRep \in 0 .. Len(names) /\ maxRep \in Nat
    BY <2>1, <2>2 DEF Least, Most
  <2>4. QED
    BY <1>2, <2>2, <2>3 DEF Bulk
<1>5. /\ Answers(PlanBulk(names, nonRep, maxRep)) = ExpectedBulk(names, nonRep, maxRep)
      /\ PlanBulk(names, nonRep, maxRep) \in Seq(Said(names))
  BY <1>4, BulkAnswers
<1>6. Expectation(r) = ExpectedBulk(names, nonRep, maxRep)
  BY <1>1, Zenon DEF Expectation
<1>7. ASSUME NEW vb \in Said(names) PROVE TextVb(vb) <=> TextAnswer(Answer(vb))
  <2>1. CASE \E i \in Leaves : vb = LeafVb(i) \/ vb = Ended(i)
    BY <2>1, VbTexts
  <2>2. CASE \E i \in DOMAIN names : vb = NextVb(names[i])
    BY <1>2, <2>2, NextTexts DEF AllNameable
  <2>3. QED
    BY <1>7, <2>1, <2>2 DEF Said
<1> DEFINE list == PlanBulk(names, nonRep, maxRep)
<1> HIDE DEF list, names, nonRep, maxRep
<1>8. /\ list \in Seq({list[i] : i \in DOMAIN list})
      /\ \A i \in DOMAIN list : list[i] \in Said(names)
  BY <1>5 DEF list
<1>9. QED
  BY <1>1, <1>3, <1>5, <1>6, <1>7, <1>8, Zenon DEF ListConforms, list

(* Whatever a manager asks, it is answered as it expects: a request that can be
   answered is, under its own id, with one name after the other as in the tree,
   whatever the number of interfaces, of names and of repetitions. *)
THEOREM RequestConforms ==
  ASSUME NEW r, Askable(r)
  PROVE  Conforms(r)
<1>1. CASE ~ Kept(r)
  <2>1. HandleRequest(r) = Dropped
    BY <1>1, Zenon DEF HandleRequest
  <2>2. Dropped.error = "dropped"
    BY DEF Dropped
  <2>3. QED
    BY <1>1, <2>1, <2>2, Zenon DEF Conforms
<1>2. CASE Kept(r)
  <2>1. ASSUME ~ TooMany(r), Reading(r) PROVE ListConforms(r, Plan(r))
    BY <1>2, <2>1, RoomAssumption, GetConforms, GetNextConforms, BulkConforms DEF Reading
  <2>2. QED
    BY <1>2, <2>1, Identified
<1>3. QED
  BY <1>1, <1>2

-----------------------------------------------------------------------------
(* The watchdog                                                            *)

\* A context that works was fed at most FEED_MIN_MS before its last report,
\* which is at most Period ago, and a channel has been found for each.
FedInTime ==
  \A c \in watched \ stalled : quiet[c] <= Period /\ age[c] < quiet[c] + FeedMin

WatchInv == WatchTypeOK /\ ready = TRUE /\ FedInTime /\ OnlyStalledReset

LEMMA WatchInitial == WatchInit => WatchInv
BY WatchdogAssumption
   DEF WatchInit, WatchInv, WatchTypeOK, FedInTime, OnlyStalledReset, Zero

\* A context without a channel finds one: task_wdt_add() does not fail.
LEMMA ChannelLeft ==
  ASSUME WatchInv, NEW c \in Contexts
  PROVE  c \in watched \/ Cardinality(watched) < Channels
<1> SUFFICES ASSUME c \notin watched PROVE Cardinality(watched) < Channels
  OBVIOUS
<1>1. IsFiniteSet(Contexts) /\ watched \in SUBSET (Contexts \ {c})
  BY WatchdogAssumption DEF WatchInv, WatchTypeOK
<1>2. IsFiniteSet(Contexts \ {c})
      /\ Cardinality(Contexts \ {c}) = Cardinality(Contexts) - 1
  BY <1>1, FS_RemoveElement
<1>3. Cardinality(watched) <= Cardinality(Contexts \ {c})
  BY <1>1, <1>2, FS_Subset
<1>4. Cardinality(Contexts) \in Nat /\ Cardinality(watched) \in Nat
  BY <1>1, <1>2, FS_Subset, FS_CardinalityType
<1>5. QED
  BY <1>2, <1>3, <1>4, WatchdogAssumption

LEMMA AliveKeeps == ASSUME WatchInv, NEW c \in Contexts, Alive(c) PROVE WatchInv'
<1>1. ready' = TRUE /\ watched' = watched \cup {c}
  BY ChannelLeft DEF Alive, WatchInv
<1>2. WatchTypeOK'
  BY <1>1, WatchdogAssumption DEF Alive, WatchInv, WatchTypeOK
<1>3. FedInTime'
  BY <1>1, WatchdogAssumption DEF Alive, WatchInv, WatchTypeOK, FedInTime
<1>4. OnlyStalledReset'
  BY DEF Alive, WatchInv, OnlyStalledReset
<1>5. QED
  BY <1>1, <1>2, <1>3, <1>4 DEF WatchInv

LEMMA StallKeeps == ASSUME WatchInv, NEW c \in Contexts, Stall(c) PROVE WatchInv'
BY DEF Stall, WatchInv, WatchTypeOK, FedInTime, OnlyStalledReset

LEMMA TickKeeps == ASSUME WatchInv, WatchTick PROVE WatchInv'
<1>1. WatchTypeOK'
  BY DEF WatchTick, WatchInv, WatchTypeOK
<1>2. FedInTime'
  BY WatchdogAssumption DEF WatchTick, WatchInv, WatchTypeOK, FedInTime
<1>3. QED
  BY <1>1, <1>2 DEF WatchTick, WatchInv, OnlyStalledReset

\* Whose time is over does not work.
LEMMA ExpireKeeps == ASSUME WatchInv, NEW c \in Contexts, Expire(c) PROVE WatchInv'
<1>1. c \in stalled
  <2> SUFFICES ASSUME c \notin stalled PROVE FALSE
    OBVIOUS
  <2>1. age[c] \in Nat /\ quiet[c] \in Nat /\ Timeout[c] \in Nat
    BY WatchdogAssumption DEF WatchInv, WatchTypeOK
  <2>2. quiet[c] <= Period /\ age[c] < quiet[c] + FeedMin
    BY DEF Expire, Due, WatchInv, FedInTime
  <2>3. Timeout[c] >= Period + FeedMin /\ age[c] >= Timeout[c]
    BY WatchdogAssumption DEF Expire, Due
  <2>4. QED
    BY <2>1, <2>2, <2>3, WatchdogAssumption
<1>2. QED
  BY <1>1 DEF Expire, WatchInv, WatchTypeOK, FedInTime, OnlyStalledReset

LEMMA ReapKeeps == ASSUME WatchInv, Reap PROVE WatchInv'
BY WatchdogAssumption
   DEF Reap, Boot, WatchInv, WatchTypeOK, FedInTime, OnlyStalledReset, Zero

LEMMA WatchStep == WatchInv /\ [WatchNext]_watchVars => WatchInv'
<1> SUFFICES ASSUME WatchInv, [WatchNext]_watchVars PROVE WatchInv'
  OBVIOUS
<1>1. CASE \E c \in Contexts : Alive(c) \/ Stall(c) \/ Expire(c)
  BY <1>1, AliveKeeps, StallKeeps, ExpireKeeps
<1>2. CASE WatchTick \/ Reap
  BY <1>2, TickKeeps, ReapKeeps
<1>3. CASE UNCHANGED watchVars
  BY <1>3 DEF watchVars, WatchInv, WatchTypeOK, FedInTime, OnlyStalledReset
<1>4. QED
  BY <1>1, <1>2, <1>3 DEF WatchNext

(* The watchdog alone, among contexts that report or stall at any time: its
   types are right and no working context has the device reset. *)
THEOREM WatchdogSound == WatchSpec => []WatchTypeOK /\ []OnlyStalledReset
<1>1. WatchInv => WatchTypeOK /\ OnlyStalledReset
  BY DEF WatchInv
<1>2. QED
  BY <1>1, WatchInitial, WatchStep, PTL DEF WatchSpec

-----------------------------------------------------------------------------
(* The traps                                                               *)

\* coldStart is deferred until it is sent, and no trap comes before it.
ColdFirst ==
  /\ trapPc \in {"start", "cold"} \/ coldPending => cold = 0
  /\ trapPc \notin {"start", "cold"} /\ ~ coldPending => cold = 1
  /\ trapPc = "start" => ~ coldPending
  /\ trapPc \in {"scan", "send"} /\ mgrResolved => ~ coldPending
  /\ linked => cold = 1

\* With nothing lost, the manager misses only what is about to be sent.
ToldAllButOne ==
  /\ trapPc = "send" => row \in Ports
  /\ ~ lost => \A i \in Ports : told[i] = lastOper[i] \/ (trapPc = "send" /\ row = i)

TrapInv == TrapTypeOK /\ ColdFirst /\ ToldAllButOne

LEMMA StartBounds ==
  AllUp \in [Ports -> States] /\ 0 \in 0 .. FlapPeriod /\ 1 \in 1 .. Interfaces + 1
BY TrapAssumption DEF AllUp, States

LEMMA TrapInitial == TrapInit => TrapInv
<1> SUFFICES ASSUME TrapInit PROVE TrapInv
  OBVIOUS
<1>1. PortsTypeOK /\ CountersTypeOK
  BY StartBounds DEF TrapInit, PortsTypeOK, CountersTypeOK
<1>2. FlagsTypeOK
  BY DEF TrapInit, FlagsTypeOK
<1>3. QED
  BY <1>1, <1>2 DEF TrapInit, TrapInv, TrapTypeOK, ColdFirst, ToldAllButOne

LEMMA TrapResetKeeps == TrapReset => TrapInv'
<1> SUFFICES ASSUME TrapReset PROVE TrapInv'
  OBVIOUS
<1>1. PortsTypeOK' /\ CountersTypeOK'
  BY StartBounds DEF TrapReset, PortsTypeOK, CountersTypeOK
<1>2. FlagsTypeOK'
  BY DEF TrapReset, FlagsTypeOK
<1>3. QED
  BY <1>1, <1>2 DEF TrapReset, TrapInv, TrapTypeOK, ColdFirst, ToldAllButOne

LEMMA SimStepKeeps == ASSUME TrapInv, SimStep PROVE TrapInv'
<1>1. stepN' \in 0 .. FlapPeriod
  BY TrapAssumption DEF SimStep, TrapInv, TrapTypeOK, CountersTypeOK
<1>2. Interfaces > 1 => Flapping \in Ports
  BY TrapAssumption DEF Flapping, Ports
<1>3. oper' \in [Ports -> States]
  BY <1>2 DEF SimStep, TrapInv, TrapTypeOK, PortsTypeOK, Other, States
<1>4. TrapTypeOK'
  BY <1>1, <1>3 DEF SimStep, TrapInv, TrapTypeOK, PortsTypeOK, CountersTypeOK, FlagsTypeOK
<1>5. QED
  BY <1>4 DEF SimStep, TrapInv, ColdFirst, ToldAllButOne

\* Each step of the thread keeps the types: of what it knows of the ports,
LEMMA WatcherPorts == ASSUME TrapInv, Watcher PROVE PortsTypeOK'
<1> USE DEF TrapInv, TrapTypeOK, PortsTypeOK
<1>1. CASE TrapStart
  BY <1>1 DEF TrapStart
<1>2. CASE SendCold
  BY <1>2 DEF SendCold, Arrives, GoesAstray
<1>3. CASE SleepOver
  BY <1>3 DEF SleepOver
<1>4. CASE ScanOver
  BY <1>4 DEF ScanOver
<1>5. ASSUME NEW i \in Ports, LookAt(i) PROVE PortsTypeOK'
  BY <1>5 DEF LookAt
<1>6. ASSUME NEW i \in Ports, SendLink(i) PROVE PortsTypeOK'
  BY <1>6 DEF SendLink, Arrives, GoesAstray
<1>7. QED
  BY <1>1, <1>2, <1>3, <1>4, <1>5, <1>6 DEF Watcher

\* ... where it is among them,
LEMMA WatcherCounters == ASSUME TrapInv, Watcher PROVE CountersTypeOK'
<1> USE TrapAssumption DEF TrapInv, TrapTypeOK, CountersTypeOK, Ports
<1>1. CASE TrapStart
  BY <1>1 DEF TrapStart
<1>2. CASE SendCold
  BY <1>2 DEF SendCold, Arrives, GoesAstray
<1>3. CASE SleepOver
  BY <1>3 DEF SleepOver
<1>4. CASE ScanOver
  BY <1>4 DEF ScanOver
<1>5. ASSUME NEW i \in Ports, LookAt(i) PROVE CountersTypeOK'
  BY <1>5 DEF LookAt
<1>6. ASSUME NEW i \in Ports, SendLink(i) PROVE CountersTypeOK'
  BY <1>6 DEF SendLink, Arrives, GoesAstray
<1>7. QED
  BY <1>1, <1>2, <1>3, <1>4, <1>5, <1>6 DEF Watcher

\* ... and its flags;
LEMMA WatcherFlags == ASSUME TrapInv, Watcher PROVE FlagsTypeOK'
<1> USE DEF TrapInv, TrapTypeOK, FlagsTypeOK
<1>1. CASE TrapStart
  BY <1>1 DEF TrapStart
<1>2. CASE SendCold
  BY <1>2 DEF SendCold, Arrives, GoesAstray
<1>3. CASE SleepOver
  BY <1>3 DEF SleepOver
<1>4. CASE ScanOver
  BY <1>4 DEF ScanOver
<1>5. ASSUME NEW i \in Ports, LookAt(i) PROVE FlagsTypeOK'
  BY <1>5 DEF LookAt
<1>6. ASSUME NEW i \in Ports, SendLink(i) PROVE FlagsTypeOK'
  BY <1>6 DEF SendLink, Arrives, GoesAstray
<1>7. QED
  BY <1>1, <1>2, <1>3, <1>4, <1>5, <1>6 DEF Watcher

\* ... the order of the first trap,
LEMMA WatcherColdFirst == ASSUME TrapInv, Watcher PROVE ColdFirst'
<1> USE DEF TrapInv, TrapTypeOK, FlagsTypeOK, ColdFirst
<1>1. CASE TrapStart
  BY <1>1 DEF TrapStart
<1>2. CASE SendCold
  BY <1>2 DEF SendCold, Arrives, GoesAstray
<1>3. CASE SleepOver
  BY <1>3 DEF SleepOver
<1>4. CASE ScanOver
  BY <1>4 DEF ScanOver
<1>5. ASSUME NEW i \in Ports, LookAt(i) PROVE ColdFirst'
  BY <1>5 DEF LookAt
<1>6. ASSUME NEW i \in Ports, SendLink(i) PROVE ColdFirst'
  <2>1. CASE Arrives
    BY <1>6, <2>1 DEF SendLink, Arrives
  <2>2. CASE GoesAstray /\ UNCHANGED <<told, linked>>
    <3>1. mgrResolved' => mgrResolved
      BY <2>2 DEF GoesAstray
    <3>2. QED
      BY <1>6, <2>2, <3>1 DEF SendLink
  <2>3. QED
    BY <1>6, <2>1, <2>2 DEF SendLink
<1>7. QED
  BY <1>1, <1>2, <1>3, <1>4, <1>5, <1>6 DEF Watcher

\* ... and what the manager knows.
LEMMA WatcherTold == ASSUME TrapInv, Watcher PROVE ToldAllButOne'
<1> USE DEF TrapInv, TrapTypeOK, PortsTypeOK, FlagsTypeOK, ToldAllButOne
<1>1. CASE TrapStart
  BY <1>1 DEF TrapStart
<1>2. CASE SendCold
  BY <1>2 DEF SendCold, Arrives, GoesAstray
<1>3. CASE SleepOver
  BY <1>3 DEF SleepOver
<1>4. CASE ScanOver
  BY <1>4 DEF ScanOver
<1>5. ASSUME NEW i \in Ports, LookAt(i) PROVE ToldAllButOne'
  BY <1>5 DEF LookAt
<1>6. ASSUME NEW i \in Ports, SendLink(i) PROVE ToldAllButOne'
  BY <1>6 DEF SendLink, Arrives, GoesAstray
<1>7. QED
  BY <1>1, <1>2, <1>3, <1>4, <1>5, <1>6 DEF Watcher

LEMMA WatcherKeeps == ASSUME TrapInv, Watcher PROVE TrapInv'
BY WatcherPorts, WatcherCounters, WatcherFlags, WatcherColdFirst, WatcherTold
   DEF TrapInv, TrapTypeOK

LEMMA TrapInvFollows == TrapInv => ManagerFollows
BY DEF TrapInv, TrapTypeOK, PortsTypeOK, ColdFirst, ToldAllButOne, ManagerFollows

-----------------------------------------------------------------------------
(* The device                                                              *)

\* Each step of the device is one of the watchdog or leaves it alone.
LEMMA DeviceWatches == [Next]_deviceVars => [WatchNext]_watchVars
BY DeviceAssumption
   DEF Next, deviceVars, WatchNext, Listen, TrapAlive, TrapWorks, Simulate, Block,
       Expires, TimePasses, Restarts

\* The firmware's watchdog is the one above.
THEOREM DeviceWatchdog == Spec => WatchSpec
<1>1. Init => WatchInit
  BY DEF Init
<1>2. QED
  BY <1>1, DeviceWatches, PTL DEF Spec, WatchSpec

(* No thread that works, and reports as often as the firmware's loops do, has
   the device reset, for all timeouts that leave room for FEED_MIN_MS. *)
THEOREM OnlyStalledContextsReset == Spec => []OnlyStalledReset
BY DeviceWatchdog, WatchdogSound, PTL

LEMMA TrapStepKeeps == TrapInv /\ [Next]_deviceVars => TrapInv'
<1> SUFFICES ASSUME TrapInv, [Next]_deviceVars PROVE TrapInv'
  OBVIOUS
<1>1. CASE TrapAlive
  BY <1>1 DEF TrapAlive, TrapInv, TrapTypeOK, PortsTypeOK, CountersTypeOK,
         FlagsTypeOK, ColdFirst, ToldAllButOne
<1>2. CASE TrapWorks
  BY <1>2, WatcherKeeps DEF TrapWorks
<1>3. CASE Simulate
  BY <1>3, SimStepKeeps DEF Simulate
<1>4. CASE Restarts
  BY <1>4, TrapResetKeeps DEF Restarts
<1>5. CASE \/ Listen \/ TimePasses \/ UNCHANGED deviceVars
           \/ \E c \in Contexts : Block(c) \/ Expires(c)
  <2>1. UNCHANGED trapVars
    BY <1>5 DEF Listen, TimePasses, deviceVars, Block, Expires
  <2>2. QED
    BY <2>1 DEF trapVars, TrapInv, TrapTypeOK, PortsTypeOK, CountersTypeOK,
           FlagsTypeOK, ColdFirst, ToldAllButOne
<1>6. QED
  BY <1>1, <1>2, <1>3, <1>4, <1>5 DEF Next

(* For any number of interfaces, whatever flaps while the manager is looked up
   or a trap is sent: coldStart comes once and first, and a manager that got
   all traps knows the interfaces as the agent last saw them. *)
THEOREM ManagerIsTold == Spec => []ManagerFollows
<1>1. Init => TrapInv
  BY TrapInitial DEF Init
<1>2. QED
  BY <1>1, TrapStepKeeps, TrapInvFollows, PTL DEF Spec

ServedTypeOK == served \in BOOLEAN

\* What an answer is found to be is one of the verdicts of the requests.
LEMMA ServedStep == ServedTypeOK /\ [Next]_deviceVars => ServedTypeOK'
BY DEF ServedTypeOK, Next, deviceVars, Listen, TrapAlive, TrapWorks, Simulate, Block,
       Expires, TimePasses, Restarts

(* The firmware keeps its types. *)
THEOREM DeviceTypes == Spec => []DeviceTypeOK
<1>1. Init => TrapInv
  BY TrapInitial DEF Init
<1>2. Init => ServedTypeOK
  BY DEF Init, ServedTypeOK
<1>3. TrapInv /\ WatchTypeOK /\ ServedTypeOK => DeviceTypeOK
  BY DEF DeviceTypeOK, ServedTypeOK, TrapInv
<1>4. Spec => []TrapInv
  BY <1>1, TrapStepKeeps, PTL DEF Spec
<1>5. Spec => []ServedTypeOK
  BY <1>2, ServedStep, PTL DEF Spec
<1>6. Spec => []WatchTypeOK
  BY DeviceWatchdog, WatchdogSound, PTL
<1>7. QED
  BY <1>3, <1>4, <1>5, <1>6, PTL

(* The agent of the firmware answers every datagram so, for as long as it runs. *)
THEOREM AgentConforms ==
  ASSUME \A r \in Requests : Askable(r)
  PROVE  Spec => []AnswersConform
<1>1. Init => AnswersConform
  BY DEF Init, AnswersConform
<1>2. ASSUME NEW verdict \in Verdicts PROVE verdict
  BY RequestConforms DEF Verdicts
<1>3. AnswersConform /\ [Next]_deviceVars => AnswersConform'
  <2> SUFFICES ASSUME AnswersConform, [Next]_deviceVars PROVE AnswersConform'
    OBVIOUS
  <2>1. CASE Listen
    BY <1>2, <2>1 DEF Listen, AnswersConform
  <2>2. CASE ~ Listen
    BY <2>2 DEF Next, deviceVars, TrapAlive, TrapWorks, Simulate, Block,
           Expires, TimePasses, Restarts, AnswersConform
  <2>3. QED
    BY <2>1, <2>2
<1>4. QED
  BY <1>1, <1>3, PTL DEF Spec
=============================================================================
