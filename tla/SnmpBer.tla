------------------------------- MODULE SnmpBer -------------------------------
(***************************************************************************)
(* The parts of the BER codec (snmp_ber.c) whose result is not obvious:    *)
(* signed integers and object identifiers, as the octets of their values.  *)
(* Tags, lengths and nesting are abstracted to records and sequences.      *)
(*                                                                         *)
(* Sub-identifiers are below 2^28 here.                                    *)
(***************************************************************************)
EXTENDS Integers, Sequences

CONSTANT MaxOid    \* BER_MAX_OID_LEN

ASSUME MaxOidAssumption == MaxOid \in Nat \ {0, 1}

NotAnOid == <<>>

\* Octets, and those of them without a mark.
Octet == 0 .. 255
Octets == Seq(Octet)
Septet == 0 .. 127

\* What the n-th octet from the end, of eight or of seven bits, is worth.
Weight == <<1, 256, 256 * 256, 256 * 256 * 256>>
SeptetWeight == <<1, 128, 128 * 128, 128 * 128 * 128>>

\* Sub-identifiers
Arc == {v \in Nat : v < 128 * SeptetWeight[4]}

Fits(n, v) == - (128 * Weight[n]) <= v /\ v < 128 * Weight[n]
Holds(n, v) == n = 4 \/ Fits(n, v)

\* ber_put_int(): as few octets of two's complement as hold v.
IntLength(v) == CHOOSE n \in 1 .. 4 : Holds(n, v) /\ \A m \in 1 .. n - 1 : ~ Holds(m, v)
PutInt(v) == [i \in 1 .. IntLength(v) |-> (v \div Weight[1 + IntLength(v) - i]) % 256]

\* ber_get_int(): extends the sign of the first octet.
GetInt(octets) ==
  LET value[i \in 0 .. Len(octets)] ==
        IF i = 0 THEN (IF octets[1] >= 128 THEN -1 ELSE 0)
        ELSE 256 * value[i - 1] + octets[i]
  IN  value[Len(octets)]

\* A sub-identifier: seven bits in each octet, all but the last marked.
SeptetCount(v) ==
  CHOOSE n \in 1 .. 4 : /\ v < 128 * SeptetWeight[n]
                        /\ \A m \in 1 .. n - 1 : v >= 128 * SeptetWeight[m]
Septets(v) ==
  LET n == SeptetCount(v)
  IN  [i \in 1 .. n |-> ((v \div SeptetWeight[1 + n - i]) % 128) + (IF i < n THEN 128 ELSE 0)]

\* ber_put_oid()
PutOid(oid) ==
  LET octets[k \in 0 .. Len(oid) - 2] ==
        IF k = 0 THEN Septets(40 * oid[1] + oid[2])
        ELSE octets[k - 1] \o Septets(oid[k + 2])
  IN  octets[Len(oid) - 2]

\* One octet of a sub-identifier, with the arcs before it.
NoArcs == [arcs |-> <<>>, value |-> 0, open |-> FALSE]
Read(s, b) ==
  IF b >= 128 THEN [s EXCEPT !.value = 128 * @ + b - 128, !.open = TRUE]
  ELSE [arcs |-> Append(s.arcs, 128 * s.value + b), value |-> 0, open |-> FALSE]

ReadArcs(octets) ==
  LET read[i \in 0 .. Len(octets)] ==
        IF i = 0 THEN NoArcs ELSE Read(read[i - 1], octets[i])
  IN  read[Len(octets)]

\* ber_get_oid(): the first octet is two arcs; nothing may follow a mark but
\* its octet, and there is room for MaxOid arcs.
GetOid(octets) ==
  LET rest == ReadArcs(Tail(octets))
  IN  IF octets = <<>> \/ rest.open \/ Len(rest.arcs) + 2 > MaxOid THEN NotAnOid
      ELSE <<octets[1] \div 40, octets[1] % 40>> \o rest.arcs
=============================================================================
