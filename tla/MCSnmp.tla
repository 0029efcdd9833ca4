------------------------------- MODULE MCSnmp -------------------------------
(***************************************************************************)
(* The SNMP firmware for TLC: two interfaces, of which one flaps, and      *)
(* datagrams that ask for leaves, for what lies between them and after the *)
(* last, once and in bulk, with too many names and with none.              *)
(***************************************************************************)
EXTENDS SnmpDevice

MCTimeout == [c \in Contexts |-> 4]

MCNames ==
  { <<1, 3>>, System \o <<3>>, System \o <<7, 0>>, IfNumber,
    IfEntry \o <<8>>, IfEntry \o <<8, 1>>, IfEntry \o <<17, Rows>>,
    SysObjectId \o <<2, 0>>, SysObjectId \o <<3, 0>>, <<1, 3, 6, 1, 4, 1, 100000>> }

Request(pdu, names, field2, field3) ==
  [sound |-> TRUE, pdu |-> pdu, id |-> PutInt(-129), names |-> names,
   field2 |-> PutInt(field2), field3 |-> PutInt(field3)]

Coded(names) == [i \in DOMAIN names |-> PutOid(names[i])]

Pairs == {<<a, b>> : a, b \in MCNames}
Lists == {<<>>} \cup {<<a>> : a \in MCNames} \cup Pairs
           \cup {<<a, b, <<1, 3>>>> : a, b \in {<<1, 3>>, SysObjectId \o <<3, 0>>}}

MCRequests ==
  {Request(pdu, Coded(names), 0, 0) : pdu \in {"GET", "GETNEXT"}, names \in Lists}
    \cup {Request("GETBULK", Coded(names), nonRep, maxRep) :
            names \in Lists, nonRep \in {-1, 0, 1, 3}, maxRep \in {-128, 1, 3}}
    \cup {Request(pdu, Coded(<<IfNumber>>), 0, 0) : pdu \in {"SET", "unknown"}}
    \cup {Request("GET", <<<<43, 134>>>>, 0, 0)}
    \cup {[Request("GET", Coded(<<IfNumber>>), 0, 0) EXCEPT !.sound = FALSE]}

\* They are requests that the theorem about answers speaks of.
ASSUME MCRequestsAssumption == \A r \in MCRequests : Askable(r)
=============================================================================
