------------------------------ MODULE SnmpAgent ------------------------------
(***************************************************************************)
(* What the SNMP agent answers to a datagram: handle_request() of          *)
(* snmp_agent.c.  It keeps nothing from one request to the next, so it is  *)
(* a function of the request.                                              *)
(*                                                                         *)
(* A datagram is what is left of it once its nesting is undone: whether    *)
(* version, community and structure are right, the kind of PDU, and the    *)
(* octets of its integers and names.  The value of a varbind is the leaf   *)
(* it is read from; the texts of the system group take twice the room of   *)
(* other values.                                                           *)
(***************************************************************************)
EXTENDS SnmpBer, SnmpMib, SequencesExt

CONSTANTS
  Requests,    \* datagrams that may come
  MaxNames,    \* SNMP_MAX_REQ_VB
  Spare,       \* SNMP_MAX_RESP_VB - SNMP_MAX_REQ_VB
  TxRoom       \* SNMP_TX_BUF, in values

\* The names of the leaves have room, and are not too large.
RoomForLeaves == MaxOid >= 11 /\ Rows \in Arc

ASSUME RoomAssumption == RoomForLeaves

ASSUME AgentAssumption ==
  /\ MaxNames \in Nat \ {0} /\ Spare \in Nat /\ TxRoom \in Nat

MaxVarbinds == MaxNames + Spare

Dropped == [error |-> "dropped"]

\* parse_request(): TRUE for what is not dropped.  Names after the one that is
\* too many are not looked at.
Kept(r) ==
  /\ r.sound /\ r.names # <<>>
  /\ \A i \in 1 .. Len(r.names) : i <= MaxNames => GetOid(r.names[i]) # NotAnOid

TooMany(r) == Len(r.names) > MaxNames

Names(r) == [i \in 1 .. Len(r.names) |-> GetOid(r.names[i])]

\* emit_varbind(): the leaf's own name, or the one that was asked for.
LeafVb(i) == [name |-> PutOid(LeafOid(i)), value |-> i, exception |-> "none"]
EchoVb(oid, exception) == [name |-> PutOid(oid), value |-> NoLeaf, exception |-> exception]
Ended(i) == [name |-> PutOid(LeafOid(i)), value |-> NoLeaf, exception |-> "endOfMibView"]

\* plan_get()
PlanGet(names) ==
  [k \in DOMAIN names |->
     IF GetExact(names[k]) = NoLeaf THEN EchoVb(names[k], "noSuchInstance")
     ELSE LeafVb(GetExact(names[k]))]

\* set_vb_next()
NextVb(oid) ==
  IF GetNext(oid) = NoLeaf THEN EchoVb(oid, "endOfMibView") ELSE LeafVb(GetNext(oid))

\* plan_getnext()
PlanGetNext(names) == [k \in DOMAIN names |-> NextVb(names[k])]

Least(a, b) == IF a < b THEN a ELSE b
Most(a, b) == IF a > b THEN a ELSE b

\* Fault: a walker does not remember the leaf it is at.
PlanBulkForgets(names, nonRep, maxRep) ==
  LET nrep == Len(names) - nonRep
      walk[k \in 0 .. nrep * maxRep] ==
        IF k = 0 THEN PlanGetNext(SubSeq(names, 1, Least(nonRep, MaxVarbinds)))
        ELSE LET j == 1 + ((k - 1) % nrep) IN
             IF Len(walk[k - 1]) >= MaxVarbinds THEN walk[k - 1]
             ELSE Append(walk[k - 1], NextVb(names[nonRep + j]))
  IN  walk[nrep * maxRep]

\* One turn of the walker j of plan_getbulk(), whose name was asked for: it
\* keeps the leaf it is at, and stops after the end; all stop when there is no
\* room.
Turn(w, j, name) ==
  LET here == w.cursor[j]
      next == IF here = NoLeaf THEN GetNext(name) ELSE NextLeaf(here)
  IN  IF j \in w.done \/ Len(w.out) >= MaxVarbinds THEN w
      ELSE [out |-> Append(w.out,
                      IF here = NoLeaf THEN NextVb(name)
                      ELSE IF next = NoLeaf THEN Ended(here) ELSE LeafVb(next)),
            cursor |-> IF next = NoLeaf THEN w.cursor ELSE [w.cursor EXCEPT ![j] = next],
            done |-> IF next = NoLeaf THEN w.done \cup {j} ELSE w.done]

\* plan_getbulk(): turn k of the two loops is repetition (k-1) div nrep of the
\* walker (k-1) mod nrep.
PlanBulk(names, nonRep, maxRep) ==
  LET nrep == Len(names) - nonRep
      walk[k \in 0 .. nrep * maxRep] ==
        IF k = 0
        THEN [out |-> PlanGetNext(SubSeq(names, 1, Least(nonRep, MaxVarbinds))),
              cursor |-> [j \in 1 .. nrep |-> NoLeaf], done |-> {}]
        ELSE Turn(walk[k - 1], 1 + ((k - 1) % nrep), names[nonRep + 1 + ((k - 1) % nrep)])
  IN  walk[nrep * maxRep].out

Plan(r) ==
  CASE r.pdu = "GET"     -> PlanGet(Names(r))
    [] r.pdu = "GETNEXT" -> PlanGetNext(Names(r))
    [] r.pdu = "GETBULK" ->
         PlanBulk(Names(r), Least(Most(GetInt(r.field2), 0), Len(r.names)),
                  Most(GetInt(r.field3), 0))

Response(r, error, index, list) ==
  [error |-> error, index |-> index, id |-> PutInt(GetInt(r.id)), list |-> list]

Size(list) ==
  Len(list) + Cardinality({k \in DOMAIN list : list[k].value \in 1 .. Scalars - 1})

\* handle_request()
HandleRequest(r) ==
  CASE ~ Kept(r) -> Dropped
    [] Kept(r) /\ TooMany(r) -> Response(r, "tooBig", 0, <<>>)
    [] Kept(r) /\ ~ TooMany(r) /\ r.pdu = "SET" -> Response(r, "notWritable", 1, <<>>)
    [] Kept(r) /\ ~ TooMany(r) /\ r.pdu = "unknown" -> Response(r, "genErr", 0, <<>>)
    [] OTHER -> IF Size(Plan(r)) > TxRoom THEN Response(r, "tooBig", 0, <<>>)
                ELSE Response(r, "none", 0, Plan(r))

-----------------------------------------------------------------------------
(* What a manager may ask *)

\* An integer with no octet too many (X.690, 8.3.2).
Minimal(octets) ==
  /\ octets \in Octets /\ Len(octets) \in 1 .. 4
  /\ Len(octets) > 1 => ~ (octets[1] = 0 /\ octets[2] < 128)
                        /\ ~ (octets[1] = 255 /\ octets[2] >= 128)

\* A name with its first two arcs in one octet.
Echoable(octets) ==
  /\ octets \in Octets
  /\ octets # <<>> => octets[1] \in Septet
  /\ \A k \in 3 .. Len(GetOid(octets)) : GetOid(octets)[k] \in Arc

Askable(r) ==
  /\ r.sound \in BOOLEAN /\ r.pdu \in {"GET", "GETNEXT", "GETBULK", "SET", "unknown"}
  /\ Minimal(r.id)
  /\ r.field2 \in Octets /\ Len(r.field2) \in 1 .. 4
  /\ r.field3 \in Octets /\ Len(r.field3) \in 1 .. 4
  /\ r.names \in Seq(Octets) /\ \A i \in DOMAIN r.names : Echoable(r.names[i])

-----------------------------------------------------------------------------
(* What a manager expects, from names alone *)

Oids == {LeafOid(i) : i \in Leaves}

\* The answer to a GETNEXT for the name of the answer before.
Follow(answer) ==
  LET after == {o \in Oids : OidLess(answer.name, o)}
      next == CHOOSE o \in after : \A p \in after : ~ OidLess(p, o)
  IN  IF after = {} THEN [name |-> answer.name, ended |-> TRUE]
      ELSE [name |-> next, ended |-> FALSE]

\* The n-th answer when each is asked for by the name of the one before.
Repeated(oid, n) ==
  LET answer[k \in 0 .. n] ==
        IF k = 0 THEN [name |-> oid, ended |-> FALSE]
        ELSE IF answer[k - 1].ended THEN answer[k - 1] ELSE Follow(answer[k - 1])
  IN  answer[n]

\* Answer k of the rounds of GETNEXTs for the names after the first nonRep, as
\* RFC 3416 has them (4.2.3): a name that has ended goes on saying so.
InRounds(names, nonRep, k) ==
  LET nrep == Len(names) - nonRep
  IN  Repeated(names[nonRep + 1 + ((k - 1) % nrep)], 1 + ((k - 1) \div nrep))

\* It only says again what the round before has said: the name has ended.
EndsAgain(names, nonRep, k) ==
  LET nrep == Len(names) - nonRep
  IN  k > nrep /\ InRounds(names, nonRep, k - nrep).ended

\* What a GETBULK must bring: a GETNEXT for each of the first nonRep names, then
\* maxRep rounds for the others.  Two things set it apart from the RFC's list:
\* an end is said once and not in every round after, and the list is cut at
\* SNMP_MAX_RESP_VB answers.
ExpectedBulk(names, nonRep, maxRep) ==
  LET turns == (Len(names) - nonRep) * maxRep
      list[k \in 0 .. turns] ==
        IF k = 0 THEN [i \in 1 .. nonRep |-> Repeated(names[i], 1)]
        ELSE IF EndsAgain(names, nonRep, k) THEN list[k - 1]
        ELSE Append(list[k - 1], InRounds(names, nonRep, k))
  IN  SubSeq(list[turns], 1, Least(Len(list[turns]), MaxVarbinds))

\* The answers to a question, in order.
Expectation(r) ==
  LET names == Names(r)
      nonRep == Least(Most(GetInt(r.field2), 0), Len(names))
      maxRep == Most(GetInt(r.field3), 0)
  IN  CASE r.pdu = "GET"     -> [i \in DOMAIN names |-> [name |-> names[i], ended |-> FALSE]]
        [] r.pdu = "GETNEXT" -> [i \in DOMAIN names |-> Repeated(names[i], 1)]
        [] r.pdu = "GETBULK" -> ExpectedBulk(names, nonRep, maxRep)

\* The room they take: the texts of the system group take twice as much.
Texts == {LeafOid(i) : i \in 1 .. Scalars - 1}

Room(answers) ==
  Len(answers) +
    Cardinality({k \in DOMAIN answers : ~ answers[k].ended /\ answers[k].name \in Texts})

\* A question the agent can answer: not too many names, and room for it all.
Answerable(r) ==
  /\ r.pdu \in {"GET", "GETNEXT", "GETBULK"}
  /\ ~ TooMany(r)
  /\ Room(Expectation(r)) <= TxRoom

Answer(vb) == [name |-> GetOid(vb.name), ended |-> vb.exception = "endOfMibView"]

\* The answer to r is the one a manager expects: only what is no request is
\* dropped, and only what cannot be answered gets an error.
Conforms(r) ==
  LET reply == HandleRequest(r)
  IN  /\ reply.error = "dropped" <=> ~ Kept(r)
      /\ Kept(r) =>
           /\ reply.id = r.id
           /\ reply.error = "none" <=> Answerable(r)
           /\ reply.error # "none" => reply.list = <<>>
      /\ Kept(r) /\ Answerable(r) =>
           /\ [i \in DOMAIN reply.list |-> Answer(reply.list[i])] = Expectation(r)
           /\ r.pdu = "GET" =>
                \A i \in DOMAIN reply.list :
                  reply.list[i].exception = "none" <=> Names(r)[i] \in Oids

\* What may come of a turn: evaluated once, since an answer depends on nothing
\* but its request.
Verdicts == {Conforms(r) : r \in Requests}
=============================================================================
