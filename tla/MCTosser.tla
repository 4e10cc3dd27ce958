------------------------------ MODULE MCTosser ------------------------------
(* Instances of Tosser for TLC.                                             *)
EXTENDS Tosser, TLC

\* This system, a point of its own and a node of another network, with the
\* headers that the programs of their time write: a full one, one of a point
\* behind the net 65535, and one without zones.
Node(zone, net, node, point) == [zone |-> zone, net |-> net, node |-> node, point |-> point]
Us    == Node(2, 300, 1, 0)
Point == Node(2, 5020, 258, 7)
Old   == Node(2, 301, 9, 0)
Noon  == [year |-> 2004, mon |-> 11, day |-> 31, hour |-> 12, min |-> 59, sec |-> 0]
FullHdr(from, passwd) == PutHdr([from |-> from, to |-> Us, time |-> Noon, passwd |-> passwd])
PointHdr(from, passwd) ==
  [FullHdr(from, passwd) EXCEPT ![11] = PutInt16(NoNet), ![17] = PutInt16(from.net)]
OldHdr(from) ==
  [i \in 1..HdrLen |-> IF i \in 15..24 THEN PutInt16(0) ELSE FullHdr(from, <<>>)[i]]
ShortHdr == SubSeq(FullHdr(Old, <<>>), 1, 20)
NewHdr   == [FullHdr(Old, <<>>) EXCEPT ![10] = PutInt16(3)]
Word_    == <<71, 105>>

\* Headers of messages: with names that had to be cut, and one that was not.
Letters(n) == [i \in 1..n |-> 65 + i]
Head_(to)  == [from |-> Old, to |-> Us, attr |-> 0, cost |-> 0, date |-> -1,
               name_to |-> to, name_from |-> Letters(MaxName - 1), subject |-> Letters(MaxSubj)]
ShortHead  == PutMsgHdr(Head_(Letters(1)), [now |-> 5, last |-> 5])
LongHead   == PutMsgHdr(Head_(Letters(MaxName)), [now |-> 5, last |-> 4])
ForeignHead == [ShortHead EXCEPT ![8] = Letters(MaxName)]

Mail(k, to)   == [key |-> k, net |-> TRUE, ping |-> FALSE, readable |-> TRUE, head |-> LongHead,
                  links |-> {}, wrong |-> {}, to |-> {to}]
Echo(k, wrong, links) ==
  [key |-> k, net |-> FALSE, ping |-> FALSE, readable |-> TRUE, head |-> ShortHead,
   links |-> links, wrong |-> wrong, to |-> {"a", "b"}]
All == {Point, Old}
Garbled       == [Mail("x", "a") EXCEPT !.readable = FALSE]
TooLong       == [Mail("x", "a") EXCEPT !.head = ForeignHead]
Ping          == [Mail("p", "a") EXCEPT !.ping = TRUE]
Empty         == [Mail("e", "a") EXCEPT !.wrong = {"empty"}]

\* Packets are read in any order, so it does not matter which is which.
one == CHOOSE p \in Pkt : TRUE

Packet(header, sender, passwd, msgs) ==
  [header |-> header, sender |-> sender, passwd |-> passwd, msgs |-> msgs,
   sound |-> \A i \in DOMAIN msgs : msgs[i] \notin {Garbled, TooLong}]
OfPoint(msgs) == Packet(PointHdr(Point, Word_), Point, Word_, msgs)
OfNode(msgs)  == Packet(OldHdr(Old), Old, <<>>, msgs)
NoPacket(h)   == [Packet(h, Old, <<>>, <<>>) EXCEPT !.sound = FALSE]

\* The same echomail message from two sides, with what may be wrong with it on
\* one of them; netmail, pings, and what cannot be read.
Both(x, y) == [p \in Pkt |-> IF p = one THEN x ELSE y]
FromOld == OfNode(<<Echo("m", {}, All), Mail("q", "b")>>)
Pairs ==
  {Both(OfPoint(<<Echo("m", w, All), Echo("n", {}, All)>>), FromOld) :
     w \in {{}, {"circular"}, {"unknown"}}} \cup
  {Both(Packet(FullHdr(Point, w[1]), Point, w[1], <<Echo("m", {}, w[2]), Echo("n", {"state_P"}, All)>>),
        FromOld) : w \in {<<Word_, {Old}>>, <<<<71>>, All>>}}
Mixed ==
  {Both(OfPoint(<<Echo("m", {}, All), Ping, x>>), NoPacket(ShortHdr)) : x \in {Garbled, Empty}} \cup
  {Both(OfPoint(<<Ping, x>>), OfNode(<<Echo("m", {}, All)>>)) : x \in {TooLong, Echo("m", {}, All)}} \cup
  {Both(NoPacket(NewHdr), OfNode(<<Mail("q", "b")>>))}
AllInbounds == Pairs \cup Mixed

Kill_ == {"KillDupe", "KillCircular", "KillInsecure"}
Maxes == {<<0, FALSE, {}>>, <<1, FALSE, Kill_>>, <<2, TRUE, {}>>, <<0, FALSE, Kill_>>}
Fails == {{}, {"open"}, {"history", "unlink"}, {"close", "rename"}}

AllConfigs == {[kill |-> m[3], maxmsg |-> m[1], x_flag |-> m[2], faults |-> f,
                zone |-> 2, own |-> {Us}, strict |-> TRUE,
                passwords |-> {[node |-> Point, passwd |-> Word_]}] :
                 m \in Maxes, f \in Fails}
=============================================================================
