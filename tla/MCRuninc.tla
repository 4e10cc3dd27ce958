------------------------------ MODULE MCRuninc ------------------------------
(***************************************************************************)
(* Mail for a node, for a point of it, for a node behind a host and for    *)
(* the system itself, with the routing tables that treat them differently. *)
(***************************************************************************)
EXTENDS Runinc

N(f) == <<<<"", 2>>, <<":", 1>>, <<"/", f>>>>
At(f, p) == [zone |-> 2, net |-> 1, node |-> f, point |-> p]
Host == At(0, 0)
A    == At(5, 0)
P    == At(5, 1)
B    == At(7, 0)
Own  == At(9, 0)
Out(a, flav) == [to |-> a, flav |-> flav]

Line(cmd, flav, args, name) == [cmd |-> cmd, flav |-> flav, args |-> args, name |-> name]

\* send hold 2:1/5; change hold crash 2:1/5; route normal 2:1/0 7 *; with lines
\* that are of other types, or that are not understood.
Table1 ==
  <<Line("echomail", <<>>, <<>>, ""),
    Line("route", <<"c">>, <<N(9), <<<<"", WILDCARD>>>>>>, ""),
    Line("tick", <<>>, <<>>, ""),
    Line("send", <<"d">>, <<N(5), N(7)>>, ""),
    Line("netmail", <<>>, <<>>, ""),
    Line("dispatch", <<"n">>, <<N(5)>>, ""),
    Line("send", <<"x">>, <<N(5)>>, ""),
    Line("send", <<"h">>, <<N(5)>>, ""),
    Line("change", <<"h", "c">>, <<N(5)>>, ""),
    Line("route", <<"n">>, <<N(0), <<<<"", 7>>>>, <<<<"/", 8>>>>,
                             <<<<"", WILDCARD>>>>>>, "")>>

\* hostroute normal 2:1/7; bossroute normal 2:1/5.1; xroute; hubroute; sendmove
\* crash *; remapto; remapfrom; a plain remap; and rewrites of the sender.
Table2 ==
  <<Line("hostroute", <<"n">>, <<N(7)>>, ""),
    Line("hostroute", <<"n">>, <<<<<<"", 2>>, <<":", 1>>, <<"/", WILDCARD>>>>>>, ""),
    Line("bossroute", <<"n">>, <<N(5) \o <<<<".", 1>>>>>>, ""),
    Line("xroute", <<"d">>, <<N(0), N(4), N(5)>>, ""),
    Line("xroute", <<"d">>, <<N(0), N(4)>>, ""),
    Line("hubroute", <<"n">>, <<N(0)>>, ""),
    Line("sendmove", <<"c">>, <<<<<<"", WILDCARD>>>>>>, ""),
    Line("remap", <<>>, <<N(7), N(5)>>, "sysop"),
    Line("remapto", <<>>, <<N(9), N(5)>>, "areafix"),
    Line("remapto", <<>>, <<N(9), <<<<"", 0>>, <<":", 0>>, <<"/", 0>>, <<".", 0>>>>>>, "nobody"),
    Line("remapfrom", <<>>, <<N(3), N(7)>>, "*"),
    Line("rewriteto", <<>>, <<N(5), N(4)>>, "boss"),
    Line("rewrite", <<>>, <<N(2), N(3)>>, "")>>

M(from, to, toname, flav, direct) ==
  [from |-> from, to |-> to, byname |-> "sysop", toname |-> toname, flav |-> flav,
   direct |-> direct]

Pkt(name, msgs) == [name |-> name, kind |-> "pkt", ok |-> TRUE, msgs |-> msgs]
Arc(name, ok, msgs) == [name |-> name, kind |-> "arc", ok |-> ok, msgs |-> msgs]

\* A point's mail, a node's, and another's, in an archive and a packet.
Plain ==
  [lines |-> Table1, from |-> Own, hubs |-> {}, grade |-> "i", sflag |-> TRUE,
   maxpkt |-> 1, repack |-> FALSE, nodes |-> {Host, A, P, B},
   msg |-> <<M(At(4, 0), P, "sysop", "n", FALSE), M(At(4, 0), A, "sysop", "h", FALSE),
             M(At(4, 0), B, "sysop", "n", FALSE)>>,
   files |-> [f1 |-> Arc("MO1", TRUE, [a |-> <<1>>, b |-> <<3>>]), f2 |-> Pkt("c", <<2>>)],
   way |-> <<{Out(A, "h")}, {Out(A, "h")}, {Out(Host, "n")}>>]

\* The same as mail of the gateway, whose flavors count; two archives of one name
\* that cannot be unpacked; a packet with the name of one in an archive.
Flavored ==
  [Plain EXCEPT !.sflag = FALSE, !.grade = "m", !.maxpkt = 9,
     !.msg = @ \o <<@[3]>>,
     !.way = <<@[1], {Out(A, "c")}, @[3], @[3]>>,
     !.files = [f1 |-> Arc("MO1", TRUE, [a |-> <<1>>]), f2 |-> Pkt("a", <<2>>),
                f3 |-> Arc("TU1", FALSE, [b |-> <<3>>]),
                f4 |-> Arc("TU1", FALSE, [b |-> <<4>>])]]

\* A direct message behind another one for the same point, which is moved with
\* it; one before it, of another packet, is in the same output packet.
Directs ==
  [Plain EXCEPT !.msg[2] = M(At(4, 0), P, "sysop", "n", TRUE), !.maxpkt = 9,
     !.msg[3] = M(At(4, 0), A, "sysop", "n", FALSE),
     !.way = <<{Out(A, "h"), Out(P, "h")}, {Out(P, "h")}, {Out(A, "h")}>>,
     !.files = [f1 |-> Pkt("a", <<3, 1, 2>>)]]

\* ftnroute -p beside runinc, in the grade its packets have: one that runinc's
\* ftnpack takes before it has been routed again has the normal flavor.
Repacked ==
  [Plain EXCEPT !.repack = TRUE, !.grade = "m", !.maxpkt = 9,
     !.way = <<{Out(A, "h"), Out(A, "n")}, {Out(A, "h"), Out(A, "n")}, {Out(Host, "n")}>>,
     !.files = [f1 |-> Pkt("a", <<3>>), f2 |-> Arc("MO1", TRUE, [b |-> <<1, 2>>])]]

\* The commands that make routes, and the remaps.
Mapped ==
  [Plain EXCEPT !.lines = Table2, !.maxpkt = 9, !.hubs = {Host}, !.nodes = @ \cup {Own, At(4, 0)},
     !.msg = <<M(At(4, 0), B, "sysop", "n", FALSE), M(At(4, 0), Own, "areafix", "n", FALSE),
               M(At(4, 0), Own, "nobody", "n", FALSE), M(At(2, 0), P, "boss", "n", FALSE),
               M(At(3, 0), Own, "x", "n", FALSE), M(At(4, 0), Host, "boss", "n", FALSE)>>,
     !.files = [f1 |-> Pkt("a", <<1, 2, 3>>), f2 |-> Pkt("b", <<4, 5, 6>>)],
     !.way = <<{Out(Host, "n")}, {Out(A, "c")}, {}, {Out(A, "n")}, {Out(Host, "n")},
               {Out(Host, "n")}>>]

MCConfigs == <<Plain, Flavored, Directs, Repacked, Mapped>>
=============================================================================
