------------------------------- MODULE MCGate --------------------------------
EXTENDS Gate, TLC
L(c, v)    == [c |-> c, n |-> "", v |-> v]
KL(n, v)   == [c |-> "kludge", n |-> n, v |-> v]
RF(n, v)   == [c |-> "rfc", n |-> n, v |-> v]
Bit8(v)    == [c |-> "text", n |-> "8bit", v |-> v]
Nd(z, f)   == [zone |-> z, net |-> 5, node |-> f, point |-> 0]
Pt(z, f, p) == [Nd(z, f) EXCEPT !.point = p]
Id(n, s)   == [k |-> "ftn", addr |-> n, serial |-> s]
Own(i)     == [k |-> "own", id |-> i]

(* Names                                                                   *)
Ann  == <<65, 110, 110>>
Bob  == <<66, 111, 98, 32, 66>>             \* with a space
Eve  == <<69, 118, 101, 44, 32, 68, 114>>   \* with a comma: quoted
Long == <<76, 111, 110, 103, 32, 76, 111>>  \* longer than a header holds
Low(name) == Lower(name)

(* The site: a domain for zone 2 and none for zone 9; a word is a number   *)
W(i) == Label("w", i)
MCSite == [hostname |-> <<W(1)>>, domain |-> <<W(2), W(3)>>, hostsdomain |-> <<W(4), W(3)>>,
           invalid |-> <<W(0)>>, zones |-> <<[zone |-> 2, dom |-> <<W(5), W(6)>>]>>, defzone |-> 2,
           spelled |-> [a \in {<<>>, <<W(1), W(2), W(3)>>, <<W(8)>>} |-> <<104>>]]
Hosts == <<HostLine(Pt(2, 1, 3), <<W(7), W(3)>>, TRUE, {}), HostLine(Nd(2, 1), <<W(9)>>, FALSE, {"-p"}),
           HostLine(Nd(2, 2), NONE, FALSE, {}), HostLine(Nd(2, 7), <<W(10), W(2), W(3)>>, TRUE, {"-d"})>>
Als(user, dom, node, full) == [c |-> "alias", user |-> user, dom |-> dom, node |-> node, full |-> full]
Type(t) == [c |-> "type", type |-> t]
Aliases == AliasFile(<<Als(<<97>>, NONE, Nd(2, 1), Ann), Als(<<97, 110, 110>>, NONE, Nd(2, 2), Long),
                       Als(<<101>>, NONE, Nd(2, 2), Star), Type("ftn2rfc"), Als(<<98, 98>>, <<W(8)>>, Nd(2, 2), Bob),
                       Type("rfc2ftn"), Als(<<122>>, <<W(8)>>, Pt(2, 1, 4), Star)>>)

(* FTN messages: netmail and echomail                                      *)
Net(name, class, lines) ==
  [from |-> Nd(2, 1), to |-> Nd(2, 2), name |-> name, class |-> class,
   sender |-> Ann, tracker |-> FALSE, rr |-> FALSE, lines |-> lines, body |-> NONE,
   source |-> NONE, author |-> NONE, named |-> NONE]
M1 == Net(Bob, "name", <<KL("MSGID", Id(Nd(2, 1), "s1")), KL("FMPT", 1), L("text", "t1"),
                          L("tear", "---"), L("via", "v")>>)
M2 == Net(Bob, "addr", <<KL("INTL", <<Nd(2, 2), Nd(2, 7)>>), L("blank", ""),
                          RF("To", [who |-> "bob@host", local |-> FALSE]), RF("Cc", "carl"),
                          L("blank", ""), Bit8("t1"), L("text", "t2"), L("blank", "")>>)
M3 == Net(UUCP, "uucp", <<KL("MSGID", [k |-> "nomsgid", serial |-> "s9"]), L("text", "t1")>>)
M4 == [Net(Eve, "name", <<KL("SPLIT", "1/2"), KL("MSGID", Id(Nd(2, 7), "s7")),
                         KL("RFC-Content-Transfer-Encoding", "8bit"), Bit8("t1")>>)
         EXCEPT !.tracker = TRUE, !.rr = TRUE, !.sender = Eve]
M5 == Net(Bob, "name", <<L("text", "t1"), L("text", "t2")>>)
M6 == [Net(Bob, "name", <<KL("MSGID", Id(Nd(2, 1), "s6")), KL("FMPT", 3), L("text", "t1")>>) EXCEPT !.sender = Long]
M7 == [Net(Eve, "name", <<KL("INTL", <<Nd(2, 2), Nd(2, 7)>>), KL("FMPT", 2), L("text", "t1"), L("via", "v")>>)
         EXCEPT !.sender = Bob]
M8 == Net(Bob, "name", <<KL("MSGID", Id(Nd(2, 1), "s8")), KL("REPLY", Id(Nd(2, 7), "s7")), KL("RFC-References", Own("r")),
                         L("text", "t1"), [c |-> "rest", n |-> "text", v |-> "t2"]>>)
E1 == Net(All, "name", <<L("area", "E"), KL("MSGID", Id(Nd(2, 1), "s1")), L("text", "t1"),
       L("tear", "q"), L("origin", Nd(2, 9)), L("text", "t2"), L("text", "t3"), L("tear", "---"),
       L("origin", Nd(2, 1)), L("seenby", "s"), L("path", "p")>>)
E2 == Net(Ann, "name", <<L("area", "E"), KL("MSGID", Id(Nd(9, 1), "s2")), KL("REPLY", Id(Nd(2, 1), "s1")),
       Bit8("t1"), L("seenby", "s")>>)
E3 == Net(All, "name", <<L("area", "X"), L("text", "t1"), L("seenby", "s")>>)
E4 == Net(All, "name", <<L("area", "G"), KL("PID", "GIGO"), L("text", "t1"), L("seenby", "s")>>)
E5 == Net(Ann, "name", <<L("area", "E"), KL("MSGID", [k |-> "rfc", id |-> Own("i"), serial |-> "s3"]),
       KL("REPLY", Id(Nd(2, 1), "s1")), KL("RFC-References", Own("r")),
       L("text", "t1"), L("path", "s"), L("text", "t2")>>)
E6 == Net(All, "name", <<L("area", "E"), KL("MSGID", Id(Nd(9, 1), "s5")), L("text", "t1"),
       [c |-> "rest", n |-> "origin", v |-> Nd(2, 9)]>>)
Answer(serial) == Net(Ann, "name", <<L("area", "E"), KL("MSGID", Id(Nd(2, 1), "s4")),
       KL("REPLY", [k |-> "ftn", addr |-> Nd(2, 2), serial |-> serial]), L("text", "t1")>>)

InOpt == [areas |-> {[area |-> "E", addr |-> Nd(2, 2), group |-> "g.e", nogate |-> FALSE, enc |-> "base64"],
                     [area |-> "G", addr |-> Nd(2, 2), group |-> "g.g", nogate |-> TRUE, enc |-> "8bit"]},
        errors_to |-> NONE, junk |-> NONE, kill_split |-> FALSE, acl |-> <<>>, aliases |-> <<>>, hosts |-> <<>>,
        dot_names |-> FALSE, tracker |-> FALSE, insecure |-> FALSE, restricted |-> FALSE,
        ignore_hosts |-> FALSE, no_address |-> FALSE, gate_rfc |-> FALSE,
        kill_no_msgid |-> FALSE, kill_zone |-> FALSE,
        save_msgid |-> FALSE, dbc |-> FALSE, netmail_enc |-> "base64", single |-> FALSE]
Acl(list) == <<[type |-> "netmail", from |-> Nd(2, 1), list |-> list],
               [type |-> "echomail", from |-> Nd(2, 1), list |-> <<"X", "G">>]>>
InOpts ==
  {InOpt,
   [InOpt EXCEPT !.errors_to = "adm@host", !.kill_split = TRUE, !.insecure = TRUE, !.single = TRUE,
               !.save_msgid = TRUE, !.dbc = TRUE],
   [InOpt EXCEPT !.junk = "junk", !.tracker = TRUE, !.restricted = TRUE, !.hosts = Hosts, !.aliases = Aliases,
               !.gate_rfc = TRUE, !.kill_zone = TRUE, !.acl = Acl(<<Nd(2, 9)>>)],
   [InOpt EXCEPT !.kill_no_msgid = TRUE, !.dot_names = TRUE, !.hosts = Tail(Hosts), !.acl = Acl(<<Nd(2, 2)>>)]}
NoIn == [opt |-> InOpt, content |-> [p1 |-> <<>>, p2 |-> <<>>], late |-> {"p1", "p2"}]
Ins == {[opt |-> o, content |-> [p1 |-> c, p2 |-> <<E2>>], late |-> {}] :
          o \in InOpts, c \in {<<M1, M3>>, <<M2, M1>>, <<M4, M2>>, <<M5, E1>>, <<E1, E5>>, <<E3, E4>>, <<M3, M2>>, <<M6, M7>>, <<M8, E6>>}}

(* Articles and mails                                                      *)
T(v) == [c |-> "text", n |-> 1, v |-> v]
Rfc(user, addr, real) == [user |-> user, addr |-> addr, real |-> real]
Here == MCSite.hostname \o MCSite.domain
AnnHere == Rfc(Low(Ann), Here, Ann)
ZedThere == Rfc(<<122>>, <<W(8)>>, <<>>) \* the address of an alias with a domain
Art1 == [id |-> Own("a"), refs |-> NONE, from |-> AnnHere, reply |-> NONE, comment_to |-> NONE,
         subject |-> <<1, 2, 3>>, date |-> -1, flags |-> {}, hops |-> 1, receipt |-> FALSE, control |-> FALSE,
         there |-> TRUE, size |-> 3, targets |-> <<"g.e", "g.f">>,
         lines |-> <<T("t1"), [c |-> "tear", n |-> 1, v |-> "bare"], T("t2"),
                     [c |-> "origin", n |-> 1, v |-> "o"], [c |-> "seenby", n |-> 1, v |-> "s"], T("t3")>>,
         author |-> NONE, sender |-> NONE, ways |-> NONE]
Art2 == [Art1 EXCEPT !.id = Own("b"), !.refs = Own("a"), !.targets = <<"g.e">>, !.from = ZedThere,
                     !.reply = [AnnHere EXCEPT !.real = <<>>], !.comment_to = Rfc(Bob, <<>>, <<>>),
                     !.flags = {"n", "c"}, !.subject = <<1, 2, 3, 4, 5, 6, 7, 8, 9>>,
                     !.lines = <<[c |-> "rfc", n |-> 2, v |-> "h"], T("t1"), T("t2")>>]
Zed == [Art1 EXCEPT !.from = ZedThere] \* no line of the access list is for this sender
Empty == [Art1 EXCEPT !.id = Own("c"), !.lines = <<>>]
EveNews == [Art1 EXCEPT !.id = NONE, !.from = Rfc(Low(Eve), Here, Eve), !.targets = <<"g.f", "g.none">>,
                        !.comment_to = Rfc(<<97, 95, 98>>, <<W(8)>>, <<>>)]
Gone  == [Art1 EXCEPT !.there = FALSE]
Ctl   == [Art2 EXCEPT !.control = TRUE]
Mail1(to) == [Art2 EXCEPT !.id = Own("m"), !.refs = [k |-> "MSGID", of |-> Id(Nd(2, 1), "s1")], !.targets = to,
                          !.from = AnnHere, !.reply = NONE, !.flags = {"c", "d", "f"}, !.receipt = TRUE]
Mail2(to) == [Mail1(to) EXCEPT !.from = ZedThere, !.date = 77, !.lines = Tail(@)]
ToFtn(z, f) == Rfc(<<98, 46, 98>>, NodeToPfnz(Nd(z, f)) \o MCSite.zones[1].dom, <<>>)
ToPoint  == Rfc(Postmaster, <<Label("p", 6), W(9)>>, <<>>) \* a host name of HOSTS
ToAlias  == Rfc(<<97>>, <<W(9), W(4), W(3)>>, <<>>)
ToInet   == Rfc(<<99>>, <<W(8)>>, <<>>)

Ar(area, group, zone) == [area |-> area, group |-> group, zone |-> zone, listed |-> TRUE, downlinks |-> 1,
                          noxpost |-> FALSE, localxpost |-> FALSE, limit |-> 0, maxsize |-> 0]
Pat(neg, groups, nodes) == [neg |-> neg, groups |-> groups, nodes |-> nodes]
OutOpt == [areas |-> {Ar("E", "g.e", 2), Ar("F", "g.f", 3)}, addr |-> Nd(2, 2), uplink |-> Nd(2, 1),
           gateway |-> NONE, self |-> Rfc(<<114>>, Here, <<>>), local |-> {}, hosts |-> <<>>, aliases |-> <<>>,
           check_areas_bbs |-> FALSE, single |-> FALSE, maxmsg |-> 0, style |-> "ftn", no_dbc |-> FALSE,
           maxsize |-> 0, limit |-> 0, restricted |-> FALSE, no_reply_to |-> FALSE, force_addr |-> FALSE,
           no_from_line |-> FALSE, no_fsc_0035_if_alias |-> FALSE, x_flags_policy |-> 0,
           passwd |-> <<112, 119, 111, 114>>, clock |-> [now |-> 50, last |-> 50],
           time |-> [year |-> 2024, mon |-> 11, day |-> 31, hour |-> 23, min |-> 59, sec |-> 59],
           acl |-> <<[from |-> {[AnnHere EXCEPT !.real = <<>>]},
                      list |-> <<Pat(FALSE, {"g.e", "g.f"}, {Nd(2, 1), Nd(2, 3), Pt(2, 1, 6), Nd(2, 2)}),
                                 Pat(TRUE, {}, {Nd(2, 3)})>>],
                     [from |-> {Rfc(Low(Eve), Here, <<>>)}, list |-> <<Pat(FALSE, {"g.e"}, {})>>],
                     [from |-> {Rfc(<<114>>, Here, <<>>)}, list |-> <<Pat(FALSE, {}, {Nd(2, 1), Nd(2, 2)})>>]>>]
OutOpts ==
  {OutOpt,
   [OutOpt EXCEPT !.areas = {[Ar("E", "g.e", 2) EXCEPT !.maxsize = 2],
                             [Ar("F", "g.f", 2) EXCEPT !.localxpost = TRUE, !.limit = 2]},
                  !.single = TRUE, !.style = "rfc", !.limit = 2, !.no_reply_to = TRUE, !.force_addr = TRUE,
                  !.hosts = <<HostLine(Nd(2, 1), <<W(9)>>, TRUE, {"y", "-d"})>>, !.x_flags_policy = 1],
   [OutOpt EXCEPT !.areas = {[Ar("E", "g.e", 2) EXCEPT !.noxpost = TRUE, !.maxsize = 4],
                             [Ar("F", "g.f", 2) EXCEPT !.downlinks = 0]},
                  !.check_areas_bbs = TRUE, !.maxmsg = 1, !.no_dbc = TRUE, !.no_from_line = TRUE,
                  !.maxsize = 2, !.gateway = Nd(2, 2), !.restricted = TRUE, !.hosts = Hosts, !.aliases = Aliases,
                  !.x_flags_policy = 2, !.no_fsc_0035_if_alias = TRUE]}
NoOut == [opt |-> OutOpt, jobs |-> <<>>]
ListOf(arts) == [kind |-> "list", arts |-> arts]
MailTo_(to)  == [kind |-> "mail", arts |-> <<Mail1(to)>>]
MailOf(art) == [kind |-> "mail", arts |-> <<art>>]
Outs == {[opt |-> o, jobs |-> j] : o \in OutOpts,
           j \in {<<ListOf(<<Art1, Gone, Art2, Zed>>)>>, <<ListOf(<<Empty, Ctl, Zed, EveNews>>)>>,
                  <<MailTo_(<<ToFtn(2, 1), ToInet, ToFtn(9, 9)>>), ListOf(<<Art2>>)>>,
                  <<MailTo_(<<ToPoint, ToAlias>>), MailOf(Mail2(<<ToFtn(2, 1)>>))>>,
                  <<MailTo_(<<ToFtn(2, 3), ToFtn(2, 1)>>), MailOf([Art1 EXCEPT !.targets = <<ToFtn(2, 1)>>, !.from = NONE])>>}}
Both == {[in |-> [opt |-> [InOpt EXCEPT !.dbc = (o.style = "ftn")],
                  content |-> [p1 |-> <<Answer(Serial(Own("a"), "E", i)), Answer(Serial(Own("b"), "E", 0))>>, p2 |-> <<>>],
                  late |-> {"p1"}],
          out |-> [opt |-> o, jobs |-> <<ListOf(<<Art1, Art2>>)>>]] :
            i \in 0..1, o \in {OutOpt, [OutOpt EXCEPT !.areas = {[Ar("E", "g.e", 2) EXCEPT !.maxsize = 3]}]}}
MCScenarios == {[in |-> i, out |-> [NoOut EXCEPT !.opt.hosts = i.opt.hosts, !.opt.aliases = i.opt.aliases]] : i \in Ins} \cup {[in |-> NoIn, out |-> o] : o \in Outs} \cup Both
MCByteTexts == UNION {[1..n -> {65, CR, LF}] : n \in 0..4}
MCPacket  == {"p1", "p2"}
=============================================================================
