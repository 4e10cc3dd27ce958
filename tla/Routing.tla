------------------------------ MODULE Routing ------------------------------
(***************************************************************************)
(* The ROUTING file and what it decides: addresses and lists of addresses  *)
(* (common/parsenode.c, common/node.c), the commands of the file           *)
(* (common/routing.c), the way ftnroute takes from them for a packet       *)
(* (toss/ftnroute.c), and the remapping of netmail (toss/ftntoss.c).       *)
(*                                                                         *)
(* An address in text is the sequence of its numbers, each with the sign   *)
(* before it: 2:5020/1 is <<"", 2>>, <<":", 5020>>, <<"/", 1>>.            *)
(***************************************************************************)
EXTENDS Integers, Sequences, FiniteSets

CONSTANT Zone   \* cf_zone(): the zone of the system's own address

EMPTY    == -1
WILDCARD == -2

Netmail  == "n"
Echomail == "e"
TickType == "t"
Flavors  == {"n", "h", "c", "d"}   \* normal, hold, crash, direct

-----------------------------------------------------------------------------
\* Addresses.

Fields == {"zone", "net", "node", "point"}

\* A number comes first, but for a text that begins with a point; behind it
\* numbers follow in the order of their signs.
WellFormed(text) ==
  LET Signs == <<"", ":", "/", ".">>
      Rank(i) == CHOOSE k \in 1..4 : Signs[k] = text[i][1]
  IN /\ text # <<>>
     /\ text[1][1] \in {"", "."}
     /\ \A i \in DOMAIN text : \E k \in 1..4 : Signs[k] = text[i][1]
     /\ \A i, j \in DOMAIN text : i < j => Rank(i) < Rank(j)

\* The first number is the zone before a colon, the net before a slash, and
\* the node else.  "*" alone matches everything.
ParsePartial(text) ==
  LET Has(sign) == \E i \in DOMAIN text : text[i][1] = sign
      At(sign)  == IF Has(sign)
                     THEN (CHOOSE e \in {text[i] : i \in DOMAIN text} : e[1] = sign)[2]
                     ELSE EMPTY
  IN IF text = <<<<"", WILDCARD>>>>
       THEN [f \in Fields |-> WILDCARD]
       ELSE [zone  |-> IF Has(":") THEN At("") ELSE EMPTY,
             net   |-> IF Has(":") THEN At(":") ELSE IF Has("/") THEN At("") ELSE EMPTY,
             node  |-> IF Has("/") THEN At("/") ELSE IF Has(":") THEN EMPTY ELSE At(""),
             point |-> At(".")]

\* What the text leaves out before its first number is as in the address old.
Filled(n, old, noZone, noNet, noNode) ==
  [n EXCEPT !.zone = IF noZone THEN old.zone ELSE @,
            !.net  = IF noZone /\ noNet THEN old.net ELSE @,
            !.node = IF noZone /\ noNet /\ noNode THEN old.node ELSE @]

Fill(n, old) == Filled(n, old, n.zone = EMPTY, n.net = EMPTY, n.node = EMPTY)

ParseDiff(text, old) == Fill(ParsePartial(text), old)

\* The address a list of addresses begins from.
Nowhere == [f \in Fields |-> IF f = "zone" THEN Zone ELSE EMPTY]

NodeMatch(a, pat) == \A f \in Fields : pat[f] \in {EMPTY, WILDCARD, a[f]}

\* Parts a pattern has left open.
Normal(a) == [f \in Fields |-> IF a[f] < 0 THEN 0 ELSE a[f]]

\* asc_to_node_diff(), lon_add_string(): an address that is to be complete,
\* which one with a wildcard is not.
Whole(n) ==
  IF \/ \E f \in Fields : n[f] = WILDCARD
     \/ \E f \in {"zone", "net", "node"} : n[f] = EMPTY
    THEN <<>>
    ELSE <<[n EXCEPT !.point = IF @ = EMPTY THEN 0 ELSE @]>>

Complete(text, old) ==
  IF WellFormed(text) THEN Whole(ParseDiff(text, old)) ELSE <<>>

\* Addresses of a rule, each read against the last good one; a bad one is left
\* out.
ReadNodes(texts) ==
  LET Last(l) == IF l = <<>> THEN Nowhere ELSE l[Len(l)]
      Read[i \in 0..Len(texts)] ==
        IF i = 0 THEN <<>>
        ELSE IF ~WellFormed(texts[i]) THEN Read[i - 1]
        ELSE Append(Read[i - 1], ParseDiff(texts[i], Last(Read[i - 1])))
  IN Read[Len(texts)]

SearchWild(list, a) == \E i \in DOMAIN list : NodeMatch(a, list[i])

-----------------------------------------------------------------------------
\* The file.  A line is [cmd, flav, args, name]: its keyword, its flavors, its
\* addresses and the name at its end.

Table == [type |-> Netmail, rules |-> <<>>, mkroute |-> <<>>, remap |-> <<>>,
          rewrite |-> <<>>]

\* routing_remap(), routing_rewrite(): both addresses and a name, which plain
\* rewrite has not; nothing is kept of a line that lacks one of them.
Pattern(line, named) ==
  IF \/ Len(line.args) < 2 \/ \E i \in 1..2 : ~WellFormed(line.args[i])
     \/ named /\ line.name = ""
    THEN <<>>
    ELSE <<[type |-> line.cmd, from |-> ParseDiff(line.args[1], Nowhere),
            to |-> ParseDiff(line.args[2], Nowhere),
            name |-> IF named THEN line.name ELSE "*"]>>

\* mk_route(): each link is read by itself and must be complete, so that none is
\* a pattern; xroute has its target first and wants exactly two links.
MkRoute(line) ==
  LET x == line.cmd = "xroute"
      rest == IF x THEN Tail(line.args) ELSE line.args
      Links[i \in 0..Len(rest)] ==
        IF i = 0 THEN <<>> ELSE Links[i - 1] \o Complete(rest[i], Nowhere)
      links == Links[Len(rest)]
  IN IF \/ line.flav = <<>> \/ line.flav[1] \notin Flavors
        \/ x /\ (line.args = <<>> \/ ~WellFormed(line.args[1]))
        \/ x /\ Len(links) # 2
       THEN <<>>
       ELSE <<[cmd |-> line.cmd, flav |-> line.flav[1], links |-> links,
               uplink |-> IF x THEN ParseDiff(line.args[1], Nowhere) ELSE Nowhere]>>

\* send, sendmove, route and change, for packets of the type set last.
Rule(line, type) ==
  LET nflav == IF line.cmd = "change" THEN 2 ELSE 1
  IN IF \/ Len(line.flav) < nflav \/ \E i \in 1..nflav : line.flav[i] \notin Flavors
        \/ line.args = <<>>
       THEN <<>>
       ELSE <<[type |-> type, cmd |-> line.cmd, flav |-> line.flav[1],
               new |-> line.flav[nflav], nodes |-> ReadNodes(line.args)]>>

\* routing_parse_line(): what a line adds; an unknown one adds nothing.
ReadLine(t, line) ==
  CASE line.cmd = "netmail"  -> [t EXCEPT !.type = Netmail]
    [] line.cmd = "echomail" -> [t EXCEPT !.type = Echomail]
    [] line.cmd = "tick"     -> [t EXCEPT !.type = TickType]
    [] line.cmd \in {"remap", "remapto", "remapfrom"} ->
         [t EXCEPT !.remap = @ \o Pattern(line, TRUE)]
    [] line.cmd \in {"rewrite", "rewriteto", "rewritefrom"} ->
         [t EXCEPT !.rewrite = @ \o Pattern(line, line.cmd # "rewrite")]
    [] line.cmd \in {"hubroute", "hostroute", "bossroute", "xroute"} ->
         [t EXCEPT !.mkroute = @ \o MkRoute(line)]
    [] line.cmd \in {"send", "sendmove", "route", "change"} ->
         [t EXCEPT !.rules = @ \o Rule(line, t.type)]
    [] OTHER -> t

ReadRouting(lines) ==
  LET Read[i \in 0..Len(lines)] ==
        IF i = 0 THEN Table ELSE ReadLine(Read[i - 1], lines[i])
  IN Read[Len(lines)]

-----------------------------------------------------------------------------
\* What ftnroute does with a packet: a descriptor [from, to, grade, type, flav,
\* move], at first taken from the packet's header and its name.

\* parse_pkt_name(): a name that says nothing counts as one of normal flavor
\* and of no type.
Desc(name, from, to) ==
  LET known == name.type \in {Netmail, Echomail, TickType} /\ name.flav \in Flavors
  IN [from |-> from, to |-> to, move |-> FALSE,
      grade |-> IF known THEN name.grade ELSE "-",
      type  |-> IF known THEN name.type ELSE "-",
      flav  |-> IF known THEN name.flav ELSE "n"]

\* do_cmd_mkroute().  A hub is looked up in a database that has just been
\* closed again if there is a nodelist; and what is found is not used, as the
\* parser's OK is taken for an error.
MkApplies(d, r, hubs) ==
  CASE r.cmd = "xroute"    -> NodeMatch(d.from, r.links[1]) /\ NodeMatch(d.to, r.links[2])
    [] r.cmd = "hostroute" -> SearchWild(r.links, d.to)
    [] r.cmd = "hubroute"  -> SearchWild(r.links, d.to) /\ d.to \in hubs
    [] r.cmd = "bossroute" -> d.flav = r.flav /\ SearchWild(r.links, d.to)

MkApply(d, r) ==
  CASE r.cmd = "xroute"    -> [d EXCEPT !.to = Normal(r.uplink), !.flav = r.flav]
    [] r.cmd = "hostroute" -> [d EXCEPT !.to.node = 0, !.to.point = 0, !.flav = r.flav]
    [] r.cmd = "hubroute"  -> d
    [] r.cmd = "bossroute" -> [d EXCEPT !.to.point = 0]

\* do_cmd(), for the first of the rule's addresses that matches.
Applies(d, r) ==
  /\ d.type = r.type
  /\ SearchWild(r.nodes, d.to)
  /\ d.flav = IF r.cmd = "change" THEN r.flav ELSE "n"

Apply(d, r) ==
  LET first == CHOOSE i \in DOMAIN r.nodes :
                 /\ NodeMatch(d.to, r.nodes[i])
                 /\ \A j \in 1..(i - 1) : ~NodeMatch(d.to, r.nodes[j])
      open == r.nodes[first].point = EMPTY
  IN CASE r.cmd = "send"     -> [d EXCEPT !.flav = r.flav, !.move = FALSE,
                                          !.to.point = IF open THEN 0 ELSE @]
       [] r.cmd = "sendmove" -> [d EXCEPT !.flav = r.flav, !.move = TRUE]
       [] r.cmd = "route"    -> [d EXCEPT !.flav = r.flav, !.move = FALSE,
                                          !.to = Normal(r.nodes[1])]
       [] r.cmd = "change"   -> [d EXCEPT !.flav = r.new, !.move = FALSE]

Least(S) == CHOOSE i \in S : \A j \in S : i <= j

\* Mutant: rules that do not go by the packet's flavor hide those that do.
RouteFirst(d, t, hubs) ==
  LET hits == {i \in DOMAIN t.rules : t.rules[i].type = d.type
                                      /\ SearchWild(t.rules[i].nodes, d.to)}
  IN IF hits = {} \/ ~Applies(d, t.rules[Least(hits)]) THEN d
     ELSE Apply(d, t.rules[Least(hits)])

\* do_routing(): the first command that applies; those that make a route come
\* before the others.
Route(d, t, hubs) ==
  LET mk   == IF d.type = Netmail
                THEN {i \in DOMAIN t.mkroute : MkApplies(d, t.mkroute[i], hubs)}
                ELSE {}
      hits == {i \in DOMAIN t.rules : Applies(d, t.rules[i])}
  IN IF mk # {} THEN MkApply(d, t.mkroute[Least(mk)])
     ELSE IF hits # {} THEN Apply(d, t.rules[Least(hits)])
     ELSE d

-----------------------------------------------------------------------------
\* Netmail in ftntoss: a message [from, to, byname, toname].

ChangeAddr(a, pat) == [f \in Fields |-> IF pat[f] = EMPTY THEN a[f] ELSE pat[f]]

Named(pat, name) == pat \in {"*", name}

\* do_rewrite(): whichever side has matched, it is the sender that changes.
Rewrite(m, t) ==
  LET By(r) == NodeMatch(m.from, r.from)
               /\ (r.type = "rewrite" \/ (r.type = "rewritefrom" /\ Named(r.name, m.byname)))
      At(r) == NodeMatch(m.to, r.from)
               /\ (r.type = "rewrite" \/ (r.type = "rewriteto" /\ Named(r.name, m.toname)))
      hits == {i \in DOMAIN t.rewrite : By(t.rewrite[i]) \/ At(t.rewrite[i])}
  IN IF hits = {} THEN m
     ELSE [m EXCEPT !.from = ChangeAddr(@, t.rewrite[Least(hits)].to)]

\* do_remap(): remapto and remapfrom; nothing looks at a plain remap.
Remap(m, t) ==
  LET Hit(r) == \/ /\ r.type = "remapto" /\ NodeMatch(m.to, r.from)
                   /\ Named(r.name, m.toname)
                \/ /\ r.type = "remapfrom" /\ NodeMatch(m.from, r.from)
                   /\ Named(r.name, m.byname)
      hits == {i \in DOMAIN t.remap : Hit(t.remap[i])}
  IN IF hits = {} THEN m
     ELSE [m EXCEPT !.to = ChangeAddr(@, t.remap[Least(hits)].to)]

\* Remapped to 0:0/0.0: the message is to be dropped.
Killed(m) == \A f \in Fields : m.to[f] = 0
=============================================================================
