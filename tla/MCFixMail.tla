------------------------------ MODULE MCFixMail -----------------------------
(***************************************************************************)
(* Model checking of FixMail: four configurations with the messages that   *)
(* their nodes may write, two of them in packets of their own or several   *)
(* in one packet.                                                          *)
(***************************************************************************)
EXTENDS FixMail

N(z, n, f, p) == [zone |-> z, net |-> n, node |-> f, point |-> p]
Up    == N(2, 1, 1, 0)
Other == N(2, 1, 11, 0)   \* its text begins with that of Up
Link  == N(2, 2, 5, 0)
Point == N(2, 2, 5, 7)
Third == N(3, 3, 3, 0)
Far   == N(7, 1, 1, 0)

A(name, state, nodes, passive) ==
  WriteArea([name |-> name, passthru |-> TRUE, zone |-> -1, lvl |-> 1, key |-> {},
             state |-> state, uplinks |-> 1, nodes |-> nodes, passive |-> passive])

C(word, arg) == [pct |-> FALSE, word |-> word, arg |-> arg, opts |-> <<>>]
P(word, arg) == [pct |-> TRUE, word |-> word, arg |-> arg, opts |-> <<>>]
M(from, lines) == [from |-> from, pass |-> "pw", opts |-> {}, lines |-> lines]
Entry(lvl, key, limG, limA) ==
  [pass |-> "pw", lvl |-> lvl, key |-> key, limG |-> limG, limA |-> limA]
Uplink(node, items) ==
  [af |-> TRUE, files |-> <<>>, items |-> items, uplink |-> node, opts |-> <<>>]
Yes(text) == [not |-> FALSE, text |-> text]
No(text)  == [not |-> TRUE, text |-> text]

Matching == [all |-> {"a", "b", "c", "d", "e", "f", "g", "n", "all", "some"},
               some |-> {"a", "b", "n", "some"}]

Base ==
  [areafix |-> TRUE, areas |-> <<>>, uplinks |-> <<>>, passwd |-> <<>>,
   ignorePRL |-> FALSE, onlyPlus |-> FALSE, availAll |-> FALSE, availFile |-> FALSE,
   listF |-> TRUE, help |-> TRUE, createFor |-> <<>>, forbidden |-> {},
   rules |-> {}, rulesTo |-> {}, msg |-> <<>>, size |-> 2, packets |-> {},
   matching |-> Matching, autoCreate |-> FALSE]

\* Links come and go.
Links ==
  [Base EXCEPT
     !.areas = <<A("a", {"S"}, <<Up, Link>>, <<>>),
                 A("b", {"U"}, <<Up>>, <<>>),
                 A("c", {"P"}, <<Up>>, <<Link>>),
                 A("d", {"W"}, <<Other, Link, Point>>, <<>>),
                 A("e", {"F"}, <<Third, Link>>, <<>>),
                 A("g", {"U"}, <<Up>>, <<Point>>)>>,
     !.uplinks = <<Uplink(Up, <<>>), Uplink(Other, <<>>)>>,
     !.passwd = Link :> Entry(1, {}, 0, 0) @@ Point :> Entry(1, {}, 0, 0)
                @@ Third :> Entry(1, {}, 0, 0),
     !.rules = {"a", "b"},
     !.msg = <<M(Link, <<C("-", "a"), C("+", "a")>>),
               M(Link, <<C("-", "all")>>),
               M(Link, <<C("+", "all")>>),
               M(Link, <<P("passive", "")>>),
               M(Link, <<P("active", ""), C("*", "")>>),
               M(Link, <<P("pause", "a"), C("+", "a"), C("--", ""), C("-", "a")>>),
               M(Link, <<P("resume", "c"), C("-", "c")>>),
               M(Point, <<C("+", "some"), P("passive", "some")>>),
               M(Point, <<C("+", "a"), C("+", "b")>>),
               M(Point, <<C("-", "d"), P("active", "g")>>),
               M(Point, <<C("-", "d"), C("+", "b"), C("+", "a")>>),
               M(Point, <<P("passive", "d")>>),
               M(Third, <<C("sub", "b"), C("unsub", "e"), C("-", "e")>>),
               [M(Third, <<C("a", "")>>) EXCEPT !.pass = "wrong"],
               [M(Link, <<C("a", ""), P("a", "")>>) EXCEPT !.opts = {"q", "l"}]>>,
     !.packets = {<<1, 8, 4>>, <<3, 9, 2>>, <<6, 12, 5>>, <<2, 11, 1>>}]

\* Areas that are not there yet are asked for.
Forwards ==
  [Base EXCEPT
     !.areas = <<A("a", {"S"}, <<Up, Link>>, <<>>), A("b", {"U"}, <<Other>>, <<>>)>>,
     !.uplinks = <<Uplink(Up, <<No("n"), Yes("some"), Yes("c")>>),
                   [Uplink(Other, <<Yes("n"), Yes("e")>>) EXCEPT
                      !.files = <<<<Yes("d"), No("d")>>, <<No("some"), Yes("f")>>>>,
                      !.opts = [lvl |-> 2, state |-> {"S"}]],
                   [Uplink(Far, <<Yes("g")>>) EXCEPT !.opts = [key |-> {"A", "B"}]],
                   [Uplink(Up, <<Yes("n")>>) EXCEPT !.af = FALSE]>>,
     !.passwd = Link :> Entry(2, {"&"}, 0, 0) @@ Point :> Entry(1, {"&", "A"}, 0, 0)
                @@ Third :> Entry(1, {}, 0, 0) @@ Far :> Entry(1, {"&", "A"}, 0, 0),
     !.forbidden = {"e"}, !.createFor = <<Third>>,
     !.msg = <<M(Link, <<C("+", "n"), C("+", "c"), C("+", "d")>>),
               M(Link, <<C("+", "all")>>),
               M(Link, <<C("+", "e"), C("+", "f"), C("-", "f")>>),
               M(Point, <<C("+", "n"), C("+", "c")>>),
               M(Point, <<C("+", "g"), C("+", "b")>>),
               M(Far, <<C("+", "g"), C("+", "c")>>),
               M(Third, <<C("+", "n"), C("-", "c")>>),
               M(Link, <<C("-", "some"), C("-", "c"), P("listall", "")>>),
               M(Link, <<C("+", "b"), C("+", "n")>>)>>,
     !.packets = {<<1, 4, 8>>, <<9, 7>>}]

\* Levels, keys, limits and rights.
Rights ==
  [Base EXCEPT
     !.areas = <<A("a", {"S"}, <<Up, Third>>, <<>>),
                 [A("b", {"S"}, <<Up, Third>>, <<>>) EXCEPT !.key = {"A", "B"}],
                 [A("c", {"S"}, <<Up, Third>>, <<>>) EXCEPT !.lvl = 2],
                 [A("d", {"S"}, <<Up>>, <<Link>>) EXCEPT !.zone = 0],
                 [A("e", {"S"}, <<>>, <<>>) EXCEPT !.key = {"A"}],
                 [A("f", {"S"}, <<Up, Third>>, <<>>) EXCEPT !.key = {"A", "B"}, !.lvl = 2]
                   @@ [readonly |-> TRUE],
                 A("g", {"S"}, <<Far, Third>>, <<>>)>>,
     !.uplinks = <<Uplink(Up, <<>>)>>,
     !.passwd = Link :> Entry(1, {"A", "%"}, 2, 0) @@ Point :> Entry(2, {"A", "B"}, 0, 2)
                @@ Third :> Entry(2, {"$", "~"}, 0, 0),
     !.onlyPlus = TRUE, !.ignorePRL = TRUE, !.help = FALSE,
     !.msg = <<M(Link, <<C("+", "all")>>),
               M(Link, <<C("+", "b"), C("+", "f"), C("+", "d")>>),
               M(Point, <<C("+", "all")>>),
               M(Point, <<C("+", "a"), C("-", "b"), C("+", "e"), P("list", "")>>),
               M(Third, <<C("~", "some"), P("avail", ""), P("unlinked", "")>>),
               M(Third, <<[C("&", "n") EXCEPT !.opts = [zone |-> 3, lvl |-> 2]], C("+", "d")>>),
               M(Third, <<P("passwd", [node |-> <<Link>>, pass |-> <<"pw">>]),
                          C("+", "a"), P("query", "")>>),
               M(Third, <<C("-", "a"), P("passwd", [node |-> <<Link>>, pass |-> <<>>]),
                          P("passwd", [node |-> <<>>, pass |-> <<>>]), P("help", "")>>),
               M(Link, <<C("a", ""), P("listall", ""), C("delete", "a")>>),
               M(Point, <<C("&", "a"), P("passive", "all")>>)>>,
     !.packets = {<<7, 1>>, <<3, 1, 6>>, <<5, 5, 4>>}]

\* The file areas of filefix.
Files ==
  [Base EXCEPT
     !.areafix = FALSE,
     !.areas = <<A("a", {"S"}, <<Up, Link>>, <<>>),
                 [A("b", {"P"}, <<Far>>, <<Third, Link>>) EXCEPT !.zone = 0],
                 A("c", {"F"}, <<Up, Far>>, <<>>)>>,
     !.uplinks = <<[Uplink(Up, <<Yes("n")>>) EXCEPT !.af = FALSE],
                   [Uplink(Far, <<>>) EXCEPT !.af = FALSE]>>,
     !.passwd = Link :> Entry(1, {"&", "$"}, 3, 0) @@ Third :> Entry(1, {"&"}, 0, 1),
     !.availAll = TRUE, !.listF = FALSE, !.availFile = TRUE, !.autoCreate = TRUE,
     !.msg = <<M(Link, <<C("+", "n"), C("-", "a")>>),
               M(Link, <<C("+", "b"), P("passive", "")>>),
               M(Third, <<C("+", "c"), C("+", "a")>>),
               M(Third, <<P("active", "b"), P("unlinked", ""), P("avail", "")>>),
               M(Link, <<C("&", "d"), P("list", "")>>)>>]

MCSetups == <<Links, Forwards, Rights, Files>>
=============================================================================
