---------------------------- MODULE FixCommands -----------------------------
(***************************************************************************)
(* areafix: what the commands of a message do to the areas in memory       *)
(* (areafix/areafix.c), with the uplinks that areas are requested from     *)
(* (common/uplinks.c).                                                     *)
(*                                                                         *)
(* Everything works on a session s, the state of the program in memory:    *)
(*   conf     the configuration it has read, see FixMail                    *)
(*   areas    the areas, in the order of areas.bbs                         *)
(*   changed  areasbbs_changed() has been called                           *)
(*   limG     lim_g, which no message resets                               *)
(*   node     whose commands these are                                     *)
(*   auth     what areafix_auth_check() has found                          *)
(*   reqs     requests to uplinks, not sent yet                            *)
(*   out      the lines of the answer: what, and of which area             *)
(*   told     the last that was said of an area to a node                  *)
(*   stop     no more lines are looked at;  refused: cmd_sub() is DELETE   *)
(*                                                                         *)
(* Names and patterns are values; a pattern is in the domain of conf.matching.  *)
(* The build is the default one: AF_AVAIL, AF_LISTALL_RESTRICTED,          *)
(* SUB_LIMIT, no FTN_ACL.                                                  *)
(***************************************************************************)
EXTENDS AreasFile, TLC

IsWildcard(s, pat) == pat \in DOMAIN s.conf.matching
WildMatch(s, name, pat) ==
  IF IsWildcard(s, pat) THEN name \in s.conf.matching[pat] ELSE name = pat

Names(s) == [i \in DOMAIN s.areas |-> s.areas[i].name]
Known(s, name) == name \in ToSet(Names(s))
AreaOf(s, name) == CHOOSE p \in ToSet(s.areas) : p.name = name
Hits(s, pat) == {name \in ToSet(Names(s)) : WildMatch(s, name, pat)}

\* The members of a list that Test picks.
Keep(list, Test(_)) ==
  FlattenSeq([i \in DOMAIN list |-> IF Test(list[i]) THEN <<list[i]>> ELSE <<>>])

\* One thing after the other: Op of what x is.
Then(x, Op(_)) == CHOOSE y \in {Op(v) : v \in {x}} : TRUE

Say(s, what, name) == [s EXCEPT !.out = Append(@, <<what, name>>)]

\* An answer that says how the node stands to the area from now on.
Tell(s, what, name) ==
  [Say(s, what, name) EXCEPT !.told = (<<s.node, name>> :> what) @@ @]

Put(s, p) ==
  [s EXCEPT !.areas = [i \in DOMAIN s.areas |->
                         IF s.areas[i].name = p.name THEN p ELSE s.areas[i]]]
Changed(s, p) == [Put(s, p) EXCEPT !.changed = TRUE]

\* areasbbs_remove1(); nobody is told.
Place(s, name) == CHOOSE i \in DOMAIN s.areas : s.areas[i].name = name
Remove1(s, name) ==
  [s EXCEPT !.areas = RemoveAt(@, Place(s, name)), !.changed = TRUE,
            !.told = [x \in {y \in DOMAIN @ : y[2] # name} |-> @[x]]]

Dead(s, p) == Say(Remove1(s, p.name), "dead", p.name)

\* The text of an address: znfp1() shows a point that is 0, znf1() does not.
Znfp1(n) == [node |-> n, zero |-> n.point = 0]
Znf1(n)  == [node |-> n, zero |-> FALSE]

Request(s, to, sign, name) ==
  [s EXCEPT !.reqs = Append(@, [to |-> to, sign |-> sign, area |-> name])]

-----------------------------------------------------------------------------
\* uplinks.c.  An entry is [af, items, uplink, opts]; an item of its list is
\* [not, text], or the name of a file of such items, here [file].

\* uplinks_line_get()
UplinkLine(s, node) ==
  LET hits == SelectSeq(s.conf.uplinks,
                        LAMBDA e : e.af = s.conf.areafix /\ e.uplink = node)
  IN IF hits = <<>> THEN <<>> ELSE <<hits[1]>>

\* The texts of a list that come before one that excludes the name.
Before(s, items, name) ==
  LET no == {i \in DOMAIN items : items[i].not /\ WildMatch(s, name, items[i].text)} IN
  FlattenSeq([i \in DOMAIN items |->
                IF items[i].not \/ \E j \in no : j < i THEN <<>> ELSE <<items[i]>>])

\* The lists of an entry: a file each, and the rest of the line after it.
Texts(s, entry, name, wild) ==
  LET lists == Append(entry.files, entry.items) IN
  FlattenSeq([i \in DOMAIN lists |->
                IF wild THEN Keep(lists[i], LAMBDA item : ~item.not)
                        ELSE Before(s, lists[i], name)])

\* uplinks_lookup(): the first text that matches a name; all the texts that
\* match a pattern, which are then taken as names.
UplinksLookup(s, area) ==
  LET wild == IsWildcard(s, area)
      Fits(item) == IF wild THEN WildMatch(s, item.text, area)
                            ELSE WildMatch(s, area, item.text)
      Of(e) == LET items == Keep(Texts(s, e, area, wild), Fits) IN
               [j \in DOMAIN items |->
                  [areas |-> items[j].text, uplink |-> e.uplink, opts |-> e.opts]]
      all == FlattenSeq([i \in DOMAIN s.conf.uplinks |->
                           IF s.conf.uplinks[i].af = s.conf.areafix
                             THEN Of(s.conf.uplinks[i]) ELSE <<>>])
  IN IF wild \/ all = <<>> THEN all ELSE <<all[1]>>

-----------------------------------------------------------------------------
\* Authorization.  An entry of the password file is [pass, lvl, key, limG, limA];
\* the key is a set of letters, four of which are rights.

NoAuth == [ok |-> FALSE, lvl |-> 1, key |-> {}, limG |-> 0, limA |-> 0]

\* areafix_auth_check(): level, key and limits come with the entry, whatever
\* password has been given.
AuthCheck(s, node, pass, check) ==
  LET known == node \in DOMAIN s.conf.passwd
      e     == s.conf.passwd[node]
      ok    == ~check \/ (known /\ pass = e.pass)
  IN [s EXCEPT !.node = node,
        !.auth = IF known THEN [ok |-> ok, lvl |-> e.lvl, key |-> e.key,
                                limG |-> e.limG, limA |-> e.limA]
                          ELSE [NoAuth EXCEPT !.ok = ok]]

May(s, right) == right \in s.auth.key

\* Level and key as the lists see them: every letter of the key.
Visible(s, p) == p.lvl <= s.auth.lvl /\ p.key \subseteq s.auth.key

\* And as cmd_sub() does: any letter.
Permitted(s, p) ==
  p.lvl <= s.auth.lvl /\ (p.key # {} => p.key \cap s.auth.key # {})

-----------------------------------------------------------------------------
\* cmd_sub()

\* An area counts for a node that reads it or is passive, if it has others.
CountG(s) ==
  Cardinality({i \in DOMAIN s.areas :
    LET p == s.areas[i] IN
    Len(p.nodes) > 1 /\ s.node \in ToSet(p.nodes) \cup ToSet(p.passive)})

\* Areas with the uplink of p: a node passive in p counts for each of them.
CountA(s, p) ==
  Cardinality({i \in DOMAIN s.areas :
    LET n == s.areas[i] IN
    /\ Len(n.nodes) > 1 /\ p.nodes # <<>>
    /\ s.node \in ToSet(n.nodes) \cup ToSet(p.passive)
    /\ p.nodes[1] \in ToSet(n.nodes)})

LimitReached(s, p) ==
  \/ s.auth.limG > 0 /\ s.auth.limG <= s.limG
  \/ s.auth.limA > 0 /\ s.auth.limA <= CountA(s, p)

\* send_rules(): to the link, if no other is to have them.
SendRules(s, name) ==
  IF name \in s.conf.rules /\ s.conf.rulesTo \subseteq {s.node}
    THEN [s EXCEPT !.rules = @ \cup {<<s.node, name>>}] ELSE s

Refuse(s, what, name) == [Say(s, what, name) EXCEPT !.refused = TRUE]

\* Mutant: the area keeps its state.
ReopenKeeps(s, p) ==
  LET up == UplinkLine(s, p.nodes[1]) IN
  IF up = <<>> THEN Refuse(s, "no uplink entry", p.name)
  ELSE Request(Put(s, [p EXCEPT !.passive = LonRemove(@, s.node)]),
               Znf1(p.nodes[1]), "+", p.name)

\* The area is given up at the uplink: it is requested again.
Reopen(s, p) ==
  LET up == UplinkLine(s, p.nodes[1]) IN
  IF up = <<>> THEN Refuse(s, "no uplink entry", p.name)
  ELSE Request(Put(s, [ChState(p, {"U", "P"}, "W") EXCEPT
                         !.passive = LonRemove(@, s.node)]),
               Znf1(p.nodes[1]), "+", p.name)

\* A link joins the area; it is told the same if it was a passive one ("again").
Join(s, p, wild) ==
  LET said     == IF s.node \in ToSet(p.passive) THEN "again" ELSE "subscribed"
      On(q)    == [Tell(Changed(s, q), said, p.name) EXCEPT !.limG = @ + 1]
      Asked(q) == Then(On(q), LAMBDA t : IF IsState(q, {"U", "P"}) THEN Reopen(t, q)
                                                                   ELSE t)
  IN Then(Then([p EXCEPT !.nodes = Append(@, s.node)], Asked),
          LAMBDA u : IF wild THEN u ELSE SendRules(u, p.name))

\* The link is in the list already, and is no longer passive, if it was.
Again(s, p) ==
  IF s.node \in ToSet(p.passive)
    THEN [Tell(Changed(s, [p EXCEPT !.passive = LonRemove(@, s.node)]), "active", p.name)
            EXCEPT !.limG = @ + 1]
    ELSE Say(s, "already active", p.name)

SubArea(s, p, wild) ==
  LET other == s.conf.areafix /\ p.zone # s.node.zone IN
  CASE ~Permitted(s, p) -> Refuse(s, "denied", p.name)
    [] Permitted(s, p) /\ s.node \in ToSet(p.nodes) -> Again(s, p)
    [] OTHER ->
         IF LimitReached(s, p) THEN Refuse(s, "limit", p.name)
         ELSE IF other /\ p.zone = 0 THEN Dead(s, p)
         ELSE IF other /\ (p.zone > 6 \/ s.node.zone > 6) THEN Say(s, "zone", p.name)
         ELSE IF p.nodes = <<>> THEN Dead(s, p)
         ELSE Join(s, p, wild)

-----------------------------------------------------------------------------
\* cmd_unsub(): the last one to go gives the area up at its uplink.
GiveUp(s, p) ==
  LET up == UplinkLine(s, p.nodes[1]) IN
  IF up = <<>> THEN Remove1(s, p.name)
  ELSE Request(Put(s, ChState(p, {"S", "W", "F"}, "U")), Znfp1(p.nodes[1]), "-", p.name)

Left(s, p) ==
  [Tell(Changed(s, p), "off", p.name) EXCEPT !.limG = @ - 1]

UnsubArea(s, p) ==
  LET q == [p EXCEPT !.nodes = LonRemove(@, s.node), !.passive = LonRemove(@, s.node)]
      Kept(t) == IF q.passthru /\ Len(q.nodes) = 1 THEN GiveUp(t, q)
                 ELSE IF q.passthru /\ q.nodes = <<>> THEN Remove1(t, p.name)
                 ELSE t
  IN CASE p.nodes = <<>> -> Dead(s, p)
       [] p.nodes # <<>> /\ s.node \notin ToSet(p.nodes) ->
            Say(s, "not subscribed", p.name)
       [] OTHER -> Then(Left(s, q), Kept)

\* cmd_passive(), cmd_active(): where the uplink is to be asked and has no
\* entry, the areas that follow are not looked at.

\* Mutant: the change is not noted.
PassiveUnnoted(s, p) ==
  Tell(Put(s, [p EXCEPT !.nodes = LonRemove(@, s.node), !.passive = Append(@, s.node)]),
       "passive", p.name)

MovePassive(s, p) ==
  Tell(Changed(s, [p EXCEPT !.nodes = LonRemove(@, s.node),
                            !.passive = Append(@, s.node)]), "passive", p.name)

PassiveArea(s, p) ==
  LET last == Len(p.nodes) <= 2
      q == IF last /\ IsState(p, {"W", "F", "S"})
             THEN ChState(p, {"W", "F", "S"}, "P") ELSE p
  IN CASE \/ s.node \notin ToSet(p.nodes) \/ Len(p.nodes) <= 1
          \/ s.node \in ToSet(p.passive) -> s
       [] OTHER ->
            IF last /\ UplinkLine(s, p.nodes[1]) = <<>> THEN [s EXCEPT !.stop = TRUE]
            ELSE IF last THEN MovePassive(Request(s, Znfp1(p.nodes[1]), "-", p.name), q)
            ELSE MovePassive(s, q)

MoveActive(s, p) ==
  Tell(Changed(s, [p EXCEPT !.nodes = Append(@, s.node),
                            !.passive = LonRemove(@, s.node)]), "active", p.name)

ActiveArea(s, p) ==
  LET first == Len(p.nodes) = 1
      q == IF IsState(p, {"P", "U"}) THEN ChState(p, {"P"}, "W") ELSE p
  IN CASE s.node \in ToSet(p.passive) \cap ToSet(p.nodes) -> s
       [] s.node \in ToSet(p.passive) \ ToSet(p.nodes) ->
            IF first /\ UplinkLine(s, p.nodes[1]) = <<>> THEN [s EXCEPT !.stop = TRUE]
            ELSE IF first THEN MoveActive(Request(s, Znfp1(p.nodes[1]), "+", p.name), q)
            ELSE MoveActive(s, p)
       [] s.node \in ToSet(p.nodes) \ ToSet(p.passive) -> Say(s, "already active", p.name)
       [] OTHER -> s

-----------------------------------------------------------------------------
\* What a command does to an area.
OnArea(s, p, cmd, pat) ==
  CASE cmd = "sub"     -> SubArea(s, p, IsWildcard(s, pat))
    [] cmd = "unsub"   -> UnsubArea(s, p)
    [] cmd = "passive" -> PassiveArea(s, p)
    [] cmd = "active"  -> ActiveArea(s, p)
    [] cmd = "delete"  -> Remove1(Say(s, "delete", p.name), p.name)

\* A loop over the areas: the command for one after the other.
Each(s, hits, cmd, pat) ==
  LET names == Names(s)
      Next1(t, name) == IF t.stop \/ name \notin hits THEN t
                        ELSE Then(AreaOf(t, name), LAMBDA p : OnArea(t, p, cmd, pat))
      f[i \in 0..Len(names)] ==
        IF i = 0 THEN s ELSE Then(f[i - 1], LAMBDA t : Next1(t, names[i]))
  IN [f[Len(names)] EXCEPT !.stop = FALSE]

-----------------------------------------------------------------------------
\* cmd_new(), for a link and for the system itself (inter): the one who asks is
\* the first node of the area.  Where AutoCreateCmd is configured, its script is to
\* see to areas.bbs: the area is in memory, and nothing is marked as changed.
NewOptions(s, node, name, opts, inter) ==
  LET Opt(o, default) == IF o \in DOMAIN opts THEN opts[o] ELSE default
      prl == inter \/ ~s.conf.ignorePRL IN
  [name |-> name, passthru |-> prl /\ Opt("passthru", FALSE),
   readonly |-> prl /\ Opt("readonly", FALSE),
   lvl |-> IF prl THEN Opt("lvl", -1) ELSE -1, key |-> Opt("key", {}),
   zone |-> Opt("zone", node.zone), state |-> Opt("state", {"S"}), uplinks |-> 1,
   nodes |-> <<node>> \o s.conf.createFor, passive |-> <<>>]

New(s, node, name, opts, inter) ==
  LET may == s.auth.ok /\ (May(s, "$") \/ (inter /\ May(s, "&"))) IN
  CASE ~may                              -> Say(s, "not authorized", name)
    [] may /\ Known(s, name)             -> Say(s, "exists", name)
    [] may /\ ~Known(s, name) /\ name \in s.conf.forbidden ->
         Say(s, "forbidden", name)
    [] OTHER ->
         LET made == [s EXCEPT !.areas = Append(@, NewOptions(s, node, name, opts, inter)),
                               !.changed = IF s.conf.autoCreate THEN @ ELSE TRUE]
         IN IF inter THEN made
            ELSE IF s.conf.autoCreate THEN Say(made, "subscribed", name)
            ELSE Tell(made, "subscribed", name)

-----------------------------------------------------------------------------
\* cmd_sub(): the areas, and the uplinks where there is none.
Counted(s) == IF s.limG < 1 THEN [s EXCEPT !.limG = @ + CountG(s)] ELSE s

SubHits(s, pat) == Each(Counted(s), Hits(s, pat), "sub", pat)

\* The inner cmd_sub() of an area that has just been made; refused, it goes.
SubNew(s, a) ==
  Then(SubHits([s EXCEPT !.refused = FALSE], a.areas),
       LAMBDA t : IF t.refused THEN [Remove1(t, a.areas) EXCEPT !.refused = s.refused]
                  ELSE Request([t EXCEPT !.refused = s.refused], Znfp1(a.uplink), "+", a.areas))

\* One uplink that has an area with the name: a text that is a pattern is none.
Forward(s, a) ==
  IF Known(s, a.areas) \/ IsWildcard(s, a.areas) THEN s
  ELSE Then(New(s, a.uplink, a.areas, a.opts, TRUE),
            LAMBDA t : IF ~Known(t, a.areas) THEN Say(s, "internal error", a.areas)
                       ELSE SubNew(Changed(t, ChState(AreaOf(t, a.areas), {"S"}, "F")), a))

ForwardEach(s, ups) ==
  LET f[i \in 0..Len(ups)] ==
        IF i = 0 THEN s
        ELSE Then(ups[i], LAMBDA a : Then(f[i - 1], LAMBDA t : Forward(t, a)))
  IN f[Len(ups)]

ForwardAll(s, pat) ==
  Then(UplinksLookup(s, pat), LAMBDA ups : ForwardEach(s, ups))

\* A name that stands last in areas.bbs comes to the question of forwarding, too.
AfterHits(s, pat, done, forward) ==
  CASE done                       -> s
    [] ~done /\ ~May(s, "&")      -> Say(s, "forward not authorized", pat)
    [] ~done /\ May(s, "&")       -> IF forward THEN ForwardAll(s, pat) ELSE s

Sub(s, pat) ==
  LET one == ~IsWildcard(s, pat) /\ Hits(s, pat) # {} IN
  IF ~s.auth.ok THEN Say(s, "not authorized", pat)
  ELSE Then(SubHits(s, pat),
            LAMBDA t : AfterHits(t, pat, one /\ pat # Last(Names(s)), ~one))

\* cmd_unsub()
Unsub(s, pat) ==
  IF ~s.auth.ok THEN Say(s, "not authorized", pat)
  ELSE IF Hits(s, pat) = {} THEN Say(s, "no such area", pat)
  ELSE Each(s, Hits(s, pat), "unsub", pat)

\* cmd_passive(), cmd_active(): no pattern is every area.
All(s, pat) == IF pat = "" THEN ToSet(Names(s)) ELSE Hits(s, pat)

Passive(s, pat) ==
  IF ~s.auth.ok THEN Say(s, "not authorized", pat)
  ELSE Each(s, All(s, pat), "passive", pat)

Active(s, pat) ==
  IF ~s.auth.ok THEN Say(s, "not authorized", pat)
  ELSE Each(s, All(s, pat), "active", pat)

\* cmd_delete()
Delete(s, pat) ==
  IF ~May(s, "~") THEN Say(s, "not authorized", pat)
  ELSE IF Hits(s, pat) = {} THEN Say(s, "does not exist", pat)
  ELSE Each(s, Hits(s, pat), "delete", pat)

-----------------------------------------------------------------------------
\* The lists: an area is shown with how the node stands to it.
Mark(s, p) ==
  CASE s.node \notin ToSet(p.nodes) -> "free"
    [] s.node \in ToSet(p.nodes) \ ToSet(p.passive) -> "linked"
    [] OTHER -> "linked, passive"

Show(s, what, Shown(_)) ==
  [s EXCEPT !.out = @ \o
     [i \in DOMAIN SelectSeq(s.areas, Shown) |->
        <<what, SelectSeq(s.areas, Shown)[i].name, Mark(s, SelectSeq(s.areas, Shown)[i])>>]]

\* cmd_list(), of %LIST (avail is FALSE) and %AVAIL: its own areas, and those it
\* may have by level, key, zone and state.
Listed(s, p, avail) ==
  \/ s.node \in ToSet(p.nodes)
  \/ /\ Visible(s, p)
     /\ p.zone = s.node.zone \/ (p.zone <= 6 /\ s.node.zone <= 6)
     /\ p.state # {} /\ ~IsState(p, {"U"})
     /\ IF avail THEN s.conf.availAll \/ ~IsState(p, {"W", "F"})
                 ELSE ~IsState(p, {"W"}) /\ (s.conf.listF \/ ~IsState(p, {"F"}))

List(s, avail) ==
  IF ~s.auth.ok THEN Say(s, "not authorized", "")
  ELSE IF avail /\ s.conf.availFile THEN Say(s, "file", "")
  ELSE Show(s, "list", LAMBDA p : Listed(s, p, avail))

\* cmd_query(), cmd_unlinked()
Query(s) ==
  IF ~s.auth.ok THEN Say(s, "not authorized", "")
  ELSE Show(s, "query", LAMBDA p : s.node \in ToSet(p.nodes))

Unlinked(s) ==
  IF ~s.auth.ok THEN Say(s, "not authorized", "")
  ELSE Show(s, "unlinked", LAMBDA p :
         /\ Visible(s, p)
         /\ s.conf.areafix => p.zone = s.node.zone
         /\ s.node \notin ToSet(p.nodes))

\* cmd_listall(): all areas, then what each uplink has; of its files only what has
\* not been shown yet.
ListAll(s) ==
  LET mine == {i \in DOMAIN s.conf.uplinks : s.conf.uplinks[i].af = s.conf.areafix}
      Files(i) == FlattenSeq(s.conf.uplinks[i].files)
      Shown(i, j) ==
        \/ Known(s, Files(i)[j].text)
        \/ \E k \in mine : \E l \in DOMAIN Files(k) :
             (k < i \/ (k = i /\ l < j)) /\ Files(k)[l].text = Files(i)[j].text
      Lines(list, Test(_)) ==
        FlattenSeq([j \in DOMAIN list |->
                      IF Test(j) THEN <<<<"at uplink", list[j].text>>>> ELSE <<>>])
      Of(i) == LET items == s.conf.uplinks[i].items IN
               Lines(Files(i), LAMBDA j : ~Shown(i, j))
               \o Lines(items, LAMBDA j : ~IsWildcard(s, items[j].text))
  IN IF ~(s.auth.ok /\ May(s, "%")) THEN Say(s, "not authorized", "")
     ELSE [Show(s, "all", LAMBDA p : TRUE) EXCEPT !.out = @ \o
             FlattenSeq([i \in DOMAIN s.conf.uplinks |->
                           IF i \in mine THEN Of(i) ELSE <<>>])]

\* cmd_help()
Help(s) == Say(s, IF s.conf.help THEN "help" ELSE "no help", "")

\* cmd_passwd(): from now on the commands are those of the node it names, an
\* argument [node, pass] where each may be missing.
Passwd(s, arg) ==
  LET closed == [s EXCEPT !.auth.ok = FALSE]
      t == AuthCheck([closed EXCEPT !.node = arg.node[1]], arg.node[1], arg.pass[1], TRUE)
  IN CASE arg.node = <<>> -> Say(closed, "no address", "")
       [] arg.node # <<>> /\ arg.pass = <<>> ->
            Say([closed EXCEPT !.node = arg.node[1]], "no password", "")
       [] OTHER -> IF t.auth.ok THEN t ELSE Say(t, "failed", "")

-----------------------------------------------------------------------------
\* areafix_do_cmd(): a line is [pct, word, arg, opts], whose word may be the name
\* of an area, with the area or pattern in arg.
Command(word) ==
  CASE word \in {"+", "sub", "subscribe"}       -> "sub"
    [] word \in {"-", "unsub", "unsubscribe"}   -> "unsub"
    [] word \in {"&", "new", "create"}          -> "new"
    [] word \in {"~", "delete"}                 -> "delete"
    [] word \in {"passwd", "password", "from"}  -> "passwd"
    [] word \in {"passive", "pause"}            -> "passive"
    [] word \in {"active", "resume"}            -> "active"
    [] word \in {"list", "avail", "query", "unlinked", "help", "listall"} -> word
    [] OTHER                                    -> "area"

DoCmd(s, line, c) ==
  CASE c = "area" /\ (line.pct \/ s.conf.onlyPlus) -> Say(s, "unknown", line.word)
    [] c = "sub" \/ (c = "area" /\ ~line.pct /\ ~s.conf.onlyPlus) ->
         Sub(s, IF c = "sub" THEN line.arg ELSE line.word)
    [] c = "unsub"    -> Unsub(s, line.arg)
    [] c = "new"      -> New(s, s.node, line.arg, line.opts, FALSE)
    [] c = "delete"   -> Delete(s, line.arg)
    [] c = "passive"  -> Passive(s, line.arg)
    [] c = "active"   -> Active(s, line.arg)
    [] c = "passwd"   -> Passwd(s, line.arg)
    [] c = "list"     -> List(s, FALSE)
    [] c = "avail"    -> List(s, TRUE)
    [] c = "listall"  -> ListAll(s)
    [] c = "query"    -> Query(s)
    [] c = "unlinked" -> Unlinked(s)
    [] c = "help"     -> Help(s)

\* areafix_do(): a message [from, pass, opts, lines]; the password and the options
\* are its subject; comments are passed over, and a signature ends it.
DoLine(s, line) ==
  CASE s.stop \/ line.word = "*"    -> s
    [] ~s.stop /\ line.word = "--"  -> [s EXCEPT !.stop = TRUE]
    [] OTHER                        -> DoCmd(s, line, Command(line.word))

DoOptions(s, opts) ==
  Then(IF "q" \in opts THEN Query(s) ELSE s,
       LAMBDA t : IF "l" \in opts THEN List(t, FALSE) ELSE t)

DoLines(s, lines) ==
  LET f[i \in 0..Len(lines)] ==
        IF i = 0 THEN s ELSE Then(f[i - 1], LAMBDA t : DoLine(t, lines[i]))
  IN [f[Len(lines)] EXCEPT !.stop = FALSE]

Do(s, m) ==
  Then(AuthCheck(s, m.from, m.pass, TRUE),
       LAMBDA a : Then(DoOptions(a, m.opts), LAMBDA t : DoLines(t, m.lines)))

Session(conf, areas, told) ==
  [conf |-> conf, areas |-> areas, changed |-> FALSE, limG |-> 0, node |-> NoNode,
   auth |-> NoAuth, reqs |-> <<>>, out |-> <<>>, told |-> told, rules |-> {},
   stop |-> FALSE, refused |-> FALSE]
=============================================================================
