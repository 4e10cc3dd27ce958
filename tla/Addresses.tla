------------------------------ MODULE Addresses ------------------------------
(***************************************************************************)
(* How names and addresses are translated between FTN and RFC, in both     *)
(* gateways: the HOSTS table, p.f.n.z domain addresses, user names and the *)
(* ALIASES.                                                                *)
(*                                                                         *)
(* An FTN address is [zone, net, node, point], an Internet address the     *)
(* sequence of its labels [c, n]: c is "p", "f", "n" or "z" for such a     *)
(* letter and the number n, "w" for another word.  A name is the sequence  *)
(* of its bytes.  An RFC sender or recipient is [user, addr, real], where  *)
(* what is missing is empty.                                               *)
(***************************************************************************)
EXTENDS Integers, SequencesExt

CONSTANTS
  NONE,
  Site  \* [hostname, domain, hostsdomain, invalid, zones, defzone]: the names
        \* of the configuration as labels; zones is a sequence of [zone, dom]

(* What a loop over a sequence leaves, and the first entry a search finds. *)
(* The bound variable u makes TLC evaluate each step once.                 *)
Walk(Step(_, _), start, s) ==
  LET w[i \in 0..Len(s)] ==
        IF i = 0 THEN start ELSE CHOOSE r \in {Step(u, s[i]) : u \in {w[i - 1]}} : TRUE
  IN  w[Len(s)]
FirstOf(s, Fits(_)) == LET hit == SelectSeq(s, Fits) IN IF hit = <<>> THEN NONE ELSE hit[1]

(******************************** addresses ********************************)

(* hosts_lookup: an entry is [node, name, pointed, down], name NONE for    *)
(* "-"; one without a point stands for all points of its node.             *)
HostLine(n, name, fqdn, options) == \* hosts_parse_line
  [node |-> n, pointed |-> options \cap {"y", "-p"} # {}, down |-> "-d" \in options,
   name |-> IF name = NONE \/ fqdn THEN name ELSE name \o Site.hostsdomain]
HostOf(hosts, n) ==
  FirstOf(hosts, LAMBDA h : h.node.point \in {0, n.point} /\ h.node = [n EXCEPT !.point = h.node.point])
HostNamed(hosts, name) == FirstOf(hosts, LAMBDA h : h.name = name)

Label(c, n) == [c |-> c, n |-> n]
NodeToPfnz(n) ==
  (IF n.point > 0 THEN <<Label("p", n.point)>> ELSE <<>>)
  \o <<Label("f", n.node), Label("n", n.net), Label("z", n.zone)>>
PfnzToNode(ls) ==
  LET last(c, missing) ==
        Walk(LAMBDA u, l : IF l.c = c THEN l.n ELSE u, missing, ls)
  IN  IF (\E i \in DOMAIN ls : ls[i].c = "w") \/ -1 \in {last("n", -1), last("f", -1)} THEN NONE
      ELSE [zone |-> last("z", Site.defzone), net |-> last("n", -1),
            node |-> last("f", -1), point |-> last("p", 0)]

ZoneDomain(zone) == \* cf_zones_inet_domain: zone 0 stands for all others
  LET own == FirstOf(Site.zones, LAMBDA z : z.zone = zone)
      any == FirstOf(Site.zones, LAMBDA z : z.zone = 0)
  IN  IF own # NONE THEN own.dom ELSE IF any # NONE THEN any.dom ELSE Site.invalid
ZoneServed(zone) == \E i \in DOMAIN Site.zones : Site.zones[i].zone = zone /\ zone # 0

(* str_ftn_to_inet, which the gateway does not force to show a point       *)
Nameless(h) == h # NONE /\ h.name = NONE
FtnToInet(hosts, n) ==
  LET h == HostOf(hosts, n)
  IN  CASE h = NONE    -> NodeToPfnz(n) \o ZoneDomain(n.zone)
        [] Nameless(h) -> NodeToPfnz(n) \o Site.hostsdomain
        [] OTHER -> (IF h.pointed /\ n.point > 0 /\ h.node.point = 0
                     THEN <<Label("p", n.point)>> ELSE <<>>) \o h.name

(* try_pfnz: the rest of the address before the domain                     *)
TryPfnz(addr, dom) ==
  IF IsSuffix(dom, addr) THEN PfnzToNode(SubSeq(addr, 1, Len(addr) - Len(dom))) ELSE NONE

(* inet_to_ftn: a point may stand before a host name.  HOSTS comes first,  *)
(* then p.f.n.z with each domain that this site may have.                  *)
Fqdn == Site.hostname \o Site.domain
InetToFtn(hosts, addr) ==
  LET pointed == Len(addr) > 1 /\ addr[1].c = "p"
      rest    == IF pointed THEN Tail(addr) ELSE addr
      found   == SelectSeq([i \in 1..3 |-> HostNamed(hosts,
                              rest \o <<<<>>, Site.domain, Site.hostsdomain>>[i])],
                           LAMBDA h : h # NONE)
      doms    == <<<<>>, Site.hostname, Fqdn, Site.domain, Site.hostsdomain>>
                 \o [i \in DOMAIN Site.zones |-> Site.zones[i].dom]
      n       == IF found = <<>>
                 THEN FirstOf([i \in DOMAIN doms |-> TryPfnz(addr, doms[i])], LAMBDA m : m # NONE)
                 ELSE found[1].node
  IN  IF found # <<>> /\ pointed /\ n.point = 0 THEN [n EXCEPT !.point = addr[1].n] ELSE n

(* addr_is_local, addr_is_domain                                           *)
IsLocal(addr)  == addr = <<>> \/ addr = Fqdn
IsDomain(addr) == addr = <<>> \/ IsSuffix(Site.domain, addr)

(********************************** names **********************************)

SPACE == 32
DOT   == 46
AT    == 64
UNDER == 95
PERCENT == 37
QUOTE == 34
BACKSLASH == 92
(* () <> @ , ; : and the brackets                                          *)
NotInAtoms == {40, 41, 60, 62, AT, 44, 59, 58, BACKSLASH, QUOTE, 91, 93}

IsLower(c)   == c \in 97..122
IsUpper(c)   == c \in 65..90
Lower(name)  == [i \in DOMAIN name |-> IF IsUpper(name[i]) THEN name[i] + 32 ELSE name[i]]
Eq(a, b)     == Lower(a) = Lower(b) \* stricmp
Without(name, set) == SelectSeq(name, LAMBDA c : c \notin set)

(* rfcaddr_from_ftn: the user part of the address.  Its trailing spaces    *)
(* the real name keeps: the loop that removes them starts at the NUL.      *)
UserOf(name, dot_names) ==
  LET plain == [i \in DOMAIN name |-> IF name[i] < SPACE THEN UNDER ELSE name[i]]
      user  == [i \in DOMAIN Without(plain, {QUOTE, BACKSLASH}) |->
                  LET c == Without(plain, {QUOTE, BACKSLASH})[i]
                  IN  IF c = SPACE THEN IF dot_names THEN DOT ELSE UNDER ELSE c]
  IN  IF ToSet(plain) \cap NotInAtoms # {} THEN <<QUOTE>> \o user \o <<QUOTE>> ELSE user
RealOf(name) == Without(name, {60, 62})
RfcaddrFromFtn(hosts, name, n, dot_names) ==
  [user |-> UserOf(name, dot_names), real |-> RealOf(name),
   addr |-> IF n = NONE THEN Site.invalid ELSE FtnToInet(hosts, n)]

(* cvt_user_name: the last percent sign becomes an at sign; or dots and    *)
(* underlines become spaces and the words get capitals, unless the name    *)
(* begins with one.                                                        *)
CvtChar(us, w, c) ==
  IF c \in {UNDER, DOT}
  THEN [out |-> Append(w.out, IF c = UNDER \/ ~us THEN SPACE ELSE c),
        flag |-> IF w.flag = 0 THEN 1 ELSE w.flag]
  ELSE [out |-> Append(w.out, IF w.flag = 1 /\ IsLower(c) THEN c - 32 ELSE c),
        flag |-> IF w.flag = 1 THEN 0 ELSE w.flag]
CvtUserName(s) ==
  LET percents == {i \in DOMAIN s : s[i] = PERCENT}
      us == ToSet(s) \cap {UNDER, SPACE, AT} # {}
  IN  IF percents # {} THEN [s EXCEPT ![CHOOSE i \in percents : \A j \in percents : j <= i] = AT]
      ELSE Walk(LAMBDA w, c : CvtChar(us, w, c),
                [out |-> <<>>, flag |-> IF s # <<>> /\ IsUpper(s[1]) THEN -1 ELSE 1], s).out

(* rfc_parse: the name of an RFC sender or recipient                       *)
Unquoted(s) ==
  IF s = <<>> \/ s[1] # QUOTE THEN s
  ELSE LET rest == Tail(s) IN IF rest # <<>> /\ rest[Len(rest)] = QUOTE THEN Front(rest) ELSE rest
RfcName(rfc) ==
  IF rfc.real # <<>> THEN Unquoted(rfc.real) ELSE CvtUserName(Unquoted(rfc.user))

(********************************* aliases *********************************)

(* An entry is [user, dom, node, full, type], dom NONE or a domain, full   *)
(* "*" for every name; the type is "rfc2ftn", "ftn2rfc" or "all".          *)
(* alias_do_file: a line that names a type says it for all lines below.    *)
Typed(f, l) ==
  IF l.c = "type" THEN [f EXCEPT !.type = l.type]
  ELSE [f EXCEPT !.list = Append(@, [user |-> l.user, dom |-> l.dom, node |-> l.node,
                                     full |-> l.full, type |-> f.type])]
AliasFile(lines) == Walk(Typed, [type |-> "all", list |-> <<>>], lines).list
Star == <<42>>
AliasLookup(aliases, n, user) ==
  FirstOf(aliases, LAMBDA a : a.type # "ftn2rfc" /\ Eq(a.user, user) /\ a.node = n)
AliasStrict(aliases, n, full) ==
  FirstOf(aliases, LAMBDA a : a.type # "rfc2ftn" /\ (a.full = Star \/ Eq(a.full, full)) /\ a.node = n)
AliasUserdom(aliases, rfc) ==
  FirstOf(aliases, LAMBDA a : /\ a.type # "ftn2rfc" /\ a.dom # NONE
                              /\ Eq(a.user, rfc.user) /\ a.dom = rfc.addr)
=============================================================================
