------------------------------- MODULE EchoNet -------------------------------
(***************************************************************************)
(* Systems that run ftntoss and are linked for one echomail area.  Each    *)
(* tosses the packets it is sent, posts messages of its own, and hands     *)
(* every message that is new to it to its gateway.  Packets are delivered  *)
(* in any order; a few are lost or delivered twice.                        *)
(***************************************************************************)
EXTENDS EchoMail, FiniteSets, BagsExt

CONSTANTS
  Sys,       \* systems
  Msg,       \* messages that are posted, each once
  Nets,      \* configurations of the network, one of which the run uses
  MaxDup,    \* bound: packets delivered twice
  MaxLost    \* bound: packets lost

\* AREAS.BBS of system y names system x; up is the way from each system to o:
\* of two systems that are linked, one is the next on the way of the other.
Linked(c, y, x) == \E i \in DOMAIN c.nodes[y] : c.nodes[y][i] = c.addr[x]

Ways(c, o, up) ==
  \A x, y \in Sys : Linked(c, y, x) => \/ x # o /\ up[x] = y
                                       \/ y # o /\ up[y] = x

\* No two systems share an address.  A configuration is called a tree if there
\* are such ways from all systems to each one, which a cycle does not allow.
Sound(c) ==
  /\ \A s \in Sys : c.addr[s] \in c.aka[s] /\ c.gateway[s] \in BOOLEAN
  /\ \A s, r \in Sys : c.aka[s] \cap c.aka[r] # {} => s = r
  /\ c.tree => /\ \A s \in Sys : \A i \in DOMAIN c.nodes[s] :
                    \E r \in Sys : c.nodes[s][i] = c.addr[r]
               /\ \A o \in Sys : \E up \in [Sys -> Sys] : Ways(c, o, up)

ASSUME NetsAssumption == \A c \in Nets : Sound(c)

VARIABLES
  net,       \* the configuration
  flight,    \* bag of the packets on their way
  hist,      \* MSGID history of each system
  gated,     \* how often each system has given each message to its gateway
  origin,    \* the systems that have posted each message: none or one
  sent,      \* <<message, from, to>> of each packet sent, a bag
  dups, lost

netvars == <<net, flight, hist, gated, origin, sent, dups, lost>>

NetInit ==
  /\ net \in Nets
  /\ flight = EmptyBag
  /\ hist = [s \in Sys |-> {}]
  /\ gated = [s \in Sys |-> [m \in Msg |-> 0]]
  /\ origin = [m \in Msg |-> {}]
  /\ sent = EmptyBag
  /\ dups = 0 /\ lost = 0

\* What net says of system s: its address (cf_addr), its AREAS.BBS line, and
\* its options.
Self(s)    == net.addr[s]
Nodes(s)   == net.nodes[s]
Uplinks(s) == net.uplinks[s]
Passive(s) == net.passive[s]
Listed(s)  == {Nodes(s)[i] : i \in DOMAIN Nodes(s)}

\* A message on its way, and a bag of the packets one message is put into.
Packet(m, from, to, seenby, path) ==
  [id |-> m, from |-> from, to |-> to, seenby |-> seenby, path |-> path]

\* rfc2ftn writes SEEN-BY and ^APATH with the address of the node, even on a
\* point, and sends the packet from the system to itself.
Post(s, m) ==
  /\ origin[m] = {}
  /\ origin' = [origin EXCEPT ![m] = {s}]
  /\ LET boss == [Self(s) EXCEPT !.point = 0] IN
     flight' = BagAdd(flight, Packet(m, Self(s), Self(s), {boss}, <<boss>>))
  /\ UNCHANGED <<net, hist, gated, sent, dups, lost>>

\* SEEN-BY and ^APATH of packet p once do_echomail() at s has added what it
\* adds before it looks for the nodes to send to.
Seenby0(s, p) == Do4dSeenby(p.seenby, p.from, Self(s)) \cup {p.from, p.to}
Path0(s, p)   == DoPath(SenderInPath(Do4dPath(p.path, p.from), p.from), Self(s))

NewFor(s, p) == NewNodes(Seenby0(s, p), Nodes(s), Passive(s), Uplinks(s), p.from)

\* SEEN-BY and ^APATH as they are written to the packets.
SeenbyOut(s, p) ==
  LET own == IF net.otherAka THEN net.aka[s] ELSE {}
      all == Seenby0(s, p) \cup NewFor(s, p) IN
  (all \cup AddedNodes(all, net.addTo[s]) \cup own) \ net.del[s]

PathOut(s, p) ==
  IF net.delPath THEN DoDeletePath(Path0(s, p), net.del[s]) ELSE Path0(s, p)

\* The checks of do_echomail() that a packet between these systems can fail.
Dupe(s, p)     == net.dupeCheck /\ p.id \in hist[s]
Insecure(s, p) == p.from \notin Listed(s) \cup {Self(s)}
Loops(s, p)    == net.checkPath /\ Circular(PathOut(s, p), net.aka[s])

Rejected(s, p) == Dupe(s, p) \/ Insecure(s, p) \/ Loops(s, p)

\* Mutants: the history is not written; the sender is written in place of the
\* MSGID.
RememberNone(s, p) == hist' = hist

\* hi_write(), of messages from the nodes that are linked.
RememberId(s, p) ==
  hist' = IF net.dupeCheck /\ ~Insecure(s, p)
            THEN [hist EXCEPT ![s] = @ \cup {p.id}] ELSE hist

\* Mutant: the packet of a message that is rejected is left where it is.
TossKeepsRejected(s, p) ==
  /\ p.to \in net.aka[s]
  /\ RememberId(s, p)
  /\ IF Rejected(s, p)
       THEN UNCHANGED <<flight, gated, sent>>
       ELSE LET out == {Packet(p.id, Self(s), n, SeenbyLine(SeenbyOut(s, p)),
                               PathLine(PathOut(s, p))) : n \in NewFor(s, p)}
            IN /\ flight' = BagRemove(flight, p) (+) SetToBag(out)
               /\ gated' = IF net.gateway[s] /\ p.from # Self(s)
                             THEN [gated EXCEPT ![s][p.id] = @ + 1] ELSE gated
               /\ sent' = sent (+) SetToBag({<<p.id, Self(s), n>> : n \in NewFor(s, p)})
  /\ UNCHANGED <<net, origin, dups, lost>>

\* toss_echomail(): a packet for each new node; our own address is that of the
\* gateway.
Toss(s, p) ==
  /\ p.to \in net.aka[s]
  /\ RememberId(s, p)
  /\ IF Rejected(s, p)
       THEN /\ flight' = BagRemove(flight, p)
            /\ UNCHANGED <<gated, sent>>
       ELSE LET out == {Packet(p.id, Self(s), n, SeenbyLine(SeenbyOut(s, p)),
                               PathLine(PathOut(s, p))) : n \in NewFor(s, p)}
            IN /\ flight' = BagRemove(flight, p) (+) SetToBag(out)
               /\ gated' = IF net.gateway[s] /\ p.from # Self(s)
                             THEN [gated EXCEPT ![s][p.id] = @ + 1] ELSE gated
               /\ sent' = sent (+) SetToBag({<<p.id, Self(s), n>> : n \in NewFor(s, p)})
  /\ UNCHANGED <<net, origin, dups, lost>>

\* The mailer or the transport delivers a packet a second time, or never.
Duplicate(p) ==
  /\ dups < MaxDup
  /\ dups' = dups + 1
  /\ flight' = BagAdd(flight, p)
  /\ UNCHANGED <<net, hist, gated, origin, sent, lost>>

Lose(p) ==
  /\ lost < MaxLost
  /\ lost' = lost + 1
  /\ flight' = BagRemove(flight, p)
  /\ UNCHANGED <<net, hist, gated, origin, sent, dups>>

Tossing == \E p \in BagToSet(flight), s \in Sys : Toss(s, p)

Done == /\ flight = EmptyBag
        /\ \A m \in Msg : origin[m] # {}
        /\ UNCHANGED netvars

NetNext == \/ \E s \in Sys, m \in Msg : Post(s, m)
           \/ Tossing
           \/ \E p \in BagToSet(flight) : Duplicate(p) \/ Lose(p)
           \/ Done

NetSpec == NetInit /\ [][NetNext]_netvars

\* Mail is delivered and ftntoss is run again and again.
FairSpec == NetSpec /\ \A s \in Sys : WF_netvars(\E p \in BagToSet(flight) : Toss(s, p))

-----------------------------------------------------------------------------
System(a) == CHOOSE s \in Sys : a \in net.aka[s]

NetTypeOK ==
  /\ net \in Nets
  /\ IsABag(flight)
  /\ \A p \in BagToSet(flight) :
       /\ p.id \in Msg
       /\ \E s \in Sys : p.to \in net.aka[s]
       /\ \A a \in p.seenby : \E s \in Sys : a \in net.aka[s]
  /\ hist \in [Sys -> SUBSET Msg]
  /\ gated \in [Sys -> [Msg -> Nat]]
  /\ dups \in 0 .. MaxDup /\ lost \in 0 .. MaxLost

\* The nets where nothing but SEEN-BY has to keep messages from coming twice.
IsTree == net.tree /\ dups = 0

\* A reader of the gateway sees each message once, the author's own system does
\* not get it back as a new one, and no link carries it twice in a direction,
\* although the network has cycles and packets come twice: the history sees to
\* that, or SEEN-BY alone where the links form a tree.
DeliveredOnce ==
  net.dupeCheck \/ IsTree =>
    /\ \A s \in Sys, m \in Msg : gated[s][m] <= IF s \in origin[m] THEN 0 ELSE 1
    /\ \A t \in BagToSet(sent) : sent[t] = 1

\* The copies of a message die out, in every cycle of the links and without the
\* help of a history.
FloodEnds == <>[](flight = EmptyBag)

\* Whom s sends to, if they have not seen the message.
Feeds(s) == {System(n) : n \in {Nodes(s)[i] : i \in Uplinks(s) .. Len(Nodes(s))}
                               \ Passive(s)}

Reach(s) ==
  LET r[n \in Nat] ==
        IF n = 0 THEN {s} ELSE r[n - 1] \cup UNION {Feeds(t) : t \in r[n - 1]}
  IN r[Cardinality(Sys)]

\* A message reaches every gateway that the links lead to, whichever way its
\* copies race each other, as long as no packet is lost.
AllReached ==
  \A m \in Msg, s \in Sys :
    (\E o \in origin[m] : o # s /\ s \in Reach(o) /\ net.gateway[s])
      ~> (gated[s][m] > 0 \/ lost > 0)
=============================================================================
