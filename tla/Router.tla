------------------------------- MODULE Router -------------------------------
(***************************************************************************)
(* ftnroute: the packets of toss/toss go, one by one and message by        *)
(* message, into output packets for the nodes the ROUTING file sends them  *)
(* to, or are moved as they are; the output packets become visible in      *)
(* toss/route at the end.  With -p it takes the packets back that wait in  *)
(* the outbound instead.  toss/ftnroute.c.                                 *)
(*                                                                         *)
(* The output packets are seen here as OutPkt shows them to be, but for    *)
(* the one thing OutPkt cannot see: do_packet() closes a stream of theirs  *)
(* itself when it meets a direct message.  What then happens to the entry  *)
(* is not defined: what is written may be lost, and the process may die.   *)
(***************************************************************************)
EXTENDS Routing

CONSTANTS
  Msg,       \* messages
  Configs,   \* a sequence of routing tables and mail, one of which the run uses
  MaxFault,  \* bound: kills and calls that fail
  MaxRepack  \* bound: packets taken back out of the outbound

\* Who runs ftnroute: runinc, without a lock, and cron, with -p -l.
Caller == {"runinc", "repack"}

VARIABLES
  number,   \* which of Configs the run uses
  table,    \* what its ROUTING file says
  mail,     \* the messages as ftntoss passes them on
  toss,     \* packets of toss/toss, the oldest first
  route,    \* packets of toss/route
  outb,     \* the .out file of each node and flavor: its messages
  bsy,      \* owner of the bsy file of each node
  rt,       \* state of ftnroute, of each caller
  faults, repacks,
  gone,     \* messages that no file holds any more
  cut       \* messages a process was at when it failed, or moved with a packet
            \* part of which was copied

NOBODY == "nobody"
\* The creator of the file has ended: fidogate takes it over, a mailer waits.
STALE  == "stale"

Idle == [pc |-> "idle", left |-> 0, cur |-> <<>>, pos |-> 0, d |-> <<>>,
         ent |-> <<>>, err |-> FALSE]

\* [lines, msg, way, hubs, ...], see Runinc.
config == Configs[number]

spool == <<toss, route, outb, bsy>>
given == <<number, table, mail>>
rvars == <<given, spool, rt, faults, repacks, gone, cut>>

Elems(s) == {s[i] : i \in DOMAIN s}
Without(s, i) == SubSeq(s, 1, i - 1) \o SubSeq(s, i + 1, Len(s))
Set(p, r) == rt' = [rt EXCEPT ![p] = r]

\* A packet that goes the way d says; what is meant for the same one.
Packet(d, to, msgs) ==
  [grade |-> d.grade, type |-> d.type, flav |-> d.flav, to |-> to, msgs |-> msgs]
Same(e, d) == <<e.grade, e.type, e.flav, e.to>> = <<d.grade, d.type, d.flav, d.to>>

Fail == faults < MaxFault /\ faults' = faults + 1
NoFail == UNCHANGED faults

\* The packet ftnroute is at, in the directory it was found in.
Source(p) == IF p = "runinc" THEN toss ELSE route
Here(p)   == {i \in DOMAIN Source(p) : Source(p)[i] = rt[p].cur}
Drop(p, add) ==
  LET rest == Without(Source(p), Least(Here(p))) IN
  IF p = "runinc" THEN toss' = rest /\ route' = route \o add
                  ELSE toss' = toss /\ route' = rest \o add

-----------------------------------------------------------------------------
\* dir_open(), before any lock: the packets to do.
RouteStart(p, n) == Set(p, [Idle EXCEPT !.pc = "next", !.left = n])

\* The next packet; none, or an error before: outpkt_close().
RouteNext(p) ==
  /\ rt[p].pc = "next" /\ p = "runinc"
  /\ IF rt[p].left = 0 \/ rt[p].err \/ toss = <<>>
       THEN Set(p, [rt[p] EXCEPT !.pc = "close"])
       ELSE Set(p, [rt[p] EXCEPT !.pc = "open", !.cur = toss[1], !.left = @ - 1])
  /\ UNCHANGED <<given, spool, faults, repacks, gone, cut>>

\* do_repack(): a bsy file, which nothing removes, and the packet goes to
\* toss/route under a name of its own.  One whose node is busy is passed over.
Repack ==
  /\ rt["repack"].pc = "next" /\ ~rt["repack"].err /\ repacks < MaxRepack
  /\ \E k \in DOMAIN outb :
       LET f == Packet([grade |-> "m", type |-> Netmail, flav |-> "n"], k.to, outb[k]) IN
       /\ outb[k] # <<>> /\ bsy[k.to] \in {NOBODY, STALE}
       /\ bsy' = [bsy EXCEPT ![k.to] = "repack"]
       /\ outb' = [outb EXCEPT ![k] = <<>>]
       /\ route' = Append(route, f)
       /\ Set("repack", [rt["repack"] EXCEPT !.pc = "open", !.cur = f])
  /\ repacks' = repacks + 1
  /\ UNCHANGED <<given, toss, faults, gone, cut>>

RepackEnd ==
  /\ rt["repack"].pc = "next"
  /\ Set("repack", [rt["repack"] EXCEPT !.pc = "close"])
  /\ UNCHANGED <<given, spool, faults, repacks, gone, cut>>

Way(f) == Route(Desc(f, config.from, f.to), table, config.hubs)

\* do_file(), do_routing(): the way of the packet; do_move(), or outpkt_open()
\* for do_packet().  Somebody else may have taken the packet.
RouteOpen(p) ==
  /\ rt[p].pc = "open"
  /\ \E d \in {Way(rt[p].cur)} :
     LET f == rt[p].cur
         known == {i \in DOMAIN rt[p].ent : Same(rt[p].ent[i], d)}
         new == [grade |-> d.grade, type |-> d.type, flav |-> d.flav, to |-> d.to,
                 msgs |-> <<>>, open |-> TRUE]
     IN IF Here(p) = {}
          THEN /\ Set(p, [rt[p] EXCEPT !.pc = "next", !.err = TRUE])
               /\ UNCHANGED <<toss, route>>
        ELSE IF d.move
          THEN /\ Drop(p, <<Packet(d, f.to, f.msgs)>>)
               /\ Set(p, [rt[p] EXCEPT !.pc = "next"])
        ELSE /\ Set(p, [rt[p] EXCEPT
                  !.pc = "copy", !.pos = 1, !.d = d,
                  !.ent = IF known = {} THEN Append(@, new) ELSE @])
             /\ UNCHANGED <<toss, route>>
  /\ UNCHANGED <<given, outb, bsy, faults, repacks, gone, cut>>

\* The entry do_packet() writes to.
Entry(p) ==
  CHOOSE i \in DOMAIN rt[p].ent : Same(rt[p].ent[i], rt[p].d)

This(p) == rt[p].cur.msgs[rt[p].pos]

\* A direct message that has been given another way.
Direct(p) == config.msg[This(p)].direct /\ rt[p].d.to # rt[p].cur.to

\* One message: header, body, both written.  A write that fails ends the
\* packet with severe_error, as does a signal after it has been written.
Copy(p) ==
  /\ rt[p].pc = "copy" /\ rt[p].pos <= Len(rt[p].cur.msgs) /\ ~Direct(p)
  /\ \E written, ok \in BOOLEAN :
       LET e == Entry(p) IN
       /\ IF ok THEN NoFail ELSE Fail
       /\ written \/ ~ok \/ ~rt[p].ent[e].open
       /\ Set(p, [rt[p] EXCEPT
              !.pos = @ + 1,
              !.pc = IF ok THEN "copy" ELSE "next",
              !.err = ~ok,
              !.ent[e].msgs = IF written THEN Append(@, This(p)) ELSE @])
       /\ cut' = IF ok THEN cut ELSE cut \cup Elems(rt[p].cur.msgs)
       /\ gone' = IF ok /\ ~written THEN gone \cup {This(p)} ELSE gone
  /\ UNCHANGED <<given, spool, repacks>>

\* The direct message: the stream is closed, and the packet moved as it is,
\* with the flavor its other messages would have had.
CopyDirect(p) ==
  /\ rt[p].pc = "copy" /\ rt[p].pos <= Len(rt[p].cur.msgs) /\ Direct(p)
  /\ LET f == rt[p].cur IN
     IF Here(p) = {}
       THEN /\ Set(p, [rt[p] EXCEPT !.pc = "next", !.err = TRUE,
                                     !.ent[Entry(p)].open = FALSE])
            /\ UNCHANGED <<toss, route>>
       ELSE /\ Drop(p, <<Packet(rt[p].d, f.to, f.msgs)>>)
            /\ Set(p, [rt[p] EXCEPT !.pc = "next", !.ent[Entry(p)].open = FALSE])
  /\ cut' = cut \cup {rt[p].cur.msgs[i] : i \in 1..(rt[p].pos - 1)}
  /\ UNCHANGED <<given, outb, bsy, faults, repacks, gone>>

\* Mutant: the packet is kept.
CopyEndKeeps(p) ==
  /\ rt[p].pc = "copy" /\ rt[p].pos > Len(rt[p].cur.msgs)
  /\ Set(p, [rt[p] EXCEPT !.pc = "next"])
  /\ UNCHANGED <<given, spool, faults, repacks, gone, cut>>

\* The packet is done and unlinked, unless somebody else has taken it.
CopyEnd(p) ==
  /\ rt[p].pc = "copy" /\ rt[p].pos > Len(rt[p].cur.msgs)
  /\ IF Here(p) = {}
       THEN /\ Set(p, [rt[p] EXCEPT !.pc = "next", !.err = TRUE])
            /\ cut' = cut \cup Elems(rt[p].cur.msgs)
            /\ UNCHANGED <<toss, route>>
       ELSE /\ Drop(p, <<>>)
            /\ Set(p, [rt[p] EXCEPT !.pc = "next"])
            /\ UNCHANGED cut
  /\ UNCHANGED <<given, outb, bsy, faults, repacks, gone>>

\* outpkt_close(): every entry with something in it gets its name; a process
\* that closes a closed stream may die of it, and its other packets with it.
RouteClose(p) ==
  /\ rt[p].pc = "close"
  /\ LET ents == rt[p].ent
         Bad == {i \in DOMAIN ents : ~ents[i].open}
         Lost(n) == UNION {Elems(ents[i].msgs) : i \in (n + 1)..Len(ents)}
     IN \E n \in {Len(ents)} \cup {i - 1 : i \in Bad} :
          /\ route' = route \o [i \in 1..n |-> Packet(ents[i], ents[i].to, ents[i].msgs)]
          /\ gone' = gone \cup Lost(n)
          /\ Set(p, [rt[p] EXCEPT !.pc = IF n = Len(ents) THEN "done" ELSE "died",
                                  !.ent = <<>>])
  /\ UNCHANGED <<given, toss, outb, bsy, faults, repacks, cut>>

\* The process is killed: what it has not published is gone, but for the packet
\* it is at.
RouteKill(p) ==
  LET still == UNION {Elems(Source(p)[i].msgs) : i \in Here(p)}
      mine  == UNION {Elems(rt[p].ent[i].msgs) : i \in DOMAIN rt[p].ent} IN
  /\ gone' = gone \cup (mine \ still)
  /\ Set(p, Idle)
  /\ bsy' = [n \in DOMAIN bsy |-> IF bsy[n] = p THEN STALE ELSE bsy[n]]

-----------------------------------------------------------------------------
\* ftnpack: a packet of toss/route goes into the .out file of its node, unless
\* that is busy.  Outbound has the details.
Packable(p, g) ==
  {i \in DOMAIN route : (p = "repack" \/ route[i].grade = g)
                        /\ bsy[route[i].to] \in {NOBODY, STALE}}

Pack(p, g) ==
  /\ rt[p].pc = "pack"
  /\ \E i \in Packable(p, g) :
       LET f == route[i]
           k == [to |-> f.to, flav |-> f.flav] IN
       /\ outb' = [outb EXCEPT ![k] = @ \o f.msgs]
       /\ route' = Without(route, i)
       /\ bsy' = [bsy EXCEPT ![f.to] = NOBODY]
  /\ UNCHANGED <<given, toss, rt, faults, repacks, gone, cut>>
=============================================================================
