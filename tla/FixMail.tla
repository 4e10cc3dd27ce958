------------------------------ MODULE FixMail -------------------------------
(***************************************************************************)
(* Requests for areafix arrive in packets, and ftnafpkt works through all  *)
(* that are there: it reads areas.bbs, does the commands of one message    *)
(* after the other, sends the requests to the uplinks and the answer after *)
(* each message, and writes areas.bbs once at the end (areafix/ftnafpkt.c).*)
(* What a run has sent is out of its hands when it fails later.            *)
(*                                                                         *)
(* areas.bbs.lock keeps the programs apart that take it (AreasBbs); here   *)
(* they are never at work at the same time.                                *)
(***************************************************************************)
EXTENDS FixCommands

CONSTANTS
  Setups,   \* configurations and mail
  MaxFault  \* bound: kills and calls that fail

(* A member of Setups is [areafix, areas: lines of areas.bbs, uplinks,      *)
(* passwd, ignorePRL, onlyPlus, availAll, availFile, listF, help,           *)
(* createFor, forbidden, autoCreate, rules, rulesTo, matching: the          *)
(* configuration; msg: the messages that may arrive; size: how many do;     *)
(* packets: those with several messages].                                   *)

VARIABLES
  conf,     \* which of Setups this is
  coming,   \* packets that have not arrived: sequences of messages
  inbound,  \* packets in the inbound, the oldest first
  file,     \* areas.bbs, its lines
  pc,       \* what the program does
  mem,      \* its session
  queue,    \* packets it has still to look at
  pos,      \* the message of the first of them it is at
  told,     \* what nodes have been told and may rely on
  asked,    \* what the uplink of an area was asked last, if that is known
  mine,     \* areas this run has asked for
  muddled,  \* areas whose last requests got into each other's way
  faults

vars == <<conf, coming, inbound, file, pc, mem, queue, pos, told, asked, mine,
          muddled, faults>>

None == <<>>

Fail == faults < MaxFault /\ faults' = faults + 1
NoFail == UNCHANGED faults

\* What the areas.bbs of the configuration says about an area's uplink.
AskedBefore(lines) ==
  LET Read(name) == ReadArea(CHOOSE l \in ToSet(lines) : l.name = name) IN
  [name \in {l.name : l \in ToSet(lines)} |->
     IF IsState(Read(name), {"U", "P"}) THEN "-" ELSE "+"]

Init ==
  /\ conf \in ToSet(Setups)
  /\ coming \in [1..conf.size -> {<<m>> : m \in DOMAIN conf.msg}]
                \cup {<<p>> : p \in conf.packets}
  /\ inbound = <<>>
  /\ file = conf.areas
  /\ pc = "idle" /\ mem = None /\ queue = <<>> /\ pos = 0
  /\ told = None
  /\ asked = AskedBefore(file)
  /\ mine = {} /\ muddled = {}
  /\ faults = 0

\* What is known now goes before what was known.
Over(new, old) ==
  [name \in DOMAIN new \cup DOMAIN old |->
     IF name \in DOMAIN new THEN new[name] ELSE old[name]]

Message == conf.msg[queue[1][pos]]
Areas(lines) == [i \in DOMAIN lines |-> ReadArea(lines[i])]

-----------------------------------------------------------------------------
Arrive ==
  /\ coming # <<>>
  /\ coming' = Tail(coming)
  /\ inbound' = Append(inbound, Head(coming))
  /\ UNCHANGED <<conf, file, pc, mem, queue, pos, told, asked, mine, muddled, faults>>

\* main(): dir_open(), the locks, areasbbs_init().
Start ==
  /\ pc = "idle" /\ inbound # <<>>
  /\ pc' = "packet"
  /\ queue' = inbound
  /\ pos' = 1
  /\ mem' = Session(conf, Areas(file), told)
  /\ UNCHANGED <<conf, coming, inbound, file, told, asked, mine, muddled, faults>>

\* do_packet(), do_netmail(): areafix_do() does the commands in memory.
DoMessage ==
  /\ pc = "packet" /\ queue # <<>> /\ pos <= Len(queue[1])
  /\ mem' = Do(mem, Message)
  /\ pc' = "send"
  /\ UNCHANGED <<conf, coming, inbound, file, queue, pos, told, asked, mine, muddled, faults>>

\* strstr(): the digits of a are those b begins with, or ends with.
Begins(a, b) == a = b \/ (a > 0 /\ \E k \in 1..4 : b \div 10^k = a)
Ends(a, b)   == a = b \/ \E k \in 1..4 : 10^(k - 1) <= a /\ a < 10^k /\ b % 10^k = a

\* The text of an address is part of another one.
PartOf(t, h) ==
  LET Dotted(x) == x.zero \/ x.node.point # 0 IN
  /\ Ends(t.node.zone, h.node.zone) /\ t.node.net = h.node.net
  /\ IF Dotted(t) THEN /\ Dotted(h) /\ t.node.node = h.node.node
                       /\ Begins(t.node.point, h.node.point)
                  ELSE Begins(t.node.node, h.node.node)

\* send_request(): one message for each text of an address, in the order these
\* come first, with all requests for it; but none for a text that is part of one
\* that came before.
First(reqs, i) == Min({j \in DOMAIN reqs : reqs[j].to = reqs[i].to})

Sent(reqs) ==
  {i \in DOMAIN reqs : \A j \in 1..(First(reqs, i) - 1) : ~PartOf(reqs[i].to, reqs[j].to)}

\* The request for an area that goes out last.
LastSent(reqs, name) ==
  reqs[CHOOSE i \in Sent(reqs) : reqs[i].area = name
         /\ \A j \in Sent(reqs) : reqs[j].area = name =>
              \/ First(reqs, j) < First(reqs, i)
              \/ First(reqs, j) = First(reqs, i) /\ j <= i]

\* Requests for an area go out under two texts of its uplink's address, or one of
\* them under a text that is part of an earlier one.
Muddled(reqs, name) ==
  \E i, j \in DOMAIN reqs :
    /\ reqs[i].area = name /\ reqs[j].to # reqs[i].to
    /\ reqs[j].area = name \/ (j < i /\ PartOf(reqs[i].to, reqs[j].to))

Requested(reqs) == {reqs[i].area : i \in DOMAIN reqs}

\* A request that cannot be written is missing, and nobody notices.
Send ==
  /\ pc = "send"
  /\ \E lost \in SUBSET {mem.reqs[i].to : i \in Sent(mem.reqs)} :
       /\ IF lost = {} THEN NoFail ELSE Fail
       /\ asked' = Over([name \in {mem.reqs[i].area : i \in Sent(mem.reqs)} |->
                           IF \E i \in Sent(mem.reqs) :
                                mem.reqs[i].area = name /\ mem.reqs[i].to \in lost
                             THEN "?" ELSE LastSent(mem.reqs, name).sign], asked)
  /\ mine' = mine \cup Requested(mem.reqs)
  /\ muddled' = (muddled \ Requested(mem.reqs))
                  \cup {name \in Requested(mem.reqs) : Muddled(mem.reqs, name)}
  /\ mem' = [mem EXCEPT !.reqs = <<>>]
  /\ pc' = "reply"
  /\ UNCHANGED <<conf, coming, inbound, file, queue, pos, told>>

\* The answer goes to the node the commands were of at the end.
Reply ==
  /\ pc = "reply" /\ NoFail
  /\ mem' = [mem EXCEPT !.out = <<>>, !.rules = {}]
  /\ pos' = pos + 1
  /\ pc' = "packet"
  /\ UNCHANGED <<conf, coming, inbound, file, queue, told, asked, mine, muddled>>

\* The packet is done and unlinked.
EndPacket ==
  /\ pc = "packet" /\ queue # <<>> /\ pos > Len(queue[1])
  /\ inbound' = Tail(inbound)
  /\ queue' = Tail(queue)
  /\ pos' = 1
  /\ UNCHANGED <<conf, coming, file, pc, mem, told, asked, mine, muddled, faults>>

\* What a run that fails has said and asked for is worth nothing.
Void ==
  /\ told' = [x \in {y \in DOMAIN told : /\ y \in DOMAIN mem.told
                                         /\ mem.told[y] = told[y]} |-> told[x]]
  /\ asked' = Over([name \in mine |-> "?"], asked)
  /\ mine' = {} /\ mem' = None /\ queue' = <<>> /\ pos' = 0 /\ pc' = "idle"
  /\ UNCHANGED muddled

\* The answer cannot be written: the packet goes to bad, but the run goes on.
ReplyFails ==
  /\ pc = "reply" /\ Fail
  /\ inbound' = Tail(inbound)
  /\ queue' = Tail(queue)
  /\ pos' = 1
  /\ mem' = [mem EXCEPT !.out = <<>>, !.rules = {}]
  /\ pc' = "packet"
  /\ UNCHANGED <<conf, coming, file, told, asked, mine, muddled>>

\* The packet cannot be opened, or what comes next in it is not a message: it
\* goes to bad, and the run goes on.
ReadFails ==
  /\ pc = "packet" /\ queue # <<>> /\ Fail
  /\ inbound' = Tail(inbound)
  /\ queue' = Tail(queue)
  /\ pos' = 1
  /\ UNCHANGED <<conf, coming, file, pc, mem, told, asked, mine, muddled>>

\* The packet cannot be unlinked: it goes to bad, and the run ends at once.
UnlinkFails ==
  /\ pc = "packet" /\ queue # <<>> /\ pos > Len(queue[1]) /\ Fail
  /\ inbound' = Tail(inbound)
  /\ Void
  /\ UNCHANGED <<conf, coming, file>>

\* After a signal the packet is bad, and areas.bbs is not written.
Signal ==
  /\ pc = "reply" /\ Fail
  /\ inbound' = Tail(inbound)
  /\ Void
  /\ UNCHANGED <<conf, coming, file>>

\* Killed: the packet is there for the next run, from its first message.
Kill ==
  /\ pc # "idle" /\ Fail
  /\ Void
  /\ UNCHANGED <<conf, coming, inbound, file>>

\* areasbbs_rewrite(), if there is a change; links that are written as nothing
\* are gone.
Save ==
  /\ pc = "packet" /\ queue = <<>>
  /\ file' = IF mem.changed THEN [i \in DOMAIN mem.areas |-> WriteArea(mem.areas[i])]
                            ELSE file
  /\ told' = [x \in {y \in DOMAIN mem.told :
                       ~\E p \in ToSet(mem.areas) : p.name = y[2] /\ BehindPoint(p)}
                |-> mem.told[x]]
  /\ mine' = {} /\ mem' = None /\ pos' = 0 /\ pc' = "idle"
  /\ UNCHANGED <<conf, coming, inbound, queue, asked, muddled, faults>>

SaveFails ==
  /\ pc = "packet" /\ queue = <<>> /\ mem.changed /\ Fail
  /\ Void
  /\ UNCHANGED <<conf, coming, inbound, file>>

Next == \/ Arrive \/ Start \/ DoMessage \/ Send \/ Reply \/ EndPacket \/ Save
        \/ ReadFails \/ UnlinkFails \/ ReplyFails \/ Signal \/ Kill \/ SaveFails

Spec == Init /\ [][Next]_vars

-----------------------------------------------------------------------------
TypeOK ==
  /\ conf \in ToSet(Setups)
  /\ pc \in {"idle", "packet", "send", "reply"}
  /\ mem = None <=> pc = "idle"
  /\ faults \in 0..MaxFault
  /\ \A name \in DOMAIN asked : asked[name] \in {"+", "-", "?"}

Now == Areas(file)
In(name) == {p \in ToSet(Now) : p.name = name}

Reads(node, name)  == \E p \in In(name) : node \in ToSet(p.nodes)
Pauses(node, name) == \E p \in In(name) : node \in ToSet(p.passive)

Stands(node, name, what) ==
  CASE what \in {"subscribed", "active"} -> Reads(node, name) /\ ~Pauses(node, name)
    [] what = "again"      -> Reads(node, name)
    [] what = "off"        -> ~Reads(node, name) /\ ~Pauses(node, name)
    [] what = "passive"    -> Pauses(node, name)

\* The last answer a node has had about an area is true of areas.bbs as it is
\* read again: nothing that was said gets lost between the commands of a
\* message, several messages, nodes and packets of a run, and the file, unless
\* the run failed after it had answered.  One that was passive and subscribes
\* again is in the list of the area, but may be passive still (SubscribedActive).
AnswersTrue ==
  pc = "idle" => \A x \in DOMAIN told : Stands(x[1], x[2], told[x])

\* "Areas are also activated when subscribing them again": who was passive and
\* subscribes is passive no more.  The code does not keep it: cmd_sub() takes the
\* link off the passive list only where the area has to be asked for.
SubscribedActive ==
  pc = "idle" => \A x \in DOMAIN told : told[x] = "again" => ~Pauses(x[1], x[2])

\* What the uplink of an area was asked last goes with its state.
AskedFor(p) ==
  LET a == IF p.name \in DOMAIN asked THEN asked[p.name] ELSE "none" IN
  /\ IsState(p, {"W", "F"}) /\ ~IsState(p, {"U"}) => a \in {"+", "?"}
  /\ p.state # {} /\ p.state \subseteq {"U", "P"} => a \in {"-", "?"}

\* Whatever the commands for an area and for others were, an area that waits for
\* messages has been asked for at its uplink, and one that is given up has been
\* cancelled there, as far as the request could be written - unless, in the last
\* message that had requests for it, these got into each other's way under
\* different texts of an address.
AskedTrue ==
  pc = "idle" => \A p \in ToSet(Now) : p.name \notin muddled => AskedFor(p)

\* "not subscribed at uplink, request forwarded" (cmd_sub()): the same of every
\* area.  The code does not keep it: in one message that leaves the area and joins
\* it again, send_request() drops the request.
AskedAlways ==
  pc = "idle" => \A p \in ToSet(Now) : AskedFor(p)
=============================================================================
