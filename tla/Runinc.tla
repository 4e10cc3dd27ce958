------------------------------- MODULE Runinc -------------------------------
(***************************************************************************)
(* runinc, which cron starts again and again: it unpacks the archives of   *)
(* the inbound directory and runs ftntoss, ftnroute and ftnpack, one after *)
(* the other, until ftntoss has nothing left (toss/runinc.c).  Beside it   *)
(* run the mailer, which puts files into the inbound and takes them out of *)
(* the outbound, and ftnroute -p, which cron starts as well.               *)
(*                                                                         *)
(* ftntoss is seen here as Tosser shows it to be: it takes packets off the *)
(* inbound and leaves one packet per node and flavor in toss/toss.         *)
(***************************************************************************)
EXTENDS Router

VARIABLES
  files,    \* the files the mailer has not brought yet
  inb,      \* the inbound directory: the packets and archives by their names
  tmpu,     \* its directory tmpunpack
  bad,      \* its directory bad: the packets in each archive there
  sent,     \* how often the mailer has sent each message
  pc,       \* of runinc
  todo,     \* files unpack() has still to look at
  item,     \* the archive it has unpacked, if only in part
  pktflag,  \* pkt_flag: there are packets
  unpflag,  \* unpack_flag: an archive was unpacked
  ret,      \* what ftntoss returned
  killed,   \* messages do_remap() has dropped
  stranded  \* a run was cut short, and nothing has come since that brings
            \* runinc back to what that left behind

ivars == <<inb, tmpu, bad>>
own   == <<pc, todo, item, pktflag, unpflag, ret>>
vars  == <<rvars, files, ivars, sent, own, killed, stranded>>

\* A file of the mailer: [name, kind, ok, msgs] - a packet, or an archive with
\* packets, each a name and its messages.
File(f) == config.files[f]

\* What a configuration is: the outbound has a place for every node that mail
\* is for, or that the table sends it to, and no archive has the name of a
\* packet in one.
Sound(c) ==
  LET t       == ReadRouting(c.lines)
      Numbers == DOMAIN c.msg
      Grades  == {c.grade, "m"}
      Ways    == [from : {c.from}, to : c.nodes, grade : Grades, type : {Netmail},
                  flav : Flavors, move : BOOLEAN]
      Arcs    == {f \in DOMAIN c.files : c.files[f].kind = "arc"}
  IN /\ Numbers \subseteq Msg /\ IsFiniteSet(c.nodes)
     /\ \A m \in Numbers :
          LET to == Remap(Rewrite(c.msg[m], t), t) IN
          c.msg[m].flav \in Flavors /\ (Killed(to) \/ to.to \in c.nodes)
     /\ \A g \in Grades, f \in Flavors, to \in c.nodes :
          Route(Desc([grade |-> g, type |-> Netmail, flav |-> f], c.from, to), t, c.hubs)
            \in Ways
     /\ \A f \in DOMAIN c.files :
          LET x == c.files[f] IN
          \/ x.kind = "pkt" /\ x.msgs \in Seq(Numbers)
          \/ /\ x.kind = "arc" /\ IsFiniteSet(DOMAIN x.msgs)
             /\ \A n \in DOMAIN x.msgs : x.msgs[n] \in Seq(Numbers)
     /\ \A f, g \in Arcs : c.files[f].name \notin DOMAIN c.files[g].msgs

ASSUME ConfigsAssumption == \A i \in DOMAIN Configs : Sound(Configs[i])
NoMail  == <<>>

\* do_netmail() of ftntoss, of every message: do_rewrite() and do_remap().
Mails == [m \in DOMAIN config.msg |-> Remap(Rewrite(config.msg[m], table), table)]

Init ==
  /\ number \in DOMAIN Configs
  /\ table = ReadRouting(config.lines)
  /\ mail = Mails
  /\ files = DOMAIN config.files
  /\ outb = [k \in [to : config.nodes, flav : Flavors] |-> <<>>]
  /\ bsy = [n \in config.nodes |-> NOBODY]
  /\ toss = <<>> /\ route = <<>>
  /\ rt = [p \in Caller |-> Idle]
  /\ faults = 0 /\ repacks = 0
  /\ gone = {} /\ cut = {}
  /\ inb = NoMail /\ tmpu = NoMail /\ bad = NoMail
  /\ sent = [m \in Msg |-> 0]
  /\ pc = "idle" /\ todo = {} /\ item = <<>>
  /\ pktflag = FALSE /\ unpflag = FALSE /\ ret = "none"
  /\ killed = {} /\ stranded = FALSE

\* The messages of packets by name.
Held(dir) == UNION {Elems(dir[n]) : n \in DOMAIN dir}
InBad     == UNION {Held(bad[n]) : n \in DOMAIN bad}
Packets   == [n \in {x \in DOMAIN inb : inb[x].kind = "pkt"} |-> inb[n].msgs]
Archives  == {n \in DOMAIN inb : inb[n].kind # "pkt"}
Less(f, names) == [n \in DOMAIN f \ names |-> f[n]]
Over(f, g) == [n \in DOMAIN f \cup DOMAIN g |-> IF n \in DOMAIN f THEN f[n] ELSE g[n]]
\* What rename() makes of the files of tmpunpack.
Moved == Over([n \in DOMAIN tmpu |-> [kind |-> "pkt", ok |-> TRUE, name |-> n,
                                      msgs |-> tmpu[n]]], inb)

-----------------------------------------------------------------------------
\* The mailer brings a file; one of the same name gets another from it.
Arrive(f) ==
  /\ f \in files
  /\ File(f).name \notin DOMAIN inb
  /\ files' = files \ {f}
  /\ inb' = Over([n \in {File(f).name} |-> File(f)], inb)
  /\ stranded' = (stranded /\ ~(File(f).kind = "arc" /\ File(f).ok))
  /\ UNCHANGED <<rvars, tmpu, bad, sent, own, killed>>

\* The mailer calls a node, if that is not busy.
Send(k) ==
  /\ outb[k] # <<>> /\ bsy[k.to] = NOBODY
  /\ outb' = [outb EXCEPT ![k] = <<>>]
  /\ sent' = [m \in Msg |-> sent[m] + Cardinality({i \in DOMAIN outb[k] : outb[k][i] = m})]
  /\ UNCHANGED <<given, toss, route, bsy, rt, faults, repacks, gone, cut, files,
                 ivars, own, killed, stranded>>

-----------------------------------------------------------------------------
\* main(), do_dir(): lock_program(), and unpack() reads the directory.
Start ==
  /\ pc = "idle"
  /\ pc' = "unpack"
  /\ todo' = DOMAIN inb
  /\ pktflag' = FALSE /\ unpflag' = FALSE
  /\ UNCHANGED <<rvars, files, ivars, sent, item, ret, killed, stranded>>

\* unpack(): a packet is noted; of an archive that fails, some packets are in
\* tmpunpack, in place of what had their names there.
Look ==
  /\ pc = "unpack"
  /\ \E n \in todo :
       /\ todo' = todo \ {n}
       /\ \/ /\ inb[n].kind = "pkt" /\ pktflag' = TRUE
             /\ UNCHANGED <<tmpu, item, pc, gone>>
          \/ /\ inb[n].kind # "pkt"
             /\ \E out \in IF inb[n].ok THEN {inb[n].msgs}
                           ELSE {Less(inb[n].msgs, x) : x \in SUBSET DOMAIN inb[n].msgs} :
                  /\ tmpu' = Over(out, tmpu)
                  /\ gone' = gone \cup UNION {Elems(tmpu[x]) : x \in
                               {y \in DOMAIN tmpu \cap DOMAIN out : tmpu[y] # out[y]}}
             /\ item' = <<n>> /\ pc' = "unarc"
             /\ UNCHANGED pktflag
  /\ UNCHANGED <<given, spool, rt, faults, repacks, cut, files, inb, bad, sent,
                 unpflag, ret, killed, stranded>>

\* The archive is unlinked.
Unpacked ==
  /\ pc = "unarc" /\ inb[item[1]].ok
  /\ inb' = Less(inb, Elems(item))
  /\ item' = <<>> /\ unpflag' = TRUE /\ pc' = "unpack"
  /\ UNCHANGED <<rvars, files, tmpu, bad, sent, todo, pktflag, ret, killed, stranded>>

\* It goes to bad, in place of one that had its name there; what it has left in
\* tmpunpack stays.
Unfit ==
  /\ pc = "unarc" /\ ~inb[item[1]].ok
  /\ bad' = Over([n \in Elems(item) |-> inb[n].msgs], bad)
  /\ gone' = gone \cup UNION {Held(bad[n]) : n \in DOMAIN bad \cap Elems(item)}
  /\ inb' = Less(inb, Elems(item))
  /\ item' = <<>> /\ pc' = "unpack"
  /\ UNCHANGED <<given, spool, rt, faults, repacks, cut, files, tmpu, sent, todo,
                 pktflag, unpflag, ret, killed, stranded>>

\* Mutant: the packets are looked for only if the directory held one before.
UnpackEndNoFlag ==
  /\ pc = "unpack" /\ todo = {}
  /\ inb' = Moved
  /\ tmpu' = NoMail
  /\ pc' = IF pktflag THEN "toss" ELSE "idle"
  /\ UNCHANGED <<rvars, files, bad, sent, todo, item, pktflag, unpflag, ret,
                 killed, stranded>>

\* Mutant: tmpunpack is emptied although nothing was moved out of it.
UnpackEndClears ==
  /\ pc = "unpack" /\ todo = {} /\ ~unpflag
  /\ tmpu' = NoMail
  /\ pc' = IF pktflag THEN "toss" ELSE "idle"
  /\ UNCHANGED <<rvars, files, inb, bad, sent, todo, item, pktflag, unpflag, ret,
                 killed, stranded>>

\* After an archive, what is in tmpunpack is renamed into the inbound, over
\* whatever has that name there; ftntoss runs if there are packets.
UnpackEnd ==
  /\ pc = "unpack" /\ todo = {}
  /\ IF unpflag
       THEN /\ inb' = Moved
            /\ tmpu' = NoMail
            /\ gone' = gone \cup UNION {Elems(Packets[n]) :
                                         n \in DOMAIN tmpu \cap DOMAIN Packets}
       ELSE UNCHANGED <<inb, tmpu, gone>>
  /\ pktflag' = (pktflag \/ unpflag)
  /\ pc' = IF pktflag' THEN "toss" ELSE "idle"
  /\ UNCHANGED <<given, spool, rt, faults, repacks, cut, files, bad, sent, todo,
                 item, unpflag, ret, killed, stranded>>

-----------------------------------------------------------------------------
Flav(m) == IF config.sflag THEN "n" ELSE config.msg[m].flav

\* One output packet for each node and flavor, in the order of their first
\* messages.
Key(m) == [grade |-> config.grade, type |-> Netmail, flav |-> Flav(m), to |-> mail[m].to]

AddTo(pkts, m) ==
  LET old == {i \in DOMAIN pkts : Same(pkts[i], Key(m))} IN
  IF Killed(mail[m]) THEN pkts
  ELSE IF old = {} THEN Append(pkts, Packet(Key(m), Key(m).to, <<m>>))
  ELSE [pkts EXCEPT ![Least(old)].msgs = Append(@, m)]

Tossed(ms) ==
  LET Made[i \in 0..Len(ms)] == IF i = 0 THEN <<>> ELSE AddTo(Made[i - 1], ms[i])
  IN Made[Len(ms)]

\* A run of ftntoss over the packets named, in some order.
Take(names) ==
  \E s \in {f \in [1..Cardinality(names) -> names] : Elems(f) = names} :
    LET All[i \in 0..Len(s)] == IF i = 0 THEN <<>> ELSE All[i - 1] \o Packets[s[i]]
    IN \E ms \in {All[Len(s)]} :
       /\ toss' = toss \o Tossed(ms)
       /\ inb' = Less(inb, names)
       /\ killed' = killed \cup {m \in Elems(ms) : Killed(mail[m])}

\* ftntoss -l -m -x: it has done everything; has more to do; was locked out.
Toss ==
  /\ pc = "toss"
  /\ \/ /\ ret' = "ok"
        /\ Take(DOMAIN Packets)
     \/ /\ ret' = "more"
        /\ Cardinality(DOMAIN Packets) > config.maxpkt
        /\ \E names \in SUBSET DOMAIN Packets :
             Cardinality(names) = config.maxpkt /\ Take(names)
  /\ pc' = "route"
  /\ RouteStart("runinc", Len(toss'))
  /\ UNCHANGED <<given, route, outb, bsy, faults, repacks, gone, cut, files, tmpu,
                 bad, sent, todo, item, pktflag, unpflag, stranded>>

\* It is busy (512), or was killed and counts as having more to do (11, a
\* segmentation fault), or is simply run again (2, an interrupt), or has
\* failed and ends runinc.
TossFails ==
  /\ pc = "toss" /\ Fail
  /\ \E names \in SUBSET DOMAIN Packets : Take(names)
  /\ \/ /\ ret' = "more" /\ pc' = "route"
        /\ RouteStart("runinc", Len(toss'))
        /\ UNCHANGED stranded
     \/ UNCHANGED <<ret, pc, rt, stranded>>
     \/ /\ pc' = "idle" /\ stranded' = TRUE
        /\ UNCHANGED <<ret, rt>>
  /\ UNCHANGED <<given, route, outb, bsy, repacks, gone, cut, files, tmpu, bad,
                 sent, todo, item, pktflag, unpflag>>

\* ftnroute of runinc has ended: an error ends runinc, but dying of a closed
\* stream (11) does not.
Routed ==
  /\ pc = "route" /\ rt["runinc"].pc \in {"done", "died"}
  /\ LET err == rt["runinc"].err /\ rt["runinc"].pc = "done" IN
     /\ pc' = IF err THEN "idle" ELSE "pack"
     /\ Set("runinc", IF err THEN Idle ELSE [Idle EXCEPT !.pc = "pack"])
     /\ stranded' = (stranded \/ err)
  /\ UNCHANGED <<given, spool, faults, repacks, gone, cut, files, ivars, sent, todo,
                 item, pktflag, unpflag, ret, killed>>

\* ftnpack has ended: again from ftntoss, unless that had done everything.
Packed ==
  /\ pc = "pack" /\ Packable("runinc", config.grade) = {}
  /\ pc' = IF ret = "ok" THEN "idle" ELSE "toss"
  /\ Set("runinc", Idle)
  /\ UNCHANGED <<given, spool, faults, repacks, gone, cut, files, ivars, sent, todo,
                 item, pktflag, unpflag, ret, killed, stranded>>

\* A script, or ftnpack, fails; or everything that runs is killed.
Kill ==
  /\ pc # "idle" /\ Fail
  /\ RouteKill("runinc")
  /\ pc' = "idle" /\ stranded' = TRUE
  /\ UNCHANGED <<given, toss, route, outb, repacks, cut, files, ivars, sent, todo,
                 item, pktflag, unpflag, ret, killed>>

-----------------------------------------------------------------------------
\* ftnroute -p.
RepackStart ==
  /\ config.repack /\ rt["repack"].pc = "idle"
  /\ RouteStart("repack", 0)
  /\ UNCHANGED <<given, spool, faults, repacks, gone, cut, files, ivars, sent, own,
                 killed, stranded>>

\* It runs ftnpack over all of toss/route, whatever the outcome.
RepackPack ==
  /\ rt["repack"].pc = "done"
  /\ Set("repack", [rt["repack"] EXCEPT !.pc = "pack"])
  /\ UNCHANGED <<given, spool, faults, repacks, gone, cut, files, ivars, sent, own,
                 killed, stranded>>

\* ftnroute -p ends, by itself or of a closed stream; its bsy files stay.
RepackDone ==
  /\ \/ rt["repack"].pc = "died"
     \/ rt["repack"].pc = "pack" /\ Packable("repack", "") = {}
  /\ RouteKill("repack")
  /\ UNCHANGED <<given, toss, route, outb, faults, repacks, cut, files, ivars, sent,
                 own, killed, stranded>>

RepackKill ==
  /\ rt["repack"].pc # "idle" /\ Fail
  /\ RouteKill("repack")
  /\ UNCHANGED <<given, toss, route, outb, repacks, cut, files, ivars, sent, own,
                 killed, stranded>>

RouteStep(p) ==
  /\ RouteNext(p) \/ RouteOpen(p) \/ Copy(p) \/ CopyDirect(p) \/ CopyEnd(p)
     \/ RouteClose(p) \/ Pack(p, config.grade)
  /\ UNCHANGED <<files, ivars, sent, own, killed, stranded>>

RepackStep ==
  /\ Repack \/ RepackEnd
  /\ UNCHANGED <<files, ivars, sent, own, killed, stranded>>

RunincNext == \/ Start \/ Look \/ Unpacked \/ Unfit \/ UnpackEnd
              \/ Toss \/ Routed \/ Packed \/ RouteStep("runinc")
RepackNext == \/ RepackStart \/ RepackStep \/ RouteStep("repack")
              \/ RepackPack \/ RepackDone
MailerSends == \E k \in DOMAIN outb : Send(k)
MailerBrings == \E f \in files : Arrive(f)

Next == \/ RunincNext \/ TossFails \/ Kill
        \/ RepackNext \/ RepackKill
        \/ MailerSends \/ MailerBrings

\* runinc and its children go on and cron starts it again; so does ftnroute
\* -p, which goes through the outbound once; the mailer calls every node that
\* is not busy often enough, and brings everything it has.
Spec == /\ Init /\ [][Next]_vars
        /\ WF_vars(RunincNext) /\ WF_vars(RepackNext)
        /\ WF_vars(MailerBrings) /\ SF_vars(MailerSends)

-----------------------------------------------------------------------------
\* A state is made of messages in files, and of processes.
TypeOK ==
  /\ gone \subseteq Msg /\ cut \subseteq Msg /\ killed \subseteq Msg /\ InBad \subseteq Msg
  /\ pc \in {"idle", "unpack", "unarc", "toss", "route", "pack"}
  /\ faults \in 0..MaxFault /\ repacks \in 0..MaxRepack
  /\ \A p \in Caller : \A i \in DOMAIN rt[p].ent : Elems(rt[p].ent[i].msgs) \subseteq Msg

\* How often a message is in what has left toss/toss.
Count(m, s) == Cardinality({i \in DOMAIN s : s[i] = m})
Copies(m) ==
  LET InRoute == {i \in DOMAIN route : m \in Elems(route[i].msgs)}
      InOut   == {k \in DOMAIN outb : m \in Elems(outb[k])}
  IN sent[m] + Cardinality(InRoute) + Cardinality(InOut)

Everywhere ==
  LET In(pkts) == UNION {Elems(pkts[i].msgs) : i \in DOMAIN pkts}
      Spool == In(toss) \cup UNION {In(rt[p].ent) : p \in Caller}
      Inbound == Held(tmpu) \cup Held(Packets)
                   \cup UNION {Held(inb[n].msgs) : n \in Archives}
  IN Spool \cup Inbound \cup InBad \cup killed \cup {m \in Msg : Copies(m) > 0}

Brought == UNION {IF File(f).kind = "pkt" THEN Elems(File(f).msgs)
                  ELSE Held(File(f).msgs) : f \in DOMAIN config.files \ files}

\* However the programs of a run are cut short, a message the mailer has
\* brought is in some file of the inbound, the spool or the outbound, or has
\* been sent.  The exceptions are those the code has: a packet or an archive
\* put over another one, and output packets of ftnroute not closed when it died.
NothingLost == Brought \subseteq Everywhere \cup gone

\* A message leaves toss/toss once: neither a restarted ftnroute nor one that
\* takes packets back makes a second copy of it, unless it failed or met a
\* direct message in the middle of a packet it had copied part of.
CopiedOnce == \A m \in Msg \ cut : Copies(m) <= 1

\* What waits in the outbound waits there for the node the ROUTING file sends
\* it to, whatever has been done to it; a direct message waits for its own.
WayKept == \A k \in DOMAIN outb : \A m \in Elems(outb[k]) : k \in config.way[m]

\* Everything is sent in the end.  What a failed run has left in the spool
\* waits for the next archive: without a new file runinc does not look.
AllSent == <>[](stranded \/ \A m \in Brought \ gone : sent[m] > 0 \/ m \in InBad \cup killed)
=============================================================================
