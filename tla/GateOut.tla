------------------------------- MODULE GateOut -------------------------------
(***************************************************************************)
(* The gateway from RFC to FTN.  rfc2ftn takes the articles of a list file *)
(* of the news server, or one mail with its recipients, and writes for     *)
(* each newsgroup or recipient an FTN message, split into parts where it   *)
(* is too long, to an output packet that a rename publishes.  The position *)
(* in the list file is saved now and then, for a run that was interrupted. *)
(***************************************************************************)
EXTENDS GateText, PacketFormat

CONSTANTS
  PosInterval, \* bound: POS_INTERVAL, 50 in the code
  ByteTexts    \* bound: texts that are written to packets and read again

(* A job is [kind |-> "list", arts] or [kind |-> "mail", arts] with one     *)
(* article whose targets are the recipients.  An article is [id, refs,     *)
(* from, reply, comment_to, subject, date, flags, hops, receipt, control,  *)
(* there, size, targets, lines, author, sender, ways]; what is missing is  *)
(* NONE.  A line is one of GateText with its length n; a target is a       *)
(* newsgroup or a recipient.  The author, the sender and the ways to the   *)
(* recipients are what the addresses are translated to, the same each time *)
(* they are looked at.                                                     *)

VARIABLES
  oopt, jobs,    \* options; what there is to do
  opc, jn,       \* rfc2ftn: place, current job
  off, nmsg,     \* next line of the list file; articles read
  pos,           \* the position file, or NONE
  todo,          \* targets of the article that are still to do
  ngrp,          \* ngrp_pat_list: what the sender may post to, or NONE
  cz, lz,        \* cf_zone(), last_zone
  opkt, ocount,  \* the open packet, the messages in it
  outp,          \* number -> [zone, ext, items]
  given          \* [job, article, target] -> what became of it, or NONE

outown  == <<oopt, jobs, opc, jn, off, nmsg, pos, todo, ngrp, cz, lz, opkt,
             ocount, outp, given>>
outvars == <<outown, db, faults>>

Targets == UNION {UNION {{<<j, i, t>> : t \in DOMAIN jobs[j].arts[i].targets} :
                           i \in DOMAIN jobs[j].arts} : j \in DOMAIN jobs}

Job == jobs[jn]
Art == Job.arts[off - 1] \* the article just read
At  == <<jn, off - 1, Head(todo)>>
Target == Art.targets[Head(todo)]
IsNews == Job.kind = "list"

(************************ what becomes of a message ************************)

(* areas_lookup; areasbbs_lookup gives the zone of a known area            *)
Area(group) ==
  LET hit == {a \in oopt.areas : a.group = group}
  IN  IF hit = {} THEN NONE ELSE CHOOSE a \in hit : TRUE

(* _rfc_sender: Reply-To counts as the sender, unless it says less than    *)
(* From.                                                                   *)
SaysLess(reply, from) == reply.real = <<>> /\ Eq(reply.user, from.user) /\ reply.addr = from.addr
RfcSender(a) ==
  CASE a.from = NONE -> IF a.reply = NONE THEN oopt.self ELSE a.reply
    [] a.from # NONE /\ (\/ a.reply = NONE \/ oopt.no_reply_to
                        \/ SaysLess(a.reply, a.from)) -> a.from
    [] OTHER -> a.reply

(* acl_lookup: the last entry for the sender; list_init leaves the list as *)
(* it is when there is none.                                               *)
AclOf(from) ==
  LET is == {i \in DOMAIN oopt.acl : [from EXCEPT !.real = <<>>] \in oopt.acl[i].from}
  IN  IF is = {} THEN NONE
      ELSE oopt.acl[CHOOSE i \in is : \A j \in is : j <= i].list
Now(from) == IF AclOf(from) = NONE THEN ngrp ELSE AclOf(from)

(* list_match: the last pattern that fits decides                          *)
Permits(list, x, what) ==
  list # NONE /\ Walk(LAMBDA ok, p : IF x \in p[what] THEN ~p.neg ELSE ok, FALSE, list)

Crosspost(a) == Len(a.targets) > 1
ListedDownlinks(area) == area.listed /\ area.downlinks > 0
Excluded(a, area) == \* the checks before and after that of the sender
  \/ oopt.check_areas_bbs /\ ~ListedDownlinks(area)
  \/ Crosspost(a) /\ area.noxpost
  \/ Crosspost(a) /\ area.localxpost /\ ~(IsLocal(a.author.addr) \/ a.author.addr \in oopt.local)
TooBig(a, limit) == limit > 0 /\ a.size > limit

(* rfc_parse: why there is no way to the recipient; users of the own       *)
(* domain reach hosts that are down.                                       *)
NodeOf(r) == InetToFtn(oopt.hosts, r.addr)
NoHost(a, n) ==
  LET h == HostOf(oopt.hosts, n)
  IN  IF n = NONE THEN oopt.gateway = NONE
      ELSE \/ h # NONE /\ h.down /\ a.from # NONE /\ ~IsDomain(a.from.addr)
           \/ h = NONE /\ oopt.restricted
           \/ ~ZoneServed(n.zone)

(* mail_receiver: name and node the message is addressed to                *)
UUCP == <<85, 85, 67, 80>>
All  == <<65, 108, 108>>
Sysop == <<83, 121, 115, 111, 112>>
Postmaster == <<112, 111, 115, 116, 109, 97, 115, 116, 101, 114>>
Fitting(name) == Cut(name, MaxName - 1)
ToName(al, name, n) ==
  IF al # NONE /\ al.dom = NONE THEN [name |-> Fitting(al.full), node |-> al.node]
  ELSE [name |-> IF Eq(name, Postmaster) THEN Sysop ELSE name, node |-> n]
ToNode(name, n) == ToName(AliasLookup(oopt.aliases, n, name), name, n)
MailReceiver(r, n) ==
  IF n = NONE THEN ToNode(UUCP, oopt.gateway) ELSE ToNode(Fitting(RfcName(r)), n)
Way(a, r, n) == [ftn |-> n, nohost |-> NoHost(a, n), to |-> MailReceiver(r, n)]
NewsReceiver(a) == \* a single name is a real name
  LET to == a.comment_to
  IN  [name |-> CASE to = NONE -> All
                  [] to # NONE /\ to.real = <<>> /\ to.addr = <<>> -> Fitting(Unquoted(to.user))
                  [] OTHER -> Fitting(RfcName(to)),
       node |-> oopt.uplink]

(* mail_sender: the name, and the address where the sender has an alias    *)
MailSender(rfc) ==
  LET byname == AliasLookup(oopt.aliases, oopt.addr, rfc.user)
      al   == IF byname # NONE /\ byname.dom = NONE THEN byname
              ELSE AliasUserdom(oopt.aliases, rfc)
      name == IF oopt.force_addr THEN rfc.user \o <<AT>> \o Site.spelled[rfc.addr] ELSE RfcName(rfc)
  IN  IF al # NONE
      THEN [name |-> Fitting(IF al.full = Star THEN rfc.real ELSE al.full),
            node |-> al.node, alias |-> al]
      ELSE [name |-> Fitting(name), node |-> oopt.addr, alias |-> NONE]

Translated(a, kind) ==
  [a EXCEPT !.author = RfcSender(a), !.sender = MailSender(RfcSender(a)),
            !.ways = IF kind = "list" THEN <<>>
                     ELSE [i \in DOMAIN a.targets |->
                             Way(a, a.targets[i], NodeOf(a.targets[i]))]]

OutInit(output) ==
  /\ oopt = output.opt
  /\ jobs = [j \in DOMAIN output.jobs |-> [output.jobs[j] EXCEPT !.arts =
               [i \in DOMAIN @ |-> Translated(@[i], output.jobs[j].kind)]]]
  /\ opc = "idle" /\ jn = 1 /\ off = 1 /\ nmsg = 0 /\ pos = NONE /\ todo = <<>>
  /\ ngrp = NONE /\ cz = NONE /\ lz = NONE /\ opkt = NONE /\ ocount = 0
  /\ outp = <<>> /\ given = [k \in Targets |-> NONE]

Verdict(a, i, list) ==
  IF IsNews
  THEN LET t    == a.targets[i]
           area == Area(t)
       IN  CASE a.control \/ area = NONE -> "none"
             [] ~a.control /\ area # NONE /\ Excluded(a, area) -> "excluded"
             [] OTHER -> IF ~Permits(list, t, "groups") THEN "denied"
                         ELSE IF TooBig(a, area.limit) THEN "big" ELSE "send"
  ELSE IF a.ways[i].nohost THEN "nohost"
  ELSE IF TooBig(a, oopt.limit) THEN "big"
  ELSE IF ~Permits(list, a.ways[i].to.node, "nodes") THEN "denied" ELSE "send"

(****************************** the FTN message ****************************)

(* How many parts there will be, and the parts as they are written         *)
CountFull(lines, max) == \* mutant: a part that is just full counts as too long
  Walk(LAMBDA s, l : IF s.size + l.n >= max
                         THEN [parts |-> s.parts + 1, size |-> 0]
                         ELSE [s EXCEPT !.size = @ + l.n],
           [parts |-> 1, size |-> 0], lines).parts
Count(lines, max) ==
  Walk(LAMBDA s, l : IF s.size + l.n > max
                         THEN [parts |-> s.parts + 1, size |-> 0]
                         ELSE [s EXCEPT !.size = @ + l.n],
           [parts |-> 1, size |-> 0], lines).parts
PartsTotal(lines, max) == IF max = 0 THEN 1 ELSE Count(lines, max)
Parts(lines, max, total) ==
  Walk(LAMBDA s, l :
             IF total > 1 /\ s.size + l.n > max
             THEN [done |-> Append(s.done, Append(s.cur, l)), cur |-> <<>>, size |-> 0]
             ELSE [s EXCEPT !.cur = Append(@, l), !.size = @ + l.n],
           [done |-> <<>>, cur |-> <<>>, size |-> 0], lines)
PartsOf(lines, max) ==
  LET total == PartsTotal(lines, max)
      ps == Parts(lines, max, total)
  IN  Append(ps.done, ps.cur)

(* Lines that look like control information are made harmless; a tear line *)
(* only when a blank follows the dashes.                                   *)
Neutral(l) == IF l.c \in {"tear", "origin", "seenby"} /\ l.v # "bare"
              THEN [l EXCEPT !.c = "text"] ELSE l

Ln(c, n, v) == [c |-> c, n |-> n, v |-> v]
OwnMsgid == [k |-> "ftn", addr |-> oopt.addr, serial |-> <<"seq">>]
FromNode(a, area) == IF area = NONE THEN a.sender.node ELSE oopt.addr
Msgid(a, area, part, of) == \* the address of the sender stands before all but the Gatebau form
  IF a.id = NONE THEN OwnMsgid
  ELSE LET id == RfcToFido(a.id, area, part, of > 1, oopt.style)
       IN  IF id = NONE \/ id.k = "rfc" THEN id
           ELSE [k |-> "ftn", addr |-> FromNode(a, area),
                 serial |-> IF id.k = "crc" THEN id.serial ELSE <<id>>]
Reply(a, area) ==
  IF a.refs = NONE THEN NONE ELSE RfcToFido(a.refs, area, 0, FALSE, "rfc")
(* X-Flags: mail only from those that the policy allows; the flags f, m    *)
(* and n of news are looked at whatever the policy is.                     *)
Trusted(a) == \/ oopt.x_flags_policy = 2
              \/ oopt.x_flags_policy = 1 /\ a.from # NONE /\ IsLocal(a.from.addr) /\ a.hops <= 1
XFlags(a, area) == IF area # NONE \/ Trusted(a) THEN a.flags ELSE {}
Untold(a, area) == \/ "n" \in XFlags(a, area)
                   \/ a.sender.alias # NONE /\ oopt.no_fsc_0035_if_alias
FlagBit == [p |-> 1, c |-> 2, f |-> 16, h |-> 512, d |-> 1024, r |-> 4096, a |-> 16384]
Attr(a, area) ==
  IF area # NONE THEN 0
  ELSE MapThenSumSet(LAMBDA l : FlagBit[l],
         {"p"} \cup (XFlags(a, area) \cap DOMAIN FlagBit) \cup (IF a.receipt THEN {"r"} ELSE {}))

(* pkt_put_msg_hdr: where a netmail comes from and goes to                 *)
Boss(n) == [n EXCEPT !.point = 0]
PointLine(name, n) == IF n.point > 0 THEN <<Ln("kludge", name, n.point)>> ELSE <<>>
AddressLines(from, to) ==
  <<Ln("kludge", "INTL", <<Boss(to), Boss(from)>>)>> \o PointLine("FMPT", from) \o PointLine("TOPT", to)
Kludges(a, area, part, of) ==
  SelectSeq(<<Ln("kludge", "MSGID", Msgid(a, area, part, of)),
              Ln("kludge", "REPLY", Reply(a, area)),
              Ln("kludge", "REPLYADDR", IF Untold(a, area) THEN NONE ELSE "rfc"),
              Ln("kludge", "CHRS", 2)>>,
            LAMBDA l : l.v # NONE)
TextHead(a, t, area) == \* the header lines at the top of the text
  LET to   == IF area = NONE /\ oopt.gateway # NONE /\ a.ways[t].ftn = NONE
              THEN <<Ln("rfc", "To", a.targets[t])>> ELSE <<>>
      from == IF oopt.no_from_line \/ Untold(a, area) THEN <<>>
              ELSE SelectSeq(<<Ln("rfc", "From", a.from), Ln("rfc", "Reply-To", a.reply),
                               Ln("blank", "", "")>>, LAMBDA l : l.v # NONE)
  IN  IF to # <<>> /\ from = <<>> THEN Append(to, Ln("blank", "", "")) ELSE to \o from
SplitKludge(part, of) ==
  IF of = 1 THEN <<>> ELSE <<Ln("kludge", "SPLIT", <<part, of>>)>>
Foot(area) == IF area # NONE THEN <<Ln("tear", "", "FIDOGATE"), Ln("origin", "", oopt.addr),
                                     Ln("seenby", "", "s"), Ln("path", "", "p")>>
              ELSE <<Ln("tear", "", "FIDOGATE"), Ln("via", "", "v")>>
Whither(a, t, area) ==
  IF area # NONE THEN <<Ln("area", "", area)>>
  ELSE AddressLines(FromNode(a, area), a.ways[t].to.node)
Message(a, t, area, part, of, ls) ==
  Whither(a, t, area) \o Kludges(a, area, part - 1, of) \o TextHead(a, t, area) \o SplitKludge(part, of)
  \o [i \in DOMAIN ls |-> Neutral(ls[i])] \o Foot(area)

MaxSize(area) == IF area = NONE THEN oopt.maxsize ELSE area.maxsize
AreaName(area) == IF area = NONE THEN NONE ELSE area.area

(* An item of a packet is [key, part, of]: a job, an article, a target     *)
ArticleOf(x) == jobs[x.key[1]].arts[x.key[2]]
TargetOf(x)  == ArticleOf(x).targets[x.key[3]]
AreaOfItem(x) == IF jobs[x.key[1]].kind = "list" THEN Area(TargetOf(x)) ELSE NONE
MsgidOf(x) == Msgid(ArticleOf(x), AreaName(AreaOfItem(x)), x.part - 1, x.of)
TextPart(x) == PartsOf(ArticleOf(x).lines, MaxSize(AreaOfItem(x)))[x.part]
Sent(x) == Message(ArticleOf(x), x.key[3], AreaName(AreaOfItem(x)), x.part, x.of, TextPart(x))

(* The header of the message, and that of its packet                       *)
SubjectOf(x) ==
  (IF x.part > 1 THEN <<48, 48 + x.part, 58, SPACE>> ELSE <<>>) \o ArticleOf(x).subject
HeaderOf(x) ==
  LET a    == ArticleOf(x)
      area == AreaName(AreaOfItem(x))
      to   == IF area = NONE THEN a.ways[x.key[3]].to ELSE NewsReceiver(a)
  IN  [from |-> FromNode(a, area), to |-> to.node, attr |-> Attr(a, area), cost |-> 0, date |-> a.date,
       name_to |-> to.name, name_from |-> a.sender.name, subject |-> SubjectOf(x)]
PktHeader == [from |-> oopt.addr, to |-> oopt.uplink, time |-> oopt.time,
              passwd |-> Cut(oopt.passwd, MaxPasswd)]

(* What the conversion of the Message-ID and of the reference leaves in    *)
(* the database                                                            *)
Crc(id) == id # NONE /\ id.k \notin {"NOMSGID", "hex", "MSGID"}
RememberedNext(a, area) == \* mutant: the parts are counted from one
  IF area = NONE \/ ~Crc(a.id) THEN {}
  ELSE {[serial |-> Serial(a.id, area.area, i), rfc |-> a.id] :
          i \in 1..Len(PartsOf(a.lines, MaxSize(area)))}
Remembered(a, area) ==
  IF oopt.no_dbc \/ oopt.style = "rfc" \/ area = NONE THEN {}
  ELSE LET n == Len(PartsOf(a.lines, MaxSize(area)))
       IN  {[serial |-> Serial(a.id, area.area, i - 1), rfc |-> a.id] :
              i \in IF Crc(a.id) THEN 1..n ELSE {}} \cup
           {[serial |-> Serial(a.refs, area.area, 0), rfc |-> a.refs] :
              i \in IF Crc(a.refs) THEN {0} ELSE {}}

(********************************* rfc2ftn *********************************)

OutBegin == \* main: the list is read from the saved position
  /\ opc = "idle" /\ jn <= Len(jobs)
  /\ off' = IF pos = NONE THEN 1 ELSE pos
  /\ nmsg' = 0 /\ todo' = <<>> /\ opc' = IF IsNews THEN "list" ELSE "mail"
  /\ ngrp' = NONE /\ lz' = NONE /\ opkt' = NONE /\ ocount' = 0
  /\ UNCHANGED <<oopt, jobs, jn, pos, cz, outp, given, db, faults>>

PositionAfter == off + 1 \* mutant: the position behind the line to be read
Position == off
Saves == IsNews /\ nmsg % PosInterval = 0
ReadArticle ==
  /\ opc \in {"list", "mail"} /\ off <= Len(Job.arts)
  /\ pos' = IF Saves THEN Position ELSE pos
  /\ off' = off + 1
  /\ IF Job.arts[off].there
     THEN /\ todo' = [t \in 1..Len(Job.arts[off].targets) |-> t]
          /\ nmsg' = nmsg + 1 /\ opc' = "send"
     ELSE UNCHANGED <<todo, nmsg, opc>>
  /\ UNCHANGED <<oopt, jobs, jn, ngrp, cz, lz, opkt, ocount, outp, given, db, faults>>

Sending == opc = "send" /\ todo # <<>>
TargetArea == IF IsNews THEN Area(Target) ELSE NONE
List == Now(Art.author)
V == Verdict(Art, Head(todo), List)
WayTo == Art.ways[Head(todo)]
(* The sender's list is looked up for a group that has an area, and for a  *)
(* recipient that can be reached.                                          *)
Looks == IF IsNews THEN ~Art.control /\ TargetArea # NONE
         ELSE ~WayTo.nohost /\ ~TooBig(Art, oopt.limit)
ZoneNow == IF IsNews THEN IF Looks THEN TargetArea.zone ELSE cz
           ELSE IF WayTo.nohost THEN cz ELSE WayTo.to.node.zone
MustClose(zone) == opkt # NONE /\ (\/ oopt.single \/ zone # lz
                                   \/ oopt.maxmsg > 0 /\ ocount >= oopt.maxmsg)

Skip(v, zone) ==
  /\ v # "send"
  /\ given' = [given EXCEPT ![At] = v]
  /\ ngrp' = IF ~Looks THEN ngrp ELSE IF IsNews THEN List ELSE NONE
  /\ cz' = zone /\ todo' = Tail(todo)
  /\ UNCHANGED <<oopt, jobs, opc, jn, off, nmsg, pos, lz, opkt, ocount, outp, db, faults>>

Publish(n) == [outp EXCEPT ![n].ext = "pkt"]
CloseFirst(v, zone) == \* snd_message: not into the packet that is open
  /\ v = "send" /\ MustClose(zone)
  /\ outp' = Publish(opkt) /\ opkt' = NONE /\ ocount' = 0
  /\ UNCHANGED <<oopt, jobs, opc, jn, off, nmsg, pos, todo, ngrp, cz, lz, given, db, faults>>

(* snd_message: nothing is sent when no packet can be created, nor when    *)
(* the message has no text; then the other groups are given up, and the    *)
(* list of the sender stays.                                               *)
OpenPkt(zone) == IF opkt = NONE THEN Append(outp, [zone |-> zone, ext |-> "tmp", items |-> <<>>])
                 ELSE outp
PktNo == IF opkt = NONE THEN Len(outp) + 1 ELSE opkt
GivenUp == IF IsNews THEN Range(todo) ELSE {Head(todo)}
GiveUp ==
  /\ given' = [k \in DOMAIN given |->
                 IF k[1] = jn /\ k[2] = off - 1 /\ k[3] \in GivenUp
                 THEN "failed" ELSE given[k]]
  /\ todo' = IF IsNews THEN <<>> ELSE Tail(todo)
NoPacket(v, zone) ==
  /\ v = "send" /\ opkt = NONE /\ Fault /\ GiveUp
  /\ cz' = zone /\ ngrp' = IF IsNews THEN List ELSE NONE
  /\ UNCHANGED <<oopt, jobs, opc, jn, off, nmsg, pos, lz, opkt, ocount, outp, db>>
NoText(v, zone) ==
  /\ v = "send" /\ ~MustClose(zone) /\ Art.lines = <<>> /\ GiveUp
  /\ outp' = OpenPkt(zone) /\ opkt' = PktNo /\ lz' = zone
  /\ cz' = zone /\ ngrp' = IF IsNews THEN List ELSE NONE
  /\ UNCHANGED <<oopt, jobs, opc, jn, off, nmsg, pos, ocount, db, faults>>

SendMessage(v, zone) ==
  /\ v = "send" /\ ~MustClose(zone) /\ Art.lines # <<>>
  /\ LET total == PartsTotal(Art.lines, MaxSize(TargetArea))
         n     == Len(PartsOf(Art.lines, MaxSize(TargetArea)))
         seen  == Remembered(Art, TargetArea)
     IN  /\ outp' = [OpenPkt(zone) EXCEPT ![PktNo].items =
                        @ \o [i \in 1..n |-> [key |-> At, part |-> i, of |-> total]]]
         /\ ocount' = ocount + n
         /\ \/ /\ Fine /\ db' = db \cup seen
               /\ given' = [given EXCEPT ![At] = "sent"]
            \/ /\ seen # {} /\ Fault /\ UNCHANGED db \* the history is locked
               /\ given' = [given EXCEPT ![At] = "unremembered"]
  /\ opkt' = PktNo /\ lz' = zone /\ cz' = zone
  /\ ngrp' = IF IsNews THEN List ELSE NONE
  /\ todo' = Tail(todo)
  /\ UNCHANGED <<oopt, jobs, opc, jn, off, nmsg, pos>>

Treat == \* snd_message for the next target
  Sending /\ \E v \in {V}, zone \in {ZoneNow} :
    \/ Skip(v, zone) \/ CloseFirst(v, zone) \/ NoPacket(v, zone)
    \/ NoText(v, zone) \/ SendMessage(v, zone)

(* snd_mail returns: the list is forgotten, unless something failed        *)
ArticleDone ==
  /\ opc = "send" /\ todo = <<>>
  /\ opc' = IF IsNews THEN "list" ELSE "mail"
  /\ ngrp' = IF \E k \in DOMAIN given : k[1] = jn /\ k[2] = off - 1 /\ given[k] = "failed"
             THEN ngrp ELSE NONE
  /\ UNCHANGED <<oopt, jobs, jn, off, nmsg, pos, todo, cz, lz, opkt, ocount, outp,
                 given, db, faults>>

OutClose == \* main: pkt_close
  /\ opc \in {"list", "mail"} /\ off > Len(Job.arts) /\ opc' = "remove"
  /\ pos' = IF Saves THEN Position ELSE pos
  /\ outp' = IF opkt = NONE THEN outp ELSE Publish(opkt)
  /\ opkt' = NONE
  /\ UNCHANGED <<oopt, jobs, jn, off, nmsg, todo, ngrp, cz, lz, ocount, given, db, faults>>

RemoveList == \* main: the list file and the position file go, one by one
  /\ opc = "remove" /\ opc' = "idle" /\ jn' = jn + 1 /\ pos' = NONE
  /\ UNCHANGED <<oopt, jobs, off, nmsg, todo, ngrp, cz, lz, opkt, ocount, outp,
                 given, db, faults>>

OutKill ==
  /\ opc # "idle" /\ Fault /\ opc' = "idle" /\ opkt' = NONE
  /\ UNCHANGED <<oopt, jobs, jn, off, nmsg, pos, todo, ngrp, cz, lz, ocount, outp,
                 given, db>>

OutStep ==
  \/ OutBegin \/ ReadArticle \/ Treat \/ ArticleDone \/ OutClose \/ RemoveList

(******************************* properties ********************************)

Finished == {k \in Targets : k[1] < jn}
In(k, n) == \E i \in DOMAIN outp[n].items : outp[n].items[i].key = k

(* When the list file is removed, each article has been put into a         *)
(* published packet for each of its groups, or was refused by a rule, or   *)
(* given up because of an error, or stands in a packet that was open when  *)
(* rfc2ftn was killed: the saved position does not wait for the packet     *)
(* (rfc2ftn.c:2309, 2425).                                                 *)
ArticleKept ==
  \A k \in Finished :
    \/ jobs[k[1]].arts[k[2]].there = FALSE
    \/ given[k] \in {"none", "excluded", "denied", "big", "nohost", "failed"}
    \/ \E n \in DOMAIN outp : In(k, n)

(* Another reader of FTN messages finds the text of the article again, in  *)
(* as many parts as each of them says, whatever the text looks like        *)
(* (rfc2ftn.c:957, 1176).                                                  *)
Readable(ls) == SelectSeq(ls, LAMBDA l : l.c \in {"text", "rfc"} \/ (l.c = "tear" /\ l.v = "bare"))
TextBack ==
  \A n \in DOMAIN outp : \A i \in DOMAIN outp[n].items :
    LET x  == outp[n].items[i]
        a  == ArticleOf(x)
        ps == PartsOf(a.lines, MaxSize(AreaOfItem(x)))
        text == [j \in DOMAIN TextPart(x) |-> Neutral(TextPart(x)[j])]
    IN  /\ x.of = Len(ps)
        /\ Walk(LAMBDA s, p : s \o p, <<>>, ps) = a.lines
        /\ \/ oopt.no_from_line \/ Untold(a, AreaName(AreaOfItem(x)))
           \/ IsPrefix(Readable(text), Readable(ReadBody(Sent(x)).body))

(* In a packet that is closed, what was written as a text stands between   *)
(* the messages as its bytes, with CR at the ends of the lines, and is     *)
(* found again by a reader whose buffer holds only a part of a line        *)
(* (message.c:60).                                                         *)
LinesBack ==
  opc = "remove" => \A t \in ByteTexts, size \in {4, 5, 8}, type \in {MsgType, MsgEnd} :
    LET s == PutLine(t)
        g == GetBody(s \o <<NUL, type, NUL>>, size)
        whole == s = <<>> \/ s[Len(s)] = CR
    IN  /\ g.ret = type /\ g.at = Len(s) + 4
        /\ \/ FlattenSeq(g.text) = s
           \/ ~whole /\ FlattenSeq(g.text) = s \o <<CR, LF>>
        /\ LF \notin ToSet(s)

(* A strict reader of the packet finds where it and its messages come from *)
(* and go to, points and zones included, and the names as far as they fit  *)
(* (packet.c:604, 673).                                                    *)
HeaderBack(x) ==
  LET m == HeaderOf(x)
      h == PutMsgHdr(m, oopt.clock)
      p == PutHdr(PktHeader)
      b == ReadBody(Sent(x))
      packet == [from |-> MsgFrom(h, HdrFrom(p, Site.defzone)), to |-> MsgTo(h, HdrTo(p, Site.defzone))]
      read == IF b.area # NONE THEN packet
              ELSE Intl(b, [from |-> Boss(packet.from), to |-> Boss(packet.to)])
  IN  /\ HdrReads(p) /\ MsgHdrReads(h, TRUE)
      /\ HdrFrom(p, Site.defzone) = oopt.addr /\ HdrTo(p, Site.defzone) = oopt.uplink
      /\ HdrPasswd(p) = PktHeader.passwd
      /\ read.from = m.from /\ read.to = m.to
      /\ StringAt(h, 8) = Fitting(m.name_to) /\ StringAt(h, 9) = Fitting(m.name_from)
      /\ StringAt(h, 10) = Cut(m.subject, MaxSubj - 1)
HeadersBack ==
  \A n \in DOMAIN outp : \A i \in DOMAIN outp[n].items : HeaderBack(outp[n].items[i])
=============================================================================
