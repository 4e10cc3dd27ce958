------------------------------- MODULE GateIn -------------------------------
(***************************************************************************)
(* The gateway from FTN to RFC.  ftn2rfc takes the packets addressed to    *)
(* the gateway, decides for each message whether it is skipped, bounced,   *)
(* mailed or posted, and writes mails and news batches under a temporary   *)
(* name that a rename publishes; ftninpost hands every published file to   *)
(* sendmail or rnews.  Both may be killed between any two of their steps.  *)
(***************************************************************************)
EXTENDS GateText

CONSTANT
  Packet     \* inbound packets
ASSUME PacketAssumption == IsFiniteSet(Packet)

(* A message is [from, to (packet addresses), sender, name, class, tracker, *)
(* rr, lines, body, source, author, named]: class is that of the To name,   *)
(* "name", "addr", "bang", "uucp" ("UUCP" or "GATEWAY"), body is what       *)
(* reading the lines gives; the others are what sender and addressee are   *)
(* translated to, the same each time they are looked at.  The input is     *)
(* [opt, content, late]: the options, the messages of each packet, and the *)
(* packets that come later.                                                *)

VARIABLES
  opt, content, \* options; the messages of each packet
  pkt,     \* each packet: "away", "in", "bad" or "gone"
  pc, queue, cur, at, \* ftn2rfc: place, packets left, packet, next message
  mailto,  \* mail_to: it outlives the message
  acl,     \* the access lists, as the lookups have left them
  mfile, nfile, \* the mail and the news file being written: a number or NONE
  spool,   \* number -> [kind, ext, items]: "tmp", "rfc", "bad" or "gone"
  ppc, pqueue, \* ftninpost: place and files left to hand over
  handed,  \* items accepted by sendmail or rnews: how often
  outcome  \* [packet, index] -> what became of the message, or Unseen

unpackv == <<pc, queue, cur, at, mailto, acl, mfile, nfile>>
postv   == <<ppc, pqueue>>
inown   == <<opt, content, pkt, unpackv, spool, postv, handed, outcome>>
invars  == <<inown, db, faults>>

Key == UNION {{<<p, i>> : i \in 1..Len(content[p])} : p \in Packet}

Unseen == [what |-> "unseen"]
Left(kind) == [kind |-> kind, who |-> NONE] \* what the stack had there

(************************** what a message becomes *************************)

(* news_msg: the area of the message; an area that no line of the areas    *)
(* file knows, at the address the message came to, has no group.           *)
AreaOf(b, m) ==
  IF b.area = NONE THEN NONE
  ELSE LET hit == {a \in opt.areas : a.area = b.area /\ a.addr = m.to}
       IN  IF hit = {} THEN [area |-> b.area, group |-> NONE, nogate |-> FALSE,
                             enc |-> "7bit"]
                       ELSE CHOOSE a \in hit : TRUE

(* The groups of unknown areas; ErrorsTo is read into the same variable.   *)
JunkGroup == IF opt.errors_to # NONE THEN opt.errors_to ELSE opt.junk

(* Sender and addressee.  Netmail: the kludges; echomail: the Origin line, *)
(* else the MSGID.                                                         *)
Sender(b, m) ==
  IF b.area = NONE
  THEN Intl(b, [from |-> [m.from EXCEPT !.point = 0],
                to |-> [m.to EXCEPT !.point = 0]]).from
  ELSE IF OriginAddr(b) # NONE THEN OriginAddr(b) ELSE MsgidAddr(b)
Addressee(b, m) ==
  IF b.area = NONE
  THEN Intl(b, [from |-> [m.from EXCEPT !.point = 0],
                to |-> [m.to EXCEPT !.point = 0]]).to
  ELSE m.to

(* RFC From: a From line, unless there is none and REPLYADDR is an FTN     *)
(* address; then a UUCPFROM line                                           *)
RfcFrom(b) ==
  IF Kludge(b.rfc, "From") # NONE THEN Kludge(b.rfc, "From")
  ELSE IF Kludge(b.kludge, "REPLYADDR") = "ftn" THEN NONE
       ELSE Kludge(b.rfc, "UUCPFROM")
RfcTo(b) == Kludge(b.rfc, "To")

FromGateway(b) ==
  \/ RfcFrom(b) # NONE
  \/ Kludge(b.kludge, "PID") = "GIGO"
  \/ Kludge(b.kludge, "X-FZ-SPLIT") # NONE

(* ftnacl_lookup: the entries are [type, from, list]; the first comma of a *)
(* list becomes the end of it when the list is looked at.  A message is    *)
(* dropped when its addressee, or its area, stands literally in a list for *)
(* its sender.                                                             *)
Sought(b, m)  == IF b.area = NONE THEN m.to ELSE b.area
Entries(b, m) == {i \in DOMAIN acl : /\ acl[i].from = m.from
                                     /\ (acl[i].type = "netmail") = (b.area = NONE)}
Hits(b, m)    == {i \in Entries(b, m) : Sought(b, m) \in Range(acl[i].list)}
Denied(b, m)  == Hits(b, m) # {}
LookedUp(b, m) ==
  LET hits == Hits(b, m)
      last == IF hits = {} THEN Len(acl) ELSE CHOOSE i \in hits : \A j \in hits : i <= j
  IN  [i \in DOMAIN acl |->
         IF i \in Entries(b, m) /\ i <= last
         THEN [acl[i] EXCEPT !.list = SubSeq(@, 1, 1)] ELSE acl[i]]

(* Messages that are dropped without a word to their sender                *)
Unknown(b, m) ==
  LET a == AreaOf(b, m) IN a # NONE /\ a.group = NONE /\ JunkGroup = NONE
Split(b) == opt.kill_split /\ Kludge(b.kludge, "SPLIT") # NONE
Foreign(b, m) ==
  LET a == AreaOf(b, m) IN a # NONE /\ a.nogate /\ FromGateway(b)

(* mail_to is set from the To name only when there is no To line; the mail *)
(* of message trackers goes elsewhere.                                     *)
NamedTo(b, m) ==
  LET a == AliasStrict(opt.aliases, Addressee(b, m), RealOf(m.name))
  IN  IF a # NONE /\ m.class # "addr"
      THEN [kind |-> IF a.dom = NONE THEN "plain" ELSE "addr", who |-> <<a.user, a.dom>>]
      ELSE [kind |-> IF m.class \in {"addr", "bang"} THEN "addr" ELSE "plain",
            who |-> <<UserOf(m.name, opt.dot_names), NONE>>]
Tracked(m) == opt.tracker /\ m.tracker
MailTo(b, m) ==
  CASE Tracked(m)       -> [kind |-> "addr", who |-> "tracker"]
    [] RfcTo(b) = NONE  -> m.named
    [] OTHER            -> mailto
Uucp(m) == m.class = "uucp" /\ ~Tracked(m)

(* Netmail that is bounced, by the first reason that applies; mail_to may  *)
(* still hold what an earlier message left there, or nothing at all.       *)
HasAddress(t) == t.kind = "addr"
Insecure(b) == opt.insecure /\ RfcTo(b) # NONE
HostRestricted(b, m) ==
  /\ opt.restricted /\ ~opt.ignore_hosts
  /\ RfcTo(b) # NONE /\ ~RfcTo(b).local
  /\ LET h == HostOf(opt.hosts, m.source) IN h = NONE \/ h.down
NoAddress(b, m) == opt.no_address /\ HasAddress(MailTo(b, m))
NoTo(b, m) == RfcTo(b) = NONE /\ ~HasAddress(MailTo(b, m)) /\ Uucp(m)
Bounce(b, m) ==
  IF b.area # NONE THEN "none"
  ELSE IF Insecure(b) THEN "insecure"
  ELSE IF HostRestricted(b, m)
       THEN IF HostOf(opt.hosts, m.source) = NONE THEN "restricted" ELSE "down"
  ELSE IF NoAddress(b, m) THEN "addrinto"
  ELSE IF NoTo(b, m) THEN "noto"
  ELSE "none"

(* The Message-ID: the original one when it came along, else the converted *)
(* MSGID.                                                                  *)
OrigId(b) ==
  CASE Kludge(b.kludge, "ORIGID") # NONE     -> Kludge(b.kludge, "ORIGID")
    [] Kludge(b.kludge, "Message-ID") # NONE -> Kludge(b.kludge, "Message-ID")
    [] opt.gate_rfc -> Kludge(b.kludge, "RFC-Message-ID")
    [] OTHER -> NONE
BadId(b) ==
  LET id == Kludge(b.kludge, "MSGID")
  IN  /\ OrigId(b) = NONE
      /\ IF id = NONE THEN opt.kill_no_msgid
         ELSE \/ id.k = "nomsgid"
              \/ opt.kill_zone /\ UnknownZone(id)
MessageId(b, key) ==
  LET id == Kludge(b.kludge, "MSGID")
  IN  CASE OrigId(b) # NONE -> OrigId(b)
        [] OrigId(b) = NONE /\ id # NONE -> FidoToRfc(id, FALSE, NONE, {})
        [] OTHER -> [k |-> "NOMSGID", of |-> key]
Saved(b) == \* what the conversion of the MSGID leaves in the database
  LET id == Kludge(b.kludge, "MSGID")
  IN  IF opt.save_msgid /\ OrigId(b) = NONE /\ id # NONE /\ id.k # "nomsgid"
      THEN {[serial |-> id.serial, rfc |-> FidoToRfc(id, FALSE, NONE, {})]}
      ELSE {}
(* A mail has the references that came along, whatever else there is.      *)
References(b, seen) ==
  LET reply == Kludge(b.kludge, "REPLY")
      orig  == Kludge(b.kludge, "ORIGREF")
      came  == Kludge(b.kludge, "RFC-References")
      kept  == IF opt.gate_rfc THEN came ELSE NONE
  IN  CASE b.area = NONE /\ came # NONE -> came
        [] (b.area # NONE \/ came = NONE) /\ orig # NONE -> orig
        [] (b.area # NONE \/ came = NONE) /\ orig = NONE /\ reply # NONE ->
             FidoToRfc(reply, opt.dbc /\ b.area # NONE, kept,
                       IF opt.dbc THEN seen ELSE {})
        [] OTHER -> kept

(* The transfer encoding: the area's or the netmail option, overridden by  *)
(* the message's own header; without 8-bit text it is 7bit.                *)
EightBit(ls) == \E i \in DOMAIN ls : ls[i].c = "text" /\ ls[i].n = "8bit"
Encoding(b, m) ==
  LET own == IF Kludge(b.rfc, "Content-Transfer-Encoding") # NONE
             THEN Kludge(b.rfc, "Content-Transfer-Encoding")
             ELSE Kludge(b.kludge, "RFC-Content-Transfer-Encoding")
      default == IF b.area = NONE THEN opt.netmail_enc ELSE AreaOf(b, m).enc
  IN  IF ~EightBit(b.body) THEN "7bit" ELSE IF own # NONE THEN own ELSE default

(* The header and the body as they are written                             *)
AuthorOf(b, m, n, a) == \* the sender as an RFC address, with the user of an alias
  LET rfc == RfcaddrFromFtn(opt.hosts, m.sender, n, opt.dot_names)
  IN  CASE RfcFrom(b) # NONE -> RfcFrom(b)
        [] RfcFrom(b) = NONE /\ a # NONE ->
             [rfc EXCEPT !.user = a.user, !.addr = IF a.dom = NONE THEN @ ELSE a.dom]
        [] OTHER -> rfc
FromLine(b, m, n) ==
  AuthorOf(b, m, n, IF n = NONE THEN NONE ELSE AliasStrict(opt.aliases, n, RealOf(m.sender)))
ToLine(b, m) ==
  CASE RfcTo(b) # NONE -> RfcTo(b).who
    [] RfcTo(b) = NONE /\ b.area # NONE -> m.name
    [] OTHER -> MailTo(b, m).who
Trimmed(b) == \* without an empty line after the RFC headers and at the end
  LET blank(i, ls) == i \in DOMAIN ls /\ ls[i].c = "blank"
      head == IF b.rfc # <<>> /\ blank(1, b.body) THEN Tail(b.body) ELSE b.body
  IN  IF blank(Len(head), head) THEN Front(head) ELSE head
Written(b, m, key, seen) ==
  [key  |-> key,
   kind |-> IF b.area = NONE THEN "mail" ELSE "news",
   from |-> m.author, to |-> ToLine(b, m),
   cc   |-> IF RfcTo(b) = NONE THEN NONE ELSE Kludge(b.rfc, "Cc"),
   id   |-> MessageId(b, key), refs |-> References(b, seen),
   group |-> LET a == AreaOf(b, m)
             IN  IF a = NONE THEN NONE
                 ELSE IF a.group = NONE THEN JunkGroup ELSE a.group,
   receipt |-> b.area = NONE /\ m.rr,
   enc  |-> Encoding(b, m),
   body |-> Trimmed(b)]

(* What mail_to holds after the message                                    *)
After(b, m) ==
  LET t == MailTo(b, m)
  IN  IF Denied(b, m) \/ Unknown(b, m) \/ Split(b) \/ Foreign(b, m)
         \/ (Insecure(b) /\ b.area = NONE)
      THEN mailto
      ELSE IF b.area = NONE /\ RfcTo(b) = NONE /\ Bounce(b, m) = "none"
           THEN [t EXCEPT !.kind = "addr"]
           ELSE t

Received(m, b) ==
  [m EXCEPT !.body = b, !.source = Sender(b, m), !.author = FromLine(b, m, Sender(b, m)),
            !.named = NamedTo(b, m)]

InInit(input) ==
  /\ opt = input.opt
  /\ content = [p \in Packet |-> [i \in DOMAIN input.content[p] |->
                  Received(input.content[p][i], ReadBody(input.content[p][i].lines))]]
  /\ pkt = [p \in Packet |-> IF p \in input.late THEN "away" ELSE "in"]
  /\ pc = "idle" /\ queue = <<>> /\ cur = NONE /\ at = 1
  /\ mailto = Left("plain") /\ acl = opt.acl /\ mfile = NONE /\ nfile = NONE
  /\ spool = <<>>
  /\ ppc = "idle" /\ pqueue = <<>>
  /\ handed = [k \in Key |-> 0]
  /\ outcome = [k \in Key |-> Unseen]

(**************************** ftn2rfc: the files ***************************)

File(kind, items) == [kind |-> kind, ext |-> "tmp", items |-> items]
Next_ == Len(spool) + 1 \* the sequencer never gives a number twice

Begin == \* main: the packets of the directory
  /\ pc = "idle" /\ \E p \in Packet : pkt[p] = "in"
  /\ queue' = SetToSeq({p \in Packet : pkt[p] = "in"})
  /\ pc' = "next" /\ acl' = opt.acl
  /\ UNCHANGED <<opt, content, pkt, cur, at, mailto, mfile, nfile, spool, db,
                 postv, handed, outcome, faults>>

OpenPacket == \* unpack_file: a packet that cannot be read is renamed
  /\ pc = "next" /\ queue # <<>>
  /\ queue' = Tail(queue)
  /\ \/ /\ Fine
        /\ cur' = Head(queue) /\ at' = 1 /\ pc' = "read"
        /\ mailto' \in {Left("plain"), Left("addr")}
        /\ UNCHANGED pkt
     \/ /\ Fault
        /\ pkt' = [pkt EXCEPT ![Head(queue)] = "bad"]
        /\ UNCHANGED <<cur, at, pc, mailto>>
  /\ UNCHANGED <<opt, content, acl, mfile, nfile, spool, db, postv, handed, outcome>>

End == \* main: no packet is left
  /\ pc = "next" /\ queue = <<>> /\ pc' = "idle"
  /\ UNCHANGED <<opt, content, pkt, queue, cur, at, mailto, acl, mfile, nfile,
                 spool, db, postv, handed, outcome, faults>>

(* unpack: the next message                                                *)
M == content[cur][at]
B == M.body
K == <<cur, at>>
Reading == pc = "read" /\ at <= Len(content[cur])

(* The reader stands behind the message, or inside it when its body was    *)
(* given up: then it takes text for the header of the next one, and at     *)
(* least that is swallowed.                                                *)
Advance(what) ==
  LET n == Len(content[cur])
  IN  /\ mailto' = After(B, M) /\ acl' = LookedUp(B, M)
      /\ \E to \in IF B.unread THEN (at + 2)..(n + 2) ELSE {at + 1} :
           /\ at' = to
           /\ outcome' = [k \in Key |->
                IF k = K THEN what
                ELSE IF k[1] = cur /\ k[2] > at /\ k[2] < to
                     THEN [what |-> "swallowed"] ELSE outcome[k]]

Dropped == Denied(B, M) \/ Unknown(B, M) \/ Split(B) \/ Foreign(B, M)
Bounced == ~Dropped /\ Bounce(B, M) # "none"
Gated   == ~Dropped /\ ~Bounced /\ ~BadId(B)

SkipMessage ==
  /\ Reading /\ ~Bounced /\ ~Gated
  /\ Advance([what |-> "skipped"])
  /\ db' = IF Dropped \/ Kludge(B.kludge, "MSGID") = NONE THEN db
           ELSE db \cup Saved(B)
  /\ UNCHANGED <<opt, content, pkt, pc, queue, cur, mfile, nfile, spool, postv,
                 handed, faults>>

(* bounce_mail: nobody hears of it when the mail cannot be created         *)
BounceMessage ==
  /\ Reading /\ Bounced
  /\ \/ /\ Fine /\ Advance([what |-> "bounced", why |-> Bounce(B, M)])
        /\ spool' = Append(spool, File("mail", <<K>>))
        /\ mfile' = Next_ /\ pc' = "mail"
     \/ /\ Fault /\ Advance([what |-> "unbounced"])
        /\ UNCHANGED <<spool, mfile, pc>>
  /\ UNCHANGED <<opt, content, pkt, queue, cur, nfile, db, postv, handed>>

Mail ==
  /\ Reading /\ Gated /\ B.area = NONE
  /\ db' = db \cup Saved(B)
  /\ \/ /\ Fine
        /\ Advance([what |-> "gated", busy |-> FALSE, item |-> Written(B, M, K, db)])
        /\ spool' = Append(spool, File("mail", <<K>>))
        /\ mfile' = Next_ /\ pc' = "mail"
     \/ /\ Fault /\ pc' = "failed"
        /\ UNCHANGED <<spool, mfile, mailto, acl, at, outcome>>
  /\ UNCHANGED <<opt, content, pkt, queue, cur, nfile, postv, handed>>

MailClose == \* mail_close('m'): when the rename fails it is only logged
  /\ pc = "mail" /\ pc' = "read" /\ mfile' = NONE
  /\ \/ Fine  /\ spool' = [spool EXCEPT ![mfile].ext = "rfc"]
     \/ Fault /\ UNCHANGED spool
  /\ UNCHANGED <<opt, content, pkt, queue, cur, at, mailto, acl, nfile, db, postv,
                 handed, outcome>>

(* News goes to one batch for each packet, or to a file for each article.  *)
(* When another program holds the lock of the history, the database is not *)
(* looked at.                                                              *)
News ==
  /\ Reading /\ Gated /\ B.area # NONE
  /\ \/ /\ \/ /\ Fine /\ db' = db \cup Saved(B)
              /\ Advance([what |-> "gated", busy |-> FALSE, item |-> Written(B, M, K, db)])
           \/ /\ opt.dbc /\ Fault /\ UNCHANGED db
              /\ Advance([what |-> "gated", busy |-> TRUE, item |-> Written(B, M, K, {})])
        /\ nfile' = IF nfile = NONE THEN Next_ ELSE nfile
        /\ spool' = IF nfile = NONE THEN Append(spool, File("news", <<K>>))
                    ELSE [spool EXCEPT ![nfile].items = Append(@, K)]
        /\ pc' = IF opt.single THEN "article" ELSE "read"
     \/ /\ Fault /\ nfile = NONE /\ pc' = "failed"
        /\ db' = db \cup Saved(B)
        /\ UNCHANGED <<spool, nfile, mailto, acl, at, outcome>>
  /\ UNCHANGED <<opt, content, pkt, queue, cur, mfile, postv, handed>>

NewsClosed ==
  /\ nfile' = NONE
  /\ \/ Fine  /\ spool' = IF nfile = NONE THEN spool
                          ELSE [spool EXCEPT ![nfile].ext = "rfc"]
     \/ Fault /\ nfile # NONE /\ UNCHANGED spool

ArticleClose ==
  /\ pc = "article" /\ pc' = "read" /\ NewsClosed
  /\ UNCHANGED <<opt, content, pkt, queue, cur, at, mailto, acl, mfile, db, postv,
                 handed, outcome>>

UnpackedGood == \* mutant: the error has no way out
  /\ pc = "read" /\ at > Len(content[cur]) /\ pc' = "remove" /\ NewsClosed
  /\ UNCHANGED <<opt, content, pkt, queue, cur, at, mailto, acl, mfile, db, postv,
                 handed, outcome>>
Unpacked == \* unpack: the batch is closed, after an error too
  /\ pc = "failed" \/ (pc = "read" /\ at > Len(content[cur]))
  /\ pc' = IF pc = "failed" THEN "bad" ELSE "remove"
  /\ NewsClosed
  /\ UNCHANGED <<opt, content, pkt, queue, cur, at, mailto, acl, mfile, db, postv,
                 handed, outcome>>

RemovedAlways == "gone" \* mutant: after an error too
Removed == IF pc = "bad" THEN "bad" ELSE "gone"
RemovePacket == \* unpack_file: the packet goes, or is set aside
  /\ pc \in {"remove", "bad"} /\ pc' = "next"
  /\ \/ Fine /\ pkt' = [pkt EXCEPT ![cur] = Removed]
     \/ pc = "remove" /\ Fault /\ pkt' = [pkt EXCEPT ![cur] = "bad"]
  /\ UNCHANGED <<opt, content, queue, cur, at, mailto, acl, mfile, nfile, spool, db,
                 postv, handed, outcome>>

InKill == \* the next run knows nothing of the files that were being written
  /\ pc \notin {"idle"} /\ Fault
  /\ pc' = "idle" /\ mfile' = NONE /\ nfile' = NONE
  /\ UNCHANGED <<opt, content, pkt, queue, cur, at, mailto, acl, spool, db, postv,
                 handed, outcome>>

(******************************* ftninpost *********************************)

Published(kind) == SetToSeq({n \in DOMAIN spool : spool[n].kind = kind /\ spool[n].ext = "rfc"})

PostBegin == \* main: the mails, then the news
  /\ ppc = "idle" /\ Published("mail") \o Published("news") # <<>>
  /\ pqueue' = Published("mail") \o Published("news") /\ ppc' = "send"
  /\ UNCHANGED <<opt, content, pkt, unpackv, spool, db, handed, outcome, faults>>

Post == \* do_dir: the program succeeds, or the file is set aside
  /\ ppc = "send" /\ pqueue # <<>>
  /\ LET n == Head(pqueue)
     IN  \/ /\ Fine /\ ppc' = "unlink"
            /\ handed' = [k \in Key |-> IF k \in Range(spool[n].items)
                                        THEN handed[k] + 1 ELSE handed[k]]
            /\ UNCHANGED <<spool, pqueue>>
         \/ /\ Fault /\ spool' = [spool EXCEPT ![n].ext = "bad"]
            /\ pqueue' = Tail(pqueue) /\ UNCHANGED <<handed, ppc>>
  /\ UNCHANGED <<opt, content, pkt, unpackv, db, outcome>>

PostUnlink ==
  /\ ppc = "unlink" /\ ppc' = "send"
  /\ spool' = [spool EXCEPT ![Head(pqueue)].ext = "gone"]
  /\ pqueue' = Tail(pqueue)
  /\ UNCHANGED <<opt, content, pkt, unpackv, db, handed, outcome, faults>>

PostEnd ==
  /\ ppc = "send" /\ pqueue = <<>> /\ ppc' = "idle"
  /\ UNCHANGED <<opt, content, pkt, unpackv, spool, db, pqueue, handed, outcome, faults>>

PostKill ==
  /\ ppc # "idle" /\ Fault /\ ppc' = "idle" /\ pqueue' = <<>>
  /\ UNCHANGED <<opt, content, pkt, unpackv, spool, db, handed, outcome>>

GateInStep ==
  \/ Begin \/ OpenPacket \/ End \/ SkipMessage \/ BounceMessage \/ Mail
  \/ MailClose \/ News \/ ArticleClose \/ Unpacked \/ RemovePacket
PostStep == PostBegin \/ Post \/ PostUnlink \/ PostEnd
InNext == GateInStep \/ InKill \/ PostStep \/ PostKill

(******************************* properties ********************************)

(* A packet is removed only when each of its messages was dropped by a     *)
(* rule, or stands in a file of the spool or was handed over.  A bounce    *)
(* that cannot be written, and messages behind one whose text was given    *)
(* up, are the exceptions (ftn2rfc.c:1725, mail.c:107, bounce.c:133).      *)
Kept(k) ==
  \E n \in DOMAIN spool :
    /\ k \in Range(spool[n].items)
    /\ spool[n].ext = "gone" => handed[k] > 0
Body(k) == content[k[1]][k[2]].body
Unread(k) == Body(k).unread
NothingLost ==
  \A k \in Key : pkt[k[1]] = "gone" => outcome[k].what # "unseen" /\
    CASE outcome[k].what \in {"gated", "bounced"} -> Kept(k)
      [] outcome[k].what = "unbounced" -> faults > 0
      [] outcome[k].what = "swallowed" ->
           \E i \in 1..(k[2] - 1) : Unread(<<k[1], i>>)
      [] OTHER -> TRUE

(* The complete lines of the text of a message arrive, all and in order,   *)
(* up to its routing lines; of the lines that look like tear and origin    *)
(* lines only the last ones are taken out (message.c:608).                 *)
TextOf(ls) == SelectSeq(ls, LAMBDA l : l.c = "text")
Above(b, ls) == \* the lines above the first routing line of the body
  LET routing == IF b.area = NONE THEN {"via"} ELSE {"path", "seenby"}
      stops == {i \in DOMAIN ls : /\ ls[i].c \in routing
                                  /\ \E j \in 1..i : ls[j].c = "text"}
  IN  IF stops = {} THEN ls
      ELSE SubSeq(ls, 1, CHOOSE i \in stops : \A j \in stops : i <= j)
Shown(ls) == Len(SelectSeq(ls, LAMBDA l : l.c \in {"text", "tear", "origin"}))
TextKept ==
  \A k \in Key :
    LET ls == content[k[1]][k[2]].lines
    IN  (outcome[k].what = "gated" /\ ~Unread(k)) =>
          /\ IsPrefix(TextOf(Above(Body(k), ls)), TextOf(outcome[k].item.body))
          /\ Shown(Above(Body(k), ls)) <= Shown(outcome[k].item.body)
                                 + Shown(Body(k).tear) + Shown(Body(k).origin)

(* A reply that is posted refers to the Message-ID of the message it       *)
(* answers, when that was made from its MSGID (msgid.c:130).               *)
ThreadKept ==
  \A k, l \in Key :
    LET b == Body(k)
        r == Body(l)
        id == Kludge(b.kludge, "MSGID")
    IN  (/\ \A x \in {k, l} : /\ outcome[x].what = "gated"
                              /\ ~outcome[x].busy
         /\ id # NONE /\ OrigId(b) = NONE
         /\ Kludge(r.kludge, "REPLY") = id /\ r.area # NONE
         /\ Kludge(r.kludge, "ORIGREF") = NONE
         /\ Kludge(r.kludge, "RFC-References") = NONE)
        => outcome[l].item.refs = outcome[k].item.id

(* "Put incomplete last line into textlist, if any" (message.c:733): text   *)
(* without a CR at the end of a message arrives with the rest of it.  The   *)
(* code does not keep it: no statement follows the comment.                *)
RestKept ==
  \A k \in Key :
    LET ls == content[k[1]][k[2]].lines
    IN  outcome[k].what = "gated" =>
          \A i \in DOMAIN ls : ls[i].c = "rest" /\ ls[i].n = "text" =>
            \E l \in Range(outcome[k].item.body) : l.v = ls[i].v
=============================================================================
