---------------------------- MODULE PacketFormat ----------------------------
(***************************************************************************)
(* What stands in a packet, as common/packet.c and pkt_get_line() write    *)
(* and read it: the packet header, the headers of the messages, and the    *)
(* lines of a text with the bytes that end it.                             *)
(*                                                                         *)
(* A header is the sequence of its fields in the order of the file: a      *)
(* number is its two bytes, low byte first; a string is the sequence of    *)
(* its bytes, its final NUL understood.  A file that ends too early lacks  *)
(* the last fields.  An address is [zone, net, node, point].               *)
(***************************************************************************)
EXTENDS Integers, Sequences

CONSTANTS
  MaxPasswd, \* PKT_MAXPASSWD: 8
  MaxName,   \* MSG_MAXNAME: 36
  MaxSubj    \* MSG_MAXSUBJ: 72
ASSUME LimitsAssumption == MaxPasswd \in Nat /\ MaxName \in Nat \ {0} /\ MaxSubj \in Nat \ {0}

(******************************** numbers **********************************)

PutInt16(v) == <<v % 256, (v \div 256) % 256>>
GetInt16(b) == b[1] + 256 * b[2]
Swap(b) == <<b[2], b[1]>>

PktVersion == 2
CapWord    == 1 \* type 2+
NoNet      == 65535 \* 0xFFFF: the net of a point in FSC-0048

(***************************** the packet header ***************************)

Padded(s, n) == [i \in 1..n |-> IF i <= Len(s) THEN s[i] ELSE 0]
UpToNul(b) ==
  LET nul == {i \in DOMAIN b : b[i] = 0}
  IN  IF nul = {} THEN b
      ELSE SubSeq(b, 1, (CHOOSE i \in nul : \A j \in nul : i <= j) - 1)

(* pkt_put_hdr: [from, to, time, passwd], time [year, mon, day, hour, min,  *)
(* sec]; the rest is what pkt_fill_hdr puts in.  The words of this program  *)
(* and of its version do not matter to a reader.                           *)
PutHdr(p) ==
  <<PutInt16(p.from.node), PutInt16(p.to.node),
    PutInt16(p.time.year), PutInt16(p.time.mon), PutInt16(p.time.day),
    PutInt16(p.time.hour), PutInt16(p.time.min), PutInt16(p.time.sec),
    PutInt16(0), PutInt16(PktVersion),
    PutInt16(p.from.net), PutInt16(p.to.net),
    PutInt16(0), Padded(p.passwd, MaxPasswd),
    PutInt16(p.from.zone), PutInt16(p.to.zone), PutInt16(0),
    Swap(PutInt16(CapWord)), PutInt16(0), PutInt16(CapWord),
    PutInt16(p.from.zone), PutInt16(p.to.zone),
    PutInt16(p.from.point), PutInt16(p.to.point), "XPKT">>
HdrLen == 25

Word(h, i) == GetInt16(h[i])
NonZero(v, otherwise) == IF v # 0 THEN v ELSE otherwise

(* The date is taken only when every part of it can be one; a day 0 is     *)
(* today, which no reader of the packet looks at.                          *)
DateReads(h) == /\ Word(h, 3) \in 1900..2099
                /\ Word(h, 4) <= 11 /\ Word(h, 5) <= 31
                /\ Word(h, 6) <= 23 /\ Word(h, 7) <= 59 /\ Word(h, 8) <= 59

(* The capability word counts when its swapped copy agrees (FSC-0039).     *)
Cap(h) == LET cw == Word(h, 20)
          IN  IF cw # 0 /\ cw = GetInt16(Swap(h[18])) THEN cw ELSE 0
ZoneAt(h, old, new, default) ==
  IF Cap(h) # 0 /\ Word(h, new) # 0 THEN Word(h, new) ELSE NonZero(Word(h, old), default)
PointAt(h, i) == IF Cap(h) # 0 THEN Word(h, i) ELSE 0
OrigNet(h) ==
  IF Word(h, 11) # NoNet THEN Word(h, 11)
  ELSE IF PointAt(h, 23) # 0 THEN Word(h, 17) ELSE Word(h, 12)

(* pkt_get_hdr; default is the zone of the first own address               *)
HdrReads(h) == Len(h) = HdrLen /\ DateReads(h) /\ Word(h, 10) = PktVersion
HdrFrom(h, default) ==
  [zone |-> ZoneAt(h, 15, 21, default), net |-> OrigNet(h),
   node |-> Word(h, 1), point |-> PointAt(h, 23)]
HdrTo(h, default) ==
  [zone |-> ZoneAt(h, 16, 22, default), net |-> Word(h, 12),
   node |-> Word(h, 2), point |-> PointAt(h, 24)]
HdrPasswd(h) == UpToNul(h[14])

(**************************** message headers ******************************)

Cut(s, n) == IF Len(s) <= n THEN s ELSE SubSeq(s, 1, n)

(* pkt_msg_sanitize_strings: a string and its NUL fit into the limit       *)
Sanitized(s, limit) == IF Len(s) < limit THEN s ELSE Cut(s, limit - 1)

(* pkt_put_date: messages without a date have the local time; clock is     *)
(* [now, last], last the time given to the message of that kind before.    *)
DateOf(date, clock) ==
  IF date # -1 THEN date ELSE IF clock.now = clock.last THEN clock.now + 2 ELSE clock.now

(* pkt_put_msg_hdr: [from, to, attr, cost, date, name_to, name_from,       *)
(* subject]                                                                *)
PutMsgHdr(m, clock) ==
  <<PutInt16(m.from.node), PutInt16(m.to.node),
    PutInt16(m.from.net), PutInt16(m.to.net), PutInt16(m.attr), PutInt16(m.cost),
    DateOf(m.date, clock),
    Sanitized(m.name_to, MaxName), Sanitized(m.name_from, MaxName),
    Sanitized(m.subject, MaxSubj)>>

(* pkt_get_string: what goes into the buffer, and how many bytes were read *)
BufSize == 4 * MaxName
There(h, i)  == i <= Len(h)
StringAt(h, i) == IF There(h, i) THEN Cut(h[i], BufSize - 1) ELSE <<>>
BytesAt(h, i)  == IF There(h, i) THEN Len(h[i]) + 1 ELSE 0
NumberAt(h, i) == IF There(h, i) THEN Word(h, i) ELSE -1 \* ERROR, which nobody looks at

(* pkt_get_msg_hdr fails for a string that is too long, when it is to be   *)
(* strict; that the file has ended it leaves to the reader of the text.    *)
MsgHdrReads(h, strict) ==
  strict => BytesAt(h, 8) <= MaxName /\ BytesAt(h, 9) <= MaxName /\ BytesAt(h, 10) <= MaxSubj
MsgFrom(h, pkt) == [pkt EXCEPT !.node = NumberAt(h, 1), !.net = NumberAt(h, 3)]
MsgTo(h, pkt)   == [pkt EXCEPT !.node = NumberAt(h, 2), !.net = NumberAt(h, 4)]

(***************************** lines of the text ***************************)

NUL == 0
CR  == 13
LF  == 10
EOF == -1
MsgType == 2
MsgEnd  == 0
Byte(s, i) == IF i <= Len(s) THEN s[i] ELSE EOF

(* pkt_get_line: a step of its loop.  l is [at, line, lf, ret], ret NEXT    *)
(* while the loop goes on, 1 for a line, 2 and 0 for the end of a message   *)
(* before another and before none, -1 for an error.                        *)
NEXT == 3
Keep(l, bs, n) == [l EXCEPT !.line = @ \o bs, !.at = @ + n]
AfterNul(l, c1, c2) ==
  IF EOF \in {c1, c2} THEN [l EXCEPT !.ret = EOF]
  ELSE IF c2 = 0 /\ c1 = 2 THEN [l EXCEPT !.ret = MsgType, !.at = @ + 3]
  ELSE IF c2 = 0 /\ c1 = 0 THEN [l EXCEPT !.ret = MsgEnd, !.at = @ + 3]
  ELSE Keep(l, SelectSeq(<<c1, c2>>, LAMBDA c : c # 0), 3) \* an orphan
AfterTwo(l, c1) == \* the start of a message where a text should have ended
  IF c1 = EOF THEN [l EXCEPT !.ret = EOF]
  ELSE IF c1 = 0 THEN [l EXCEPT !.ret = MsgType, !.at = @ + 2]
  ELSE Keep(l, <<2, c1>>, 2)
LineStep(l, s) ==
  LET c == Byte(s, l.at)
  IN  CASE l.lf /\ c # LF -> [l EXCEPT !.ret = 1]
        [] ~(l.lf /\ c # LF) /\ c = EOF -> [l EXCEPT !.ret = EOF]
        [] ~(l.lf /\ c # LF) /\ c = NUL -> AfterNul(l, Byte(s, l.at + 1), Byte(s, l.at + 2))
        [] ~(l.lf /\ c # LF) /\ c = 2   -> AfterTwo(l, Byte(s, l.at + 1))
        [] OTHER -> [Keep(l, <<c>>, 1) EXCEPT !.lf = @ \/ c = CR]

(* size is that of the buffer, of which three bytes are left for one more  *)
(* character and a NUL.                                                    *)
GetLine(s, at, size) ==
  LET step[n \in 0..Len(s) + 1] ==
        IF n = 0 THEN [at |-> at, line |-> <<>>, lf |-> FALSE, ret |-> NEXT]
        ELSE LET l == step[n - 1]
             IN  CASE l.ret # NEXT -> l
                   [] l.ret = NEXT /\ Len(l.line) >= size - 3 -> [l EXCEPT !.ret = 1]
                   [] OTHER -> LineStep(l, s)
  IN  step[Len(s) + 1]

(* pkt_get_body: all lines up to the end of the message; a last one that   *)
(* is not complete gets its end.                                           *)
GetBody(s, size) ==
  LET read[n \in 0..Len(s) + 1] ==
        IF n = 0 THEN [text |-> <<>>, l |-> GetLine(s, 1, size)]
        ELSE LET r == read[n - 1]
             IN  IF r.l.ret # 1 THEN r
                 ELSE [text |-> Append(r.text, r.l.line), l |-> GetLine(s, r.l.at, size)]
      last == read[Len(s) + 1]
  IN  [ret |-> last.l.ret, at |-> last.l.at,
       text |-> IF last.l.ret \in {MsgEnd, MsgType} /\ last.l.line # <<>>
                THEN Append(last.text, last.l.line \o <<CR, LF>>) ELSE last.text]

(* pkt_put_line: every end of a line becomes a CR                          *)
PutLine(s) ==
  LET put[i \in 0..Len(s)] ==
        IF i = 0 THEN [out |-> <<>>, cr |-> FALSE]
        ELSE LET p == put[i - 1]
             IN  CASE s[i] = CR -> [out |-> Append(p.out, CR), cr |-> TRUE]
                   [] s[i] = LF -> IF p.cr THEN p ELSE [p EXCEPT !.out = Append(@, CR)]
                   [] OTHER -> [out |-> Append(p.out, s[i]), cr |-> FALSE]
  IN  put[Len(s)].out
=============================================================================
