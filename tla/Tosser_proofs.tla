---------------------------- MODULE Tosser_proofs ---------------------------
(***************************************************************************)
(* For any number of packets with any messages, any options, signals,      *)
(* kills, failing calls and packets tried again: ftntoss loses no message  *)
(* of the inbound directory, refuses none for what is not so, and tosses   *)
(* no echomail message twice but after a kill.  Of the packets it is       *)
(* assumed only that the headers are those that programs write, or such    *)
(* that cannot be read; that they are read as they were written is proved  *)
(* here of the two bytes of a number and of the padding of the password.   *)
(*                                                                         *)
(* For any number of systems, messages, links, lost packets and packets    *)
(* that come twice: a reader sees a message once, and no link carries it   *)
(* twice, if the systems keep histories, whatever cycles their links make; *)
(* or if the links make a tree and no packet comes twice, without any      *)
(* history.                                                                *)
(***************************************************************************)
EXTENDS Tosser, EchoNet, SequenceTheorems, TLAPS

\* What fits into the fields of a packet header: numbers of two bytes, a
\* password without NUL, and a date.
Word16 == {v \in Nat : v < 256 * 256}

Address(a) ==
  /\ a = [zone |-> a.zone, net |-> a.net, node |-> a.node, point |-> a.point]
  /\ a.zone \in Word16 \ {0} /\ a.net \in Word16 \ {NoNet}
  /\ a.node \in Word16 /\ a.point \in Word16

Password(s) == s \in Seq(Nat \ {0}) /\ Len(s) <= MaxPasswd

Date(t) == /\ t.year \in 1900 .. 2099 /\ t.mon \in 0 .. 11 /\ t.day \in 0 .. 31
           /\ t.hour \in 0 .. 23 /\ t.min \in 0 .. 59 /\ t.sec \in 0 .. 59

\* The headers programs write: a full one, one of a point behind the net 65535,
\* and an old one without zones and points.
FullHdr(p)  == PutHdr(p)
PointHdr(p) == [PutHdr(p) EXCEPT ![11] = PutInt16(NoNet), ![17] = PutInt16(p.from.net)]
OldHdr(p)   == [i \in 1 .. HdrLen |-> IF i \in 15 .. 24 THEN PutInt16(0) ELSE PutHdr(p)[i]]

WrittenHdr(h, from, passwd, zone) ==
  \E p : /\ p.from = from /\ p.passwd = passwd /\ Date(p.time)
         /\ \/ h = FullHdr(p)
            \/ h = PointHdr(p) /\ from.point # 0
            \/ h = OldHdr(p) /\ from.point = 0 /\ from.zone = zone

-----------------------------------------------------------------------------
\* put_int16() divides a number by 256, get_int16() puts the bytes together.
LEMMA Divided ==
  ASSUME NEW v \in Int, NEW q \in Int, NEW r \in Int, q = v \div 256, r = v % 256
  PROVE  v = 256 * q + r /\ 0 <= r /\ r <= 255
OBVIOUS

\* The high byte of a number of two bytes is a byte.
LEMMA HighByte ==
  ASSUME NEW v \in Int, NEW q \in Int, NEW r \in Int,
         v = 256 * q + r, 0 <= r, r <= 255, 0 <= v, v < 256 * 256
  PROVE  0 <= q /\ q <= 255
<1>1. 0 <= q  OBVIOUS
<1>2. q <= 255  OBVIOUS
<1> QED  BY <1>1, <1>2

\* A byte is what is left of it modulo 256.
LEMMA OneByte ==
  ASSUME NEW v \in Int, 0 <= v, v <= 255, NEW q \in Int, q = v % 256
  PROVE  q = v
OBVIOUS

\* A number of two bytes is read as it was written.
LEMMA NumberReadsBack ==
  ASSUME NEW v \in Word16
  PROVE  GetInt16(PutInt16(v)) = v /\ GetInt16(Swap(Swap(PutInt16(v)))) = v
<1>0. v \in Int /\ 0 <= v /\ v < 256 * 256
  BY DEF Word16
<1>1. PICK q \in Int, r \in Int : q = v \div 256 /\ r = v % 256
  BY <1>0
<1>2. v = 256 * q + r /\ 0 <= r /\ r <= 255
  BY <1>0, <1>1, Divided
<1>3. 0 <= q /\ q <= 255
  BY ONLY <1>0, <1>2, HighByte, q \in Int, r \in Int
<1>4. q % 256 = q
  <2>1. PICK s \in Int : s = q % 256
    OBVIOUS
  <2>2. s = q
    BY ONLY <1>3, <2>1, OneByte, q \in Int, s \in Int
  <2> QED  BY <2>1, <2>2
<1>5. PutInt16(v) = <<r, q>>
  BY <1>1, <1>4 DEF PutInt16
<1> QED  BY <1>2, <1>5 DEF GetInt16, Swap

\* What is read at the places of a full header.
LEMMA FieldsOfHdr ==
  ASSUME NEW p
  PROVE  LET h == PutHdr(p) IN
         /\ h[1] = PutInt16(p.from.node) /\ h[3] = PutInt16(p.time.year)
         /\ h[4] = PutInt16(p.time.mon) /\ h[5] = PutInt16(p.time.day)
         /\ h[6] = PutInt16(p.time.hour) /\ h[7] = PutInt16(p.time.min)
         /\ h[8] = PutInt16(p.time.sec) /\ h[10] = PutInt16(PktVersion)
         /\ h[11] = PutInt16(p.from.net) /\ h[14] = Padded(p.passwd, MaxPasswd)
         /\ h[15] = PutInt16(p.from.zone) /\ h[18] = Swap(PutInt16(CapWord))
         /\ h[20] = PutInt16(CapWord) /\ h[21] = PutInt16(p.from.zone)
         /\ h[23] = PutInt16(p.from.point)
         /\ DOMAIN h = 1 .. HdrLen /\ Len(h) = HdrLen
BY DEF PutHdr, HdrLen

\* The place before a place below the limit.
LEMMA NextBelow ==
  ASSUME NEW a \in Nat, NEW b \in Nat, a <= b, a # b
  PROVE  a + 1 \in 1 .. b /\ a + 1 > a
<1>1. a + 1 <= b  OBVIOUS
<1> QED  BY <1>1

\* The password ends before the first NUL.
LEMMA PasswdReadsBack ==
  ASSUME NEW s, Password(s), MaxPasswd \in Nat
  PROVE  UpToNul(Padded(s, MaxPasswd)) = s
<1> DEFINE b == Padded(s, MaxPasswd)
           nul == {i \in DOMAIN b : b[i] = 0}
<1>1. /\ s \in Seq(Nat \ {0}) /\ DOMAIN s = 1 .. Len(s) /\ Len(s) \in Nat
      /\ Len(s) <= MaxPasswd
      /\ \A i \in 1 .. Len(s) : s[i] # 0 /\ s[i] \in Int
  <2>1. s \in Seq(Nat \ {0}) /\ Len(s) <= MaxPasswd
    BY DEF Password
  <2>2. DOMAIN s = 1 .. Len(s) /\ Len(s) \in Nat
    BY <2>1
  <2>3. \A i \in 1 .. Len(s) : s[i] \in Nat \ {0}
    BY <2>1, <2>2
  <2> QED  BY <2>1, <2>2, <2>3
<1>2. DOMAIN b = 1 .. MaxPasswd /\ \A i \in 1 .. MaxPasswd : b[i] = IF i <= Len(s) THEN s[i] ELSE 0
  BY DEF Padded
<1>3. nul = {i \in 1 .. MaxPasswd : i > Len(s)}
  BY <1>1, <1>2
<1>4. CASE Len(s) = MaxPasswd
  <2>1. nul = {}
    BY <1>1, <1>3, <1>4
  <2>2. b = s
    BY <1>1, <1>4 DEF Padded
  <2> QED  BY <2>1, <2>2 DEF UpToNul
<1>5. CASE Len(s) # MaxPasswd
  <2> DEFINE k == CHOOSE i \in nul : \A j \in nul : i <= j
  <2>1. Len(s) + 1 \in nul /\ \A j \in nul : Len(s) + 1 <= j /\ j \in Int
    <3>1. Len(s) + 1 \in 1 .. MaxPasswd /\ Len(s) + 1 > Len(s)
      BY <1>1, <1>5, NextBelow
    <3>2. \A j \in 1 .. MaxPasswd : j > Len(s) => Len(s) + 1 <= j /\ j \in Int
      BY <1>1
    <3> HIDE DEF nul
    <3> QED  BY <1>3, <3>1, <3>2
  <2> HIDE DEF nul
  <2>2. k \in nul /\ \A j \in nul : k <= j
    BY <2>1
  <2> HIDE DEF k
  <2>3. k = Len(s) + 1
    <3>1. k <= Len(s) + 1 /\ Len(s) + 1 <= k /\ k \in Int /\ Len(s) + 1 \in Int
      BY <1>1, <2>1, <2>2
    <3> QED  BY <3>1
  <2>4. UpToNul(b) = SubSeq(b, 1, k - 1)
    BY <2>1 DEF UpToNul, k, nul
  <2>5. k - 1 = Len(s)
    BY <1>1, <2>3
  <2>6. SubSeq(b, 1, Len(s)) = s
    <3>1. SubSeq(b, 1, Len(s)) = [i \in 1 .. Len(s) |-> b[i]]
      BY <1>1
    <3>2. \A i \in 1 .. Len(s) : b[i] = s[i]
      BY <1>1, <1>2
    <3>3. s = [i \in 1 .. Len(s) |-> s[i]]
      BY <1>1
    <3> QED  BY <3>1, <3>2, <3>3
  <2> QED  BY <2>4, <2>5, <2>6
<1> QED  BY <1>4, <1>5


\* The length of a sequence is told by its places.
LEMMA LenOfDomain ==
  ASSUME NEW S, NEW n \in Nat, NEW s \in [1 .. n -> S]
  PROVE  Len(s) = n
<1>1. s \in Seq(S)
  BY SeqDef
<1>2. Len(s) \in Nat /\ DOMAIN s = 1 .. Len(s) /\ DOMAIN s = 1 .. n
  BY <1>1
<1> QED  BY <1>2

\* A header that a program has written can be read, and tells who it was.
LEMMA HeaderReadsBack ==
  ASSUME NEW h, NEW from, NEW passwd, NEW zone, MaxPasswd \in Nat,
         Address(from), Password(passwd), WrittenHdr(h, from, passwd, zone)
  PROVE  HdrReads(h) /\ HdrFrom(h, zone) = from /\ HdrPasswd(h) = passwd
<1>1. PICK p : /\ p.from = from /\ p.passwd = passwd /\ Date(p.time)
               /\ \/ h = FullHdr(p)
                  \/ h = PointHdr(p) /\ from.point # 0
                  \/ h = OldHdr(p) /\ from.point = 0 /\ from.zone = zone
  BY DEF WrittenHdr
<1> DEFINE g == PutHdr(p)
<1>f. /\ g[1] = PutInt16(from.node) /\ g[3] = PutInt16(p.time.year)
      /\ g[4] = PutInt16(p.time.mon) /\ g[5] = PutInt16(p.time.day)
      /\ g[6] = PutInt16(p.time.hour) /\ g[7] = PutInt16(p.time.min)
      /\ g[8] = PutInt16(p.time.sec) /\ g[10] = PutInt16(PktVersion)
      /\ g[11] = PutInt16(from.net) /\ g[14] = Padded(passwd, MaxPasswd)
      /\ g[15] = PutInt16(from.zone) /\ g[18] = Swap(PutInt16(CapWord))
      /\ g[20] = PutInt16(CapWord) /\ g[21] = PutInt16(from.zone)
      /\ g[23] = PutInt16(from.point)
      /\ DOMAIN g = 1 .. 25 /\ Len(g) = 25
  BY <1>1, FieldsOfHdr DEF HdrLen
<1> HIDE DEF g
\* The three kinds differ from each other only here.
<1>2. /\ \A i \in {1, 3, 4, 5, 6, 7, 8, 10, 14} : h[i] = g[i]
      /\ Len(h) = 25
      /\ \/ h[11] = g[11] /\ \A i \in {15, 18, 20, 21, 23} : h[i] = g[i]
         \/ /\ h[11] = PutInt16(NoNet) /\ h[17] = PutInt16(from.net) /\ from.point # 0
            /\ \A i \in {15, 18, 20, 21, 23} : h[i] = g[i]
         \/ /\ h[11] = g[11] /\ \A i \in {15, 18, 20, 21, 23} : h[i] = PutInt16(0)
            /\ from.point = 0 /\ from.zone = zone
  <2>1. CASE h = FullHdr(p)
    BY <1>f, <2>1 DEF FullHdr, g
  <2>2. CASE h = PointHdr(p) /\ from.point # 0
    <3>1. h = [g EXCEPT ![11] = PutInt16(NoNet), ![17] = PutInt16(from.net)]
      BY <1>1, <2>2 DEF PointHdr, g
    <3>2. \A i \in 1 .. 25 : i # 11 /\ i # 17 => h[i] = g[i]
      BY <1>f, <3>1
    <3>3. h[11] = PutInt16(NoNet) /\ h[17] = PutInt16(from.net)
      BY <1>f, <3>1
    <3>4. Len(h) = 25
      <4>1. h \in [1 .. 25 -> {h[i] : i \in 1 .. 25}]
        BY <1>f, <3>1
      <4> QED  BY <4>1, LenOfDomain
    <3> QED  BY <2>2, <3>2, <3>3, <3>4
  <2>3. CASE h = OldHdr(p) /\ from.point = 0 /\ from.zone = zone
    <3>1. h = [i \in 1 .. 25 |-> IF i \in 15 .. 24 THEN PutInt16(0) ELSE g[i]]
      BY <2>3 DEF OldHdr, HdrLen, g
    <3>2. Len(h) = 25
      BY <3>1
    <3> QED  BY <1>f, <2>3, <3>1, <3>2
  <2> QED  BY <1>1, <2>1, <2>2, <2>3
<1>3. /\ {from.node, from.net, from.zone, from.point, NoNet, 0, PktVersion, CapWord} \subseteq Word16
      /\ {p.time.year, p.time.mon, p.time.day, p.time.hour, p.time.min, p.time.sec} \subseteq Word16
      /\ from.net # NoNet /\ from.zone # 0
      /\ PktVersion = 2 /\ CapWord = 1
      /\ from = [zone |-> from.zone, net |-> from.net, node |-> from.node, point |-> from.point]
  <2>1. PktVersion = 2 /\ CapWord = 1 /\ NoNet = 256 * 255 + 255
    BY DEF NoNet, PktVersion, CapWord
  <2>2. {from.node, from.net, from.zone, from.point} \subseteq Word16 /\ from.net # NoNet /\ from.zone # 0
    BY DEF Address
  <2>3. NoNet \in Word16 /\ 0 \in Word16 /\ PktVersion \in Word16 /\ CapWord \in Word16
    BY <2>1 DEF Word16
  <2>4. {p.time.year, p.time.mon, p.time.day, p.time.hour, p.time.min, p.time.sec} \subseteq Word16
    <3>1. Date(p.time)
      BY <1>1
    <3>2. \A v : (v \in 1900 .. 2099 \/ v \in 0 .. 59) => v \in Word16
      BY DEF Word16
    <3>3. \A v : (v \in 0 .. 11 \/ v \in 0 .. 31 \/ v \in 0 .. 23) => v \in 0 .. 59
      OBVIOUS
    <3> QED  BY ONLY <3>1, <3>2, <3>3 DEF Date
  <2>5. from = [zone |-> from.zone, net |-> from.net, node |-> from.node, point |-> from.point]
    BY DEF Address
  <2> QED  BY <2>1, <2>2, <2>3, <2>4, <2>5
<1>4. /\ Word(h, 1) = from.node /\ Word(h, 3) = p.time.year /\ Word(h, 4) = p.time.mon
      /\ Word(h, 5) = p.time.day /\ Word(h, 6) = p.time.hour /\ Word(h, 7) = p.time.min
      /\ Word(h, 8) = p.time.sec /\ Word(h, 10) = 2
  BY <1>f, <1>2, <1>3, NumberReadsBack DEF Word
<1>5. HdrReads(h)
  <2>1. Date(p.time)
    BY <1>1
  <2> QED  BY <1>2, <1>3, <1>4, <2>1 DEF HdrReads, HdrLen, DateReads, Date
<1>6. HdrPasswd(h) = passwd
  BY <1>f, <1>2, PasswdReadsBack DEF HdrPasswd
<1>7. HdrFrom(h, zone) = from
  <2>1. CASE \A i \in {15, 18, 20, 21, 23} : h[i] = g[i]
    <3>1. /\ Word(h, 20) = 1 /\ GetInt16(Swap(h[18])) = 1
          /\ Word(h, 21) = from.zone /\ Word(h, 23) = from.point
      BY <1>f, <1>3, <2>1, NumberReadsBack DEF Word
    <3>2. Cap(h) = 1
      BY <3>1 DEF Cap
    <3>3. ZoneAt(h, 15, 21, zone) = from.zone /\ PointAt(h, 23) = from.point
      BY <1>3, <3>1, <3>2 DEF ZoneAt, PointAt
    <3>4. OrigNet(h) = from.net
      BY <1>f, <1>2, <1>3, <2>1, <3>3, NumberReadsBack DEF OrigNet, Word
    <3> QED  BY <1>3, <1>4, <3>3, <3>4 DEF HdrFrom
  <2>2. CASE /\ h[11] = g[11] /\ \A i \in {15, 18, 20, 21, 23} : h[i] = PutInt16(0)
             /\ from.point = 0 /\ from.zone = zone
    <3>1. Word(h, 20) = 0 /\ Word(h, 15) = 0 /\ Word(h, 11) = from.net
      BY <1>f, <1>3, <2>2, NumberReadsBack DEF Word
    <3>2. Cap(h) = 0
      BY <3>1 DEF Cap
    <3>3. ZoneAt(h, 15, 21, zone) = from.zone /\ PointAt(h, 23) = from.point
      BY <2>2, <3>1, <3>2 DEF ZoneAt, PointAt, NonZero
    <3>4. OrigNet(h) = from.net
      BY <1>3, <3>1 DEF OrigNet
    <3> QED  BY <1>3, <1>4, <3>3, <3>4 DEF HdrFrom
  <2> QED  BY <1>2, <2>1, <2>2
<1> QED  BY <1>5, <1>6, <1>7


\* The header of a message that a program has written is never too long.
LEMMA MsgHeaderReads ==
  ASSUME NEW m, NEW clock, NEW S,
         m.name_to \in Seq(S), m.name_from \in Seq(S), m.subject \in Seq(S),
         MaxName \in Nat \ {0}, MaxSubj \in Nat \ {0}
  PROVE  MsgHdrReads(PutMsgHdr(m, clock), TRUE)
<1>1. ASSUME NEW s \in Seq(S), NEW limit \in Nat \ {0}
      PROVE  Len(Sanitized(s, limit)) + 1 <= limit
  <2>1. CASE Len(s) < limit
    BY <2>1 DEF Sanitized
  <2>2. CASE ~(Len(s) < limit)
    <3>1. Sanitized(s, limit) = SubSeq(s, 1, limit - 1)
      BY <2>2 DEF Sanitized, Cut
    <3>2. Len(s) \in Nat /\ limit - 1 \in Nat /\ limit - 1 <= Len(s)
      BY <2>2
    <3>3. \A i \in 1 .. limit - 1 : s[i] \in S
      BY <3>2
    <3>4. Len(SubSeq(s, 1, limit - 1)) = limit - 1
      BY <3>2, <3>3, SubSeqProperties
    <3> QED  BY <3>1, <3>2, <3>4
  <2> QED  BY <2>1, <2>2
<1> DEFINE h == PutMsgHdr(m, clock)
<1>2. /\ Len(h) = 10 /\ h[8] = Sanitized(m.name_to, MaxName)
      /\ h[9] = Sanitized(m.name_from, MaxName) /\ h[10] = Sanitized(m.subject, MaxSubj)
  BY DEF PutMsgHdr
<1> HIDE DEF h
<1>3. /\ BytesAt(h, 8) = Len(Sanitized(m.name_to, MaxName)) + 1
      /\ BytesAt(h, 9) = Len(Sanitized(m.name_from, MaxName)) + 1
      /\ BytesAt(h, 10) = Len(Sanitized(m.subject, MaxSubj)) + 1
  BY <1>2 DEF BytesAt, There
<1>4. BytesAt(h, 8) <= MaxName /\ BytesAt(h, 9) <= MaxName /\ BytesAt(h, 10) <= MaxSubj
  BY <1>1, <1>3
<1> QED  BY <1>4 DEF MsgHdrReads, h

-----------------------------------------------------------------------------
\* A packet that a program has written: its header tells who sent it, and what
\* is sound can be read to its end.  Another one has a header that cannot be.
HonestPacket(x, c) ==
  /\ DOMAIN x.msgs = 1 .. Len(x.msgs) /\ Len(x.msgs) \in Nat
  /\ \A i \in DOMAIN x.msgs : BAD \notin x.msgs[i].to
  /\ \/ ~HdrReads(x.header) /\ ~x.sound
     \/ /\ Address(x.sender) /\ Password(x.passwd)
        /\ WrittenHdr(x.header, x.sender, x.passwd, c.zone)
        /\ x.sound =>
             \A i \in DOMAIN x.msgs :
               /\ x.msgs[i].readable
               /\ \E m, clock, S :
                    /\ {m.name_to, m.name_from, m.subject} \subseteq Seq(S)
                    /\ x.msgs[i].head = PutMsgHdr(m, clock)
Honest(in, c) == \A p \in Pkt : HonestPacket(in[p], c)

Unpacking == pc \in {"unpack", "ponged"}
Waiting   == out \cup buf

\* unpack() is at a packet that is there, at one of its messages or its end.
Types ==
  /\ disk \in [Pkt -> {"pkt", "bad", "none"}]
  /\ pc \in {"idle", "next", "unpack", "ponged", "close", "flush"}
  /\ pos \in Nat /\ stops \in Nat /\ retries \in Nat
  /\ todo \subseteq {p \in Pkt : disk[p] = "pkt"}
  /\ Unpacking => /\ cur \in Pkt /\ disk[cur] = "pkt" /\ cur \notin todo
                  /\ Len(inbound[cur].msgs) \in Nat
                  /\ DOMAIN inbound[cur].msgs = 1 .. Len(inbound[cur].msgs)
                  /\ pos \in 1 .. Len(inbound[cur].msgs) + 1
                  /\ HdrReads(inbound[cur].header)
  /\ pc = "ponged" => pos \in DOMAIN inbound[cur].msgs /\ This.net
  /\ signal_exit => stops > 0
  /\ pc = "idle" => buf = {}

\* Dealt with, wherever the packet is.
Settled(p, i) ==
  LET m == Message(p, i) IN
  \/ \A d \in m.to : <<p, i, d>> \in Waiting
  \/ <<p, i, BAD>> \in Waiting
  \/ \E r \in {k[3] : k \in killed} \ {"dupe"} : <<p, i, r>> \in killed
  \/ m.key \in hurt
Dropped(p, i) == <<p, i, "dupe">> \in killed
KeySettled(k) == \E y \in Messages : Message(y[1], y[2]).key = k /\ Settled(y[1], y[2])

\* The messages of packets that are gone; those before the one unpack() is at;
\* and those for which the history, in core or on the disk, has a key.
Gone ==
  \A x \in Messages : disk[x[1]] = "none" =>
    \/ Settled(x[1], x[2])
    \/ Dropped(x[1], x[2]) /\ \E y \in Same(Message(x[1], x[2])) : Kept(y[1], y[2])
Past ==
  Unpacking => \A x \in Messages : x[1] = cur /\ x[2] < pos =>
    \/ Settled(x[1], x[2])
    \/ Dropped(x[1], x[2]) /\ KeySettled(Message(x[1], x[2]).key)
Known == \A k \in core \cup history : KeySettled(k)


\* What every step does but a kill: what waits goes on waiting, is out, or is
\* hurt; only a packet whose end was reached goes; what unpack() has passed
\* and what the history gets to know is settled.
Progress ==
  /\ UNCHANGED given
  /\ killed \subseteq killed' /\ hurt \subseteq hurt'
  /\ \A e \in Waiting : e \in Waiting' \/ Message(e[1], e[2]).key \in hurt'
  /\ \A p \in Pkt : disk'[p] = "none" =>
       \/ disk[p] = "none"
       \/ Unpacking /\ p = cur /\ pos \notin DOMAIN inbound[cur].msgs
  /\ Unpacking' => \A x \in Messages : x[1] = cur' /\ x[2] < pos' =>
       \/ Unpacking /\ cur' = cur /\ x[2] < pos
       \/ Settled(x[1], x[2])'
       \/ Dropped(x[1], x[2])' /\ Message(x[1], x[2]).key \in core
  /\ \A k \in core' \cup history' : k \in core \cup history \/ KeySettled(k)'

\* A message is a place in a packet.
LEMMA MessagesAre ==
  /\ \A p \in Pkt : \A i \in DOMAIN inbound[p].msgs : <<p, i>> \in Messages
  /\ \A x \in Messages : /\ x = <<x[1], x[2]>> /\ x[1] \in Pkt
                         /\ x[2] \in DOMAIN inbound[x[1]].msgs
BY DEF Messages

\* What is settled stays so.
LEMMA SettledStays ==
  ASSUME Progress, NEW p, NEW i, Settled(p, i)
  PROVE  Settled(p, i)'
<1> USE DEF Settled, Message, Progress, given
<1>1. CASE \A d \in Message(p, i).to : <<p, i, d>> \in Waiting
  BY <1>1
<1>2. CASE <<p, i, BAD>> \in Waiting
  BY <1>2
<1>3. CASE \E r \in {k[3] : k \in killed} \ {"dupe"} : <<p, i, r>> \in killed
  BY <1>3
<1>4. CASE Message(p, i).key \in hurt
  BY <1>4
<1> QED  BY <1>1, <1>2, <1>3, <1>4

\* So does a key.
LEMMA KeySettledStays ==
  ASSUME Progress, NEW k, KeySettled(k)
  PROVE  KeySettled(k)'
<1>1. PICK y \in Messages : Message(y[1], y[2]).key = k /\ Settled(y[1], y[2])
  BY DEF KeySettled
<1>2. Settled(y[1], y[2])'
  BY <1>1, SettledStays
<1>3. y \in Messages' /\ Message(y[1], y[2])' = Message(y[1], y[2])
  BY DEF Progress, given, Messages, Message
<1> QED  BY <1>1, <1>2, <1>3 DEF KeySettled

\* A message is kept when its packet is there or when it is settled.
LEMMA KeptIs == \A p, i : Kept(p, i) <=> disk[p] # "none" \/ Settled(p, i)
BY DEF Kept, Settled, Waiting

\* The three parts of the invariant hold on: a packet goes when unpack() has
\* passed all its messages, and a dupe is dropped only for a key that is settled.
LEMMA ProgressKeeps ==
  ASSUME Types, Gone, Past, Known, Progress
  PROVE  (Gone /\ Past /\ Known)'
<1>0. /\ UNCHANGED inbound /\ Messages' = Messages
      /\ \A p, i : Message(p, i)' = Message(p, i)
      /\ \A m : Same(m)' = Same(m)
      /\ \A m : Same(m) = {y \in Messages : Message(y[1], y[2]).key = m.key}
  BY DEF Progress, given, Messages, Message, Same
<1>1. Past'
  <2>1. SUFFICES ASSUME Unpacking', NEW x \in Messages, x[1] = cur', x[2] < pos'
                 PROVE  \/ Settled(x[1], x[2])'
                        \/ Dropped(x[1], x[2])' /\ KeySettled(Message(x[1], x[2]).key)'
    BY <1>0 DEF Past
  <2>2. CASE Unpacking /\ cur' = cur /\ x[2] < pos
    <3>1. \/ Settled(x[1], x[2])
          \/ Dropped(x[1], x[2]) /\ KeySettled(Message(x[1], x[2]).key)
      BY <2>1, <2>2 DEF Past
    <3>2. Dropped(x[1], x[2]) => Dropped(x[1], x[2])'
      BY DEF Dropped, Progress
    <3>3. KeySettled(Message(x[1], x[2]).key) => KeySettled(Message(x[1], x[2]).key)'
      <4>1. ASSUME NEW k, k = Message(x[1], x[2]).key, KeySettled(k)
            PROVE  KeySettled(k)'
        BY <4>1, KeySettledStays
      <4> QED  BY <1>0, <4>1 DEF KeySettled
    <3> QED  BY <3>1, <3>2, <3>3, SettledStays
  <2>3. CASE Dropped(x[1], x[2])' /\ Message(x[1], x[2]).key \in core
    <3>1. ASSUME NEW k, k = Message(x[1], x[2]).key
          PROVE  KeySettled(k)'
      BY <2>3, <3>1, KeySettledStays DEF Known
    <3> QED  BY <1>0, <2>3, <3>1 DEF KeySettled
  <2> QED  BY <2>1, <2>2, <2>3 DEF Progress
<1>2. Known'
  BY KeySettledStays DEF Known, Progress
<1>3. Gone'
  <2>1. SUFFICES ASSUME NEW x \in Messages, disk'[x[1]] = "none"
                 PROVE  \/ Settled(x[1], x[2])'
                        \/ /\ Dropped(x[1], x[2])'
                           /\ \E y \in Same(Message(x[1], x[2])) : Kept(y[1], y[2])'
    BY <1>0 DEF Gone
  <2>2. x[1] \in Pkt /\ x[2] \in DOMAIN inbound[x[1]].msgs
    BY <2>1, MessagesAre
  <2>3. Dropped(x[1], x[2]) => Dropped(x[1], x[2])'
    BY DEF Dropped, Progress
  <2>4. KeySettled(Message(x[1], x[2]).key) =>
          \E y \in Same(Message(x[1], x[2])) : Kept(y[1], y[2])'
    <3>1. SUFFICES ASSUME NEW y \in Messages, Message(y[1], y[2]).key = Message(x[1], x[2]).key,
                          Settled(y[1], y[2])
                   PROVE  y \in Same(Message(x[1], x[2])) /\ Kept(y[1], y[2])'
      BY DEF KeySettled
    <3>2. Kept(y[1], y[2])'
      <4>1. Settled(y[1], y[2])'
        BY <3>1, SettledStays
      <4> QED  BY <4>1 DEF Kept, Settled, Waiting
    <3> QED  BY <1>0, <3>1, <3>2
  \* The end of the packet at hand has been reached.
  <2>5. ASSUME NEW i, disk[cur] # "none", disk'[cur] = "none", <<cur, i>> \in Messages
        PROVE  \/ Settled(cur, i)
               \/ Dropped(cur, i) /\ KeySettled(Message(cur, i).key)
    <3>1. Unpacking /\ pos \notin DOMAIN inbound[cur].msgs
      <4>1. cur \in Pkt
        BY <2>5, MessagesAre
      <4> QED  BY <2>5, <4>1 DEF Progress
    <3>2. i \in DOMAIN inbound[cur].msgs
      BY <2>5, MessagesAre
    <3>3. ASSUME NEW n \in Nat, NEW a \in Nat, a \in 1 .. n + 1, a \notin 1 .. n,
                 NEW b \in 1 .. n
          PROVE  b < a
      BY ONLY <3>3
    <3>4. i < pos
      BY <3>1, <3>2, <3>3 DEF Types
    <3> QED  BY <2>5, <3>1, <3>4 DEF Past
  <2>6. CASE disk[x[1]] # "none"
    <3>1. x[1] = cur
      BY <2>1, <2>2, <2>6 DEF Progress
    <3>2. \/ Settled(x[1], x[2])
          \/ Dropped(x[1], x[2]) /\ KeySettled(Message(x[1], x[2]).key)
      BY <2>1, <2>2, <2>5, <2>6, <3>1, MessagesAre
    <3> QED  BY <2>3, <2>4, <3>2, SettledStays
  <2>7. CASE disk[x[1]] = "none"
    <3>1. CASE Settled(x[1], x[2])
      BY <3>1, SettledStays
    <3>2. CASE Dropped(x[1], x[2]) /\ \E y \in Same(Message(x[1], x[2])) : Kept(y[1], y[2])
      <4>1. PICK y \in Messages : /\ Message(y[1], y[2]).key = Message(x[1], x[2]).key
                                  /\ Kept(y[1], y[2])
        BY <1>0, <3>2
      <4>2. CASE Settled(y[1], y[2])
        BY <2>3, <2>4, <3>2, <4>1, <4>2 DEF KeySettled
      <4>3. CASE disk'[y[1]] # "none"
        <5>1. Kept(y[1], y[2])'
          BY <4>3 DEF Kept
        <5> QED  BY <1>0, <2>3, <3>2, <4>1, <5>1
      <4>4. CASE disk[y[1]] # "none" /\ disk'[y[1]] = "none"
        <5>1. y[1] = cur
          BY <4>4, MessagesAre DEF Progress
        <5>2. \/ Settled(y[1], y[2])
              \/ Dropped(y[1], y[2]) /\ KeySettled(Message(y[1], y[2]).key)
          BY <2>5, <4>1, <4>4, <5>1, MessagesAre
        <5>3. KeySettled(Message(x[1], x[2]).key)
          BY <4>1, <5>2 DEF KeySettled
        <5> QED  BY <2>3, <2>4, <3>2, <5>3
      <4> QED  BY <4>1, <4>2, <4>3, <4>4, KeptIs
    <3> QED  BY <2>1, <2>7, <3>1, <3>2 DEF Gone
  <2> QED  BY <2>6, <2>7
<1> QED  BY <1>1, <1>2, <1>3

-----------------------------------------------------------------------------
\* What a step of a run does with what waits in output packets, W, when M are
\* the keys of what it could not write; and where it goes from a message.
Waits(W, M) ==
  /\ out \subseteq out' /\ hurt \cup M \subseteq hurt'
  /\ \A e \in W : e \in Waiting' \/ Message(e[1], e[2]).key \in hurt'
  /\ Waiting' \subseteq out \cup W

MovesOn == pc' = "unpack" /\ cur' = cur /\ pos' = pos + 1 /\ disk' = disk
GivesUp == /\ pc' \in {"close", "next"} /\ cur' = NONE /\ pos' = 0
           /\ \/ disk' = [disk EXCEPT ![cur] = "bad"]
              \/ Fault("rename") /\ disk' = disk

\* outpkt_close() lets out what waits, or hurts it.
LEMMA PublishWaits ==
  ASSUME NEW W, NEW M, Publish(W, M)
  PROVE  Waits(W, M) /\ buf' = {}
<1>1. PICK torn \in SUBSET W : /\ out' = out \cup (W \ torn)
                               /\ hurt' = hurt \cup Keys(torn) \cup M
                               /\ buf' = {}
  BY DEF Publish
<1>2. \A e \in torn : Message(e[1], e[2]).key \in hurt'
  BY <1>1 DEF Keys
<1> QED  BY <1>1, <1>2 DEF Waits, Waiting

\* After an error unpack_file() leaves the packet, which is .bad then.
LEMMA GiveUpGives ==
  ASSUME NEW severe, GiveUp(severe)
  PROVE  GivesUp
<1>1. pc' \in {"close", "next"}
  BY DEF GiveUp
<1> QED  BY <1>1 DEF GiveUp, GivesUp, RenameBad

\* After a message unpack() goes on to the next, or a signal ends the packet.
LEMMA AfterMoves ==
  ASSUME NEW W, NEW M, AfterMessage(W, M)
  PROVE  Waits(W, M) /\ (MovesOn \/ (signal_exit /\ GivesUp))
<1> DEFINE full  == config.maxmsg > 0 /\ count + 1 >= config.maxmsg
           close == signal_exit \/ (full /\ ~config.x_flag)
<1>1. /\ IF close THEN Publish(W, M)
                  ELSE buf' = W /\ hurt' = hurt \cup M /\ UNCHANGED out
      /\ IF signal_exit THEN GiveUp(TRUE)
                        ELSE pos' = pos + 1 /\ pc' = "unpack" /\ UNCHANGED <<disk, cur>>
  BY Zenon DEF AfterMessage
<1> HIDE DEF full, close
<1>2. Waits(W, M)
  <2>1. CASE close
    BY <1>1, <2>1, PublishWaits
  <2>2. CASE ~close
    BY <1>1, <2>2 DEF Waits, Waiting
  <2> QED  BY <2>1, <2>2
<1>3. MovesOn \/ (signal_exit /\ GivesUp)
  <2>1. CASE signal_exit
    BY <1>1, <2>1, GiveUpGives
  <2>2. CASE ~signal_exit
    <3>1. pos' = pos + 1 /\ pc' = "unpack" /\ UNCHANGED <<disk, cur>>
      BY <1>1, <2>2, Zenon
    <3> QED  BY <3>1 DEF MovesOn
  <2> QED  BY <2>1, <2>2
<1> QED  BY <1>2, <1>3

\* The first reason is one that holds; and never that the message is a dupe.
LEMMA FirstHolds ==
  ASSUME NEW m, NEW reasons \in {Before, After, Netmail}
  PROVE  \/ /\ First(reasons, m) = OK
            /\ \A k \in DOMAIN reasons : reasons[k] \notin Wrong(cur, m)
         \/ /\ First(reasons, m) \in Wrong(cur, m)
            /\ First(reasons, m) \notin {OK, "dupe"}
<1> DEFINE Holds(k) == reasons[k] \in Wrong(cur, m)
           least == CHOOSE k \in DOMAIN reasons : Holds(k) /\ \A j \in 1..k - 1 : ~Holds(j)
<1>1. /\ DOMAIN reasons \in {1 .. 2, 1 .. 5}
      /\ \A k \in DOMAIN reasons : reasons[k] \notin {OK, "dupe"}
  BY DEF Before, After, Netmail, OK
<1>2. First(reasons, m) = IF \A r \in Wrong(cur, m) : \A k \in DOMAIN reasons : reasons[k] # r
                            THEN OK ELSE reasons[least]
  BY DEF First
<1>3. CASE \A k \in DOMAIN reasons : ~Holds(k)
  BY <1>2, <1>3
<1>4. CASE \E k \in DOMAIN reasons : Holds(k)
  <2>1. \E k \in DOMAIN reasons : Holds(k) /\ \A j \in 1..k - 1 : ~Holds(j)
    <3> HIDE DEF Holds
    <3>1. 1 .. 2 = {1, 2} /\ 1 .. 5 = {1, 2, 3, 4, 5}
      OBVIOUS
    <3>2. \E k \in 1 .. 5 : k \in DOMAIN reasons /\ Holds(k)
      BY <1>1, <1>4, <3>1
    <3> QED  BY <1>1, <3>1, <3>2
  <2>2. least \in DOMAIN reasons /\ Holds(least)
    BY <2>1
  <2> HIDE DEF least
  <2> QED  BY <1>1, <1>2, <1>4, <2>2
<1> QED  BY <1>3, <1>4

-----------------------------------------------------------------------------
\* A step of unpack() that ends with a message: what Progress asks of it.
LEMMA MessageProgress ==
  ASSUME Types, Unpacking, MovesOn \/ GivesUp, UNCHANGED given,
         NEW W, NEW M, buf \subseteq W, Waits(W, M), killed \subseteq killed',
         \A x \in Messages : x[1] = cur /\ x[2] = pos =>
           \/ Settled(x[1], x[2])'
           \/ Dropped(x[1], x[2])' /\ Message(x[1], x[2]).key \in core,
         \A k \in core' \cup history' : k \in core \cup history \/ KeySettled(k)'
  PROVE  Progress
<1>1. \A p \in Pkt : disk'[p] = "none" => disk[p] = "none"
  BY DEF MovesOn, GivesUp, Types
<1>2. \A e \in Waiting : e \in Waiting' \/ Message(e[1], e[2]).key \in hurt'
  BY DEF Waits, Waiting
<1>3. ASSUME Unpacking', NEW x \in Messages, x[1] = cur', x[2] < pos'
      PROVE  \/ cur' = cur /\ x[2] < pos
             \/ Settled(x[1], x[2])'
             \/ Dropped(x[1], x[2])' /\ Message(x[1], x[2]).key \in core
  <2>1. MovesOn
    BY <1>3 DEF Unpacking, GivesUp
  <2>2. x[1] = cur /\ x[2] \in 1 .. Len(inbound[cur].msgs) /\ pos \in Nat
    BY <1>3, <2>1, MessagesAre DEF MovesOn, Types
  <2>3. x[2] < pos \/ x[2] = pos
    <3>1. x[2] \in Nat /\ x[2] < pos + 1 /\ pos \in Nat
      BY <1>3, <2>1, <2>2 DEF MovesOn, Types
    <3> QED  BY ONLY <3>1
  <2> QED  BY <2>1, <2>2, <2>3 DEF MovesOn
<1> QED  BY <1>1, <1>2, <1>3 DEF Progress, Waits

\* After it unpack() is at a place of the packet again, or at none.
LEMMA MessageTypes ==
  ASSUME Types, Unpacking, pos \in DOMAIN inbound[cur].msgs, MovesOn \/ GivesUp,
         UNCHANGED <<given, todo, stops, retries, signal_exit>>
  PROVE  Types'
<1>1. CASE MovesOn
  <2>1. pos' \in Nat /\ pos' \in 1 .. Len(inbound[cur].msgs) + 1
    <3>1. ASSUME NEW n \in Nat, NEW a \in 1 .. n
          PROVE  a + 1 \in Nat /\ a + 1 \in 1 .. n + 1
      BY ONLY <3>1
    <3> QED  BY <1>1, <3>1 DEF Types, MovesOn
  <2> QED  BY <1>1, <2>1 DEF Types, MovesOn, Unpacking, given
<1>2. CASE GivesUp
  BY <1>2 DEF Types, GivesUp, Unpacking, given
<1> QED  BY <1>1, <1>2

\* Where unpack() is: at a message of this packet.
LEMMA AtMessage ==
  ASSUME Types, Reading \/ NetmailTurn
  PROVE  /\ Unpacking /\ pos \in DOMAIN inbound[cur].msgs /\ <<cur, pos>> \in Messages
         /\ cur \in Pkt /\ disk[cur] = "pkt" /\ HdrReads(inbound[cur].header)
         /\ NetmailTurn => This.net
<1>1. Unpacking /\ pos \in DOMAIN inbound[cur].msgs /\ (NetmailTurn => This.net)
  BY DEF Reading, NetmailTurn, Unpacking, Types
<1> QED  BY <1>1 DEF Types, Messages

\* What do_netmail() and do_echomail() do with the message at hand.
LEMMA EntriesSettle ==
  ASSUME UNCHANGED given, NEW W, NEW M, Waits(W, M), NEW x \in Messages,
         \/ \A d \in Message(x[1], x[2]).to : <<x[1], x[2], d>> \in W
         \/ <<x[1], x[2], BAD>> \in W
         \/ Message(x[1], x[2]).key \in M
  PROVE  Settled(x[1], x[2])'
<1>1. Message(x[1], x[2])' = Message(x[1], x[2])
  BY DEF given, Message
<1>2. \A d : LET e == <<x[1], x[2], d>> IN
        e \in W => e \in Waiting' \/ Message(x[1], x[2]).key \in hurt'
  BY DEF Waits
<1> QED  BY <1>1, <1>2 DEF Settled, Waits

\* A message that is dropped for a reason of its own is settled.
LEMMA KilledSettles ==
  ASSUME NEW x \in Messages, NEW r, r # "dupe", <<x[1], x[2], r>> \in killed'
  PROVE  Settled(x[1], x[2])'
BY DEF Settled

\* do_echomail() writes a message when it is new and from a linked system;
\* otherwise it refuses it for a reason that holds.
LEMMA RefusalHolds ==
  ASSUME NEW m
  PROVE  \/ /\ Refusal(m) = OK /\ New(m)
            /\ "insecure" \notin Wrong(cur, m)
         \/ Refusal(m) = "dupe" /\ m.key \in core /\ ~New(m)
         \/ Refusal(m) \in Wrong(cur, m) /\ Refusal(m) \notin {OK, "dupe"}
<1>1. CASE First(Before, m) # OK
  BY <1>1, FirstHolds DEF Refusal
<1>2. CASE First(Before, m) = OK /\ m.key \in core
  BY <1>2 DEF Refusal, New
<1>3. CASE First(Before, m) = OK /\ m.key \notin core
  <2>1. Refusal(m) = First(After, m) /\ New(m)
    BY <1>3 DEF Refusal, New
  <2>2. After[2] = "insecure" /\ 2 \in DOMAIN After
    BY DEF After
  <2> QED  BY <2>1, <2>2, FirstHolds
<1> QED  BY <1>1, <1>2, <1>3

\* do_netmail() drops the message, or it waits for all its destinations.
LEMMA NetmailSettles ==
  ASSUME Types, TossNetmail
  PROVE  /\ \E W : buf \subseteq W /\ Waits(W, {})
         /\ MovesOn \/ (signal_exit /\ GivesUp)
         /\ killed \subseteq killed'
         /\ \A x \in Messages : x[1] = cur /\ x[2] = pos => Settled(x[1], x[2])'
<1> DEFINE drop == First(Netmail, This)
<1>1. CASE drop = OK
  <2> DEFINE W == buf \cup Entries(This.to)
  <2>1. killed' = killed /\ AfterMessage(W, {}) /\ UNCHANGED given
    BY <1>1, Zenon DEF TossNetmail
  <2>2. \A d \in This.to : <<cur, pos, d>> \in W
    BY DEF Entries
  <2> HIDE DEF W
  <2>3. \A x \in Messages : x[1] = cur /\ x[2] = pos => Settled(x[1], x[2])'
    BY <2>1, <2>2, AfterMoves, EntriesSettle DEF This
  <2>4. buf \subseteq W
    BY DEF W
  <2> QED  BY <2>1, <2>3, <2>4, AfterMoves
<1>2. CASE drop # OK
  <2>1. killed' = killed \cup {<<cur, pos, drop>>} /\ AfterMessage(buf, {})
    BY <1>2, Zenon DEF TossNetmail
  <2>2. drop # "dupe"
    BY <1>2, FirstHolds
  <2> HIDE DEF drop
  <2>3. \A x \in Messages : x[1] = cur /\ x[2] = pos => Settled(x[1], x[2])'
    BY <2>1, <2>2, KilledSettles
  <2> QED  BY <2>1, <2>3, AfterMoves
<1> QED  BY <1>1, <1>2

\* do_echomail(): the same, or it drops the message as a dupe.
LEMMA EchomailSettles ==
  ASSUME Types, TossEchomail
  PROVE  /\ \E W : buf \subseteq W /\ Waits(W, {})
         /\ MovesOn \/ (signal_exit /\ GivesUp)
         /\ killed \subseteq killed'
         /\ \A x \in Messages : x[1] = cur /\ x[2] = pos =>
              \/ Settled(x[1], x[2])'
              \/ Dropped(x[1], x[2])' /\ This.key \in core /\ ~New(This)
<1> DEFINE W == buf \cup Written(This)
           r == Refusal(This)
<1>1. /\ UNCHANGED given /\ AfterMessage(W, {})
      /\ killed' = IF r # OK /\ Written(This) = {} THEN killed \cup {<<cur, pos, r>>}
                                                   ELSE killed
  BY Zenon DEF TossEchomail
<1>2. Waits(W, {}) /\ (MovesOn \/ (signal_exit /\ GivesUp))
  BY <1>1, AfterMoves
<1>3. CASE r = OK
  <2>1. \A d \in This.to : <<cur, pos, d>> \in W
    BY <1>3 DEF Entries, Written
  <2> HIDE DEF W, r
  <2>2. \A x \in Messages : x[1] = cur /\ x[2] = pos => Settled(x[1], x[2])'
    BY <1>1, <1>2, <2>1, EntriesSettle DEF This
  <2> QED  BY <1>1, <1>2, <1>3, <2>2 DEF W
<1>4. CASE r # OK /\ Option(r) \notin config.kill
  <2>1. <<cur, pos, BAD>> \in W
    BY <1>4 DEF Entries, Written
  <2> HIDE DEF W, r
  <2>2. \A x \in Messages : x[1] = cur /\ x[2] = pos => Settled(x[1], x[2])'
    BY <1>1, <1>2, <2>1, EntriesSettle
  <2> QED  BY <1>1, <1>2, <2>2 DEF W
<1>5. CASE r # OK /\ Option(r) \in config.kill
  <2>1. Written(This) = {}
    BY <1>5 DEF Written
  <2>2. killed' = killed \cup {<<cur, pos, r>>}
    BY <1>1, <1>5, <2>1
  <2>3. r # "dupe" \/ (This.key \in core /\ ~New(This))
    BY <1>5, RefusalHolds
  <2> HIDE DEF W, r
  <2>4. \A x \in Messages : x[1] = cur /\ x[2] = pos =>
          Settled(x[1], x[2])' \/ (Dropped(x[1], x[2])' /\ This.key \in core /\ ~New(This))
    BY <2>2, <2>3, KilledSettles DEF Dropped
  <2> QED  BY <1>2, <2>2, <2>4 DEF W
<1> QED  BY <1>3, <1>4, <1>5

\* Output that cannot be written hurts the message.
LEMMA FailureSettles ==
  ASSUME Types, WriteFails
  PROVE  /\ \E W : buf \subseteq W /\ Waits(W, {This.key})
         /\ MovesOn \/ GivesUp
         /\ \A x \in Messages : x[1] = cur /\ x[2] = pos => Settled(x[1], x[2])'
<1>1. PICK W : /\ buf \subseteq W
               /\ \/ AfterMessage(W, {This.key})
                  \/ /\ buf' = W /\ hurt' = hurt \cup {This.key}
                     /\ UNCHANGED <<must_exit, out>>
                     /\ GiveUp(TRUE)
  <2> DEFINE kept    == First(Netmail, This) = OK
             written == IF ~This.net THEN Written(This)
                        ELSE IF kept THEN Entries(This.to) ELSE {}
             unknown == ~This.net /\ Refusal(This) = "unknown"
  <2>1. PICK some \in SUBSET written \ {written} :
          IF unknown
            THEN AfterMessage(buf \cup some, {This.key})
            ELSE /\ buf' = buf \cup some
                 /\ hurt' = hurt \cup {This.key}
                 /\ count' = IF config.maxmsg = 0 THEN 0 ELSE count + 1
                 /\ UNCHANGED <<must_exit, out>>
                 /\ GiveUp(TRUE)
    BY Zenon DEF WriteFails
  <2> HIDE DEF kept, written, unknown
  <2>2. buf \subseteq buf \cup some
    OBVIOUS
  <2> QED  BY <2>1, <2>2, Zenon
<1>2. Waits(W, {This.key})
  <2>1. CASE AfterMessage(W, {This.key})
    BY <2>1, AfterMoves
  <2>2. CASE buf' = W /\ hurt' = hurt \cup {This.key} /\ UNCHANGED out
    BY <2>2 DEF Waits, Waiting
  <2> QED  BY <1>1, <2>1, <2>2
<1>3. MovesOn \/ GivesUp
  BY <1>1, AfterMoves, GiveUpGives
<1>4. UNCHANGED given
  BY DEF WriteFails
<1>5. \A x \in Messages : x[1] = cur /\ x[2] = pos => Settled(x[1], x[2])'
  BY <1>2, <1>4, EntriesSettle DEF This
<1> QED  BY <1>1, <1>2, <1>3, <1>5

-----------------------------------------------------------------------------
\* Before the first run nothing is open.
LEMMA InitTypes ==
  ASSUME Init
  PROVE  Types
BY DEF Init, Types, Unpacking

\* Every action keeps unpack() at a packet that is there and can be read.
LEMMA StepTypes ==
  ASSUME Types, Honest(inbound, config), Next
  PROVE  Types'
<1>1. ASSUME NEW p \in Pkt, OpenPacket(p)
      PROVE  Types'
  <2>1. Len(inbound[p].msgs) \in Nat /\ DOMAIN inbound[p].msgs = 1 .. Len(inbound[p].msgs)
    BY DEF Honest, HonestPacket
  <2>2. 1 \in 1 .. Len(inbound[p].msgs) + 1
    BY <2>1
  <2> QED  BY <1>1, <2>1, <2>2 DEF OpenPacket, Types, given, bound, Unpacking
<1>2. ASSUME NEW p \in Pkt, OpenFails(p) \/ Retry(p)
      PROVE  Types'
  <2>1. CASE OpenFails(p)
    BY <2>1 DEF OpenFails, RenameBad, Types, given, bound, Unpacking
  <2>2. CASE Retry(p)
    <3>1. This' = This /\ retries' \in Nat /\ disk' = [disk EXCEPT ![p] = "pkt"]
      BY <2>2 DEF Retry, Types, given, run, This, Message
    <3>2. UNCHANGED <<inbound, pc, todo, cur, pos, buf, signal_exit, stops>>
      BY <2>2 DEF Retry, given, run
    <3>3. \A q \in Pkt : disk[q] = "pkt" => disk'[q] = "pkt"
      BY <3>1 DEF Types
    <3> QED  BY <3>1, <3>2, <3>3 DEF Types, Unpacking
  <2> QED  BY <1>2, <2>1, <2>2
<1>3. CASE Unreadable
  <2>1. Unpacking /\ GivesUp
    BY <1>3, GiveUpGives DEF Unreadable, Unpacking
  <2> QED  BY <1>3, <2>1, MessageTypes DEF Unreadable, bound
<1>4. CASE TossNetmail
  BY <1>4, NetmailSettles, AtMessage, MessageTypes DEF TossNetmail, bound
<1>5. CASE TossEchomail
  BY <1>5, EchomailSettles, AtMessage, MessageTypes DEF TossEchomail, bound
<1>6. CASE HistoryFails
  <2>1. GivesUp
    BY <1>6, GiveUpGives DEF HistoryFails
  <2> QED  BY <1>6, <2>1, AtMessage, MessageTypes DEF HistoryFails, bound
<1>7. CASE WriteFails
  BY <1>7, FailureSettles, AtMessage, MessageTypes DEF WriteFails, bound
<1>8. CASE AnswerPing
  <2>1. Reading /\ This.net /\ pc' = "ponged"
        /\ UNCHANGED <<given, disk, run, signal_exit, bound>>
    BY <1>8 DEF AnswerPing
  <2>2. This' = This
    BY <2>1 DEF This, Message, given, run
  <2> QED  BY <2>1, <2>2, AtMessage DEF Types, given, run, bound, Unpacking
<1>9. CASE EndPacket \/ UnlinkFails
  BY <1>9 DEF EndPacket, UnlinkFails, RenameBad, Types, given, bound, Unpacking
<1>10. CASE Start \/ EndLoop \/ CloseHistory
  BY <1>10 DEF Start, EndLoop, CloseHistory, Types, given, run, bound, Unpacking
<1>11. CASE Flush
  <2>1. buf' = {}
    BY <1>11 DEF Flush, Publish
  <2> QED  BY <1>11, <2>1 DEF Flush, Types, given, bound, Unpacking
<1>12. CASE Signal
  <2>1. stops' \in Nat /\ stops' > 0 /\ This' = This
    BY <1>12 DEF Signal, Types, given, run, This, Message
  <2> QED  BY <1>12, <2>1 DEF Signal, Types, given, run, Unpacking
<1>13. CASE Kill
  <2>1. stops' \in Nat
    BY <1>13 DEF Kill, Types
  <2> QED  BY <1>13, <2>1 DEF Kill, Types, given, Unpacking
<1> QED  BY <1>1, <1>2, <1>3, <1>4, <1>5, <1>6, <1>7, <1>8, <1>9, <1>10, <1>11, <1>12,
            <1>13 DEF Next, Work

-----------------------------------------------------------------------------
\* What an action that leaves the messages alone has to do for Progress.
LEMMA QuietProgress ==
  ASSUME UNCHANGED <<given, killed>>, hurt \subseteq hurt',
         \A e \in Waiting : e \in Waiting' \/ Message(e[1], e[2]).key \in hurt',
         \A p \in Pkt : disk'[p] = "none" =>
           \/ disk[p] = "none"
           \/ Unpacking /\ p = cur /\ pos \notin DOMAIN inbound[cur].msgs,
         Unpacking' => \/ Unpacking /\ cur' = cur /\ pos' = pos
                       \/ pos' = 1,
         core' \cup history' \subseteq core \cup history,
         \A x \in Messages : x[2] \in Nat \ {0}
  PROVE  Progress
<1>1. \A x \in Messages : ~(x[2] < 1)
  OBVIOUS
<1> QED  BY <1>1 DEF Progress

\* Every action but a kill makes progress in that sense.
LEMMA StepProgress ==
  ASSUME Types, Honest(inbound, config), Next, ~Kill
  PROVE  Progress
<1>0. \A x \in Messages : x[2] \in Nat \ {0}
  BY MessagesAre DEF Honest, HonestPacket
<1>1. ASSUME NEW p \in Pkt, OpenPacket(p)
      PROVE  Progress
  BY <1>0, <1>1, QuietProgress DEF OpenPacket, ghost, Waiting
<1>2. ASSUME NEW p \in Pkt, OpenFails(p) \/ Retry(p)
      PROVE  Progress
  <2>1. /\ UNCHANGED <<given, killed, hurt, out, buf, pc, cur, pos, core, history>>
        /\ \A q \in Pkt : disk'[q] = "none" => disk[q] = "none"
    BY <1>2 DEF OpenFails, Retry, RenameBad, ghost, run, Types
  <2> QED  BY <1>0, <2>1, QuietProgress DEF Waiting, Unpacking
<1>3. CASE Unreadable \/ HistoryFails
  <2>1. GivesUp /\ UNCHANGED <<given, killed, hurt, out, buf, core, history>>
    BY <1>3, GiveUpGives DEF Unreadable, HistoryFails, ghost
  <2>2. /\ \A q \in Pkt : disk'[q] = "none" => disk[q] = "none"
        /\ ~Unpacking'
    BY <2>1 DEF GivesUp, Types, Unpacking
  <2> QED  BY <1>0, <2>1, <2>2, QuietProgress DEF Waiting
<1>4. CASE TossNetmail
  <2>1. UNCHANGED <<given, core, history>>
    BY <1>4 DEF TossNetmail
  <2>2. PICK W : buf \subseteq W /\ Waits(W, {})
    BY <1>4, NetmailSettles
  <2>3. Unpacking
    BY <1>4, AtMessage DEF TossNetmail
  <2> QED  BY <1>4, <2>1, <2>2, <2>3, NetmailSettles, MessageProgress
<1>5. CASE TossEchomail
  <2>1. UNCHANGED <<given, history>> /\ core' = Remember(This)
    BY <1>5 DEF TossEchomail
  <2>2. PICK W : buf \subseteq W /\ Waits(W, {})
    BY <1>5, EchomailSettles
  <2>3. Unpacking /\ <<cur, pos>> \in Messages
    BY <1>5, AtMessage DEF TossEchomail
  <2>4. ASSUME NEW k \in core' \cup history', k \notin core \cup history
        PROVE  KeySettled(k)'
    <3>1. k = This.key /\ New(This)
      BY <2>1, <2>4 DEF Remember
    <3>2. \A x \in Messages : x = <<cur, pos>> => Settled(x[1], x[2])'
      BY <1>5, <3>1, EchomailSettles
    <3>3. PICK x \in Messages : x = <<cur, pos>> /\ Settled(x[1], x[2])'
      BY <2>3, <3>2
    <3>4. x \in Messages' /\ Message(x[1], x[2])'.key = k
      BY <2>1, <3>1, <3>3 DEF given, Messages, Message, This
    <3> QED  BY <3>3, <3>4 DEF KeySettled
  <2>5. \A x \in Messages : x[1] = cur /\ x[2] = pos =>
           \/ Settled(x[1], x[2])'
           \/ Dropped(x[1], x[2])' /\ Message(x[1], x[2]).key \in core
    BY <1>5, EchomailSettles DEF This
  <2> QED  BY <1>5, <2>1, <2>2, <2>3, <2>4, <2>5, EchomailSettles, MessageProgress
<1>6. CASE WriteFails
  <2>1. UNCHANGED <<given, history, killed>> /\ core' \subseteq core \cup {This.key}
    BY <1>6 DEF WriteFails, Remember
  <2>2. PICK W : buf \subseteq W /\ Waits(W, {This.key})
    BY <1>6, FailureSettles
  <2>3. Unpacking /\ <<cur, pos>> \in Messages
    BY <1>6, AtMessage DEF WriteFails
  <2>4. ASSUME NEW k \in core' \cup history', k \notin core \cup history
        PROVE  KeySettled(k)'
    <3>1. k = This.key
      BY <2>1, <2>4
    <3>2. PICK x \in Messages : x = <<cur, pos>> /\ Settled(x[1], x[2])'
      BY <1>6, <2>3, FailureSettles
    <3>3. x \in Messages' /\ Message(x[1], x[2])'.key = k
      BY <2>1, <3>1, <3>2 DEF given, Messages, Message, This
    <3> QED  BY <3>2, <3>3 DEF KeySettled
  <2> QED  BY <1>6, <2>1, <2>2, <2>3, <2>4, FailureSettles, MessageProgress
<1>7. CASE AnswerPing
  <2>1. UNCHANGED <<given, killed, disk, cur, pos, core, history>> /\ Unpacking
    BY <1>7 DEF AnswerPing, run, Reading, Unpacking
  <2>2. PICK W : buf \subseteq W /\ Waits(W, {})
    <3>1. CASE Publish(buf \cup Entries({PONG}), {})
      BY <3>1, PublishWaits
    <3>2. CASE UNCHANGED <<buf, out, hurt>>
      BY <3>2 DEF Waits, Waiting
    <3> QED  BY <1>7, <3>1, <3>2 DEF AnswerPing
  <2> QED  BY <1>0, <2>1, <2>2, QuietProgress DEF Waits, Waiting
<1>8. CASE EndPacket
  <2>1. /\ UNCHANGED <<given, killed, hurt, out, buf, core, history>>
        /\ Unpacking /\ pos \notin DOMAIN inbound[cur].msgs
        /\ disk' = [disk EXCEPT ![cur] = "none"] /\ pc' \in {"close", "next"}
    BY <1>8 DEF EndPacket, ghost, Unpacking
  <2>2. /\ \A q \in Pkt : disk'[q] = "none" => disk[q] = "none" \/ q = cur
        /\ ~Unpacking'
    BY <2>1 DEF Types, Unpacking
  <2> QED  BY <1>0, <2>1, <2>2, QuietProgress DEF Waiting
<1>9. CASE UnlinkFails
  <2>1. /\ UNCHANGED <<given, killed, hurt, out, buf, core, history>>
        /\ RenameBad(cur) /\ pc' = "close"
    BY <1>9 DEF UnlinkFails, ghost
  <2>2. /\ \A q \in Pkt : disk'[q] = "none" => disk[q] = "none"
        /\ ~Unpacking'
    BY <2>1 DEF RenameBad, Types, Unpacking
  <2> QED  BY <1>0, <2>1, <2>2, QuietProgress DEF Waiting
<1>10. CASE Start \/ EndLoop \/ CloseHistory
  <2>1. /\ UNCHANGED <<given, killed, hurt, out, buf, disk>>
        /\ pc' \in {"next", "close", "flush"} /\ core' \cup history' \subseteq core \cup history
    BY <1>10 DEF Start, EndLoop, CloseHistory, ghost, run
  <2> QED  BY <1>0, <2>1, QuietProgress DEF Waiting, Unpacking
<1>11. CASE Flush
  <2>1. /\ UNCHANGED <<given, killed, disk, history>> /\ Publish(buf, {})
        /\ pc' = "idle" /\ core' = {}
    BY <1>11 DEF Flush
  <2>2. Waits(buf, {})
    BY <2>1, PublishWaits
  <2> QED  BY <1>0, <2>1, <2>2, QuietProgress DEF Waits, Waiting, Unpacking
<1>12. CASE Signal
  BY <1>0, <1>12, QuietProgress DEF Signal, ghost, run, Waiting, Unpacking
<1> QED  BY <1>1, <1>2, <1>3, <1>4, <1>5, <1>6, <1>7, <1>8, <1>9, <1>10, <1>11, <1>12
         DEF Next, Work

\* A kill loses what waits: that hurts what is gone or is in the history; what
\* is in core only is forgotten, and its packet is there.
LEMMA KillKeeps ==
  ASSUME Types, Gone, Known, Kill
  PROVE  (Gone /\ Past /\ Known)'
<1>0. /\ UNCHANGED <<inbound, disk, history, out, killed>> /\ hurt \subseteq hurt'
      /\ pc' = "idle" /\ buf' = {} /\ core' = {}
      /\ \A e \in buf : disk[e[1]] = "none" \/ Message(e[1], e[2]).key \in history
           => Message(e[1], e[2]).key \in hurt'
  BY DEF Kill, given, Keys
<1>1. /\ Messages' = Messages
      /\ \A p, i : Message(p, i)' = Message(p, i)
      /\ \A m : Same(m)' = Same(m)
  BY <1>0 DEF Messages, Message, Same
<1>2. ASSUME NEW x \in Messages, Settled(x[1], x[2]),
             disk[x[1]] = "none" \/ Message(x[1], x[2]).key \in history
      PROVE  Settled(x[1], x[2])'
  <2>1. \A d : <<x[1], x[2], d>> \in Waiting =>
          <<x[1], x[2], d>> \in out' \/ Message(x[1], x[2]).key \in hurt'
    BY <1>0, <1>2 DEF Waiting
  <2> QED  BY <1>0, <1>1, <1>2, <2>1 DEF Settled, Waiting
<1>3. Known'
  <2>1. SUFFICES ASSUME NEW k \in history PROVE KeySettled(k)'
    BY <1>0 DEF Known
  <2>2. PICK y \in Messages : Message(y[1], y[2]).key = k /\ Settled(y[1], y[2])
    BY DEF Known, KeySettled
  <2>3. Settled(y[1], y[2])'
    BY <1>2, <2>2
  <2> QED  BY <1>1, <2>2, <2>3 DEF KeySettled
<1>4. Gone'
  <2>1. SUFFICES ASSUME NEW x \in Messages, disk[x[1]] = "none"
                 PROVE  \/ Settled(x[1], x[2])'
                        \/ /\ Dropped(x[1], x[2])'
                           /\ \E y \in Same(Message(x[1], x[2])) : Kept(y[1], y[2])'
    BY <1>0, <1>1 DEF Gone
  <2>2. CASE Settled(x[1], x[2])
    BY <1>2, <2>1, <2>2
  <2>3. ASSUME NEW y \in Messages, Kept(y[1], y[2])
        PROVE  Kept(y[1], y[2])'
    <3>1. CASE disk[y[1]] # "none"
      BY <1>0, <3>1 DEF Kept
    <3>2. CASE disk[y[1]] = "none"
      <4>1. Settled(y[1], y[2])'
        BY <1>2, <2>3, <3>2, KeptIs
      <4> QED  BY <4>1 DEF Kept, Settled, Waiting
    <3> QED  BY <3>1, <3>2
  <2>4. CASE Dropped(x[1], x[2]) /\ \E y \in Same(Message(x[1], x[2])) : Kept(y[1], y[2])
    BY <1>0, <2>3, <2>4 DEF Dropped, Same
  <2> QED  BY <2>1, <2>2, <2>4 DEF Gone
<1>5. Past'
  BY <1>0 DEF Past, Unpacking
<1> QED  BY <1>3, <1>4, <1>5

\* So the three parts hold after every step.
LEMMA StepKeeps ==
  ASSUME Types, Honest(inbound, config), Gone, Past, Known, [Next]_vars
  PROVE  (Gone /\ Past /\ Known)'
<1>1. CASE Kill
  BY <1>1, KillKeeps
<1>2. CASE Next /\ ~Kill
  BY <1>2, StepProgress, ProgressKeeps
<1>3. CASE UNCHANGED vars
  <2>1. \A x \in Messages : x[2] \in Nat \ {0}
    BY MessagesAre DEF Honest, HonestPacket
  <2>2. Progress
    BY <1>3, <2>1, QuietProgress DEF vars, ghost, run, Waiting, Unpacking
  <2> QED  BY <2>2, ProgressKeeps
<1> QED  BY <1>1, <1>2, <1>3

-----------------------------------------------------------------------------
\* When nothing makes ftntoss try again: what the history knows has been dealt
\* with, so that a dupe is a second message.
Handled(p, i) == disk[p] # "pkt" \/ (Unpacking /\ p = cur /\ i < pos)
Unique ==
  Trouble \/ \A k \in core \cup history :
               \E y \in Messages : Message(y[1], y[2]).key = k /\ Handled(y[1], y[2])

KilledTrue ==
  \A k \in killed : k[3] \in Truly(k[1], Message(k[1], k[2])) \cup {"dupe"}
BadTrue ==
  \A e \in Waiting : LET m == Message(e[1], e[2]) IN
    e[3] = BAD => Truly(e[1], m) # {} \/ Trouble \/ Same(m) # {<<e[1], e[2]>>}
SetAside == \A p \in Pkt : disk[p] = "bad" => ~inbound[p].sound \/ Trouble

\* What do_echomail() takes from the header is the sender and its password.
LEMMA WrongTruly ==
  ASSUME Honest(inbound, config), NEW p \in Pkt, HdrReads(inbound[p].header), NEW m
  PROVE  Wrong(p, m) = Truly(p, m)
<1>1. \/ ~HdrReads(inbound[p].header)
      \/ /\ Address(inbound[p].sender) /\ Password(inbound[p].passwd)
         /\ WrittenHdr(inbound[p].header, inbound[p].sender, inbound[p].passwd, config.zone)
  BY DEF Honest, HonestPacket
<1>2. /\ HdrFrom(inbound[p].header, config.zone) = inbound[p].sender
      /\ HdrPasswd(inbound[p].header) = inbound[p].passwd
  BY <1>1, HeaderReadsBack, LimitsAssumption
<1> QED  BY <1>2 DEF Wrong, Truly, From

\* A sound packet can be read to its end.
LEMMA SoundReads ==
  ASSUME Honest(inbound, config), NEW p \in Pkt, inbound[p].sound
  PROVE  /\ HdrReads(inbound[p].header)
         /\ \A i \in DOMAIN inbound[p].msgs : Readable(Message(p, i))
<1>1. /\ Address(inbound[p].sender) /\ Password(inbound[p].passwd)
      /\ WrittenHdr(inbound[p].header, inbound[p].sender, inbound[p].passwd, config.zone)
  BY DEF Honest, HonestPacket
<1>2. HdrReads(inbound[p].header)
  BY <1>1, HeaderReadsBack, LimitsAssumption
<1>3. ASSUME NEW i \in DOMAIN inbound[p].msgs
      PROVE  Readable(Message(p, i))
  <2>1. /\ inbound[p].msgs[i].readable
        /\ \E m, clock, S : /\ {m.name_to, m.name_from, m.subject} \subseteq Seq(S)
                            /\ inbound[p].msgs[i].head = PutMsgHdr(m, clock)
    BY <1>2, <1>3 DEF Honest, HonestPacket
  <2>2. PICK m, clock, S : /\ {m.name_to, m.name_from, m.subject} \subseteq Seq(S)
                           /\ inbound[p].msgs[i].head = PutMsgHdr(m, clock)
    BY <2>1
  <2>3. MsgHdrReads(inbound[p].msgs[i].head, TRUE)
    BY <2>2, MsgHeaderReads, LimitsAssumption
  <2> QED  BY <2>1, <2>3 DEF Readable, Message, MsgHdrReads
<1> QED  BY <1>2, <1>3

\* do_echomail() refuses a message for what it is, or because its key is known:
\* then there is another message of that key, or there was trouble.
LEMMA RefusedTruly ==
  ASSUME Types, Honest(inbound, config), Unique, TossEchomail, Refusal(This) # OK
  PROVE  /\ Refusal(This) \in Truly(cur, This) \cup {"dupe"}
         /\ Truly(cur, This) # {} \/ Trouble \/ Same(This) # {<<cur, pos>>}
<1>1. /\ Unpacking /\ disk[cur] = "pkt" /\ cur \in Pkt /\ HdrReads(inbound[cur].header)
      /\ pos \in Nat
  BY AtMessage DEF TossEchomail, Types
<1>2. Wrong(cur, This) = Truly(cur, This)
  BY <1>1, WrongTruly
<1>3. CASE Refusal(This) \in Truly(cur, This)
  BY <1>3
<1>4. CASE Refusal(This) = "dupe" /\ This.key \in core
  <2>1. ASSUME ~Trouble
        PROVE  Same(This) # {<<cur, pos>>}
    <3>1. PICK y \in Messages : Message(y[1], y[2]).key = This.key /\ Handled(y[1], y[2])
      BY <1>4, <2>1 DEF Unique
    <3>2. ~(y[1] = cur /\ y[2] = pos)
      <4>1. ~(pos < pos)
        BY ONLY <1>1
      <4> QED  BY <1>1, <3>1, <4>1 DEF Handled
    <3> QED  BY <3>1, <3>2 DEF Same
  <2> QED  BY <1>4, <2>1
<1> QED  BY <1>2, <1>3, <1>4, RefusalHolds

\* A message in a bad packet is there for a reason.
LEMMA NewWaiting ==
  ASSUME Types, Honest(inbound, config), Unique, Next, NEW e \in Waiting', e[3] = BAD
  PROVE  \/ e \in Waiting \/ Trouble
         \/ Truly(e[1], Message(e[1], e[2])) # {}
         \/ Same(Message(e[1], e[2])) # {<<e[1], e[2]>>}
<1>1. CASE TossNetmail
  <2>1. BAD \notin This.to /\ Unpacking
    BY <1>1, AtMessage DEF TossNetmail, Honest, HonestPacket, This, Message
  <2>2. \E W : W \subseteq buf \cup Entries(This.to) /\ AfterMessage(W, {})
    <3>1. AfterMessage(buf \cup Entries(This.to), {}) \/ AfterMessage(buf, {})
      BY <1>1, Zenon DEF TossNetmail
    <3> QED  BY <3>1
  <2>3. e \in Waiting \/ e \in Entries(This.to)
    BY <2>2, AfterMoves DEF Waits, Waiting
  <2> QED  BY <2>1, <2>3 DEF Entries
<1>2. CASE TossEchomail
  <2>1. BAD \notin This.to
    BY <1>2, AtMessage DEF TossEchomail, Honest, HonestPacket, This, Message
  <2>2. AfterMessage(buf \cup Written(This), {})
    BY <1>2 DEF TossEchomail
  <2>3. e \in Waiting \/ e \in Written(This)
    BY <2>2, AfterMoves DEF Waits, Waiting
  <2>4. CASE Refusal(This) = OK
    BY <2>1, <2>3, <2>4 DEF Entries, Written
  <2>5. CASE Refusal(This) # OK /\ e \in Written(This)
    <3>1. e[1] = cur /\ e[2] = pos
      BY <2>5 DEF Entries, Written
    <3> QED  BY <1>2, <2>5, <3>1, RefusedTruly DEF This
  <2> QED  BY <2>3, <2>4, <2>5
<1>3. CASE WriteFails \/ HistoryFails
  BY <1>3 DEF WriteFails, HistoryFails, Fault, Trouble
<1>4. CASE AnswerPing
  <2>1. e \in Waiting \/ e \in Entries({PONG})
    BY <1>4, PublishWaits DEF AnswerPing, Waits, Waiting
  <2> QED  BY <2>1 DEF Entries, PONG, BAD
<1>5. CASE Flush
  BY <1>5, PublishWaits DEF Flush, Waits, Waiting
<1>6. CASE Kill
  BY <1>6 DEF Kill, Waiting
<1>7. CASE UNCHANGED <<out, buf>>
  BY <1>7 DEF Waiting
<1>8. ASSUME NEW p \in Pkt, OpenPacket(p) \/ OpenFails(p) \/ Retry(p)
      PROVE  UNCHANGED <<out, buf>>
  BY <1>8 DEF OpenPacket, OpenFails, Retry
<1>9. CASE Start \/ Unreadable \/ EndPacket \/ UnlinkFails \/ EndLoop \/ CloseHistory \/ Signal
  BY <1>7, <1>9 DEF Start, Unreadable, EndPacket, UnlinkFails, EndLoop, CloseHistory, Signal
<1> QED  BY <1>1, <1>2, <1>3, <1>4, <1>5, <1>6, <1>7, <1>8, <1>9 DEF Next, Work

\* A message is dropped for what it is.
LEMMA NewKilled ==
  ASSUME Types, Honest(inbound, config), Unique, Next, NEW k \in killed', k \notin killed
  PROVE  k[3] \in Truly(k[1], Message(k[1], k[2])) \cup {"dupe"}
<1>1. CASE TossNetmail
  <2>1. k = <<cur, pos, First(Netmail, This)>> /\ First(Netmail, This) # OK
    BY <1>1, Zenon DEF TossNetmail
  <2>2. First(Netmail, This) \in Wrong(cur, This)
    BY <2>1, FirstHolds
  <2>3. cur \in Pkt /\ HdrReads(inbound[cur].header)
    BY <1>1, AtMessage DEF TossNetmail
  <2> QED  BY <2>1, <2>2, <2>3, WrongTruly DEF This
<1>2. CASE TossEchomail
  <2>1. k = <<cur, pos, Refusal(This)>> /\ Refusal(This) # OK
    BY <1>2, Zenon DEF TossEchomail
  <2> QED  BY <1>2, <2>1, RefusedTruly DEF This
<1>3. ASSUME NEW p \in Pkt, OpenPacket(p) \/ OpenFails(p) \/ Retry(p)
      PROVE  UNCHANGED killed
  BY <1>3 DEF OpenPacket, OpenFails, Retry
<1>4. CASE \/ WriteFails \/ HistoryFails \/ AnswerPing \/ Flush \/ Kill \/ Start
           \/ Unreadable \/ EndPacket \/ UnlinkFails \/ EndLoop \/ CloseHistory \/ Signal
  BY <1>4 DEF WriteFails, HistoryFails, AnswerPing, Flush, Kill, Start, Unreadable,
              EndPacket, UnlinkFails, EndLoop, CloseHistory, Signal
<1> QED  BY <1>1, <1>2, <1>3, <1>4 DEF Next, Work

\* A packet is set aside when it cannot be read, or when something fails.
LEMMA NewBad ==
  ASSUME Types, Honest(inbound, config), Next,
         NEW p \in Pkt, disk'[p] = "bad", disk[p] # "bad"
  PROVE  ~inbound[p].sound \/ Trouble
<1>1. ASSUME NEW q \in Pkt, OpenFails(q)
      PROVE  ~inbound[p].sound \/ Trouble
  <2>1. p = q /\ ~HdrReads(inbound[q].header)
    BY <1>1 DEF OpenFails, RenameBad, Types
  <2> QED  BY <2>1, SoundReads
<1>2. CASE Unreadable
  <2>1. p = cur /\ pos \in DOMAIN inbound[cur].msgs /\ ~Readable(This)
    BY <1>2 DEF Unreadable, GiveUp, RenameBad, Types
  <2> QED  BY <2>1, SoundReads DEF This
<1>3. CASE WriteFails \/ HistoryFails \/ UnlinkFails
  BY <1>3 DEF WriteFails, HistoryFails, UnlinkFails, Fault, Trouble
<1>4. CASE TossNetmail \/ TossEchomail
  <2>1. MovesOn \/ signal_exit
    BY <1>4, NetmailSettles, EchomailSettles
  <2> QED  BY <2>1 DEF MovesOn, Types, Trouble
<1>5. ASSUME NEW q \in Pkt, OpenPacket(q) \/ Retry(q)
      PROVE  disk'[p] # "bad" \/ disk[p] = "bad"
  BY <1>5 DEF OpenPacket, Retry, Types
<1>6. CASE EndPacket
  BY <1>6 DEF EndPacket, Types
<1>7. CASE AnswerPing \/ Flush \/ Kill \/ Start \/ EndLoop \/ CloseHistory \/ Signal
  BY <1>7 DEF AnswerPing, Flush, Kill, Start, EndLoop, CloseHistory, Signal
<1> QED  BY <1>1, <1>2, <1>3, <1>4, <1>5, <1>6, <1>7 DEF Next, Work

\* Trouble does not go away.
LEMMA TroubleStays ==
  ASSUME Types, [Next]_vars, Trouble
  PROVE  Trouble'
<1>0. stops \in Nat /\ retries \in Nat
  BY DEF Types
<1>1. CASE Signal \/ Kill
  <2>1. stops' = stops + 1
    BY <1>1 DEF Signal, Kill
  <2> QED  BY <1>0, <2>1 DEF Trouble
<1>2. ASSUME NEW p \in Pkt, Retry(p)
      PROVE  Trouble'
  <2>1. retries' = retries + 1
    BY <1>2 DEF Retry
  <2> QED  BY <1>0, <2>1 DEF Trouble
<1>3. ASSUME Work \/ UNCHANGED vars
      PROVE  UNCHANGED <<config, stops, retries>>
  BY <1>3 DEF Work, vars, given, bound, Start, OpenPacket, OpenFails, Unreadable, AnswerPing,
              TossNetmail, TossEchomail, HistoryFails, WriteFails, EndPacket, UnlinkFails,
              EndLoop, CloseHistory, Flush
<1> QED  BY <1>1, <1>2, <1>3 DEF Next, Trouble

\* Without trouble a message that has been dealt with is not read again.
LEMMA HandledStays ==
  ASSUME Types, Next, ~Trouble', NEW p \in Pkt, NEW i \in Int, Handled(p, i)
  PROVE  Handled(p, i)'
<1>0. /\ ~Trouble /\ ~signal_exit /\ \A f : ~Fault(f)
      /\ \A q \in Pkt : ~Retry(q)
      /\ ~Signal /\ ~Kill
  <2>1. ~Trouble /\ ~signal_exit /\ \A f : ~Fault(f)
    BY TroubleStays DEF Trouble, Fault, Types
  <2>2. ASSUME NEW q \in Pkt, Retry(q) \/ Signal \/ Kill
        PROVE  stops' = stops + 1 \/ retries' = retries + 1
    BY <2>2 DEF Retry, Signal, Kill
  <2>3. stops + 1 > 0 /\ retries + 1 > 0
    BY DEF Types
  <2> QED  BY <2>1, <2>2, <2>3 DEF Trouble
<1>1. disk[p] # "pkt" => disk'[p] # "pkt"
  <2>1. ASSUME NEW q \in Pkt, OpenPacket(q) \/ OpenFails(q)
        PROVE  disk' = disk \/ disk' = [disk EXCEPT ![q] = "bad"]
    BY <2>1 DEF OpenPacket, OpenFails, RenameBad
  <2>2. CASE TossNetmail \/ TossEchomail
    BY <2>2, NetmailSettles, EchomailSettles DEF MovesOn, GivesUp, Types
  <2>3. CASE Unreadable \/ EndPacket
    BY <2>3 DEF Unreadable, GiveUp, RenameBad, EndPacket, Types
  <2>4. CASE AnswerPing \/ Flush \/ Start \/ EndLoop \/ CloseHistory
    BY <2>4 DEF AnswerPing, Flush, Start, EndLoop, CloseHistory
  <2>5. ~WriteFails /\ ~HistoryFails /\ ~UnlinkFails
    BY <1>0 DEF WriteFails, HistoryFails, UnlinkFails
  <2> QED  BY <1>0, <2>1, <2>2, <2>3, <2>4, <2>5 DEF Next, Work, Types
<1>2. CASE Unpacking /\ p = cur /\ i < pos
  <2>1. CASE TossNetmail \/ TossEchomail
    <3>1. MovesOn
      BY <1>0, <2>1, NetmailSettles, EchomailSettles
    <3>2. pos \in Nat /\ i < pos + 1
      BY <1>2 DEF Types
    <3> QED  BY <1>2, <3>1, <3>2 DEF MovesOn, Handled, Unpacking
  <2>2. CASE Unreadable \/ EndPacket
    BY <1>0, <1>2, <2>2 DEF Unreadable, GiveUp, RenameBad, EndPacket, Types, Handled
  <2>3. CASE AnswerPing
    BY <1>2, <2>3 DEF AnswerPing, run, Handled, Unpacking
  <2>4. ~WriteFails /\ ~HistoryFails /\ ~UnlinkFails
    BY <1>0 DEF WriteFails, HistoryFails, UnlinkFails
  <2>5. /\ ~Start /\ ~EndLoop /\ ~CloseHistory /\ ~Flush
        /\ \A q \in Pkt : ~OpenPacket(q) /\ ~OpenFails(q)
    BY <1>2 DEF Start, EndLoop, CloseHistory, Flush, OpenPacket, OpenFails, Unpacking
  <2> QED  BY <1>0, <2>1, <2>2, <2>3, <2>4, <2>5 DEF Next, Work
<1> QED  BY <1>1, <1>2 DEF Handled

\* Each key do_echomail() remembers is that of a message dealt with.
LEMMA UniqueStays ==
  ASSUME Types, Honest(inbound, config), Unique, [Next]_vars
  PROVE  Unique'
<1>1. CASE UNCHANGED vars
  BY <1>1 DEF vars, given, run, bound, Unique, Handled, Unpacking, Trouble, Messages, Message
<1>2. CASE Next /\ Trouble'
  BY <1>2 DEF Unique
<1>3. CASE Next /\ ~Trouble'
  <2>1. SUFFICES ASSUME NEW k \in core' \cup history'
                 PROVE  \E y \in Messages' : /\ Message(y[1], y[2])'.key = k
                                             /\ Handled(y[1], y[2])'
    BY DEF Unique
  <2>2. UNCHANGED inbound /\ Messages' = Messages
        /\ \A p, i : Message(p, i)' = Message(p, i)
    <3>1. UNCHANGED inbound
      BY <1>3 DEF Next, Work, given, Start, OpenPacket, OpenFails, Unreadable, AnswerPing,
              TossNetmail, TossEchomail, HistoryFails, WriteFails, EndPacket, UnlinkFails,
              EndLoop, CloseHistory, Flush, Signal, Kill, Retry
    <3> QED  BY <3>1 DEF Messages, Message
  <2>3. CASE k \in core \cup history
    <3>1. ~Trouble
      BY <1>3, TroubleStays
    <3>2. PICK y \in Messages : Message(y[1], y[2]).key = k /\ Handled(y[1], y[2])
      BY <2>3, <3>1 DEF Unique
    <3>3. y[1] \in Pkt /\ y[2] \in Int
      BY MessagesAre DEF Honest, HonestPacket
    <3> QED  BY <1>3, <2>2, <3>2, <3>3, HandledStays
  <2>4. CASE k \notin core \cup history
    <3>1. CASE TossEchomail
      <4>1. k = This.key
        BY <2>1, <2>4, <3>1 DEF TossEchomail, Remember
      <4>2. <<cur, pos>> \in Messages /\ pos \in Nat
        BY <3>1, AtMessage DEF TossEchomail, Types
      <4>3. MovesOn
        <5>1. ~signal_exit
          BY <1>3, TroubleStays DEF Types, Trouble
        <5> QED  BY <3>1, <5>1, EchomailSettles
      <4>4. \A x \in Messages : x = <<cur, pos>> => Handled(x[1], x[2])'
        <5>1. pos < pos + 1
          BY ONLY <4>2
        <5> QED  BY <4>3, <5>1 DEF MovesOn, Handled, Unpacking
      <4>5. PICK x \in Messages : x = <<cur, pos>> /\ Handled(x[1], x[2])'
        BY <4>2, <4>4
      <4> QED  BY <2>2, <4>1, <4>5 DEF This
    <3>2. CASE WriteFails
      BY <1>3, <3>2, TroubleStays DEF WriteFails, Fault, Trouble
    <3>3. ASSUME NEW p \in Pkt, OpenPacket(p) \/ OpenFails(p) \/ Retry(p)
          PROVE  UNCHANGED <<core, history>>
      BY <3>3 DEF OpenPacket, OpenFails, Retry, run
    <3>4. ASSUME \/ Start \/ Unreadable \/ AnswerPing \/ TossNetmail \/ HistoryFails
                 \/ EndPacket \/ UnlinkFails \/ EndLoop \/ CloseHistory \/ Flush
                 \/ Signal \/ Kill
          PROVE  core' \cup history' \subseteq core \cup history
      BY <3>4 DEF Start, Unreadable, AnswerPing, TossNetmail, HistoryFails, EndPacket,
                  UnlinkFails, EndLoop, CloseHistory, Flush, Signal, Kill, run
    <3> QED  BY <1>3, <2>1, <2>4, <3>1, <3>2, <3>3, <3>4 DEF Next, Work
  <2> QED  BY <2>3, <2>4
<1> QED  BY <1>1, <1>2, <1>3

-----------------------------------------------------------------------------
\* The inductive invariant of TosserKeeps.
IInv == /\ Types /\ Honest(inbound, config)
        /\ Gone /\ Past /\ Known
        /\ Unique /\ KilledTrue /\ BadTrue /\ SetAside

\* The inductive invariant holds at first,
LEMMA InitIInv ==
  ASSUME \A in \in Inbounds, c \in Configs : Honest(in, c), Init
  PROVE  IInv
<1>1. Types /\ Honest(inbound, config)
  BY InitTypes DEF Init
<1>2. Gone /\ SetAside
  BY MessagesAre DEF Init, Gone, SetAside
<1>3. Past /\ Known /\ Unique /\ KilledTrue /\ BadTrue
  BY DEF Init, Past, Unpacking, Known, Unique, KilledTrue, BadTrue, Waiting
<1> QED  BY <1>1, <1>2, <1>3 DEF IInv

\* (no action changes what the packets hold),
LEMMA GivenStays ==
  ASSUME [Next]_vars
  PROVE  UNCHANGED given
BY DEF Next, Work, vars, given, Start, OpenPacket, OpenFails, Unreadable, AnswerPing,
       TossNetmail, TossEchomail, HistoryFails, WriteFails, EndPacket, UnlinkFails,
       EndLoop, CloseHistory, Flush, Signal, Kill, Retry

\* after each step,
LEMMA StepIInv ==
  ASSUME IInv, [Next]_vars
  PROVE  IInv'
<1> USE DEF IInv
<1>0. /\ UNCHANGED given /\ Messages' = Messages
      /\ \A p, i : Message(p, i)' = Message(p, i)
      /\ \A m : Same(m)' = Same(m)
      /\ \A p, m : Truly(p, m)' = Truly(p, m)
  <2>1. UNCHANGED <<inbound, config>>
    BY GivenStays DEF given
  <2>2. /\ Messages' = Messages
        /\ \A p, i : Message(p, i)' = Message(p, i)
        /\ \A m : Same(m)' = Same(m)
    BY <2>1 DEF Messages, Message, Same
  <2>3. \A p, m : Truly(p, m)' = Truly(p, m)
    BY <2>1 DEF Truly, OfSender, PasswordOf
  <2> QED  BY <2>1, <2>2, <2>3 DEF given
<1>1. Types'
  BY StepTypes DEF vars, given, run, bound, Types, Unpacking, This, Message
<1>2. Honest(inbound, config)'
  <2>1. UNCHANGED <<inbound, config>> /\ Honest(inbound, config)
    BY <1>0 DEF given
  <2> QED  BY ONLY <2>1 DEF Honest, HonestPacket
<1>3. (Gone /\ Past /\ Known)'
  BY StepKeeps
<1>4. Unique'
  BY UniqueStays
<1>5. KilledTrue'
  <2>1. ASSUME NEW k \in killed' PROVE k[3] \in Truly(k[1], Message(k[1], k[2])) \cup {"dupe"}
    <3>1. CASE k \in killed
      BY <3>1 DEF KilledTrue
    <3>2. CASE k \notin killed
      BY <2>1, <3>2, NewKilled DEF vars
    <3> QED  BY <3>1, <3>2
  <2> QED  BY <1>0, <2>1 DEF KilledTrue
<1>6. BadTrue'
  <2>1. ASSUME NEW e \in Waiting', e[3] = BAD
        PROVE  \/ Truly(e[1], Message(e[1], e[2])) # {} \/ Trouble
               \/ Same(Message(e[1], e[2])) # {<<e[1], e[2]>>}
    <3>1. CASE e \in Waiting
      BY <2>1, <3>1 DEF BadTrue
    <3>2. CASE e \notin Waiting
      BY <2>1, <3>2, NewWaiting DEF vars, Waiting
    <3> QED  BY <3>1, <3>2
  <2> QED  BY <1>0, <2>1, TroubleStays DEF BadTrue
<1>7. SetAside'
  <2>1. ASSUME NEW p \in Pkt, disk'[p] = "bad"
        PROVE  ~inbound[p].sound \/ Trouble
    BY <2>1, NewBad DEF SetAside, vars
  <2> QED  BY <1>0, <2>1, TroubleStays DEF SetAside, given
<1> QED  BY <1>1, <1>2, <1>3, <1>4, <1>5, <1>6, <1>7

\* and says what is to be shown.
LEMMA IInvNothingLost ==
  ASSUME IInv
  PROVE  NothingLost
<1>1. ASSUME NEW x \in Messages
      PROVE  \/ Kept(x[1], x[2])
             \/ /\ <<x[1], x[2], "dupe">> \in killed
                /\ \E y \in Same(Message(x[1], x[2])) : Kept(y[1], y[2])
  BY KeptIs DEF IInv, Gone, Dropped
<1>2. RightlyRefused
  BY DEF IInv, RightlyRefused, KilledTrue, BadTrue, SetAside, Waiting
<1> QED  BY <1>1, <1>2 DEF NothingLost

\* No message of the inbound directory is lost, and none is refused for what is
\* not so (unpack_file(), do_netmail(), do_echomail(), rename_bad()).
THEOREM TosserKeeps ==
  ASSUME \A in \in Inbounds, c \in Configs : Honest(in, c)
  PROVE  Spec => []NothingLost
<1>1. Init => IInv
  BY InitIInv
<1>2. IInv /\ [Next]_vars => IInv'
  BY StepIInv
<1>3. IInv => NothingLost
  BY IInvNothingLost
<1> QED  BY <1>1, <1>2, <1>3, PTL DEF Spec

-----------------------------------------------------------------------------
\* What has been tossed is remembered: in core while ftntoss runs, on the disk
\* when it does not.
Recorded ==
  /\ \A e \in Tossed :
       Message(e[1], e[2]).key \in (IF pc = "idle" THEN history ELSE core) \cup forgotten
  /\ pc = "flush" => history = core
  /\ pc = "idle" => buf = {}
  /\ pc = "ponged" => This.net

\* A step with which unpack() goes on may let out what waited, and the copies
\* of the message at hand, if that is remembered now.
LEMMA MessageRecorded ==
  ASSUME Recorded, pc \in {"unpack", "ponged"}, UNCHANGED <<given, forgotten>>,
         \/ pc' \in {"unpack", "close", "next"}
         \/ pc' = "ponged" /\ This.net /\ UNCHANGED <<cur, pos>>,
         core \subseteq core',
         \A e \in Waiting' : \/ e \in Waiting
                             \/ e[3] \in {BAD, PONG}
                             \/ Message(e[1], e[2]).net
                             \/ Message(e[1], e[2]).key \in core'
  PROVE  Recorded'
<1>1. \A p, i : Message(p, i)' = Message(p, i)
  BY DEF given, Message
<1>2. ASSUME NEW e \in Tossed'
      PROVE  Message(e[1], e[2]).key \in core' \cup forgotten
  <2>1. e \in Waiting' /\ ~Message(e[1], e[2]).net /\ e[3] \notin {BAD, PONG}
    BY <1>1 DEF Tossed, Waiting
  <2>2. CASE e \in Waiting
    BY <2>1, <2>2 DEF Recorded, Tossed, Waiting
  <2>3. CASE Message(e[1], e[2]).key \in core'
    BY <2>3
  <2> QED  BY <2>1, <2>2, <2>3
<1>3. pc' = "ponged" => This'.net
  BY <1>1 DEF This
<1>4. pc' \notin {"idle", "flush"}
  OBVIOUS
<1> HIDE DEF Tossed, This
<1>5. \A e \in Tossed' :
        Message(e[1], e[2])'.key \in (IF pc' = "idle" THEN history' ELSE core') \cup forgotten'
  BY <1>1, <1>2, <1>4
<1> QED  BY <1>3, <1>4, <1>5 DEF Recorded

\* do_echomail() remembers what it writes; hi_close() comes before the messages
\* that still wait are let out.
LEMMA StepRecorded ==
  ASSUME Recorded, [Next]_vars
  PROVE  Recorded'
<1>1. CASE TossEchomail
  <2>1. /\ UNCHANGED <<given, forgotten>> /\ core' = Remember(This)
        /\ AfterMessage(buf \cup Written(This), {}) /\ pc = "unpack"
    BY <1>1 DEF TossEchomail, Reading
  <2>2. /\ Waiting' \subseteq Waiting \cup Written(This)
        /\ pc' \in {"unpack", "close", "next"}
    BY <2>1, AfterMoves DEF Waits, Waiting, MovesOn, GivesUp
  <2>3. ASSUME NEW e \in Written(This)
        PROVE  e[3] = BAD \/ Message(e[1], e[2]).key \in core'
    <3>1. CASE Refusal(This) = OK
      <4>1. This.key \in core'
        BY <2>1, <3>1, RefusalHolds DEF Remember, OK
      <4> QED  BY <3>1, <4>1 DEF Written, Entries, This
    <3>2. CASE Refusal(This) # OK
      BY <3>2 DEF Written, Entries
    <3> QED  BY <3>1, <3>2
  <2>4. core \subseteq core'
    BY <2>1 DEF Remember
  <2> QED  BY <2>1, <2>2, <2>3, <2>4, MessageRecorded
<1>2. CASE TossNetmail
  <2>1. /\ UNCHANGED <<given, forgotten, core>> /\ pc \in {"unpack", "ponged"}
        /\ \E W : W \subseteq buf \cup Entries(This.to) /\ AfterMessage(W, {})
    <3>1. AfterMessage(buf \cup Entries(This.to), {}) \/ AfterMessage(buf, {})
      BY <1>2, Zenon DEF TossNetmail
    <3>2. UNCHANGED <<given, forgotten, core>> /\ pc \in {"unpack", "ponged"}
      BY <1>2 DEF TossNetmail, NetmailTurn, Reading
    <3> QED  BY <3>1, <3>2
  <2>2. /\ Waiting' \subseteq Waiting \cup Entries(This.to)
        /\ pc' \in {"unpack", "close", "next"}
    BY <2>1, AfterMoves DEF Waits, Waiting, MovesOn, GivesUp
  <2>3. This.net
    BY <1>2 DEF TossNetmail, NetmailTurn, Reading, Recorded
  <2> QED  BY <2>1, <2>2, <2>3, MessageRecorded DEF Entries, This
<1>3. CASE WriteFails
  <2> DEFINE kept    == First(Netmail, This) = OK
             written == IF ~This.net THEN Written(This)
                        ELSE IF kept THEN Entries(This.to) ELSE {}
             unknown == ~This.net /\ Refusal(This) = "unknown"
  <2>1. PICK some \in SUBSET written \ {written} :
          IF unknown
            THEN AfterMessage(buf \cup some, {This.key})
            ELSE /\ buf' = buf \cup some
                 /\ hurt' = hurt \cup {This.key}
                 /\ count' = IF config.maxmsg = 0 THEN 0 ELSE count + 1
                 /\ UNCHANGED <<must_exit, out>>
                 /\ GiveUp(TRUE)
    BY <1>3, Zenon DEF WriteFails
  <2>2. /\ UNCHANGED <<given, forgotten>> /\ pc \in {"unpack", "ponged"}
        /\ core' = IF This.net THEN core ELSE Remember(This)
    BY <1>3 DEF WriteFails, NetmailTurn, Reading
  <2>3. ASSUME NEW e \in written
        PROVE  e[3] = BAD \/ Message(e[1], e[2]).net \/ Message(e[1], e[2]).key \in core'
    <3>1. CASE This.net
      BY <2>3, <3>1 DEF Entries, This
    <3>2. CASE ~This.net /\ Refusal(This) = OK
      <4>1. This.key \in core'
        BY <2>2, <3>2, RefusalHolds DEF Remember, OK
      <4> QED  BY <2>3, <3>2, <4>1 DEF Written, Entries, This
    <3>3. CASE ~This.net /\ Refusal(This) # OK
      BY <2>3, <3>3 DEF Written, Entries
    <3> QED  BY <3>1, <3>2, <3>3
  <2> HIDE DEF written, unknown
  <2>4. Waiting' \subseteq Waiting \cup written /\ pc' \in {"unpack", "close", "next"}
    <3>1. CASE AfterMessage(buf \cup some, {This.key})
      BY <3>1, AfterMoves DEF Waits, Waiting, MovesOn, GivesUp
    <3>2. CASE buf' = buf \cup some /\ UNCHANGED out /\ GiveUp(TRUE)
      BY <3>2, GiveUpGives DEF Waiting, GivesUp
    <3> QED  BY <2>1, <3>1, <3>2, Zenon
  <2>5. core \subseteq core'
    BY <2>2 DEF Remember
  <2> QED  BY <2>2, <2>3, <2>4, <2>5, MessageRecorded
<1>4. CASE AnswerPing
  <2>1. /\ UNCHANGED <<given, forgotten, core, cur, pos>> /\ pc = "unpack" /\ This.net
        /\ pc' = "ponged"
        /\ Publish(buf \cup Entries({PONG}), {}) \/ UNCHANGED <<buf, out>>
    BY <1>4 DEF AnswerPing, Reading, run
  <2>2. Waiting' \subseteq Waiting \cup Entries({PONG})
    BY <2>1, PublishWaits DEF Waits, Waiting
  <2> QED  BY <2>1, <2>2, MessageRecorded DEF Entries
<1>5. CASE Unreadable \/ HistoryFails
  <2>1. GiveUp(FALSE) /\ pc = "unpack" /\ UNCHANGED <<given, forgotten, core, out, buf>>
    BY <1>5 DEF Unreadable, HistoryFails, Reading, ghost
  <2> QED  BY <2>1, GiveUpGives, MessageRecorded DEF GivesUp, Waiting
<1>6. CASE EndPacket \/ UnlinkFails
  BY <1>6, MessageRecorded DEF EndPacket, UnlinkFails, ghost, Waiting
\* What a kill makes the tosser forget is what it had let out in this run.
<1>7. CASE Kill
  <2>1. /\ UNCHANGED <<given, out, history>> /\ pc' = "idle" /\ buf' = {} /\ pc # "idle"
        /\ forgotten' = forgotten \cup ((core \ history) \cap Keys(out))
    BY <1>7 DEF Kill
  <2>2. \A p, i : Message(p, i)' = Message(p, i)
    BY <2>1 DEF given, Message
  <2>3. ASSUME NEW e \in Tossed'
        PROVE  Message(e[1], e[2]).key \in history \cup forgotten'
    <3>1. e \in Tossed /\ e \in out
      BY <2>1, <2>2 DEF Tossed
    <3>2. Message(e[1], e[2]).key \in core \cup forgotten /\ Message(e[1], e[2]).key \in Keys(out)
      BY <2>1, <3>1 DEF Recorded, Keys
    <3> QED  BY <2>1, <3>2
  <2> QED  BY <2>1, <2>2, <2>3 DEF Recorded
<1>8. CASE Flush
  <2>1. /\ UNCHANGED <<given, history, forgotten>> /\ pc = "flush" /\ pc' = "idle"
        /\ Publish(buf, {})
    BY <1>8 DEF Flush
  <2>2. Waiting' \subseteq Waiting /\ buf' = {}
    BY <2>1, PublishWaits DEF Waits, Waiting
  <2>3. \A p, i : Message(p, i)' = Message(p, i)
    BY <2>1 DEF given, Message
  <2>4. Tossed' \subseteq Tossed
    BY <2>2, <2>3 DEF Tossed, Waiting
  <2> QED  BY <2>1, <2>2, <2>3, <2>4 DEF Recorded
<1>9. CASE Start \/ CloseHistory \/ EndLoop \/ Signal \/ UNCHANGED vars
  <2>1. /\ UNCHANGED <<given, forgotten, out, buf, cur, pos>>
        /\ \/ pc = "idle" /\ pc' = "next" /\ core' = history
           \/ pc = "close" /\ pc' = "flush" /\ history' = core /\ core' = core
           \/ pc = "next" /\ pc' = "close" /\ core' = core
           \/ pc' = pc /\ UNCHANGED <<core, history>>
    BY <1>9 DEF Start, CloseHistory, EndLoop, Signal, vars, ghost, run
  <2>2. This' = This /\ \A p, i : Message(p, i)' = Message(p, i)
    BY <2>1 DEF given, Message, This
  <2>3. Tossed' = Tossed
    BY <2>1, <2>2 DEF Tossed
  <2> QED  BY <2>1, <2>2, <2>3 DEF Recorded
<1>10. ASSUME NEW p \in Pkt, OpenPacket(p) \/ OpenFails(p) \/ Retry(p)
       PROVE  Recorded'
  <2>1. /\ UNCHANGED <<given, forgotten, out, buf, core, history>>
        /\ \/ pc = "next" /\ pc' = "unpack"
           \/ UNCHANGED <<pc, cur, pos>>
    BY <1>10 DEF OpenPacket, OpenFails, Retry, ghost, run
  <2>2. \A q, i : Message(q, i)' = Message(q, i)
    BY <2>1 DEF given, Message
  <2>3. Tossed' = Tossed
    BY <2>1, <2>2 DEF Tossed
  <2>4. pc' = "ponged" => This' = This
    BY <2>1 DEF given, This, Message
  <2> QED  BY <2>1, <2>2, <2>3, <2>4 DEF Recorded
<1> QED  BY <1>1, <1>2, <1>3, <1>4, <1>5, <1>6, <1>7, <1>8, <1>9, <1>10 DEF Next, Work

\* No echomail message is tossed twice (hi_test(), hi_write(), hi_close()), unless
\* ftntoss was killed between outpkt_close() and hi_close().
THEOREM TosserOnce == Spec => TossedOnce
<1>1. Init => Recorded
  BY DEF Init, Recorded, Tossed
<1>2. Recorded /\ [Next]_vars => Recorded'
  BY StepRecorded
<1>3. Recorded /\ [Next]_vars =>
        [\A k \in core' \ core : pc = "unpack" => k \notin Keys(Tossed) \/ k \in forgotten]_vars
  <2>1. SUFFICES ASSUME Recorded, NEW k \in core' \ core, pc = "unpack", k \in Keys(Tossed)
                 PROVE  k \in forgotten
    OBVIOUS
  <2>2. PICK e \in Tossed : k = Message(e[1], e[2]).key
    BY <2>1 DEF Keys
  <2> QED  BY <2>1, <2>2 DEF Recorded
<1> QED  BY <1>1, <1>2, <1>3, PTL DEF Spec, TossedOnce

-----------------------------------------------------------------------------
\* Systems that run ftntoss and are linked for one area.

\* What the steps keep of the configuration, the packets and the histories.
Typed ==
  /\ Sound(net)
  /\ \A p \in DOMAIN flight : p.id \in Msg
  /\ hist \in [Sys -> SUBSET Msg]
  /\ gated \in [Sys -> [Msg -> Nat]]
  /\ origin \in [Msg -> SUBSET Sys]
  /\ \A m \in Msg : \A s, r \in origin[m] : s = r
  /\ dups \in Nat

\* System s has sent message m to n; has tossed m: given it to its gateway, or
\* sent it to somebody.
Sent(m, s, n) == <<m, Self(s), n>> \in DOMAIN sent
Spread(m, s)  == gated[s][m] > 0 \/ \E t \in DOMAIN sent : t[1] = m /\ t[2] = Self(s)

\* The packet with which rfc2ftn has posted a message at s.
IsPost(p, s) == p.from = Self(s) /\ p.to = Self(s)

\* What has not been posted is nowhere.
Posted ==
  \A m \in Msg : origin[m] = {} =>
    /\ \A p \in DOMAIN flight : p.id # m
    /\ \A s \in Sys : ~Spread(m, s)

\* DeliveredOnce without its condition.
Once ==
  /\ \A s \in Sys, m \in Msg : gated[s][m] <= IF s \in origin[m] THEN 0 ELSE 1
  /\ \A t \in DOMAIN sent : sent[t] = 1

\* With histories: what a system has tossed it has remembered, and what was
\* posted is nowhere else until it has been tossed there.
Remembered ==
  /\ \A s \in Sys, m \in Msg : Spread(m, s) => m \in hist[s]
  /\ \A m \in Msg : \A s \in origin[m] :
       m \in hist[s] \/ \A p \in DOMAIN flight : p.id = m => IsPost(p, s)

WithHistory == net.dupeCheck => Once /\ Remembered

\* In a tree: the way from each system to the one a message was posted at.
Up(o) == CHOOSE up \in [Sys -> Sys] : Ways(net, o, up)

\* A packet goes along that way, and is the only one there; it comes to a system
\* that has not tossed the message, which has come the way to who has.
Down(p, o) == \E x \in Sys : /\ x # o /\ p.to = Self(x) /\ p.from = Self(Up(o)[x])
                             /\ Sent(p.id, Up(o)[x], Self(x))
Single ==
  /\ \A p \in DOMAIN flight :
       /\ flight[p] = 1
       /\ \A o \in origin[p.id] : IsPost(p, o) \/ Down(p, o)
       /\ \A s \in Sys : p.to = Self(s) => ~Spread(p.id, s)
  /\ \A p, q \in DOMAIN flight : p.id = q.id /\ p.to = q.to => p = q
  /\ \A m \in Msg : \A o \in origin[m] : \A s \in Sys :
       s # o /\ Spread(m, s) => Sent(m, Up(o)[s], Self(s))

InTree == IsTree => Once /\ Single

NetInv == Typed /\ Posted /\ WithHistory /\ InTree

-----------------------------------------------------------------------------
\* A packet is added to a bag,
LEMMA AddOne ==
  ASSUME NEW B, NEW x
  PROVE  /\ DOMAIN BagAdd(B, x) = DOMAIN B \cup {x}
         /\ x \notin DOMAIN B => BagAdd(B, x)[x] = 1
         /\ \A e \in DOMAIN B : e # x => BagAdd(B, x)[e] = B[e]
BY DEF BagAdd

\* or taken out of it,
LEMMA RemoveOne ==
  ASSUME NEW B, NEW x
  PROVE  /\ DOMAIN BagRemove(B, x) \subseteq DOMAIN B
         /\ B[x] = 1 => x \notin DOMAIN BagRemove(B, x)
         /\ \A e \in DOMAIN BagRemove(B, x) : e # x => BagRemove(B, x)[e] = B[e]
BY DEF BagRemove

\* or each of a set is added.
LEMMA AddSet ==
  ASSUME NEW B, NEW S
  PROVE  /\ DOMAIN (B (+) SetToBag(S)) = DOMAIN B \cup S
         /\ \A e \in DOMAIN B \cup S :
              (B (+) SetToBag(S))[e] =
                (IF e \in DOMAIN B THEN B[e] ELSE 0) + (IF e \in S THEN 1 ELSE 0)
BY DEF (+), SetToBag

\* Whom a message is sent to: nodes that are linked, other than the sender and
\* the system itself.
LEMMA NewAre ==
  ASSUME NEW s, NEW p, NEW n \in NewFor(s, p)
  PROVE  /\ n # p.from /\ n # Self(s)
         /\ \E i \in DOMAIN net.nodes[s] : net.nodes[s][i] = n
BY DEF NewFor, NewNodes, Seenby0, Do4dSeenby, Nodes

\* An address tells the system.
LEMMA OneSystem ==
  ASSUME Typed, NEW s \in Sys, NEW r \in Sys
  PROVE  /\ Self(r) \in net.aka[s] => r = s
         /\ Self(r) = Self(s) => r = s
BY DEF Typed, Sound, Self

\* What toss_echomail() writes, and what is noted of it.
Copies(s, p) ==
  {Packet(p.id, Self(s), n, SeenbyLine(SeenbyOut(s, p)), PathLine(PathOut(s, p))) :
     n \in NewFor(s, p)}
Notes(s, p) == {<<p.id, Self(s), n>> : n \in NewFor(s, p)}

LEMMA CopiesAre ==
  ASSUME NEW s, NEW p
  PROVE  /\ \A q \in Copies(s, p) : q.id = p.id /\ q.from = Self(s) /\ q.to \in NewFor(s, p)
         /\ \A q, r \in Copies(s, p) : q.to = r.to => q = r
BY DEF Copies, Packet

LEMMA NotesAre ==
  ASSUME NEW s, NEW p, NEW t \in Notes(s, p)
  PROVE  t[1] = p.id /\ t[2] = Self(s) /\ t[3] \in NewFor(s, p) /\ t = <<t[1], t[2], t[3]>>
BY DEF Notes

\* Packets are fewer, and nothing else has changed but what is remembered.
Fewer(p) ==
  /\ UNCHANGED <<net, gated, origin, sent, dups>>
  /\ flight' = BagRemove(flight, p)
  /\ hist' \in [Sys -> SUBSET Msg] /\ \A r \in Sys : hist[r] \subseteq hist'[r]

\* The message is new to s, which gives it to its gateway, unless that has
\* posted it, and sends it on.
Spreads(s, p) ==
  /\ UNCHANGED <<net, origin, dups>>
  /\ p.to \in net.aka[s]
  /\ hist' \in [Sys -> SUBSET Msg] /\ \A r \in Sys : hist[r] \subseteq hist'[r]
  /\ net.dupeCheck => p.id \notin hist[s] /\ p.id \in hist'[s]
  /\ flight' = BagRemove(flight, p) (+) SetToBag(Copies(s, p))
  /\ gated' = gated \/ (p.from # Self(s) /\ gated' = [gated EXCEPT ![s][p.id] = @ + 1])
  /\ sent' = sent (+) SetToBag(Notes(s, p))

LEMMA TossIs ==
  ASSUME Typed, NEW s \in Sys, NEW p \in DOMAIN flight, Toss(s, p)
  PROVE  Fewer(p) \/ Spreads(s, p)
<1>0. p.id \in Msg
  BY DEF Typed
<1>1. hist' \in [Sys -> SUBSET Msg] /\ \A r \in Sys : hist[r] \subseteq hist'[r]
  BY <1>0 DEF Typed, Toss, RememberId
<1>2. CASE Rejected(s, p)
  BY <1>1, <1>2 DEF Toss, Fewer
<1>3. CASE ~Rejected(s, p)
  <2>1. net.dupeCheck => p.id \notin hist[s] /\ p.id \in hist'[s]
    <3>1. net.dupeCheck => p.id \notin hist[s] /\ hist' = [hist EXCEPT ![s] = @ \cup {p.id}]
      BY <1>3 DEF Toss, Rejected, Dupe, RememberId
    <3> QED  BY <3>1 DEF Typed
  <2>2. gated' = gated \/ (p.from # Self(s) /\ gated' = [gated EXCEPT ![s][p.id] = @ + 1])
    <3>1. gated' = IF net.gateway[s] /\ p.from # Self(s)
                     THEN [gated EXCEPT ![s][p.id] = @ + 1] ELSE gated
      BY <1>3 DEF Toss
    <3>b. net.gateway[s] \in BOOLEAN
      BY DEF Typed, Sound
    <3>2. CASE net.gateway[s] /\ p.from # Self(s)
      BY <3>1, <3>b, <3>2
    <3>3. CASE ~net.gateway[s]
      BY <3>1, <3>b, <3>3
    <3>4. CASE p.from = Self(s)
      BY <3>1, <3>b, <3>4
    <3> QED  BY <3>b, <3>2, <3>3, <3>4
  <2> QED  BY <1>1, <1>3, <2>1, <2>2 DEF Toss, Spreads, Copies, Notes
<1> QED  BY <1>2, <1>3

\* What the gateways are given when a message spreads.
LEMMA GatedAre ==
  ASSUME Typed, NEW s \in Sys, NEW p \in DOMAIN flight, Spreads(s, p)
  PROVE  /\ gated' \in [Sys -> [Msg -> Nat]]
         /\ \A r \in Sys, m \in Msg :
              \/ gated'[r][m] = gated[r][m]
              \/ /\ r = s /\ m = p.id /\ p.from # Self(s)
                 /\ gated'[r][m] = gated[r][m] + 1
<1>0. p.id \in Msg /\ gated \in [Sys -> [Msg -> Nat]]
  BY DEF Typed
<1>1. CASE gated' = gated
  BY <1>0, <1>1
<1>2. CASE p.from # Self(s) /\ gated' = [gated EXCEPT ![s][p.id] = @ + 1]
  BY <1>0, <1>2
<1> QED  BY <1>1, <1>2 DEF Spreads

\* What is on its way, and what has been sent, when a message spreads.
LEMMA FlightIs ==
  ASSUME NEW s, NEW p \in DOMAIN flight, Spreads(s, p)
  PROVE  /\ \A q \in DOMAIN flight' : q \in DOMAIN flight \cup Copies(s, p)
         /\ \A q \in DOMAIN flight' : q \notin Copies(s, p) /\ q # p /\ flight[q] = 1 =>
              flight'[q] = 1
         /\ flight[p] = 1 /\ p \notin Copies(s, p) => p \notin DOMAIN flight'
         /\ \A q \in Copies(s, p) : q \notin DOMAIN flight => flight'[q] = 1
<1> DEFINE B == BagRemove(flight, p)
<1>1. /\ DOMAIN B \subseteq DOMAIN flight
      /\ flight[p] = 1 => p \notin DOMAIN B
      /\ \A e \in DOMAIN B : e # p => B[e] = flight[e]
  BY RemoveOne
<1>0. flight' = B (+) SetToBag(Copies(s, p))
  BY DEF Spreads
<1> HIDE DEF B
<1>2. /\ DOMAIN flight' = DOMAIN B \cup Copies(s, p)
      /\ \A e \in DOMAIN B \cup Copies(s, p) :
           flight'[e] = (IF e \in DOMAIN B THEN B[e] ELSE 0)
                        + (IF e \in Copies(s, p) THEN 1 ELSE 0)
  BY <1>0, AddSet
<1> QED  BY <1>1, <1>2

LEMMA SentIs ==
  ASSUME NEW s, NEW p, Spreads(s, p)
  PROVE  /\ DOMAIN sent' = DOMAIN sent \cup Notes(s, p)
         /\ \A t \in Notes(s, p) : t \notin DOMAIN sent => sent'[t] = 1
         /\ \A t \in DOMAIN sent : t \notin Notes(s, p) /\ sent[t] = 1 => sent'[t] = 1
<1>1. sent' = sent (+) SetToBag(Notes(s, p))
  BY DEF Spreads
<1>2. /\ DOMAIN sent' = DOMAIN sent \cup Notes(s, p)
      /\ \A e \in DOMAIN sent \cup Notes(s, p) :
           sent'[e] = (IF e \in DOMAIN sent THEN sent[e] ELSE 0)
                      + (IF e \in Notes(s, p) THEN 1 ELSE 0)
  BY <1>1, AddSet
<1> QED  BY <1>2

\* Whether a system has tossed a message, when a message spreads.
LEMMA SpreadIs ==
  ASSUME Typed, NEW s \in Sys, NEW p \in DOMAIN flight, Spreads(s, p),
         NEW m \in Msg, NEW r \in Sys, Spread(m, r)'
  PROVE  Spread(m, r) \/ (m = p.id /\ r = s)
<1>1. Self(r)' = Self(r)
  BY DEF Spreads, Self
<1>2. CASE gated'[r][m] > 0
  <2>1. gated[r][m] \in Nat
    BY DEF Typed
  <2> QED  BY <1>2, <2>1, GatedAre DEF Spread
<1>3. CASE \E t \in DOMAIN sent' : t[1] = m /\ t[2] = Self(r)
  <2>1. PICK t \in DOMAIN sent' : t[1] = m /\ t[2] = Self(r)
    BY <1>3
  <2>2. CASE t \in DOMAIN sent
    BY <2>1, <2>2 DEF Spread
  <2>3. CASE t \in Notes(s, p)
    BY <2>1, <2>3, NotesAre, OneSystem
  <2> QED  BY <2>1, <2>2, <2>3, SentIs
<1> QED  BY <1>1, <1>2, <1>3 DEF Spread

-----------------------------------------------------------------------------
LEMMA NetInitInv ==
  ASSUME NetInit
  PROVE  NetInv
<1>1. DOMAIN flight = {} /\ DOMAIN sent = {}
  BY DEF NetInit, EmptyBag, SetToBag
<1>2. Typed
  BY <1>1, NetsAssumption DEF NetInit, Typed
<1>3. \A s \in Sys, m \in Msg : ~Spread(m, s) /\ gated[s][m] = 0 /\ origin[m] = {}
  BY <1>1 DEF NetInit, Spread
<1>4. Once
  BY <1>1, <1>3 DEF Once
<1>5. Remembered /\ Posted /\ Single
  BY <1>1, <1>3 DEF Remembered, Posted, Single
<1> QED  BY <1>2, <1>4, <1>5 DEF NetInv, WithHistory, InTree

\* The kinds of steps.
LEMMA StepIs ==
  ASSUME Typed, [NetNext]_netvars
  PROVE  \/ \E s \in Sys, m \in Msg : Post(s, m)
         \/ \E p \in DOMAIN flight : Fewer(p)
         \/ \E p \in DOMAIN flight, s \in Sys : Spreads(s, p)
         \/ \E p \in DOMAIN flight : Duplicate(p)
         \/ UNCHANGED netvars
<1>1. CASE \E p \in DOMAIN flight : Lose(p)
  BY <1>1 DEF Lose, Fewer, Typed
<1>2. CASE \E p \in DOMAIN flight, s \in Sys : Toss(s, p)
  BY <1>2, TossIs
<1> QED  BY <1>1, <1>2 DEF NetNext, Tossing, Done, BagToSet

LEMMA DuplicateIs ==
  ASSUME NEW p \in DOMAIN flight, Duplicate(p)
  PROVE  /\ UNCHANGED <<net, hist, gated, origin, sent>> /\ dups' = dups + 1
         /\ DOMAIN flight' = DOMAIN flight
<1>1. flight' = BagAdd(flight, p)
  BY DEF Duplicate
<1>2. DOMAIN flight' = DOMAIN flight \cup {p}
  BY <1>1, AddOne
<1> QED  BY <1>2 DEF Duplicate

\* What a post puts in flight.
Mail(m, s) == Packet(m, Self(s), Self(s), {[Self(s) EXCEPT !.point = 0]},
                     <<[Self(s) EXCEPT !.point = 0]>>)

\* It goes from the system to itself, and is one packet more.
LEMMA MailIs ==
  ASSUME Typed, NEW s \in Sys, NEW m \in Msg, Post(s, m)
  PROVE  /\ Mail(m, s).id = m /\ IsPost(Mail(m, s), s)
         /\ DOMAIN flight' = DOMAIN flight \cup {Mail(m, s)}
         /\ Mail(m, s) \notin DOMAIN flight => flight'[Mail(m, s)] = 1
         /\ \A e \in DOMAIN flight : e # Mail(m, s) => flight'[e] = flight[e]
<1>1. Mail(m, s).id = m /\ IsPost(Mail(m, s), s)
  BY DEF Packet, IsPost, Mail
<1>2. flight' = BagAdd(flight, Mail(m, s))
  BY DEF Post, Mail
<1> DEFINE q == Mail(m, s)
<1> HIDE DEF q
<1>3. flight' = BagAdd(flight, q)
  BY <1>2 DEF q
<1>4. /\ DOMAIN flight' = DOMAIN flight \cup {q}
      /\ q \notin DOMAIN flight => flight'[q] = 1
      /\ \A e \in DOMAIN flight : e # q => flight'[e] = flight[e]
  BY <1>3, AddOne
<1> QED  BY <1>1, <1>4 DEF q

\* What else a post does.
LEMMA PostIs ==
  ASSUME Typed, NEW s \in Sys, NEW m \in Msg, Post(s, m)
  PROVE  \E q : /\ q.id = m /\ IsPost(q, s)
                /\ UNCHANGED <<net, hist, gated, dups>>
                /\ origin[m] = {} /\ origin' = [origin EXCEPT ![m] = {s}]
                /\ DOMAIN flight' = DOMAIN flight \cup {q}
BY MailIs DEF Post

LEMMA NextTyped ==
  ASSUME Typed, [NetNext]_netvars
  PROVE  Typed'
<1>1. ASSUME NEW s \in Sys, NEW m \in Msg, Post(s, m)
      PROVE  Typed'
  <2>1. PICK q : /\ q.id = m
                 /\ UNCHANGED <<net, hist, gated, dups>>
                 /\ origin[m] = {} /\ origin' = [origin EXCEPT ![m] = {s}]
                 /\ DOMAIN flight' = DOMAIN flight \cup {q}
    BY <1>1, PostIs
  <2>2. \A u \in Msg : origin'[u] = IF u = m THEN {s} ELSE origin[u]
    BY <2>1 DEF Typed
  <2> QED  BY <2>1, <2>2 DEF Typed
<1>2. ASSUME NEW p \in DOMAIN flight, Fewer(p)
      PROVE  Typed'
  BY <1>2, RemoveOne DEF Fewer, Typed
<1>3. ASSUME NEW p \in DOMAIN flight, NEW s \in Sys, Spreads(s, p)
      PROVE  Typed'
  <2>1. \A q \in DOMAIN flight' : q.id \in Msg
    BY <1>3, FlightIs, CopiesAre DEF Typed
  <2>2. gated' \in [Sys -> [Msg -> Nat]]
    BY <1>3, GatedAre
  <2> QED  BY <1>3, <2>1, <2>2 DEF Spreads, Typed
<1>4. ASSUME NEW p \in DOMAIN flight, Duplicate(p)
      PROVE  Typed'
  BY <1>4, DuplicateIs DEF Typed
<1>5. CASE UNCHANGED netvars
  BY <1>5 DEF netvars, Typed
<1> QED  BY <1>1, <1>2, <1>3, <1>4, <1>5, StepIs

\* What was not posted is nowhere.
LEMMA NextPosted ==
  ASSUME Typed, Posted, [NetNext]_netvars
  PROVE  Posted'
<1>1. ASSUME NEW s \in Sys, NEW m \in Msg, Post(s, m)
      PROVE  Posted'
  <2>1. SUFFICES ASSUME NEW u \in Msg, origin'[u] = {}
                 PROVE  /\ \A q \in DOMAIN flight' : q.id # u
                        /\ \A r \in Sys : ~Spread(u, r)'
    BY DEF Posted
  <2>2. /\ UNCHANGED <<net, gated, sent>> /\ origin[m] = {}
        /\ u # m /\ origin[u] = {}
    BY <1>1, <2>1 DEF Post, Typed
  <2>3. \A q \in DOMAIN flight' : q \in DOMAIN flight \/ q.id = m
    <3>1. PICK q : q.id = m /\ DOMAIN flight' = DOMAIN flight \cup {q}
      BY <1>1, PostIs
    <3> QED  BY <3>1
  <2> QED  BY <2>2, <2>3 DEF Posted, Spread, Self
<1>2. ASSUME NEW p \in DOMAIN flight, Fewer(p)
      PROVE  Posted'
  BY <1>2, RemoveOne DEF Fewer, Posted, Spread, Self
<1>3. ASSUME NEW p \in DOMAIN flight, NEW s \in Sys, Spreads(s, p)
      PROVE  Posted'
  <2>1. SUFFICES ASSUME NEW u \in Msg, origin'[u] = {}
                 PROVE  /\ \A q \in DOMAIN flight' : q.id # u
                        /\ \A r \in Sys : ~Spread(u, r)'
    BY DEF Posted
  <2>2. origin[u] = {} /\ p.id # u
    BY <1>3, <2>1 DEF Spreads, Posted
  <2> QED  BY <1>3, <2>2, FlightIs, CopiesAre, SpreadIs DEF Posted
<1>4. ASSUME NEW p \in DOMAIN flight, Duplicate(p)
      PROVE  Posted'
  BY <1>4, DuplicateIs DEF Posted, Spread, Self
<1>5. CASE UNCHANGED netvars
  BY <1>5 DEF netvars, Posted, Spread, Self
<1> QED  BY <1>1, <1>2, <1>3, <1>4, <1>5, StepIs

\* With histories.
LEMMA NextWithHistory ==
  ASSUME Typed, Posted, WithHistory, [NetNext]_netvars, net.dupeCheck
  PROVE  Once' /\ Remembered'
<1>0. Once /\ Remembered
  BY DEF WithHistory
<1>1. ASSUME NEW s \in Sys, NEW m \in Msg, Post(s, m)
      PROVE  Once' /\ Remembered'
  <2>1. PICK q : q.id = m /\ IsPost(q, s) /\ DOMAIN flight' = DOMAIN flight \cup {q}
    BY <1>1, PostIs
  <2>3. /\ UNCHANGED <<net, hist, gated, sent>> /\ origin[m] = {}
        /\ \A u \in Msg : origin'[u] = IF u = m THEN {s} ELSE origin[u]
    BY <1>1 DEF Post, Typed
  <2>4. \A r \in Sys : gated[r][m] = 0
    BY <2>3 DEF Posted, Spread, Typed
  <2>5. Once'
    BY <1>0, <2>3, <2>4 DEF Once
  <2>6. \A p \in DOMAIN flight : p.id # m
    BY <2>3 DEF Posted
  <2>7. \A u \in Msg : \A r \in origin'[u] :
          u \in hist'[r] \/ \A p \in DOMAIN flight' : p.id = u => IsPost(p, r)'
    BY <1>0, <2>1, <2>3, <2>6 DEF Remembered, IsPost, Self
  <2>8. \A r \in Sys, u \in Msg : Spread(u, r)' => u \in hist'[r]
    BY <1>0, <2>3 DEF Remembered, Spread, Self
  <2> QED  BY <2>5, <2>7, <2>8 DEF Remembered
<1>2. ASSUME NEW p \in DOMAIN flight, Fewer(p)
      PROVE  Once' /\ Remembered'
  <2>1. /\ UNCHANGED <<net, gated, origin, sent>> /\ \A r \in Sys : hist[r] \subseteq hist'[r]
        /\ DOMAIN flight' \subseteq DOMAIN flight
    BY <1>2, RemoveOne DEF Fewer
  <2>2. Once'
    BY <1>0, <2>1 DEF Once
  <2>3. Remembered'
    BY <1>0, <2>1 DEF Remembered, Spread, Self, IsPost, Typed
  <2> QED  BY <2>2, <2>3
<1>3. ASSUME NEW p \in DOMAIN flight, NEW s \in Sys, Spreads(s, p)
      PROVE  Once' /\ Remembered'
  <2>0. /\ UNCHANGED <<net, origin>> /\ \A r \in Sys : hist[r] \subseteq hist'[r]
        /\ p.id \notin hist[s] /\ p.id \in hist'[s] /\ p.id \in Msg /\ p.to \in net.aka[s]
    BY <1>3 DEF Spreads, Typed
  <2>1. ~Spread(p.id, s)
    BY <1>0, <2>0 DEF Remembered
  <2>2. \A r \in origin[p.id] : r = s => p.from = Self(s)
    BY <1>0, <2>0 DEF Remembered, IsPost
  <2>3. \A r \in Sys, m \in Msg : gated'[r][m] <= IF r \in origin[m] THEN 0 ELSE 1
    <3>1. SUFFICES ASSUME NEW r \in Sys, NEW m \in Msg
                   PROVE  gated'[r][m] <= IF r \in origin[m] THEN 0 ELSE 1
      OBVIOUS
    <3>2. CASE gated'[r][m] = gated[r][m]
      BY <1>0, <3>2 DEF Once
    <3>3. CASE /\ r = s /\ m = p.id /\ p.from # Self(s)
               /\ gated'[r][m] = gated[r][m] + 1
      <4>1. gated[r][m] = 0
        BY <2>1, <3>3 DEF Spread, Typed
      <4> QED  BY <2>2, <3>3, <4>1
    <3> QED  BY <1>3, <3>2, <3>3, GatedAre
  <2>4. \A t \in DOMAIN sent' : sent'[t] = 1
    <3>1. \A t \in Notes(s, p) : t \notin DOMAIN sent
      BY <2>1, NotesAre DEF Spread
    <3> QED  BY <1>0, <1>3, <3>1, SentIs DEF Once
  <2>5. \A r \in Sys, m \in Msg : Spread(m, r)' => m \in hist'[r]
    BY <1>0, <1>3, <2>0, SpreadIs DEF Remembered
  <2>6. \A m \in Msg : \A r \in origin[m] :
          m \in hist'[r] \/ \A q \in DOMAIN flight' : q.id = m => IsPost(q, r)'
    <3>1. SUFFICES ASSUME NEW m \in Msg, NEW r \in origin[m], m \notin hist'[r],
                          NEW q \in DOMAIN flight', q.id = m
                   PROVE  IsPost(q, r)'
      OBVIOUS
    <3>2. r \in Sys /\ m \notin hist[r] /\ \A v \in DOMAIN flight : v.id = m => IsPost(v, r)
      BY <1>0, <2>0, <3>1 DEF Remembered, Typed
    <3>3. q \in DOMAIN flight
      <4>1. SUFFICES ASSUME q \in Copies(s, p) PROVE FALSE
        BY <1>3, FlightIs
      <4>2. p.id = m /\ p.to = Self(r)
        BY <3>1, <3>2, <4>1, CopiesAre DEF IsPost
      <4>3. r = s
        BY <2>0, <3>2, <4>2, OneSystem
      <4> QED  BY <2>0, <3>1, <4>2, <4>3
    <3> QED  BY <2>0, <3>1, <3>2, <3>3 DEF IsPost, Self
  <2> QED  BY <2>0, <2>3, <2>4, <2>5, <2>6 DEF Once, Remembered
<1>4. ASSUME NEW p \in DOMAIN flight, Duplicate(p)
      PROVE  Once' /\ Remembered'
  BY <1>0, <1>4, DuplicateIs DEF Once, Remembered, Spread, Self, IsPost
<1>5. CASE UNCHANGED netvars
  BY <1>0, <1>5 DEF netvars, Once, Remembered, Spread, Self, IsPost
<1> QED  BY <1>1, <1>2, <1>3, <1>4, <1>5, StepIs

-----------------------------------------------------------------------------
\* In a tree a packet is at the end of a link that leads away from where the
\* message was posted, or where that was.
LEMMA ArrivesFrom ==
  ASSUME Typed, Posted, Single, NEW s \in Sys, NEW p \in DOMAIN flight,
         p.to \in net.aka[s]
  PROVE  /\ p.to = Self(s) /\ ~Spread(p.id, s)
         /\ \A o \in origin[p.id] :
              \/ s = o /\ p.from = Self(s)
              \/ /\ s # o /\ p.from = Self(Up(o)[s])
                 /\ Sent(p.id, Up(o)[s], Self(s))
<1>1. p.id \in Msg /\ \E o \in Sys : o \in origin[p.id]
  BY DEF Typed, Posted
<1>2. \A o \in origin[p.id] : o \in Sys /\ (IsPost(p, o) \/ Down(p, o))
  BY <1>1 DEF Typed, Single
<1>3. ASSUME NEW o \in origin[p.id], IsPost(p, o)
      PROVE  s = o /\ p.from = Self(s) /\ p.to = Self(s)
  BY <1>2, <1>3, OneSystem DEF IsPost
<1>4. ASSUME NEW o \in origin[p.id], Down(p, o)
      PROVE  /\ s # o /\ p.to = Self(s) /\ p.from = Self(Up(o)[s])
             /\ Sent(p.id, Up(o)[s], Self(s))
  BY <1>4, OneSystem DEF Down
<1>5. p.to = Self(s)
  BY <1>1, <1>2, <1>3, <1>4
<1>6. ~Spread(p.id, s)
  BY <1>5 DEF Single
<1>7. ASSUME NEW o \in origin[p.id]
      PROVE  \/ s = o /\ p.from = Self(s)
             \/ /\ s # o /\ p.from = Self(Up(o)[s])
                /\ Sent(p.id, Up(o)[s], Self(s))
  BY <1>2, <1>3, <1>4
<1> QED  BY <1>5, <1>6, <1>7

\* The way to where a message was posted.
LEMMA UpIs ==
  ASSUME Typed, net.tree, NEW o \in Sys
  PROVE  Up(o) \in [Sys -> Sys] /\ Ways(net, o, Up(o))
BY DEF Typed, Sound, Up

\* Whom s sends the message to: those whose way goes through s.
LEMMA SendsDown ==
  ASSUME Typed, net.tree, NEW s \in Sys, NEW p \in DOMAIN flight,
         NEW o \in Sys,
         \/ s = o
         \/ s # o /\ p.from = Self(Up(o)[s]),
         NEW n \in NewFor(s, p)
  PROVE  \E z \in Sys : n = Self(z) /\ z # o /\ z # s /\ Up(o)[z] = s
<1>1. n # p.from /\ n # Self(s) /\ \E i \in DOMAIN net.nodes[s] : net.nodes[s][i] = n
  BY NewAre
<1>2. PICK z \in Sys : n = Self(z)
  <2>1. \A i \in DOMAIN net.nodes[s] : \E r \in Sys : net.nodes[s][i] = net.addr[r]
    BY DEF Typed, Sound
  <2> QED  BY <1>1, <2>1 DEF Self
<1>3. Linked(net, s, z)
  BY <1>1, <1>2 DEF Linked, Self
<1>4. \/ z # o /\ Up(o)[z] = s
      \/ s # o /\ Up(o)[s] = z
  BY <1>3, UpIs DEF Ways
<1> QED  BY <1>1, <1>2, <1>4

\* A message that is new to s spreads in a tree.
LEMMA SpreadInTree ==
  ASSUME Typed, Posted, Once, Single, net.tree,
         NEW s \in Sys, NEW p \in DOMAIN flight, Spreads(s, p)
  PROVE  Once' /\ Single'
<1>0. /\ UNCHANGED <<net, origin>> /\ p.id \in Msg /\ p.to \in net.aka[s]
      /\ flight[p] = 1
  BY DEF Spreads, Typed, Single
<1>1. p.to = Self(s) /\ ~Spread(p.id, s)
  BY <1>0, ArrivesFrom
<1>2. PICK o \in Sys : origin[p.id] = {o}
  <2>1. PICK v : v \in origin[p.id]
    BY <1>0 DEF Posted
  <2>2. v \in Sys /\ \A r \in origin[p.id] : r = v
    BY <1>0, <2>1 DEF Typed
  <2> QED  BY <2>1, <2>2
<1>3. \/ s = o /\ p.from = Self(s)
      \/ /\ s # o /\ p.from = Self(Up(o)[s])
         /\ Sent(p.id, Up(o)[s], Self(s))
  BY <1>0, <1>2, ArrivesFrom
<1>4. /\ \A q \in Copies(s, p) : q.id = p.id /\ q.from = Self(s) /\ q.to \in NewFor(s, p)
      /\ \A q, r \in Copies(s, p) : q.to = r.to => q = r
  BY CopiesAre
<1>5. \A n \in NewFor(s, p) : \E z \in Sys : n = Self(z) /\ z # o /\ z # s /\ Up(o)[z] = s
  BY <1>3, SendsDown
<1>6. \A y \in Sys : Self(y)' = Self(y) /\ Up(y)' = Up(y)
  BY <1>0 DEF Self, Up
<1>7. /\ DOMAIN sent' = DOMAIN sent \cup Notes(s, p)
      /\ \A n \in NewFor(s, p) : <<p.id, Self(s), n>> \in DOMAIN sent'
      /\ \A u, x, n : Sent(u, x, n) => <<u, Self(x), n>> \in DOMAIN sent'
  <2>1. DOMAIN sent' = DOMAIN sent \cup Notes(s, p)
    BY SentIs
  <2> QED  BY <2>1 DEF Notes, Sent
<1>8. \A u \in Msg, y \in Sys : Spread(u, y)' => Spread(u, y) \/ (u = p.id /\ y = s)
  BY SpreadIs
\* No packet is where a copy is going, nor has the message been there.
<1>9. ASSUME NEW z \in Sys, z # o, Up(o)[z] = s
      PROVE  /\ ~Spread(p.id, z)
             /\ \A q \in DOMAIN flight : ~(q.id = p.id /\ q.to = Self(z))
  <2>1. ~Sent(p.id, s, Self(z))
    BY <1>1 DEF Sent, Spread
  <2>2. ~Spread(p.id, z)
    BY <1>0, <1>2, <1>9, <2>1 DEF Single
  <2>3. ASSUME NEW q \in DOMAIN flight, q.id = p.id, q.to = Self(z)
        PROVE  FALSE
    <3>1. Self(z) \in net.aka[z]
      BY DEF Typed, Sound, Self
    <3> QED  BY <1>2, <1>9, <2>1, <2>3, <3>1, ArrivesFrom
  <2> QED  BY <2>2, <2>3
<1>10. \A q \in Copies(s, p) : \A r \in DOMAIN flight : ~(r.id = p.id /\ r.to = q.to)
  BY <1>4, <1>5, <1>9
<1>11. /\ \A q \in DOMAIN flight' : q \in Copies(s, p) \/ (q \in DOMAIN flight /\ q # p)
       /\ \A q \in DOMAIN flight' : flight'[q] = 1
  <2>1. \A q \in Copies(s, p) : q \notin DOMAIN flight
    BY <1>4, <1>10
  <2>2. p \notin DOMAIN flight'
    BY <1>0, <2>1, FlightIs
  <2>3. \A q \in DOMAIN flight : flight[q] = 1
    BY DEF Single
  <2> QED  BY <2>1, <2>2, <2>3, FlightIs
<1>12. Once'
  <2>1. \A r \in Sys, m \in Msg : gated'[r][m] <= IF r \in origin[m] THEN 0 ELSE 1
    <3>1. SUFFICES ASSUME NEW r \in Sys, NEW m \in Msg
                   PROVE  gated'[r][m] <= IF r \in origin[m] THEN 0 ELSE 1
      OBVIOUS
    <3>2. CASE gated'[r][m] = gated[r][m]
      BY <3>2 DEF Once
    <3>3. CASE /\ r = s /\ m = p.id /\ p.from # Self(s)
               /\ gated'[r][m] = gated[r][m] + 1
      <4>1. gated[r][m] = 0
        BY <1>1, <3>3 DEF Spread, Typed
      <4>2. s \notin origin[p.id]
        BY <1>2, <1>3, <3>3
      <4> QED  BY <3>3, <4>1, <4>2
    <3> QED  BY <3>2, <3>3, GatedAre
  <2>2. \A t \in DOMAIN sent' : sent'[t] = 1
    <3>1. \A t \in Notes(s, p) : t \notin DOMAIN sent
      BY <1>1, NotesAre DEF Spread
    <3> QED  BY <3>1, SentIs DEF Once
  <2> QED  BY <1>0, <2>1, <2>2 DEF Once
\* What Single says of a packet, of two, and of the messages.
<1>13. ASSUME NEW q \in DOMAIN flight'
       PROVE  /\ \A v \in origin'[q.id] : IsPost(q, v)' \/ Down(q, v)'
              /\ \A y \in Sys : q.to = Self(y)' => ~Spread(q.id, y)'
  <2>1. CASE q \in Copies(s, p)
    <3>1. PICK z \in Sys : q.to = Self(z) /\ z # o /\ z # s /\ Up(o)[z] = s
      BY <1>4, <1>5, <2>1
    <3>2. q.id = p.id /\ q.from = Self(s) /\ <<q.id, Self(s), Self(z)>> \in DOMAIN sent'
      BY <1>4, <1>7, <2>1, <3>1
    <3>3. Down(q, o)'
      BY <1>6, <3>1, <3>2 DEF Down, Sent
    <3>4. \A y \in Sys : q.to = Self(y)' => y = z
      <4>1. \A y \in Sys : Self(y) = Self(z) => y = z
        BY <3>1, OneSystem
      <4> QED  BY <1>6, <3>1, <4>1
    <3>5. ~Spread(p.id, z)'
      BY <1>0, <1>8, <1>9, <3>1
    <3> QED  BY <1>0, <1>2, <3>2, <3>3, <3>4, <3>5
  <2>2. CASE q \in DOMAIN flight /\ q # p
    <3>1. /\ \A v \in origin[q.id] : v \in Sys /\ (IsPost(q, v) \/ Down(q, v))
          /\ \A y \in Sys : q.to = Self(y) => ~Spread(q.id, y)
          /\ q.id \in Msg
      BY <2>2 DEF Single, Typed
    <3>2. ASSUME NEW v \in origin[q.id], Down(q, v)
          PROVE  Down(q, v)'
      <4>1. PICK x \in Sys : /\ x # v /\ q.to = Self(x) /\ q.from = Self(Up(v)[x])
                             /\ Sent(q.id, Up(v)[x], Self(x))
        BY <3>2 DEF Down
      <4>2. v \in Sys
        BY <3>1
      <4>3. Up(v)[x] \in Sys
        BY <4>2, UpIs
      <4>4. <<q.id, Self(Up(v)[x]), Self(x)>> \in DOMAIN sent'
        BY <1>7, <4>1
      <4> QED  BY <1>6, <4>1, <4>2, <4>3, <4>4 DEF Down, Sent
    <3>3. \A v \in origin[q.id] : IsPost(q, v) => IsPost(q, v)'
      BY <1>6, <3>1 DEF IsPost
    <3>4. \A y \in Sys : q.to = Self(y) => ~(q.id = p.id /\ y = s)
      BY <1>1, <2>2 DEF Single
    <3>5. \A y \in Sys : q.to = Self(y)' => ~Spread(q.id, y)'
      BY <1>6, <1>8, <3>1, <3>4
    <3> QED  BY <1>0, <3>1, <3>2, <3>3, <3>5
  <2> QED  BY <1>11, <2>1, <2>2
<1>14. \A q, r \in DOMAIN flight' : q.id = r.id /\ q.to = r.to => q = r
  BY <1>4, <1>10, <1>11 DEF Single
<1>15. ASSUME NEW m \in Msg, NEW v \in origin'[m], NEW y \in Sys, y # v, Spread(m, y)'
       PROVE  Sent(m, Up(v)[y], Self(y))'
  <2>1. v \in Sys /\ v \in origin[m]
    BY <1>0, <1>15 DEF Typed
  <2>2. Sent(m, Up(v)[y], Self(y))
    BY <1>2, <1>3, <1>8, <1>15, <2>1 DEF Single
  <2>3. Up(v)[y] \in Sys
    BY <2>1, UpIs
  <2> QED  BY <1>6, <1>7, <2>1, <2>2, <2>3 DEF Sent
<1> QED  BY <1>11, <1>12, <1>13, <1>14, <1>15 DEF Single

\* Packets may be fewer.
LEMMA FewerInTree ==
  ASSUME Single, UNCHANGED <<net, gated, origin, sent>>,
         \A q \in DOMAIN flight' : q \in DOMAIN flight /\ flight'[q] = 1
  PROVE  Single'
<1>1. /\ \A r : Self(r)' = Self(r) /\ Up(r)' = Up(r)
      /\ \A u, x : Spread(u, x)' = Spread(u, x)
      /\ \A u, x, n : Sent(u, x, n)' = Sent(u, x, n)
  BY DEF Self, Up, Spread, Sent
<1>2. ASSUME NEW q \in DOMAIN flight'
      PROVE  /\ \A o \in origin'[q.id] : IsPost(q, o)' \/ Down(q, o)'
             /\ \A s \in Sys : q.to = Self(s)' => ~Spread(q.id, s)'
  <2>1. /\ \A o \in origin'[q.id] : IsPost(q, o) \/ Down(q, o)
        /\ \A s \in Sys : q.to = Self(s) => ~Spread(q.id, s)
    BY DEF Single
  <2>2. \A o : IsPost(q, o)' = IsPost(q, o)
    BY <1>1 DEF IsPost
  <2>3. \A o : Down(q, o)' = Down(q, o)
    BY DEF Down, Up, Self, Sent
  <2> QED  BY <1>1, <2>1, <2>2, <2>3
<1>3. \A p, q \in DOMAIN flight' : p.id = q.id /\ p.to = q.to => p = q
  BY DEF Single
<1>4. ASSUME NEW m \in Msg, NEW o \in origin'[m], NEW s \in Sys, s # o, Spread(m, s)'
      PROVE  Sent(m, Up(o)[s], Self(s))'
  <2>1. Sent(m, Up(o)[s], Self(s))
    BY <1>1, <1>4 DEF Single
  <2> QED  BY <2>1 DEF Sent, Up, Self
<1> QED  BY <1>2, <1>3, <1>4 DEF Single

\* In a tree, the other steps.
LEMMA NextInTree ==
  ASSUME Typed, Posted, InTree, [NetNext]_netvars, IsTree'
  PROVE  Once' /\ Single'
<1>1. ASSUME NEW s \in Sys, NEW m \in Msg, Post(s, m)
      PROVE  Once' /\ Single'
  <2> DEFINE q == Mail(m, s)
  <2>0. /\ UNCHANGED <<net, hist, gated, sent, dups>>
        /\ origin[m] = {} /\ origin' = [origin EXCEPT ![m] = {s}]
    BY <1>1 DEF Post
  <2>1. /\ q.id = m /\ IsPost(q, s)
        /\ DOMAIN flight' = DOMAIN flight \cup {q}
        /\ q \notin DOMAIN flight => flight'[q] = 1
        /\ \A e \in DOMAIN flight : e # q => flight'[e] = flight[e]
    BY <1>1, MailIs
  <2> HIDE DEF q
  <2>2. Once /\ Single
    BY <2>0, <2>1 DEF InTree, IsTree
  <2>3. \A u \in Msg : origin'[u] = IF u = m THEN {s} ELSE origin[u]
    BY <2>0, <2>1 DEF Typed
  <2>4. /\ \A r \in Sys : ~Spread(m, r) /\ gated[r][m] = 0
        /\ \A p \in DOMAIN flight : p.id # m /\ p.id \in Msg
    BY <2>0, <2>1 DEF Posted, Spread, Typed
  <2>5. /\ \A r \in Sys : Self(r)' = Self(r) /\ Up(r)' = Up(r)
        /\ \A u, x : Spread(u, x)' = Spread(u, x)
        /\ \A u, x, n : Sent(u, x, n)' = Sent(u, x, n)
    BY <2>0, <2>1 DEF Self, Up, Spread, Sent
  <2>6. Once'
    BY <2>0, <2>1, <2>2, <2>3, <2>4 DEF Once
  <2>7. ASSUME NEW p \in DOMAIN flight'
        PROVE  /\ flight'[p] = 1
               /\ \A o \in origin'[p.id] : IsPost(p, o)' \/ Down(p, o)'
               /\ \A r \in Sys : p.to = Self(r)' => ~Spread(p.id, r)'
    <3>1. CASE p = q
      BY <2>0, <2>1, <2>3, <2>4, <2>5, <3>1 DEF IsPost
    <3>2. CASE p \in DOMAIN flight
      <4>1. /\ flight'[p] = 1 /\ origin'[p.id] = origin[p.id]
            /\ \A r \in Sys : p.to = Self(r) => ~Spread(p.id, r)
            /\ \A o \in origin[p.id] : o \in Sys /\ (IsPost(p, o) \/ Down(p, o))
        BY <2>0, <2>1, <2>2, <2>3, <2>4, <3>2 DEF Single, Typed
      <4>2. \A o \in Sys : /\ IsPost(p, o) => IsPost(p, o)'
                           /\ Down(p, o) => Down(p, o)'
        BY <2>0, <2>1 DEF IsPost, Down, Up, Self, Sent
      <4> QED  BY <2>5, <4>1, <4>2
    <3> QED  BY <2>0, <2>1, <3>1, <3>2
  <2>8. \A p, r \in DOMAIN flight' : p.id = r.id /\ p.to = r.to => p = r
    BY <2>0, <2>1, <2>2, <2>4 DEF Single
  <2>9. \A u \in Msg : \A o \in origin'[u] : \A r \in Sys :
          r # o /\ Spread(u, r)' => Sent(u, Up(o)[r], Self(r))'
    <3>1. SUFFICES ASSUME NEW u \in Msg, NEW o \in origin'[u], NEW r \in Sys,
                          r # o, Spread(u, r)'
                   PROVE  Sent(u, Up(o)[r], Self(r))'
      OBVIOUS
    <3>2. u # m /\ o \in origin[u] /\ Spread(u, r)
      BY <2>3, <2>4, <2>5, <3>1
    <3>3. Sent(u, Up(o)[r], Self(r))
      BY <2>2, <3>1, <3>2 DEF Single
    <3> QED  BY <2>0, <2>1, <3>3 DEF Sent, Up, Self
  <2> QED  BY <2>6, <2>7, <2>8, <2>9 DEF Single
<1>2. ASSUME NEW p \in DOMAIN flight, Fewer(p)
      PROVE  Once' /\ Single'
  <2>1. /\ UNCHANGED <<net, gated, origin, sent, dups>>
        /\ flight' = BagRemove(flight, p)
    BY <1>2 DEF Fewer
  <2>2. Once /\ Single
    BY <2>1 DEF InTree, IsTree
  <2>3. \A q \in DOMAIN flight' : q \in DOMAIN flight /\ flight'[q] = 1
    BY <2>1, <2>2, RemoveOne DEF Single
  <2>4. Single'
    BY <2>1, <2>2, <2>3, FewerInTree
  <2> QED  BY <2>1, <2>2, <2>4 DEF Once
<1>3. ASSUME NEW p \in DOMAIN flight, NEW s \in Sys, Spreads(s, p)
      PROVE  Once' /\ Single'
  <2>1. net.tree /\ Once /\ Single
    BY <1>3 DEF Spreads, InTree, IsTree
  <2> QED  BY <1>3, <2>1, SpreadInTree
<1>4. ASSUME NEW p \in DOMAIN flight, Duplicate(p)
      PROVE  Once' /\ Single'
  <2>1. dups' = dups + 1 /\ dups \in Nat /\ dups' = 0
    BY <1>4, DuplicateIs DEF IsTree, Typed
  <2> QED  BY <2>1
<1>5. CASE UNCHANGED netvars
  <2>1. Once /\ Single
    BY <1>5 DEF netvars, InTree, IsTree
  <2>2. Single'
    BY <1>5, <2>1, FewerInTree DEF netvars, Single
  <2> QED  BY <1>5, <2>1, <2>2 DEF netvars, Once
<1> QED  BY <1>1, <1>2, <1>3, <1>4, <1>5, StepIs

\* The configuration does not change, so neither does what is asked of it.
LEMMA NetNextInv ==
  ASSUME NetInv, [NetNext]_netvars
  PROVE  NetInv'
<1>1. Typed' /\ Posted'
  BY NextTyped, NextPosted DEF NetInv
<1>2. net' = net
  BY StepIs, PostIs, DuplicateIs DEF NetInv, Fewer, Spreads, netvars
<1>3. WithHistory'
  BY <1>2, NextWithHistory DEF NetInv, WithHistory
<1>4. InTree'
  BY NextInTree DEF NetInv, InTree
<1> QED  BY <1>1, <1>3, <1>4 DEF NetInv

\* Where the systems keep histories, or the links are a tree and no packet comes
\* twice: toss_echomail() sends a message at most once over each link in each
\* direction, a gateway is given it at most once, and never at the system it was
\* posted at.  A packet may be lost, or come in any order.
THEOREM DeliveredOnceHolds == NetSpec => []DeliveredOnce
<1>1. NetInit => NetInv
  BY NetInitInv
<1>2. NetInv /\ [NetNext]_netvars => NetInv'
  BY NetNextInv
<1>3. NetInv => DeliveredOnce
  BY DEF NetInv, WithHistory, InTree, Once, DeliveredOnce, BagToSet
<1> QED  BY <1>1, <1>2, <1>3, PTL DEF NetSpec
=============================================================================
