---------------------------- MODULE Runinc_proofs ----------------------------
(***************************************************************************)
(* For any routing tables, files, messages, failing calls and kills of     *)
(* runinc, ftntoss, ftnroute, ftnpack and ftnroute -p: what the mailer has *)
(* brought is never lost between them; it waits in the outbound where the  *)
(* ROUTING file sends it; and what it has brought once leaves once.        *)
(***************************************************************************)
EXTENDS Runinc, FiniteSetTheorems, SequenceTheorems, WellFoundedInduction, TLAPS

-----------------------------------------------------------------------------
\* What the state is made of.

Numbers == DOMAIN config.msg
Grades  == {config.grade, "m"}
Parcels == [grade : Grades, type : {Netmail}, flav : Flavors, to : config.nodes,
            msgs : Seq(Numbers)]
Ways    == [from : {config.from}, to : config.nodes, grade : Grades,
            type : {Netmail}, flav : Flavors, move : BOOLEAN]
Entries == [grade : Grades, type : {Netmail}, flav : Flavors, to : config.nodes,
            msgs : Seq(Numbers), open : BOOLEAN]
IsRouter(r) ==
  /\ DOMAIN r = {"pc", "left", "cur", "pos", "d", "ent", "err"}
  /\ r.pos \in Int /\ r.ent \in Seq(Entries)

Given ==
  /\ number \in DOMAIN Configs
  /\ table = ReadRouting(config.lines) /\ mail = Mails

Typed ==
  /\ toss \in Seq(Parcels) /\ route \in Seq(Parcels)
  /\ outb \in [[to : config.nodes, flav : Flavors] -> Seq(Numbers)]
  /\ DOMAIN rt = Caller /\ \A p \in Caller : IsRouter(rt[p])
  /\ sent \in [Msg -> Nat]
  /\ files \subseteq DOMAIN config.files

Arcs     == {f \in DOMAIN config.files : File(f).kind = "arc"}
ArcNames == {File(f).name : f \in Arcs}
Inner    == UNION {DOMAIN File(f).msgs : f \in Arcs}

IsArc(n, x) == /\ x.kind = "arc" /\ n \in ArcNames /\ IsFiniteSet(DOMAIN x.msgs)
               /\ \A y \in DOMAIN x.msgs : y \in Inner /\ x.msgs[y] \in Seq(Numbers)

\* What has the name of an archive is none of the packets in one.
Inbound ==
  /\ IsFiniteSet(DOMAIN inb) /\ IsFiniteSet(DOMAIN tmpu)
  /\ \A n \in DOMAIN inb :
       \/ inb[n].kind = "pkt" /\ inb[n].msgs \in Seq(Numbers)
       \/ IsArc(n, inb[n])
  /\ \A x \in DOMAIN tmpu : x \in Inner /\ tmpu[x] \in Seq(Numbers)

-----------------------------------------------------------------------------
\* Where a message is.

InPkts(s) == UNION {Elems(s[i].msgs) : i \in DOMAIN s}
InEnts(p) == InPkts(rt[p].ent)
InOutb    == UNION {Elems(outb[k]) : k \in DOMAIN outb}
InInb     == Held(Packets) \cup UNION {Held(inb[n].msgs) : n \in Archives}
Went      == {m \in Msg : sent[m] > 0}

InSpool == gone \cup InPkts(toss) \cup InPkts(route) \cup InEnts("runinc")
             \cup InEnts("repack") \cup InOutb \cup Went
Arrived == Held(tmpu) \cup InInb \cup InBad \cup killed

Kept == Brought \subseteq InSpool \cup Arrived

\* ftnroute: output packets are written until it closes them; of the packet it
\* is at, which is still in its directory, it has copied what is behind it.
CallerAt(p) ==
  /\ rt[p].pc \in {"idle", "done", "died", "pack"} => rt[p].ent = <<>>
  /\ rt[p].pc \in {"open", "copy"} => rt[p].cur \in Parcels
  /\ rt[p].pc = "copy" =>
       /\ rt[p].d \in Ways /\ \E i \in DOMAIN rt[p].ent : Same(rt[p].ent[i], rt[p].d)
       /\ rt[p].pos >= 1
       /\ \A i \in 1 .. Len(rt[p].cur.msgs) :
            i < rt[p].pos => rt[p].cur.msgs[i] \in gone \cup InEnts(p)
RouterAt == \A p \in Caller : CallerAt(p)

\* runinc: an archive that it is about to unlink is in tmpunpack.
RunincAt ==
  /\ pc \in {"idle", "unpack", "unarc", "toss", "route", "pack"}
  /\ pc \in {"idle", "unpack", "unarc", "toss"} => rt["runinc"].pc = "idle"
  /\ pc = "pack" => rt["runinc"].pc = "pack"
  /\ pc \in {"unpack", "unarc"} => todo \subseteq DOMAIN inb
  /\ pc = "unpack" /\ unpflag => item = <<>>
  /\ pc = "unarc" => item # <<>> /\ item[1] \notin todo
  /\ item # <<>> => \E n \in Archives :
       /\ item = <<n>>
       /\ inb[n].ok =>
            \A x \in DOMAIN inb[n].msgs : x \in DOMAIN tmpu /\ tmpu[x] = inb[n].msgs[x]

IInv == Given /\ Typed /\ Inbound /\ RouterAt /\ RunincAt /\ Kept

-----------------------------------------------------------------------------
\* Numbers and lists.

LEMMA LeastOf ==
  ASSUME NEW S \in SUBSET Nat, S # {}
  PROVE  \E n \in S : \A m \in S : n <= m
<1>1. PICK n \in S : \A m \in S : <<m, n>> \notin OpToRel(<, Nat)
  BY NatLessThanWellFounded, WFMin
<1>2. \A m \in S : ~(m < n)
  BY <1>1 DEF OpToRel
<1> QED  BY <1>2

LEMMA LeastIs ==
  ASSUME NEW S \in SUBSET Nat, S # {}
  PROVE  Least(S) \in S
BY LeastOf DEF Least

LEMMA InPktsAre ==
  ASSUME NEW s, NEW m
  PROVE  m \in InPkts(s) <=> \E i \in DOMAIN s : \E j \in DOMAIN s[i].msgs : s[i].msgs[j] = m
BY DEF InPkts, Elems

LEMMA TakesOut ==
  ASSUME NEW S, NEW s \in Seq(S), NEW i \in DOMAIN s
  PROVE  /\ Without(s, i) \in Seq(S)
         /\ \A j \in DOMAIN s : j # i => \E h \in DOMAIN Without(s, i) : Without(s, i)[h] = s[j]
<1>1. i \in 1 .. Len(s) /\ Len(s) \in Nat
  OBVIOUS
<1> DEFINE a == SubSeq(s, 1, i - 1)
           b == SubSeq(s, i + 1, Len(s))
<1>2. /\ a \in Seq(S) /\ Len(a) = i - 1
      /\ \A j \in 1 .. i - 1 : a[j] = s[j]
  BY <1>1, SubSeqProperties
<1>3. /\ b \in Seq(S) /\ Len(b) = Len(s) - i
      /\ \A j \in 1 .. Len(s) - i : b[j] = s[i + j]
  BY <1>1, SubSeqProperties
<1> HIDE DEF a, b
<1>4. Without(s, i) = a \o b
  BY DEF Without, a, b
<1>5. /\ a \o b \in Seq(S) /\ DOMAIN (a \o b) = 1 .. Len(s) - 1
      /\ \A j \in 1 .. i - 1 : (a \o b)[j] = a[j]
      /\ \A j \in i .. Len(s) - 1 : (a \o b)[j] = b[j - (i - 1)]
  BY <1>1, <1>2, <1>3
<1>6. ASSUME NEW j \in DOMAIN s, j # i
      PROVE  \E h \in DOMAIN (a \o b) : (a \o b)[h] = s[j]
  <2>1. CASE j < i
    <3>1. j \in 1 .. i - 1 /\ j \in 1 .. Len(s) - 1
      BY <1>1, <1>6, <2>1
    <3>2. (a \o b)[j] = s[j]
      BY <1>2, <1>5, <3>1
    <3> QED  BY <1>5, <3>1, <3>2
  <2>2. CASE j > i
    <3>1. /\ j - 1 \in i .. Len(s) - 1 /\ j - 1 \in 1 .. Len(s) - 1
          /\ j - i \in 1 .. Len(s) - i /\ (j - 1) - (i - 1) = j - i /\ i + (j - i) = j
      BY <1>1, <1>6, <2>2
    <3>2. (a \o b)[j - 1] = b[j - i]
      BY <1>5, <3>1
    <3>3. b[j - i] = s[j]
      BY <1>3, <3>1
    <3> QED  BY <1>5, <3>1, <3>2, <3>3
  <2> QED  BY <1>1, <1>6, <2>1, <2>2
<1> QED  BY <1>4, <1>5, <1>6

LEMMA PktsWithout ==
  ASSUME NEW S, NEW s \in Seq(S), NEW i \in DOMAIN s
  PROVE  InPkts(s) \subseteq InPkts(Without(s, i)) \cup Elems(s[i].msgs)
<1> SUFFICES ASSUME NEW m \in InPkts(s), m \notin Elems(s[i].msgs)
             PROVE  m \in InPkts(Without(s, i))
  OBVIOUS
<1>1. PICK j \in DOMAIN s : m \in Elems(s[j].msgs)
  BY DEF InPkts
<1>2. PICK h \in DOMAIN Without(s, i) : Without(s, i)[h] = s[j]
  BY <1>1, TakesOut
<1> QED  BY <1>1, <1>2 DEF InPkts

LEMMA PktsTogether ==
  ASSUME NEW S, NEW s \in Seq(S), NEW t \in Seq(S)
  PROVE  /\ s \o t \in Seq(S)
         /\ InPkts(s \o t) = InPkts(s) \cup InPkts(t)
<1>1. /\ s \o t \in Seq(S) /\ DOMAIN (s \o t) = 1 .. Len(s) + Len(t)
      /\ DOMAIN s = 1 .. Len(s) /\ DOMAIN t = 1 .. Len(t)
      /\ Len(s) \in Nat /\ Len(t) \in Nat
      /\ \A j \in 1 .. Len(s) : (s \o t)[j] = s[j]
      /\ \A j \in 1 .. Len(t) : (s \o t)[Len(s) + j] = t[j]
  OBVIOUS
<1>2. \A j \in DOMAIN (s \o t) : j \in DOMAIN s \/ j - Len(s) \in DOMAIN t
  BY <1>1
<1>3. \A j \in DOMAIN t : Len(s) + j \in DOMAIN (s \o t)
  BY <1>1
<1>4. \A j \in DOMAIN s : j \in DOMAIN (s \o t)
  BY <1>1
<1>5. ASSUME NEW m \in InPkts(s \o t) PROVE m \in InPkts(s) \cup InPkts(t)
  <2>1. PICK j \in DOMAIN (s \o t) : m \in Elems((s \o t)[j].msgs)
    BY <1>5 DEF InPkts
  <2>2. CASE j \in DOMAIN s
    BY <1>1, <2>1, <2>2 DEF InPkts
  <2>3. CASE j - Len(s) \in DOMAIN t
    <3>1. (s \o t)[j] = t[j - Len(s)]
      BY <1>1, <2>1, <2>3
    <3> QED  BY <2>1, <2>3, <3>1 DEF InPkts
  <2> QED  BY <1>2, <2>1, <2>2, <2>3
<1>6. ASSUME NEW m \in InPkts(s) PROVE m \in InPkts(s \o t)
  <2>1. PICK j \in DOMAIN s : m \in Elems(s[j].msgs)
    BY <1>6 DEF InPkts
  <2> QED  BY <1>1, <1>4, <2>1 DEF InPkts
<1>7. ASSUME NEW m \in InPkts(t) PROVE m \in InPkts(s \o t)
  <2>1. PICK j \in DOMAIN t : m \in Elems(t[j].msgs)
    BY <1>7 DEF InPkts
  <2> QED  BY <1>1, <1>3, <2>1 DEF InPkts
<1> QED  BY <1>1, <1>5, <1>6, <1>7

LEMMA ElemsTogether ==
  ASSUME NEW S, NEW s \in Seq(S), NEW t \in Seq(S)
  PROVE  s \o t \in Seq(S) /\ Elems(s \o t) = Elems(s) \cup Elems(t)
<1>1. /\ s \o t \in Seq(S) /\ DOMAIN (s \o t) = 1 .. Len(s) + Len(t)
      /\ DOMAIN s = 1 .. Len(s) /\ DOMAIN t = 1 .. Len(t)
      /\ Len(s) \in Nat /\ Len(t) \in Nat
      /\ \A j \in 1 .. Len(s) : (s \o t)[j] = s[j]
      /\ \A j \in 1 .. Len(t) : (s \o t)[Len(s) + j] = t[j]
  OBVIOUS
<1>2. \A j \in DOMAIN (s \o t) : j \in DOMAIN s \/ j - Len(s) \in DOMAIN t
  BY <1>1
<1>3. ASSUME NEW j \in DOMAIN (s \o t) PROVE (s \o t)[j] \in Elems(s) \cup Elems(t)
  <2>1. CASE j \in DOMAIN s
    BY <1>1, <2>1 DEF Elems
  <2>2. CASE j - Len(s) \in DOMAIN t
    <3>1. (s \o t)[j] = t[j - Len(s)]
      BY <1>1, <1>3, <2>2
    <3> QED  BY <2>2, <3>1 DEF Elems
  <2> QED  BY <1>2, <1>3, <2>1, <2>2
<1>4. \A j \in DOMAIN s : s[j] \in Elems(s \o t)
  <2>1. \A j \in DOMAIN s : j \in DOMAIN (s \o t)
    BY <1>1
  <2> QED  BY <1>1, <2>1 DEF Elems
<1>5. \A j \in DOMAIN t : t[j] \in Elems(s \o t)
  <2>1. \A j \in DOMAIN t : Len(s) + j \in DOMAIN (s \o t)
    BY <1>1
  <2> QED  BY <1>1, <2>1 DEF Elems
<1> QED  BY <1>1, <1>3, <1>4, <1>5 DEF Elems

LEMMA OnePkt ==
  ASSUME NEW x
  PROVE  InPkts(<<x>>) = Elems(x.msgs)
<1>1. DOMAIN <<x>> = {1} /\ <<x>>[1] = x
  OBVIOUS
<1> QED  BY <1>1 DEF InPkts

LEMMA NoPkts == InPkts(<<>>) = {}
BY DEF InPkts

LEMMA OneMore ==
  ASSUME NEW S, NEW s \in Seq(S), NEW x \in S
  PROVE  /\ Append(s, x) \in Seq(S) /\ Append(s, x)[Len(s) + 1] = x
         /\ Len(s) + 1 \in DOMAIN Append(s, x)
         /\ InPkts(Append(s, x)) = InPkts(s) \cup Elems(x.msgs)
<1>1. <<x>> \in Seq(S) /\ Append(s, x) = s \o <<x>>
  OBVIOUS
<1>2. /\ s \o <<x>> \in Seq(S)
      /\ InPkts(s \o <<x>>) = InPkts(s) \cup InPkts(<<x>>)
  BY ONLY <1>1, s \in Seq(S), PktsTogether
<1>3. Append(s, x)[Len(s) + 1] = x /\ Len(s) + 1 \in DOMAIN Append(s, x)
  OBVIOUS
<1> QED  BY <1>1, <1>2, <1>3, OnePkt

-----------------------------------------------------------------------------
\* What is given.

LEMMA SoundNow ==
  ASSUME Given
  PROVE  /\ Numbers \subseteq Msg /\ IsFiniteSet(config.nodes)
         /\ \A m \in Numbers : /\ config.msg[m].flav \in Flavors
                               /\ Killed(mail[m]) \/ mail[m].to \in config.nodes
         /\ \A f \in Parcels : Way(f) \in Ways
         /\ \A f \in DOMAIN config.files :
              \/ File(f).kind = "pkt" /\ File(f).msgs \in Seq(Numbers)
              \/ IsArc(File(f).name, File(f))
         /\ \A n \in ArcNames : n \notin Inner
<1>1. Sound(config)
  BY ConfigsAssumption DEF Given, config
<1>2. /\ Numbers \subseteq Msg /\ IsFiniteSet(config.nodes)
      /\ \A m \in Numbers : config.msg[m].flav \in Flavors
  BY <1>1 DEF Sound, Numbers
<1>3. ASSUME NEW m \in Numbers PROVE Killed(mail[m]) \/ mail[m].to \in config.nodes
  <2>1. mail[m] = Remap(Rewrite(config.msg[m], ReadRouting(config.lines)),
                        ReadRouting(config.lines))
    BY <1>3 DEF Given, Mails, Numbers
  <2> QED  BY <1>1, <2>1 DEF Sound, Numbers
<1>4. ASSUME NEW f \in Parcels PROVE Way(f) \in Ways
  <2>1. /\ f.grade \in Grades /\ f.flav \in Flavors /\ f.to \in config.nodes
        /\ f.type = Netmail
    BY <1>4 DEF Parcels
  <2>2. Route(Desc([grade |-> f.grade, type |-> Netmail, flav |-> f.flav], config.from, f.to),
              table, config.hubs) \in Ways
    BY <1>1, <2>1 DEF Sound, Ways, Grades, Given
  <2>3. Desc([grade |-> f.grade, type |-> Netmail, flav |-> f.flav], config.from, f.to)
        = Desc(f, config.from, f.to)
    BY <2>1 DEF Desc
  <2> QED  BY <2>2, <2>3 DEF Way
<1>5. \A f \in DOMAIN config.files :
        \/ File(f).kind = "pkt" /\ File(f).msgs \in Seq(Numbers)
        \/ IsArc(File(f).name, File(f))
  BY <1>1 DEF Sound, Numbers, IsArc, File, ArcNames, Inner, Arcs
<1>6. \A n \in ArcNames : n \notin Inner
  BY <1>1 DEF Sound, File, ArcNames, Inner, Arcs
<1> QED  BY <1>2, <1>3, <1>4, <1>5, <1>6

LEMMA GivenStays ==
  ASSUME Given, UNCHANGED given
  PROVE  /\ Given' /\ config' = config /\ mail' = mail /\ table' = table
         /\ Numbers' = Numbers /\ Parcels' = Parcels /\ Ways' = Ways
         /\ Entries' = Entries /\ \A r : IsRouter(r)' = IsRouter(r)
         /\ ArcNames' = ArcNames /\ Inner' = Inner
         /\ \A f : File(f)' = File(f)
         /\ \A n, x : IsArc(n, x)' = IsArc(n, x)
<1>1. config' = config /\ mail' = mail /\ table' = table /\ number' = number
  BY DEF given, config
<1>2. Mails' = Mails
  BY <1>1 DEF Mails
<1>3. \A f : File(f)' = File(f)
  BY <1>1 DEF File
<1>4. Numbers' = Numbers /\ Grades' = Grades /\ Arcs' = Arcs
  BY <1>1, <1>3 DEF Numbers, Grades, Arcs
<1>5. Parcels' = Parcels /\ Ways' = Ways /\ Entries' = Entries
  BY <1>1, <1>4 DEF Parcels, Ways, Entries
<1>6. \A r : IsRouter(r)' = IsRouter(r)
  BY <1>5 DEF IsRouter
<1>7. ArcNames' = ArcNames /\ Inner' = Inner
  BY <1>3, <1>4 DEF ArcNames, Inner
<1>8. \A n, x : IsArc(n, x)' = IsArc(n, x)
  BY <1>4, <1>7 DEF IsArc
<1> QED  BY <1>1, <1>2, <1>3, <1>4, <1>5, <1>6, <1>7, <1>8 DEF Given

-----------------------------------------------------------------------------
\* ftnroute.

\* A process is where it was as long as it does nothing.
LEMMA CallerStays ==
  ASSUME Given, UNCHANGED given, NEW q \in Caller, CallerAt(q), rt'[q] = rt[q],
         gone \subseteq gone'
  PROVE  CallerAt(q)' /\ InEnts(q)' = InEnts(q)
<1>1. InEnts(q)' = InEnts(q)
  BY DEF InEnts, InPkts, Elems
<1>2. Parcels' = Parcels /\ Ways' = Ways
  BY GivenStays
<1> QED  BY <1>1, <1>2 DEF CallerAt, Same

\* What a step of one ftnroute must see to.
LEMMA RouterMoves ==
  ASSUME IInv, UNCHANGED <<given, files, sent>>, NEW p \in Caller, NEW r, IsRouter(r),
         rt' = [rt EXCEPT ![p] = r], gone \subseteq gone', CallerAt(p)',
         toss' \in Seq(Parcels), route' \in Seq(Parcels),
         outb' \in [[to : config.nodes, flav : Flavors] -> Seq(Numbers)]
  PROVE  /\ Typed' /\ RouterAt' /\ rt'[p] = r
         /\ \A q \in Caller : q # p => rt'[q] = rt[q] /\ InEnts(q)' = InEnts(q)
<1>1. Given /\ Typed /\ RouterAt
  BY DEF IInv
<1>2. rt'[p] = r /\ \A q \in Caller : q # p => rt'[q] = rt[q]
  BY <1>1 DEF Typed
<1>3. DOMAIN rt' = Caller /\ \A q \in Caller : IsRouter(rt'[q])
  BY <1>1, <1>2 DEF Typed
<1>4. \A q \in Caller : q # p => CallerAt(q)' /\ InEnts(q)' = InEnts(q)
  BY <1>1, <1>2, CallerStays DEF RouterAt
<1>5. Typed'
  BY <1>1, <1>3, GivenStays DEF Typed
<1>6. RouterAt'
  BY <1>4 DEF RouterAt
<1> QED  BY <1>2, <1>4, <1>5, <1>6

\* What is in the packets that a step leaves alone.
LEMMA RouterTyped ==
  ASSUME IInv, NEW p \in Caller
  PROVE  /\ IsRouter(rt[p]) /\ DOMAIN rt = Caller /\ Source(p) \in Seq(Parcels)
         /\ CallerAt(p)
BY DEF IInv, Typed, RouterAt, Source

\* The packet that ftnroute is at is taken out of its directory.
LEMMA DropIs ==
  ASSUME Typed, NEW p \in Caller, NEW add \in Seq(Parcels), Here(p) # {}, Drop(p, add)
  PROVE  /\ toss' \in Seq(Parcels) /\ route' \in Seq(Parcels)
         /\ InPkts(toss) \cup InPkts(route) \cup InPkts(add)
              \subseteq InPkts(toss') \cup InPkts(route') \cup Elems(rt[p].cur.msgs) \cup InPkts(add)
         /\ InPkts(add) \subseteq InPkts(route')
<1> DEFINE i == Least(Here(p))
<1>1. toss \in Seq(Parcels) /\ route \in Seq(Parcels) /\ Source(p) \in Seq(Parcels)
  BY DEF Typed, Source
<1>2. i \in DOMAIN Source(p) /\ Source(p)[i] = rt[p].cur
  <2>1. Here(p) \in SUBSET Nat
    BY <1>1 DEF Here
  <2>2. Least(Here(p)) \in Here(p)
    BY <2>1, LeastIs
  <2> QED  BY <2>2 DEF Here
<1> DEFINE rest == Without(Source(p), i)
<1>3. /\ rest \in Seq(Parcels)
      /\ InPkts(Source(p)) \subseteq InPkts(rest) \cup Elems(rt[p].cur.msgs)
  BY <1>1, <1>2, TakesOut, PktsWithout
<1>4. IF p = "runinc" THEN toss' = rest /\ route' = route \o add
                      ELSE toss' = toss /\ route' = rest \o add
  BY DEF Drop
<1> HIDE DEF i, rest
<1>5. /\ route \o add \in Seq(Parcels) /\ InPkts(route \o add) = InPkts(route) \cup InPkts(add)
      /\ rest \o add \in Seq(Parcels) /\ InPkts(rest \o add) = InPkts(rest) \cup InPkts(add)
  BY <1>1, <1>3, PktsTogether
<1>6. CASE p = "runinc"
  BY <1>1, <1>3, <1>4, <1>5, <1>6 DEF Source
<1>7. CASE p # "runinc"
  BY <1>1, <1>3, <1>4, <1>5, <1>7 DEF Source
<1> QED  BY <1>6, <1>7

\* The packet ftnroute is at is moved as it is.
LEMMA MovesIt ==
  ASSUME Typed, NEW p \in Caller, rt[p].cur \in Parcels, NEW d \in Ways, Here(p) # {},
         Drop(p, <<Packet(d, rt[p].cur.to, rt[p].cur.msgs)>>)
  PROVE  /\ toss' \in Seq(Parcels) /\ route' \in Seq(Parcels)
         /\ InPkts(toss) \cup InPkts(route) \subseteq InPkts(toss') \cup InPkts(route')
<1> DEFINE f == rt[p].cur
           x == Packet(d, f.to, f.msgs)
<1>1. x \in Parcels /\ x.msgs = f.msgs
  BY DEF Packet, Parcels, Ways
<1> HIDE DEF x
<1>2. <<x>> \in Seq(Parcels) /\ InPkts(<<x>>) = Elems(f.msgs)
  BY <1>1, OnePkt
<1>3. Drop(p, <<x>>)
  BY DEF x
<1>4. /\ toss' \in Seq(Parcels) /\ route' \in Seq(Parcels)
      /\ InPkts(toss) \cup InPkts(route)
           \subseteq InPkts(toss') \cup InPkts(route') \cup Elems(f.msgs)
      /\ Elems(f.msgs) \subseteq InPkts(route')
  BY <1>2, <1>3, DropIs
<1> QED  BY <1>4

\* What one of them has, and what they share, moves between them.
LEMMA SpoolGrows ==
  ASSUME NEW p \in Caller, \A q \in Caller : q # p => InEnts(q)' = InEnts(q),
         sent' = sent,
         gone \cup InPkts(toss) \cup InPkts(route) \cup InEnts(p) \cup InOutb
           \subseteq gone' \cup InPkts(toss)' \cup InPkts(route)' \cup InEnts(p)' \cup InOutb'
  PROVE  InSpool \subseteq InSpool'
<1>1. Went' = Went
  BY DEF Went
<1> QED  BY <1>1 DEF InSpool, Caller

\* A step of ftnroute, or of ftnpack for it.
Does(p) ==
  /\ Typed' /\ RouterAt' /\ InSpool \subseteq InSpool'
  /\ \A q \in Caller : q # p => rt'[q] = rt[q]

LEMMA RouteNextDoes ==
  ASSUME IInv, NEW p \in Caller, RouteNext(p), UNCHANGED <<files, sent>>
  PROVE  Does(p)
<1>1. /\ IsRouter(rt[p]) /\ CallerAt(p) /\ Given /\ toss \in Seq(Parcels)
      /\ route \in Seq(Parcels) /\ DOMAIN rt = Caller
      /\ outb \in [[to : config.nodes, flav : Flavors] -> Seq(Numbers)]
  BY RouterTyped DEF IInv, Typed
<1>2. UNCHANGED given /\ UNCHANGED <<toss, route, outb, gone>>
  BY DEF RouteNext, spool
<1>3. PICK r : rt' = [rt EXCEPT ![p] = r] /\ IsRouter(r) /\ r.ent = rt[p].ent
               /\ r.pc \in {"close", "open"} /\ (r.pc = "open" => r.cur \in Parcels)
  <2>1. CASE rt[p].left = 0 \/ rt[p].err \/ toss = <<>>
    <3> DEFINE r == [rt[p] EXCEPT !.pc = "close"]
    <3>1. rt' = [rt EXCEPT ![p] = r]
      BY <2>1 DEF RouteNext, Set
    <3>2. IsRouter(r) /\ r.ent = rt[p].ent /\ r.pc = "close"
      BY <1>1 DEF IsRouter
    <3> QED  BY <3>1, <3>2
  <2>2. CASE ~(rt[p].left = 0 \/ rt[p].err \/ toss = <<>>)
    <3> DEFINE r == [rt[p] EXCEPT !.pc = "open", !.cur = toss[1], !.left = @ - 1]
    <3>1. rt' = [rt EXCEPT ![p] = r]
      BY <2>2 DEF RouteNext, Set
    <3>2. toss[1] \in Parcels
      BY <1>1, <2>2
    <3>3. IsRouter(r) /\ r.ent = rt[p].ent /\ r.pc = "open" /\ r.cur = toss[1]
      BY <1>1 DEF IsRouter
    <3> QED  BY <3>1, <3>2, <3>3
  <2> QED  BY <2>1, <2>2
<1>4. rt'[p] = r
  BY <1>1, <1>3
<1>5. CallerAt(p)' /\ InEnts(p)' = InEnts(p)
  <2>1. InEnts(p)' = InEnts(p)
    BY <1>3, <1>4 DEF InEnts, InPkts, Elems
  <2>2. Parcels' = Parcels
    BY <1>1, <1>2, GivenStays
  <2> QED  BY <1>3, <1>4, <2>1, <2>2 DEF CallerAt
<1>6. /\ Typed' /\ RouterAt'
      /\ \A q \in Caller : q # p => rt'[q] = rt[q] /\ InEnts(q)' = InEnts(q)
  BY <1>1, <1>2, <1>3, <1>5, RouterMoves
<1>7. InSpool \subseteq InSpool'
  <2>1. InPkts(toss)' = InPkts(toss) /\ InPkts(route)' = InPkts(route) /\ InOutb' = InOutb
    BY <1>2 DEF InOutb, Elems
  <2> QED  BY <1>2, <1>5, <1>6, <2>1, SpoolGrows
<1> QED  BY <1>6, <1>7 DEF Does

\* A step that leaves everything but the directories to a new state.
LEMMA RouteOpenDoes ==
  ASSUME IInv, NEW p \in Caller, RouteOpen(p), UNCHANGED <<files, sent>>
  PROVE  Does(p)
<1>1. /\ IsRouter(rt[p]) /\ CallerAt(p) /\ Given /\ toss \in Seq(Parcels) /\ Typed
      /\ route \in Seq(Parcels) /\ DOMAIN rt = Caller
      /\ outb \in [[to : config.nodes, flav : Flavors] -> Seq(Numbers)]
  BY RouterTyped DEF IInv, Typed
<1>2. UNCHANGED given /\ UNCHANGED <<outb, gone>>
  BY DEF RouteOpen
<1> DEFINE f == rt[p].cur
           d == Way(f)
<1>3. f \in Parcels /\ d \in Ways /\ rt[p].pc = "open"
  BY <1>1, SoundNow DEF RouteOpen, CallerAt
<1> HIDE DEF d
<1>4. PICK r : /\ rt' = [rt EXCEPT ![p] = r] /\ IsRouter(r)
               /\ InPkts(rt[p].ent) \subseteq InPkts(r.ent)
               /\ toss' \in Seq(Parcels) /\ route' \in Seq(Parcels)
               /\ InPkts(toss) \cup InPkts(route) \subseteq InPkts(toss') \cup InPkts(route')
               /\ \/ r.pc = "next"
                  \/ /\ r.pc = "copy" /\ r.pos = 1 /\ r.d = d /\ r.cur = f
                     /\ \E i \in DOMAIN r.ent : Same(r.ent[i], d)
  <2>1. CASE Here(p) = {}
    <3> DEFINE r == [rt[p] EXCEPT !.pc = "next", !.err = TRUE]
    <3>1. rt' = [rt EXCEPT ![p] = r] /\ UNCHANGED <<toss, route>>
      BY <2>1 DEF RouteOpen, Set
    <3>2. IsRouter(r) /\ r.ent = rt[p].ent /\ r.pc = "next"
      BY <1>1 DEF IsRouter
    <3> QED  BY <1>1, <3>1, <3>2
  <2>2. CASE Here(p) # {} /\ d.move
    <3> DEFINE r == [rt[p] EXCEPT !.pc = "next"]
    <3>1. rt' = [rt EXCEPT ![p] = r] /\ Drop(p, <<Packet(d, f.to, f.msgs)>>)
      BY <2>2 DEF RouteOpen, Set, d
    <3>2. IsRouter(r) /\ r.ent = rt[p].ent /\ r.pc = "next"
      BY <1>1 DEF IsRouter
    <3> HIDE DEF r
    <3>3. /\ toss' \in Seq(Parcels) /\ route' \in Seq(Parcels)
          /\ InPkts(toss) \cup InPkts(route) \subseteq InPkts(toss') \cup InPkts(route')
      BY <1>1, <1>3, <2>2, <3>1, MovesIt
    <3> QED  BY <3>1, <3>2, <3>3
  <2>3. CASE Here(p) # {} /\ ~d.move
    <3> DEFINE known == {i \in DOMAIN rt[p].ent : Same(rt[p].ent[i], d)}
               new == [grade |-> d.grade, type |-> d.type, flav |-> d.flav, to |-> d.to,
                       msgs |-> <<>>, open |-> TRUE]
               ents == IF known = {} THEN Append(rt[p].ent, new) ELSE rt[p].ent
               r == [rt[p] EXCEPT !.pc = "copy", !.pos = 1, !.d = d,
                       !.ent = IF known = {} THEN Append(@, new) ELSE @]
    <3>1. rt' = [rt EXCEPT ![p] = r] /\ UNCHANGED <<toss, route>>
      BY <2>3 DEF RouteOpen, Set, d
    <3>2. new \in Entries /\ Same(new, d)
      BY <1>3 DEF Entries, Ways, Same
    <3>3. rt[p].ent \in Seq(Entries)
      BY <1>1 DEF IsRouter
    <3> HIDE DEF new
    <3>4. /\ ents \in Seq(Entries) /\ InPkts(rt[p].ent) \subseteq InPkts(ents)
          /\ \E i \in DOMAIN ents : Same(ents[i], d)
      <4>1. CASE known = {}
        <5> DEFINE old == rt[p].ent
        <5>1. ents = Append(old, new) /\ old \in Seq(Entries)
          BY <3>3, <4>1
        <5> HIDE DEF old, ents
        <5>2. /\ ents \in Seq(Entries) /\ InPkts(old) \subseteq InPkts(ents)
              /\ ents[Len(old) + 1] = new /\ Len(old) + 1 \in DOMAIN ents
          BY <3>2, <5>1, OneMore
        <5> QED  BY <3>2, <5>2 DEF old
      <4>2. CASE known # {}
        BY <3>3, <4>2
      <4> QED  BY <4>1, <4>2
    <3> HIDE DEF known
    <3>5. r.ent = ents /\ r.pc = "copy" /\ r.pos = 1 /\ r.d = d /\ r.cur = f
          /\ DOMAIN r = DOMAIN rt[p]
      BY <1>1 DEF IsRouter
    <3> HIDE DEF ents, r
    <3>6. IsRouter(r)
      BY <1>1, <3>4, <3>5 DEF IsRouter
    <3> QED  BY <1>1, <3>1, <3>4, <3>5, <3>6
  <2> QED  BY <2>1, <2>2, <2>3
<1> HIDE DEF f
<1>5. rt'[p] = r
  BY <1>1, <1>4
<1>6. InEnts(p) \subseteq InEnts(p)'
  <2>1. InEnts(p)' = InPkts(rt'[p].ent)
    BY DEF InEnts, InPkts, Elems
  <2> QED  BY <1>4, <1>5, <2>1 DEF InEnts
<1>7. CallerAt(p)'
  <2>1. Parcels' = Parcels /\ Ways' = Ways
    BY <1>1, <1>2, GivenStays
  <2>2. CASE r.pc = "next"
    BY <1>5, <2>2 DEF CallerAt
  <2>3. CASE r.pc = "copy"
    <3>1. /\ r.pos = 1 /\ r.d = d /\ r.cur = f
          /\ \E i \in DOMAIN r.ent : Same(r.ent[i], d)
      BY <1>4, <2>3
    <3>2. \A i \in 1 .. Len(r.cur.msgs) : ~(i < r.pos)
      BY <3>1
    <3> QED  BY <1>3, <1>5, <2>1, <2>3, <3>1, <3>2 DEF CallerAt, Same, f
  <2> QED  BY <1>4, <2>2, <2>3
<1>8. /\ Typed' /\ RouterAt'
      /\ \A q \in Caller : q # p => rt'[q] = rt[q] /\ InEnts(q)' = InEnts(q)
  BY <1>1, <1>2, <1>4, <1>7, RouterMoves
<1>9. InSpool \subseteq InSpool'
  <2>1. InOutb' = InOutb
    BY <1>2 DEF InOutb, Elems
  <2>2. InPkts(toss)' = InPkts(toss') /\ InPkts(route)' = InPkts(route')
    BY DEF InPkts, Elems
  <2> QED  BY <1>2, <1>4, <1>6, <1>8, <2>1, <2>2, SpoolGrows
<1> QED  BY <1>8, <1>9 DEF Does

LEMMA RouterDoes ==
  ASSUME IInv, UNCHANGED <<given, files, sent>>, NEW p \in Caller, NEW r, IsRouter(r),
         rt' = [rt EXCEPT ![p] = r], gone \subseteq gone', CallerAt(p)',
         toss' \in Seq(Parcels), route' \in Seq(Parcels),
         outb' \in [[to : config.nodes, flav : Flavors] -> Seq(Numbers)],
         gone \cup InPkts(toss) \cup InPkts(route) \cup InPkts(rt[p].ent) \cup InOutb
           \subseteq gone' \cup InPkts(toss') \cup InPkts(route') \cup InPkts(r.ent) \cup InOutb'
  PROVE  Does(p)
<1>1. /\ Typed' /\ RouterAt' /\ rt'[p] = r
      /\ \A q \in Caller : q # p => rt'[q] = rt[q] /\ InEnts(q)' = InEnts(q)
  BY RouterMoves
<1>2. /\ InPkts(toss)' = InPkts(toss') /\ InPkts(route)' = InPkts(route')
      /\ InEnts(p)' = InPkts(rt'[p].ent)
  BY DEF InPkts, InEnts, Elems
<1>3. InEnts(p)' = InPkts(r.ent) /\ InEnts(p) = InPkts(rt[p].ent)
  BY <1>1, <1>2 DEF InEnts
<1>4. InSpool \subseteq InSpool'
  BY <1>1, <1>2, <1>3, SpoolGrows
<1> QED  BY <1>1, <1>4 DEF Does

\* The list of output packets, of which one is written to or closed.
LEMMA EntWritten ==
  ASSUME NEW s \in Seq(Entries), NEW e \in DOMAIN s, NEW ms \in Seq(Numbers),
         Elems(s[e].msgs) \subseteq Elems(ms)
  PROVE  /\ [s EXCEPT ![e].msgs = ms] \in Seq(Entries)
         /\ InPkts(s) \cup Elems(ms) \subseteq InPkts([s EXCEPT ![e].msgs = ms])
         /\ \A i \in DOMAIN s : \A d :
              Same(s[i], d) => Same([s EXCEPT ![e].msgs = ms][i], d)
<1> DEFINE x == [s[e] EXCEPT !.msgs = ms]
           t == [s EXCEPT ![e].msgs = ms]
<1>1. s[e] \in Entries
  OBVIOUS
<1>2. x \in Entries /\ x.msgs = ms /\ \A d : Same(s[e], d) => Same(x, d)
  BY <1>1 DEF Entries, Same
<1>3. t = [s EXCEPT ![e] = x]
  OBVIOUS
<1> HIDE DEF x, t
<1>4. t \in Seq(Entries) /\ DOMAIN t = DOMAIN s /\ t[e] = x
      /\ \A i \in DOMAIN s : i # e => t[i] = s[i]
  BY <1>2, <1>3
<1>5. \A i \in DOMAIN s : \A d : Same(s[i], d) => Same(t[i], d)
  BY <1>2, <1>4
<1>6. InPkts(s) \cup Elems(ms) \subseteq InPkts(t)
  <2>1. Elems(ms) \subseteq InPkts(t)
    BY <1>2, <1>4 DEF InPkts
  <2>2. \A i \in DOMAIN s : Elems(s[i].msgs) \subseteq InPkts(t)
    <3>1. \A i \in DOMAIN s : i # e => Elems(s[i].msgs) \subseteq InPkts(t)
      BY <1>4 DEF InPkts
    <3> QED  BY <2>1, <3>1
  <2> QED  BY <2>1, <2>2 DEF InPkts
<1> QED  BY <1>4, <1>5, <1>6 DEF t

LEMMA EntClosed ==
  ASSUME NEW s \in Seq(Entries), NEW e \in DOMAIN s
  PROVE  /\ [s EXCEPT ![e].open = FALSE] \in Seq(Entries)
         /\ InPkts([s EXCEPT ![e].open = FALSE]) = InPkts(s)
<1> DEFINE x == [s[e] EXCEPT !.open = FALSE]
           t == [s EXCEPT ![e].open = FALSE]
<1>1. s[e] \in Entries
  OBVIOUS
<1>2. x \in Entries /\ x.msgs = s[e].msgs
  BY <1>1 DEF Entries
<1>3. t = [s EXCEPT ![e] = x]
  OBVIOUS
<1> HIDE DEF x, t
<1>4. t \in Seq(Entries) /\ DOMAIN t = DOMAIN s /\ \A i \in DOMAIN s : t[i].msgs = s[i].msgs
  BY <1>2, <1>3
<1>5. InPkts(t) = InPkts(s)
  BY <1>4 DEF InPkts
<1> QED  BY <1>4, <1>5 DEF t

\* The output packet of the packet that is copied.
LEMMA EntryIs ==
  ASSUME NEW p \in Caller, CallerAt(p), rt[p].pc = "copy"
  PROVE  Entry(p) \in DOMAIN rt[p].ent /\ Same(rt[p].ent[Entry(p)], rt[p].d)
BY DEF Entry, CallerAt

LEMMA CopyDoes ==
  ASSUME IInv, NEW p \in Caller, Copy(p), UNCHANGED <<files, sent>>
  PROVE  Does(p)
<1>1. /\ IsRouter(rt[p]) /\ CallerAt(p) /\ Given /\ toss \in Seq(Parcels) /\ Typed
      /\ route \in Seq(Parcels) /\ DOMAIN rt = Caller
      /\ outb \in [[to : config.nodes, flav : Flavors] -> Seq(Numbers)]
  BY RouterTyped DEF IInv, Typed
<1>2. UNCHANGED given /\ UNCHANGED <<toss, route, outb>> /\ rt[p].pc = "copy"
  BY DEF Copy, spool
<1> DEFINE f == rt[p].cur
           e == Entry(p)
           m == This(p)
           n == rt[p].pos
           s == rt[p].ent
           d == rt[p].d
<1>3. f \in Parcels /\ d \in Ways /\ n \in Int /\ n >= 1 /\ n <= Len(f.msgs)
      /\ s \in Seq(Entries)
      /\ \A i \in 1 .. Len(f.msgs) : i < n => f.msgs[i] \in gone \cup InPkts(s)
  BY <1>1, <1>2 DEF Copy, CallerAt, IsRouter, InEnts
<1>4. e \in DOMAIN s /\ Same(s[e], d)
  BY <1>1, <1>2, EntryIs
<1>5. f.msgs \in Seq(Numbers) /\ m = f.msgs[n] /\ m \in Numbers
  <2>1. f.msgs \in Seq(Numbers)
    BY <1>3 DEF Parcels
  <2> QED  BY <1>3, <2>1 DEF This
<1>6. s[e].msgs \in Seq(Numbers)
  <2>1. s[e] \in Entries
    BY <1>3, <1>4
  <2> QED  BY <2>1 DEF Entries
<1> HIDE DEF e, m
<1>7. PICK written \in BOOLEAN, ok \in BOOLEAN :
        /\ rt' = [rt EXCEPT ![p] = [rt[p] EXCEPT
              !.pos = @ + 1,
              !.pc = IF ok THEN "copy" ELSE "next",
              !.err = ~ok,
              !.ent[e].msgs = IF written THEN Append(@, m) ELSE @]]
        /\ gone' = IF ok /\ ~written THEN gone \cup {m} ELSE gone
  BY DEF Copy, Set, e, m
<1> DEFINE ms == IF written THEN Append(s[e].msgs, m) ELSE s[e].msgs
           t == [s EXCEPT ![e].msgs = ms]
           r == [rt[p] EXCEPT !.pos = @ + 1, !.pc = IF ok THEN "copy" ELSE "next",
                   !.err = ~ok, !.ent[e].msgs = IF written THEN Append(@, m) ELSE @]
<1>8. ms \in Seq(Numbers) /\ Elems(s[e].msgs) \subseteq Elems(ms) /\ (written => m \in Elems(ms))
  <2>1. CASE ~written
    BY <1>6, <2>1
  <2>2. CASE written
    <3>1. <<m>> \in Seq(Numbers) /\ m \in Elems(<<m>>)
      <4>1. DOMAIN <<m>> = {1} /\ <<m>>[1] = m
        OBVIOUS
      <4> QED  BY <1>5, <4>1 DEF Elems
    <3> DEFINE old == s[e].msgs
    <3>2. ms = old \o <<m>> /\ old \in Seq(Numbers)
      <4>1. old \in Seq(Numbers) /\ ms = Append(old, m)
        BY <1>6, <2>2
      <4> HIDE DEF old, ms
      <4> QED  BY ONLY <1>5, <4>1
    <3> HIDE DEF old, ms
    <3>3. old \o <<m>> \in Seq(Numbers) /\ Elems(old \o <<m>>) = Elems(old) \cup Elems(<<m>>)
      BY <3>1, <3>2, ElemsTogether
    <3>4. ms \in Seq(Numbers) /\ Elems(old) \subseteq Elems(ms) /\ m \in Elems(ms)
      BY <3>1, <3>2, <3>3
    <3> QED  BY <3>4 DEF old
  <2> QED  BY <2>1, <2>2
<1>9. /\ r.pos = n + 1 /\ r.pc = IF ok THEN "copy" ELSE "next"
      /\ r.ent = t /\ r.cur = f /\ r.d = d /\ DOMAIN r = DOMAIN rt[p]
  BY <1>1 DEF IsRouter
<1> HIDE DEF ms, t, r
<1>10. /\ t \in Seq(Entries) /\ InPkts(s) \cup Elems(ms) \subseteq InPkts(t)
       /\ DOMAIN t = DOMAIN s /\ Same(t[e], d)
  BY <1>3, <1>4, <1>8, EntWritten DEF t
<1>11. IsRouter(r)
  BY <1>1, <1>3, <1>9, <1>10 DEF IsRouter
<1>12. rt' = [rt EXCEPT ![p] = r] /\ gone \subseteq gone' /\ rt'[p] = r
  BY <1>1, <1>7 DEF r
<1>13. CallerAt(p)'
  <2>1. Parcels' = Parcels /\ Ways' = Ways
    BY <1>1, <1>2, GivenStays
  <2>2. InEnts(p)' = InPkts(t)
    <3>1. InEnts(p)' = InPkts(rt'[p].ent)
      BY DEF InEnts, InPkts, Elems
    <3> QED  BY <1>9, <1>12, <3>1
  <2>3. ASSUME ok, NEW i \in 1 .. Len(f.msgs), i < n + 1
        PROVE  f.msgs[i] \in gone' \cup InPkts(t)
    <3>1. CASE i < n
      BY <1>3, <1>10, <1>12, <3>1
    <3>2. CASE i = n
      <4>1. CASE written
        BY <1>5, <1>8, <1>10, <3>2, <4>1
      <4>2. CASE ~written
        BY <1>5, <1>7, <2>3, <3>2, <4>2
      <4> QED  BY <4>1, <4>2
    <3> QED  BY <1>3, <2>3, <3>1, <3>2
  <2>4. n + 1 >= 1
    BY <1>3
  <2>5. CASE ok
    <3>1. rt'[p].pc = "copy" /\ rt'[p].cur = f /\ rt'[p].pos = n + 1 /\ rt'[p].ent = t
          /\ rt'[p].d = d
      BY <1>9, <1>12, <2>5
    <3> HIDE DEF f, n, d, s
    <3>2. \E i \in DOMAIN t : Same(t[i], d)
      BY <1>4, <1>10
    <3> QED  BY <1>3, <2>1, <2>2, <2>3, <2>4, <2>5, <3>1, <3>2 DEF CallerAt, Same
  <2>6. CASE ~ok
    <3>1. rt'[p].pc = "next"
      BY <1>9, <1>12, <2>6
    <3> QED  BY <3>1 DEF CallerAt
  <2> QED  BY <2>5, <2>6
<1>14. InPkts(toss') = InPkts(toss) /\ InPkts(route') = InPkts(route) /\ InOutb' = InOutb
  BY <1>2 DEF InOutb, Elems
<1> HIDE DEF f, n, d
<1> QED  BY <1>1, <1>2, <1>9, <1>10, <1>11, <1>12, <1>13, <1>14, RouterDoes

LEMMA CopyDirectDoes ==
  ASSUME IInv, NEW p \in Caller, CopyDirect(p), UNCHANGED <<files, sent>>
  PROVE  Does(p)
<1>1. /\ IsRouter(rt[p]) /\ CallerAt(p) /\ Given /\ toss \in Seq(Parcels) /\ Typed
      /\ route \in Seq(Parcels) /\ DOMAIN rt = Caller
      /\ outb \in [[to : config.nodes, flav : Flavors] -> Seq(Numbers)]
  BY RouterTyped DEF IInv, Typed
<1>2. UNCHANGED given /\ UNCHANGED <<outb, gone>> /\ rt[p].pc = "copy"
  BY DEF CopyDirect
<1> DEFINE e == Entry(p)
           s == rt[p].ent
           t == [s EXCEPT ![e].open = FALSE]
<1>3. rt[p].cur \in Parcels /\ rt[p].d \in Ways /\ s \in Seq(Entries) /\ e \in DOMAIN s
  BY <1>1, <1>2, EntryIs DEF CallerAt, IsRouter
<1> HIDE DEF e
<1>4. t \in Seq(Entries) /\ InPkts(t) = InPkts(s)
  BY <1>3, EntClosed
<1>5. PICK r : /\ rt' = [rt EXCEPT ![p] = r] /\ r.pc = "next" /\ r.ent = t /\ IsRouter(r)
               /\ toss' \in Seq(Parcels) /\ route' \in Seq(Parcels)
               /\ InPkts(toss) \cup InPkts(route) \subseteq InPkts(toss') \cup InPkts(route')
  <2>1. CASE Here(p) = {}
    <3> DEFINE r == [rt[p] EXCEPT !.pc = "next", !.err = TRUE, !.ent[e].open = FALSE]
    <3>1. rt' = [rt EXCEPT ![p] = r] /\ UNCHANGED <<toss, route>>
      BY <2>1 DEF CopyDirect, Set, e
    <3>2. r.pc = "next" /\ r.ent = t /\ DOMAIN r = DOMAIN rt[p] /\ r.pos = rt[p].pos
      BY <1>1 DEF IsRouter
    <3> HIDE DEF r, t
    <3>3. IsRouter(r)
      BY <1>1, <1>4, <3>2 DEF IsRouter
    <3> QED  BY <1>1, <3>1, <3>2, <3>3
  <2>2. CASE Here(p) # {}
    <3> DEFINE r == [rt[p] EXCEPT !.pc = "next", !.ent[e].open = FALSE]
    <3>1. rt' = [rt EXCEPT ![p] = r]
          /\ Drop(p, <<Packet(rt[p].d, rt[p].cur.to, rt[p].cur.msgs)>>)
      BY <2>2 DEF CopyDirect, Set, e
    <3>2. r.pc = "next" /\ r.ent = t /\ DOMAIN r = DOMAIN rt[p] /\ r.pos = rt[p].pos
      BY <1>1 DEF IsRouter
    <3> HIDE DEF r, t
    <3>3. IsRouter(r)
      BY <1>1, <1>4, <3>2 DEF IsRouter
    <3>4. /\ toss' \in Seq(Parcels) /\ route' \in Seq(Parcels)
          /\ InPkts(toss) \cup InPkts(route) \subseteq InPkts(toss') \cup InPkts(route')
      BY <1>1, <1>3, <2>2, <3>1, MovesIt
    <3> QED  BY <3>1, <3>2, <3>3, <3>4
  <2> QED  BY <2>1, <2>2
<1> HIDE DEF t
<1>6. CallerAt(p)'
  <2>1. rt'[p].pc = "next"
    BY <1>1, <1>5
  <2> QED  BY <2>1 DEF CallerAt
<1>7. InOutb' = InOutb
  BY <1>2 DEF InOutb, Elems
<1> QED  BY <1>1, <1>2, <1>4, <1>5, <1>6, <1>7, RouterDoes

LEMMA CopyEndDoes ==
  ASSUME IInv, NEW p \in Caller, CopyEnd(p), UNCHANGED <<files, sent>>
  PROVE  Does(p)
<1>1. /\ IsRouter(rt[p]) /\ CallerAt(p) /\ Given /\ toss \in Seq(Parcels) /\ Typed
      /\ route \in Seq(Parcels) /\ DOMAIN rt = Caller
      /\ outb \in [[to : config.nodes, flav : Flavors] -> Seq(Numbers)]
  BY RouterTyped DEF IInv, Typed
<1>2. UNCHANGED given /\ UNCHANGED <<outb, gone>> /\ rt[p].pc = "copy"
  BY DEF CopyEnd
<1>3. Elems(rt[p].cur.msgs) \subseteq gone \cup InPkts(rt[p].ent)
  <2>1. /\ rt[p].cur.msgs \in Seq(Numbers) /\ rt[p].pos > Len(rt[p].cur.msgs)
        /\ rt[p].pos \in Int
        /\ \A i \in 1 .. Len(rt[p].cur.msgs) :
             i < rt[p].pos => rt[p].cur.msgs[i] \in gone \cup InEnts(p)
    BY <1>1, <1>2 DEF CopyEnd, CallerAt, Parcels, IsRouter
  <2>2. \A i \in DOMAIN rt[p].cur.msgs : rt[p].cur.msgs[i] \in gone \cup InEnts(p)
    <3> DEFINE l == rt[p].cur.msgs
               at == rt[p].pos
    <3>1. DOMAIN l = 1 .. Len(l) /\ Len(l) \in Nat
      BY <2>1
    <3>2. \A i \in 1 .. Len(l) : i < at => l[i] \in gone \cup InEnts(p)
      BY <2>1
    <3>3. at \in Int /\ at > Len(l)
      BY <2>1
    <3> HIDE DEF l, at
    <3>4. \A i \in DOMAIN l : l[i] \in gone \cup InEnts(p)
      BY ONLY <3>1, <3>2, <3>3
    <3> QED  BY <3>4 DEF l
  <2> QED  BY <2>2 DEF Elems, InEnts
<1>4. PICK r : /\ rt' = [rt EXCEPT ![p] = r] /\ r.pc = "next" /\ r.ent = rt[p].ent
               /\ IsRouter(r) /\ toss' \in Seq(Parcels) /\ route' \in Seq(Parcels)
               /\ InPkts(toss) \cup InPkts(route)
                    \subseteq InPkts(toss') \cup InPkts(route') \cup Elems(rt[p].cur.msgs)
  <2>1. CASE Here(p) = {}
    <3> DEFINE r == [rt[p] EXCEPT !.pc = "next", !.err = TRUE]
    <3>1. rt' = [rt EXCEPT ![p] = r] /\ UNCHANGED <<toss, route>>
      BY <2>1 DEF CopyEnd, Set
    <3>2. r.pc = "next" /\ r.ent = rt[p].ent /\ IsRouter(r)
      BY <1>1 DEF IsRouter
    <3> QED  BY <1>1, <3>1, <3>2
  <2>2. CASE Here(p) # {}
    <3> DEFINE r == [rt[p] EXCEPT !.pc = "next"]
    <3>1. rt' = [rt EXCEPT ![p] = r] /\ Drop(p, <<>>)
      BY <2>2 DEF CopyEnd, Set
    <3>2. r.pc = "next" /\ r.ent = rt[p].ent /\ IsRouter(r)
      BY <1>1 DEF IsRouter
    <3>3. <<>> \in Seq(Parcels)
      OBVIOUS
    <3>4. /\ toss' \in Seq(Parcels) /\ route' \in Seq(Parcels)
          /\ InPkts(toss) \cup InPkts(route) \cup InPkts(<<>>) \subseteq
               InPkts(toss') \cup InPkts(route') \cup Elems(rt[p].cur.msgs) \cup InPkts(<<>>)
      BY <1>1, <2>2, <3>1, <3>3, DropIs
    <3> QED  BY <3>1, <3>2, <3>4, NoPkts
  <2> QED  BY <2>1, <2>2
<1>5. CallerAt(p)'
  <2>1. rt'[p].pc = "next"
    BY <1>1, <1>4
  <2> QED  BY <2>1 DEF CallerAt
<1>6. InOutb' = InOutb
  BY <1>2 DEF InOutb, Elems
<1> QED  BY <1>1, <1>2, <1>3, <1>4, <1>5, <1>6, RouterDoes

LEMMA RouteCloseDoes ==
  ASSUME IInv, NEW p \in Caller, RouteClose(p), UNCHANGED <<files, sent>>
  PROVE  Does(p)
<1>1. /\ IsRouter(rt[p]) /\ CallerAt(p) /\ Given /\ toss \in Seq(Parcels) /\ Typed
      /\ route \in Seq(Parcels) /\ DOMAIN rt = Caller
      /\ outb \in [[to : config.nodes, flav : Flavors] -> Seq(Numbers)]
  BY RouterTyped DEF IInv, Typed
<1>2. UNCHANGED given /\ UNCHANGED <<toss, outb>>
  BY DEF RouteClose
<1> DEFINE ents == rt[p].ent
           Rest(n) == UNION {Elems(ents[i].msgs) : i \in (n + 1) .. Len(ents)}
           Out(n) == [i \in 1 .. n |-> Packet(ents[i], ents[i].to, ents[i].msgs)]
<1>3. PICK n \in {Len(ents)} \cup {i - 1 : i \in {j \in DOMAIN ents : ~ents[j].open}} :
        /\ route' = route \o Out(n)
        /\ gone' = gone \cup Rest(n)
        /\ rt' = [rt EXCEPT ![p] =
                    [rt[p] EXCEPT !.pc = IF n = Len(ents) THEN "done" ELSE "died", !.ent = <<>>]]
  BY DEF RouteClose, Set
<1>4. ents \in Seq(Entries)
  BY <1>1 DEF IsRouter
<1> DEFINE r == [rt[p] EXCEPT !.pc = IF n = Len(ents) THEN "done" ELSE "died", !.ent = <<>>]
<1>5. /\ rt' = [rt EXCEPT ![p] = r] /\ r.pc \in {"done", "died"} /\ r.ent = <<>>
      /\ DOMAIN r = DOMAIN rt[p] /\ r.pos = rt[p].pos
  BY <1>1, <1>3 DEF IsRouter
<1> HIDE DEF r, ents
<1>6. IsRouter(r)
  BY <1>1, <1>5 DEF IsRouter
<1>7. n \in Nat /\ n <= Len(ents)
  BY <1>4
<1>8. ASSUME NEW i \in 1 .. n
      PROVE  /\ i \in DOMAIN ents /\ Out(n)[i] \in Parcels /\ Out(n)[i].msgs = ents[i].msgs
  <2>1. i \in DOMAIN ents /\ ents[i] \in Entries
    BY <1>4, <1>7
  <2>2. Out(n)[i] = Packet(ents[i], ents[i].to, ents[i].msgs)
    OBVIOUS
  <2>3. /\ Packet(ents[i], ents[i].to, ents[i].msgs) \in Parcels
        /\ Packet(ents[i], ents[i].to, ents[i].msgs).msgs = ents[i].msgs
    BY <2>1 DEF Packet, Parcels, Entries
  <2> QED  BY <2>1, <2>2, <2>3
<1>9. Out(n) \in Seq(Parcels) /\ DOMAIN Out(n) = 1 .. n
  BY <1>7, <1>8
<1>10. InPkts(ents) \subseteq Rest(n) \cup InPkts(Out(n))
  <2> SUFFICES ASSUME NEW i \in DOMAIN ents
               PROVE  Elems(ents[i].msgs) \subseteq Rest(n) \cup InPkts(Out(n))
    BY DEF InPkts
  <2>1. i \in 1 .. Len(ents)
    BY <1>4
  <2>2. CASE i \in 1 .. n
    BY <1>8, <1>9, <2>2 DEF InPkts
  <2>3. CASE i \in (n + 1) .. Len(ents)
    BY <2>3
  <2> QED  BY <1>7, <2>1, <2>2, <2>3
<1> HIDE DEF Out, Rest
<1>11. route' \in Seq(Parcels) /\ InPkts(route') = InPkts(route) \cup InPkts(Out(n))
  <2>1. /\ route \o Out(n) \in Seq(Parcels)
        /\ InPkts(route \o Out(n)) = InPkts(route) \cup InPkts(Out(n))
    BY <1>1, <1>9, PktsTogether
  <2> QED  BY <1>3, <2>1
<1>12. CallerAt(p)'
  <2>1. rt'[p] = r
    BY <1>1, <1>5
  <2> QED  BY <1>5, <2>1 DEF CallerAt
<1>13. InOutb' = InOutb
  BY <1>2 DEF InOutb, Elems
<1> QED  BY <1>1, <1>2, <1>3, <1>5, <1>6, <1>10, <1>11, <1>12, <1>13, NoPkts, RouterDoes DEF ents

\* The outbound.
LEMMA OutbAdds ==
  ASSUME outb \in [[to : config.nodes, flav : Flavors] -> Seq(Numbers)],
         NEW k \in DOMAIN outb, NEW ms \in Seq(Numbers), outb' = [outb EXCEPT ![k] = @ \o ms]
  PROVE  /\ outb' \in [[to : config.nodes, flav : Flavors] -> Seq(Numbers)]
         /\ InOutb' = InOutb \cup Elems(ms)
<1> DEFINE old == outb[k]
<1>1. old \in Seq(Numbers)
  OBVIOUS
<1> HIDE DEF old
<1>2. old \o ms \in Seq(Numbers) /\ Elems(old \o ms) = Elems(old) \cup Elems(ms)
  BY <1>1, ElemsTogether
<1>3. /\ outb'[k] = old \o ms /\ DOMAIN outb' = DOMAIN outb
      /\ \A j \in DOMAIN outb : j # k => outb'[j] = outb[j]
  BY DEF old
<1>4. outb' \in [[to : config.nodes, flav : Flavors] -> Seq(Numbers)]
  BY <1>2, <1>3
<1>5. InOutb' = UNION {Elems(outb'[j]) : j \in DOMAIN outb'}
  BY DEF InOutb, Elems
<1>6. ASSUME NEW m \in InOutb' PROVE m \in InOutb \cup Elems(ms)
  <2>1. PICK j \in DOMAIN outb' : m \in Elems(outb'[j])
    BY <1>5, <1>6
  <2>2. CASE j = k
    BY <1>2, <1>3, <2>1, <2>2 DEF InOutb, old
  <2>3. CASE j # k
    BY <1>3, <2>1, <2>3 DEF InOutb
  <2> QED  BY <2>2, <2>3
<1>7. ASSUME NEW m \in InOutb PROVE m \in InOutb'
  <2>1. PICK j \in DOMAIN outb : m \in Elems(outb[j])
    BY <1>7 DEF InOutb
  <2>2. CASE j = k
    BY <1>2, <1>3, <1>5, <2>1, <2>2 DEF old
  <2>3. CASE j # k
    BY <1>3, <1>5, <2>1, <2>3
  <2> QED  BY <2>2, <2>3
<1>8. Elems(ms) \subseteq InOutb'
  BY <1>2, <1>3, <1>5
<1> QED  BY <1>4, <1>6, <1>7, <1>8

LEMMA OutbGives ==
  ASSUME outb \in [[to : config.nodes, flav : Flavors] -> Seq(Numbers)],
         NEW k \in DOMAIN outb, outb' = [outb EXCEPT ![k] = <<>>]
  PROVE  /\ outb' \in [[to : config.nodes, flav : Flavors] -> Seq(Numbers)]
         /\ InOutb \subseteq InOutb' \cup Elems(outb[k])
<1>1. /\ DOMAIN outb' = DOMAIN outb
      /\ \A j \in DOMAIN outb : j # k => outb'[j] = outb[j]
  OBVIOUS
<1>2. outb' \in [[to : config.nodes, flav : Flavors] -> Seq(Numbers)]
  <2>1. <<>> \in Seq(Numbers)
    OBVIOUS
  <2> QED  BY <2>1
<1>3. InOutb' = UNION {Elems(outb'[j]) : j \in DOMAIN outb'}
  BY DEF InOutb, Elems
<1>4. ASSUME NEW m \in InOutb, m \notin Elems(outb[k]) PROVE m \in InOutb'
  <2>1. PICK j \in DOMAIN outb : m \in Elems(outb[j])
    BY <1>4 DEF InOutb
  <2> QED  BY <1>1, <1>3, <1>4, <2>1
<1> QED  BY <1>2, <1>4

\* ftnpack leaves the processes where they are.
LEMMA PackDoes ==
  ASSUME IInv, NEW p \in Caller, NEW g, Pack(p, g), UNCHANGED <<files, sent>>
  PROVE  Does(p)
<1>1. /\ Given /\ Typed /\ RouterAt /\ toss \in Seq(Parcels)
      /\ route \in Seq(Parcels) /\ DOMAIN rt = Caller
      /\ outb \in [[to : config.nodes, flav : Flavors] -> Seq(Numbers)]
  BY DEF IInv, Typed
<1>2. UNCHANGED given /\ UNCHANGED <<toss, rt, gone>>
  BY DEF Pack
<1>3. PICK i \in DOMAIN route :
        /\ outb' = [outb EXCEPT ![[to |-> route[i].to, flav |-> route[i].flav]]
                           = @ \o route[i].msgs]
        /\ route' = Without(route, i)
  BY DEF Pack, Packable
<1> DEFINE f == route[i]
           k == [to |-> f.to, flav |-> f.flav]
<1>4. f \in Parcels
  BY <1>1
<1>5. k \in DOMAIN outb /\ f.msgs \in Seq(Numbers)
  BY <1>1, <1>4 DEF Parcels
<1>6. outb' = [outb EXCEPT ![k] = @ \o f.msgs]
  BY <1>3
<1> HIDE DEF k
<1>7. /\ outb' \in [[to : config.nodes, flav : Flavors] -> Seq(Numbers)]
      /\ InOutb' = InOutb \cup Elems(f.msgs)
  BY <1>1, <1>5, <1>6, OutbAdds
<1>8. route' \in Seq(Parcels) /\ InPkts(route) \subseteq InPkts(route') \cup Elems(f.msgs)
  BY <1>1, <1>3, TakesOut, PktsWithout
<1>9. \A q \in Caller : CallerAt(q)' /\ InEnts(q)' = InEnts(q)
  BY <1>1, <1>2, CallerStays DEF RouterAt
<1>10. Typed'
  BY <1>1, <1>2, <1>7, <1>8, GivenStays DEF Typed
<1>11. InSpool \subseteq InSpool'
  <2>1. InPkts(toss)' = InPkts(toss) /\ InPkts(route)' = InPkts(route')
    BY <1>2 DEF InPkts, Elems
  <2> QED  BY <1>2, <1>7, <1>8, <1>9, <2>1, SpoolGrows
<1> QED  BY <1>2, <1>9, <1>10, <1>11 DEF Does, RouterAt

LEMMA RepackDoes ==
  ASSUME IInv, Repack, UNCHANGED <<files, sent>>
  PROVE  Does("repack")
<1> DEFINE p == "repack"
<1>0. p \in Caller
  BY DEF Caller
<1> HIDE DEF p
<1>1. /\ IsRouter(rt[p]) /\ CallerAt(p) /\ Given /\ toss \in Seq(Parcels) /\ Typed
      /\ route \in Seq(Parcels) /\ DOMAIN rt = Caller
      /\ outb \in [[to : config.nodes, flav : Flavors] -> Seq(Numbers)]
  BY <1>0, RouterTyped DEF IInv, Typed
<1>2. UNCHANGED given /\ UNCHANGED <<toss, gone>> /\ rt[p].pc = "next"
  BY DEF Repack, p
<1> DEFINE F(k) == Packet([grade |-> "m", type |-> Netmail, flav |-> "n"], k.to, outb[k])
<1>3. PICK k \in DOMAIN outb :
        /\ outb' = [outb EXCEPT ![k] = <<>>]
        /\ route' = Append(route, F(k))
        /\ rt' = [rt EXCEPT ![p] = [rt[p] EXCEPT !.pc = "open", !.cur = F(k)]]
  BY DEF Repack, Set, p
<1> DEFINE f == F(k)
           r == [rt[p] EXCEPT !.pc = "open", !.cur = f]
<1>4. f \in Parcels /\ f.msgs = outb[k]
  <2>1. k.to \in config.nodes /\ outb[k] \in Seq(Numbers)
    <3>1. k \in [to : config.nodes, flav : Flavors]
      BY <1>1
    <3> QED  BY <1>1, <3>1
  <2>2. "n" \in Flavors /\ "m" \in Grades
    BY DEF Flavors, Grades
  <2> QED  BY <2>1, <2>2 DEF Packet, Parcels
<1> HIDE DEF f, F
<1>5. IsRouter(r) /\ r.ent = rt[p].ent /\ r.pc = "open" /\ r.cur = f
  BY <1>1 DEF IsRouter
<1>6. rt' = [rt EXCEPT ![p] = r] /\ route' = Append(route, f)
  BY <1>3 DEF f
<1> HIDE DEF r
<1>7. route' \in Seq(Parcels) /\ InPkts(route') = InPkts(route) \cup Elems(f.msgs)
  BY <1>1, <1>4, <1>6, OneMore
<1>8. /\ outb' \in [[to : config.nodes, flav : Flavors] -> Seq(Numbers)]
      /\ InOutb \subseteq InOutb' \cup Elems(f.msgs)
  BY <1>1, <1>3, <1>4, OutbGives
<1>9. CallerAt(p)'
  <2>1. rt'[p] = r /\ Parcels' = Parcels
    BY <1>0, <1>1, <1>2, <1>6, GivenStays
  <2> QED  BY <1>4, <1>5, <2>1 DEF CallerAt
<1>10. Does(p)
  BY <1>0, <1>1, <1>2, <1>5, <1>6, <1>7, <1>8, <1>9, RouterDoes
<1> QED  BY <1>10 DEF p

LEMMA RepackEndDoes ==
  ASSUME IInv, RepackEnd, UNCHANGED <<files, sent>>
  PROVE  Does("repack")
<1> DEFINE p == "repack"
<1>0. p \in Caller
  BY DEF Caller
<1> HIDE DEF p
<1>1. /\ IsRouter(rt[p]) /\ CallerAt(p) /\ Given /\ toss \in Seq(Parcels) /\ Typed
      /\ route \in Seq(Parcels) /\ DOMAIN rt = Caller
      /\ outb \in [[to : config.nodes, flav : Flavors] -> Seq(Numbers)]
  BY <1>0, RouterTyped DEF IInv, Typed
<1>2. UNCHANGED given /\ UNCHANGED <<toss, route, outb, gone>>
  BY DEF RepackEnd, spool
<1> DEFINE r == [rt[p] EXCEPT !.pc = "close"]
<1>3. rt' = [rt EXCEPT ![p] = r] /\ IsRouter(r) /\ r.ent = rt[p].ent /\ r.pc = "close"
  BY <1>1 DEF IsRouter, RepackEnd, Set, p
<1> HIDE DEF r
<1>4. CallerAt(p)'
  <2>1. rt'[p] = r
    BY <1>0, <1>1, <1>3
  <2> QED  BY <1>3, <2>1 DEF CallerAt
<1>5. InOutb' = InOutb
  BY <1>2 DEF InOutb, Elems
<1>6. Does(p)
  BY <1>0, <1>1, <1>2, <1>3, <1>4, <1>5, RouterDoes
<1> QED  BY <1>6 DEF p

LEMMA IdleIs == IsRouter(Idle) /\ Idle.ent = <<>> /\ Idle.pc = "idle"
<1>1. <<>> \in Seq(Entries)
  OBVIOUS
<1> QED  BY <1>1 DEF Idle, IsRouter

\* One that writes no packets goes where it will write none yet.
LEMMA SetDoes ==
  ASSUME IInv, UNCHANGED <<given, route, outb, gone, files, sent>>, NEW p \in Caller, NEW r,
         Set(p, r), IsRouter(r), r.ent = <<>>, rt[p].ent = <<>>, r.pc \notin {"open", "copy"},
         toss' \in Seq(Parcels), InPkts(toss) \subseteq InPkts(toss')
  PROVE  Does(p) /\ rt'[p] = r
<1>1. /\ DOMAIN rt = Caller /\ route \in Seq(Parcels)
      /\ outb \in [[to : config.nodes, flav : Flavors] -> Seq(Numbers)]
  BY DEF IInv, Typed
<1>2. rt' = [rt EXCEPT ![p] = r] /\ rt'[p] = r
  BY <1>1 DEF Set
<1>3. CallerAt(p)'
  BY <1>2 DEF CallerAt
<1>4. InOutb' = InOutb
  BY DEF InOutb, Elems
<1>5. Does(p)
  BY <1>1, <1>2, <1>3, <1>4, RouterDoes
<1> QED  BY <1>2, <1>5

\* A process that is killed, or ends.
LEMMA KillDoes ==
  ASSUME IInv, UNCHANGED <<given, toss, route, outb, files, sent>>, NEW p \in Caller,
         RouteKill(p)
  PROVE  Does(p) /\ rt'[p] = Idle
<1>1. /\ DOMAIN rt = Caller /\ route \in Seq(Parcels) /\ toss \in Seq(Parcels)
      /\ outb \in [[to : config.nodes, flav : Flavors] -> Seq(Numbers)]
  BY DEF IInv, Typed
<1>2. rt' = [rt EXCEPT ![p] = Idle] /\ rt'[p] = Idle
  BY <1>1 DEF RouteKill, Set
<1>3. CallerAt(p)'
  BY <1>2, IdleIs DEF CallerAt
<1>4. InOutb' = InOutb
  BY DEF InOutb, Elems
<1> DEFINE still == UNION {Elems(Source(p)[i].msgs) : i \in Here(p)}
<1>5. gone' = gone \cup (InPkts(rt[p].ent) \ still)
  BY DEF RouteKill, InPkts
<1>6. still \subseteq InPkts(toss) \cup InPkts(route)
  BY DEF Here, Source, InPkts
<1> HIDE DEF still
<1>7. Does(p)
  BY <1>1, <1>2, <1>3, <1>4, <1>5, <1>6, IdleIs, RouterDoes
<1> QED  BY <1>2, <1>7

-----------------------------------------------------------------------------
\* The invariant, step by step.

LEMMA BroughtStays ==
  ASSUME Given, UNCHANGED <<given, files>>
  PROVE  Brought' = Brought
<1>1. config' = config /\ \A f : File(f)' = File(f)
  BY GivenStays
<1> QED  BY <1>1 DEF Brought, Held, Elems

LEMMA ArrivedStays ==
  ASSUME UNCHANGED <<inb, tmpu, bad, killed>>
  PROVE  Arrived' = Arrived
BY DEF Arrived, InInb, InBad, Held, Packets, Archives, Elems

LEMMA InboundStays ==
  ASSUME Given, Inbound, UNCHANGED <<given, inb, tmpu>>
  PROVE  Inbound'
<1>1. Numbers' = Numbers /\ Inner' = Inner /\ \A n, x : IsArc(n, x)' = IsArc(n, x)
  BY GivenStays
<1> QED  BY <1>1 DEF Inbound

\* A step of the spool.
LEMMA SpoolStep ==
  ASSUME IInv, NEW p \in Caller, Does(p), UNCHANGED <<given, files, inb, tmpu, bad, killed>>,
         RunincAt'
  PROVE  IInv'
<1>1. Given /\ Inbound /\ Kept
  BY DEF IInv
<1>2. Brought' = Brought /\ Arrived' = Arrived /\ Inbound' /\ Given'
  BY <1>1, BroughtStays, ArrivedStays, InboundStays, GivenStays
<1>3. Kept'
  BY <1>1, <1>2 DEF Kept, Does
<1> QED  BY <1>2, <1>3 DEF IInv, Does

\* The rest of runinc stays where it was.
LEMMA RunincStays ==
  ASSUME RunincAt, UNCHANGED <<inb, tmpu, pc, todo, item, unpflag>>,
         \/ pc = "route"
         \/ rt'["runinc"].pc = rt["runinc"].pc
  PROVE  RunincAt'
BY DEF RunincAt, Archives

LEMMA RouteStepIInv ==
  ASSUME IInv, NEW p \in Caller, RouteStep(p)
  PROVE  IInv'
<1>1. UNCHANGED <<files, inb, tmpu, bad, killed, sent, pc, todo, item, unpflag>>
  BY DEF RouteStep, ivars, own
<1>2. UNCHANGED given
  BY DEF RouteStep, RouteNext, RouteOpen, Copy, CopyDirect, CopyEnd, RouteClose, Pack
<1>3. Does(p)
  BY <1>1, RouteNextDoes, RouteOpenDoes, CopyDoes, CopyDirectDoes, CopyEndDoes,
     RouteCloseDoes, PackDoes DEF RouteStep
<1>4. RunincAt /\ (p = "repack" => rt'["runinc"] = rt["runinc"])
  BY <1>3 DEF IInv, Does, Caller
<1>5. CASE p = "repack"
  BY <1>1, <1>2, <1>3, <1>4, <1>5, RunincStays, SpoolStep
<1>6. CASE p = "runinc"
  <2>1. CASE Pack(p, config.grade)
    BY <1>1, <1>2, <1>3, <1>4, <2>1, RunincStays, SpoolStep DEF Pack
  <2>2. CASE ~Pack(p, config.grade)
    <3>1. rt["runinc"].pc \in {"next", "open", "copy", "close"}
      BY <1>6, <2>2 DEF RouteStep, RouteNext, RouteOpen, Copy, CopyDirect, CopyEnd, RouteClose
    <3>2. pc = "route"
      BY <1>4, <3>1 DEF RunincAt
    <3> QED  BY <1>1, <1>2, <1>3, <1>4, <3>2, RunincStays, SpoolStep
  <2> QED  BY <2>1, <2>2
<1> QED  BY <1>5, <1>6 DEF Caller

LEMMA RepackStepIInv ==
  ASSUME IInv, RepackStep
  PROVE  IInv'
<1>1. UNCHANGED <<files, inb, tmpu, bad, killed, sent, pc, todo, item, unpflag>>
  BY DEF RepackStep, ivars, own
<1>2. UNCHANGED given
  BY DEF RepackStep, Repack, RepackEnd
<1>3. Does("repack")
  BY <1>1, RepackDoes, RepackEndDoes DEF RepackStep
<1>4. RunincAt /\ rt'["runinc"] = rt["runinc"] /\ "repack" \in Caller
  BY <1>3 DEF IInv, Does, Caller
<1> QED  BY <1>1, <1>2, <1>3, <1>4, RunincStays, SpoolStep

LEMMA RepackStartIInv ==
  ASSUME IInv, RepackStart
  PROVE  IInv'
<1> DEFINE p == "repack"
           r == [Idle EXCEPT !.pc = "next", !.left = 0]
<1>1. /\ UNCHANGED <<files, inb, tmpu, bad, killed, sent, pc, todo, item, unpflag>>
      /\ UNCHANGED <<given, toss, route, outb, gone>>
  BY DEF RepackStart, ivars, own, spool
<1>2. p \in Caller /\ p # "runinc"
  BY DEF Caller
<1>3. rt[p].pc = "idle" /\ Set(p, r)
  BY DEF RepackStart, RouteStart
<1> HIDE DEF p
<1>4. IsRouter(r) /\ r.ent = <<>> /\ r.pc = "next"
  BY IdleIs DEF IsRouter
<1>5. rt[p].ent = <<>> /\ toss \in Seq(Parcels) /\ RunincAt
  BY <1>2, <1>3, RouterTyped DEF CallerAt, IInv, Typed
<1> HIDE DEF r
<1>6. Does(p)
  BY <1>1, <1>2, <1>3, <1>4, <1>5, SetDoes
<1>7. rt'["runinc"] = rt["runinc"]
  BY <1>2, <1>6 DEF Does, Caller
<1> QED  BY <1>1, <1>2, <1>5, <1>6, <1>7, RunincStays, SpoolStep

LEMMA RepackPackIInv ==
  ASSUME IInv, RepackPack
  PROVE  IInv'
<1> DEFINE p == "repack"
           r == [rt[p] EXCEPT !.pc = "pack"]
<1>1. /\ UNCHANGED <<files, inb, tmpu, bad, killed, sent, pc, todo, item, unpflag>>
      /\ UNCHANGED <<given, toss, route, outb, gone>>
  BY DEF RepackPack, ivars, own, spool
<1>2. p \in Caller /\ p # "runinc"
  BY DEF Caller
<1>3. rt[p].pc = "done" /\ Set(p, r)
  BY DEF RepackPack
<1> HIDE DEF p
<1>4. IsRouter(rt[p]) /\ rt[p].ent = <<>> /\ toss \in Seq(Parcels) /\ RunincAt
  BY <1>2, <1>3, RouterTyped DEF CallerAt, IInv, Typed
<1>5. IsRouter(r) /\ r.ent = <<>> /\ r.pc = "pack"
  BY <1>4 DEF IsRouter
<1> HIDE DEF r
<1>6. Does(p)
  BY <1>1, <1>2, <1>3, <1>4, <1>5, SetDoes
<1>7. rt'["runinc"] = rt["runinc"]
  BY <1>2, <1>6 DEF Does, Caller
<1> QED  BY <1>1, <1>2, <1>4, <1>6, <1>7, RunincStays, SpoolStep

LEMMA RepackStopsIInv ==
  ASSUME IInv, RepackDone \/ RepackKill
  PROVE  IInv'
<1>1. /\ UNCHANGED <<files, inb, tmpu, bad, killed, sent, pc, todo, item, unpflag>>
      /\ UNCHANGED <<given, toss, route, outb>>
  BY DEF RepackDone, RepackKill, ivars, own
<1>2. "repack" \in Caller /\ RunincAt
  BY DEF Caller, IInv
<1>3. Does("repack")
  BY <1>1, <1>2, KillDoes DEF RepackDone, RepackKill
<1>4. rt'["runinc"] = rt["runinc"]
  BY <1>3 DEF Does, Caller
<1> QED  BY <1>1, <1>2, <1>3, <1>4, RunincStays, SpoolStep

LEMMA KillIInv ==
  ASSUME IInv, Kill
  PROVE  IInv'
<1>1. /\ UNCHANGED <<files, inb, tmpu, bad, killed, sent, todo, item, unpflag>>
      /\ UNCHANGED <<given, toss, route, outb>> /\ pc' = "idle"
  BY DEF Kill, ivars
<1>2. "runinc" \in Caller /\ RunincAt
  BY DEF Caller, IInv
<1>3. Does("runinc") /\ rt'["runinc"] = Idle
  BY <1>1, <1>2, KillDoes DEF Kill
<1>4. RunincAt'
  BY <1>1, <1>2, <1>3, IdleIs DEF RunincAt, Archives
<1> QED  BY <1>1, <1>2, <1>3, <1>4, SpoolStep

LEMMA RoutedIInv ==
  ASSUME IInv, Routed
  PROVE  IInv'
<1> DEFINE p == "runinc"
           err == rt[p].err /\ rt[p].pc = "done"
           r == IF err THEN Idle ELSE [Idle EXCEPT !.pc = "pack"]
<1>1. /\ UNCHANGED <<files, inb, tmpu, bad, killed, sent, todo, item, unpflag>>
      /\ UNCHANGED <<given, toss, route, outb, gone>>
      /\ pc' = IF err THEN "idle" ELSE "pack"
  BY DEF Routed, ivars, own, spool
<1>2. p \in Caller
  BY DEF Caller
<1>3. rt[p].pc \in {"done", "died"} /\ Set(p, r)
  BY DEF Routed
<1>4. rt[p].ent = <<>> /\ toss \in Seq(Parcels) /\ RunincAt
  BY <1>2, <1>3, RouterTyped DEF CallerAt, IInv, Typed
<1> HIDE DEF err
<1>5. IsRouter(r) /\ r.ent = <<>> /\ r.pc = pc'
  BY <1>1, IdleIs DEF IsRouter
<1> HIDE DEF r
<1>6. Does(p) /\ rt'[p] = r
  BY <1>1, <1>2, <1>3, <1>4, <1>5, SetDoes
<1>7. RunincAt'
  BY <1>1, <1>4, <1>5, <1>6 DEF RunincAt, Archives
<1> QED  BY <1>1, <1>2, <1>6, <1>7, SpoolStep

LEMMA PackedIInv ==
  ASSUME IInv, Packed
  PROVE  IInv'
<1> DEFINE p == "runinc"
<1>1. /\ UNCHANGED <<files, inb, tmpu, bad, killed, sent, todo, item, unpflag>>
      /\ UNCHANGED <<given, toss, route, outb, gone>>
      /\ pc = "pack" /\ pc' \in {"idle", "toss"}
  BY DEF Packed, ivars, spool
<1>2. p \in Caller
  BY DEF Caller
<1>3. RunincAt /\ rt[p].pc = "pack" /\ Set(p, Idle)
  BY <1>1 DEF Packed, IInv, RunincAt
<1>4. rt[p].ent = <<>> /\ toss \in Seq(Parcels)
  BY <1>2, <1>3, RouterTyped DEF CallerAt, IInv, Typed
<1>5. Does(p) /\ rt'[p] = Idle
  BY <1>1, <1>2, <1>3, <1>4, IdleIs, SetDoes
<1>6. RunincAt'
  BY <1>1, <1>3, <1>5, IdleIs DEF RunincAt, Archives
<1> QED  BY <1>1, <1>2, <1>5, <1>6, SpoolStep

\* What is in a file of the inbound.
Inside(x) == IF x.kind = "pkt" THEN Elems(x.msgs) ELSE Held(x.msgs)

LEMMA InInbIs == InInb = UNION {Inside(inb[n]) : n \in DOMAIN inb}
<1>1. ASSUME NEW m \in InInb PROVE \E n \in DOMAIN inb : m \in Inside(inb[n])
  <2>1. CASE m \in Held(Packets)
    BY <2>1 DEF Held, Packets, Inside
  <2>2. CASE \E n \in Archives : m \in Held(inb[n].msgs)
    BY <2>2 DEF Archives, Inside
  <2> QED  BY <1>1, <2>1, <2>2 DEF InInb
<1>2. ASSUME NEW n \in DOMAIN inb PROVE Inside(inb[n]) \subseteq InInb
  <2>1. CASE inb[n].kind = "pkt"
    <3>1. n \in DOMAIN Packets /\ Packets[n] = inb[n].msgs
      BY <2>1 DEF Packets
    <3> QED  BY <2>1, <3>1 DEF InInb, Held, Inside
  <2>2. CASE inb[n].kind # "pkt"
    BY <2>2 DEF InInb, Archives, Inside
  <2> QED  BY <2>1, <2>2
<1> QED  BY <1>1, <1>2

LEMMA InInbThen == InInb' = UNION {Inside(inb'[n]) : n \in DOMAIN inb'}
<1>1. InInb' = UNION {Inside(inb'[n]) : n \in DOMAIN inb'}
  <2>1. (InInb = UNION {Inside(inb[n]) : n \in DOMAIN inb})'
    BY InInbIs, PTL
  <2> QED  BY <2>1 DEF Inside, Held, Elems
<1> QED  BY <1>1

LEMMA HeldThen == Held(tmpu)' = Held(tmpu')
BY DEF Held, Elems

\* A step of the inbound, which loses nothing of what it moves.
LEMMA InboundMoves ==
  ASSUME IInv, UNCHANGED <<given, toss, route, outb, rt, sent>>, files' \subseteq files,
         gone \subseteq gone', killed \subseteq killed', Inbound', RunincAt', NEW X,
         Brought' \subseteq Brought \cup X,
         X \cup Held(tmpu) \cup InInb \cup InBad
           \subseteq gone' \cup Held(tmpu') \cup InInb' \cup InBad'
  PROVE  IInv'
<1>1. Given /\ Typed /\ RouterAt /\ Kept
  BY DEF IInv
<1>2. Given' /\ Typed'
  BY <1>1, GivenStays DEF Typed
<1>3. \A q \in Caller : CallerAt(q)' /\ InEnts(q)' = InEnts(q)
  BY <1>1, CallerStays DEF RouterAt
<1>4. InSpool \subseteq InSpool' /\ gone' \subseteq InSpool'
  <2>1. InPkts(toss)' = InPkts(toss) /\ InPkts(route)' = InPkts(route) /\ InOutb' = InOutb
        /\ Went' = Went
    BY DEF InPkts, InOutb, Elems, Went
  <2> QED  BY <1>3, <2>1 DEF InSpool, Caller
<1>5. Arrived' = Held(tmpu') \cup InInb' \cup InBad' \cup killed'
  BY HeldThen DEF Arrived
<1>6. Kept'
  BY <1>1, <1>4, <1>5 DEF Kept, Arrived
<1> QED  BY <1>2, <1>3, <1>6 DEF IInv, RouterAt

\* One that leaves the directory bad alone.
LEMMA InboundStep ==
  ASSUME IInv, UNCHANGED <<given, toss, route, outb, rt, sent, bad>>, files' \subseteq files,
         gone \subseteq gone', killed \subseteq killed', Inbound', RunincAt', NEW X,
         Brought' \subseteq Brought \cup X,
         X \cup Held(tmpu) \cup InInb \subseteq gone' \cup Held(tmpu') \cup InInb'
  PROVE  IInv'
<1>1. InBad' = InBad
  BY DEF InBad, Held, Elems
<1> QED  BY <1>1, InboundMoves

LEMMA StartIInv ==
  ASSUME IInv, Start
  PROVE  IInv'
<1>1. /\ UNCHANGED <<given, toss, route, outb, rt, sent, files, gone, killed>>
      /\ UNCHANGED <<inb, tmpu, bad, item>> /\ pc = "idle"
      /\ pc' = "unpack" /\ todo' = DOMAIN inb /\ unpflag' = FALSE
  BY DEF Start, rvars, spool, ivars
<1>2. Given /\ Inbound /\ RunincAt
  BY DEF IInv
<1>3. Inbound' /\ Brought' = Brought
  BY <1>1, <1>2, InboundStays, BroughtStays
<1>4. RunincAt'
  BY <1>1, <1>2 DEF RunincAt, Archives
<1>5. InInb' = InInb
  BY <1>1 DEF InInb, Held, Packets, Archives, Elems
<1> QED  BY <1>1, <1>3, <1>4, <1>5, InboundStep

LEMMA ArriveIInv ==
  ASSUME IInv, NEW f, Arrive(f)
  PROVE  IInv'
<1> DEFINE x == File(f)
           n == x.name
<1>1. /\ UNCHANGED <<given, toss, route, outb, rt, sent, gone, killed>>
      /\ UNCHANGED <<tmpu, bad, pc, todo, item, unpflag>>
      /\ f \in files /\ files' = files \ {f} /\ n \notin DOMAIN inb
      /\ inb' = Over([y \in {n} |-> x], inb)
  BY DEF Arrive, rvars, spool, own
<1>2. Given /\ Inbound /\ RunincAt /\ f \in DOMAIN config.files
  BY <1>1 DEF IInv, Typed
<1>3. \/ x.kind = "pkt" /\ x.msgs \in Seq(Numbers)
      \/ IsArc(n, x)
  BY <1>2, SoundNow
<1> HIDE DEF x, n
<1>4. /\ DOMAIN inb' = DOMAIN inb \cup {n} /\ inb'[n] = x
      /\ \A y \in DOMAIN inb : y # n /\ inb'[y] = inb[y]
  BY <1>1 DEF Over
<1>5. Inbound'
  <2>1. Numbers' = Numbers /\ Inner' = Inner /\ ArcNames' = ArcNames
    BY <1>1, <1>2, GivenStays
  <2>2. \A y \in DOMAIN inb' : \/ inb'[y].kind = "pkt" /\ inb'[y].msgs \in Seq(Numbers)
                               \/ IsArc(y, inb'[y])
    BY <1>2, <1>3, <1>4 DEF Inbound
  <2>3. IsFiniteSet(DOMAIN inb')
    BY <1>2, <1>4, FS_AddElement DEF Inbound
  <2> QED  BY <1>1, <1>2, <2>1, <2>2, <2>3 DEF Inbound, IsArc
<1>6. RunincAt'
  <2>1. \A y \in Archives : y \in Archives' /\ inb'[y] = inb[y]
    BY <1>4 DEF Archives
  <2> QED  BY <1>1, <1>2, <1>4, <2>1 DEF RunincAt
<1>7. Brought' \subseteq Brought \cup Inside(x)
  <2>1. config' = config /\ \A g : File(g)' = File(g)
    BY <1>1, <1>2, GivenStays
  <2>2. Brought = UNION {Inside(File(g)) : g \in DOMAIN config.files \ files}
    BY DEF Brought, Inside
  <2>3. Brought' = UNION {Inside(File(g)) : g \in DOMAIN config.files \ files'}
    BY <2>1 DEF Brought, Inside, Held, Elems
  <2> QED  BY <1>1, <2>2, <2>3 DEF x
<1>8. InInb' = InInb \cup Inside(x)
  BY <1>4, InInbIs, InInbThen
<1> QED  BY <1>1, <1>5, <1>6, <1>7, <1>8, InboundStep

LEMMA SendIInv ==
  ASSUME IInv, NEW k \in DOMAIN outb, Send(k)
  PROVE  IInv'
<1> DEFINE At(m) == {i \in DOMAIN outb[k] : outb[k][i] = m}
<1>1. /\ UNCHANGED <<given, toss, route, rt, files, gone, killed>>
      /\ UNCHANGED <<inb, tmpu, bad, pc, todo, item, unpflag>>
      /\ outb' = [outb EXCEPT ![k] = <<>>]
      /\ sent' = [m \in Msg |-> sent[m] + Cardinality(At(m))]
  BY DEF Send, ivars, own
<1>2. Given /\ Typed /\ RouterAt /\ RunincAt /\ Inbound /\ Kept
  BY DEF IInv
<1>3. /\ outb' \in [[to : config.nodes, flav : Flavors] -> Seq(Numbers)]
      /\ InOutb \subseteq InOutb' \cup Elems(outb[k])
  BY <1>1, <1>2, OutbGives DEF Typed
<1>4. outb[k] \in Seq(Msg)
  <2>1. outb[k] \in Seq(Numbers) /\ Numbers \subseteq Msg
    BY <1>2, SoundNow DEF Typed
  <2> QED  BY <2>1
<1>5. ASSUME NEW m \in Msg
      PROVE  Cardinality(At(m)) \in Nat /\ (m \in Elems(outb[k]) => Cardinality(At(m)) > 0)
  <2>1. IsFiniteSet(At(m))
    <3>1. DOMAIN outb[k] = 1 .. Len(outb[k]) /\ Len(outb[k]) \in Nat
      BY <1>4
    <3>2. At(m) \subseteq 1 .. Len(outb[k])
      BY <3>1
    <3>3. IsFiniteSet(1 .. Len(outb[k]))
      BY <3>1, FS_Interval
    <3> QED  BY <3>2, <3>3, FS_Subset
  <2>2. m \in Elems(outb[k]) => At(m) # {}
    BY DEF Elems
  <2> HIDE DEF At
  <2>3. Cardinality(At(m)) \in Nat /\ (Cardinality(At(m)) = 0 <=> At(m) = {})
    BY <2>1, FS_CardinalityType, FS_EmptySet
  <2> QED  BY <2>2, <2>3
<1> HIDE DEF At
<1>6. sent' \in [Msg -> Nat] /\ Went \cup Elems(outb[k]) \subseteq Went'
  <2>1. \A m \in Msg : sent[m] \in Nat /\ sent'[m] = sent[m] + Cardinality(At(m))
    BY <1>1, <1>2 DEF Typed
  <2>2. \A m \in Msg : sent'[m] \in Nat /\ sent'[m] >= sent[m]
                       /\ (m \in Elems(outb[k]) => sent'[m] > 0)
    BY <1>5, <2>1
  <2>3. Elems(outb[k]) \subseteq Msg
    BY <1>4 DEF Elems
  <2> QED  BY <1>1, <2>1, <2>2, <2>3 DEF Went
<1>7. Given' /\ Typed'
  BY <1>1, <1>2, <1>3, <1>6, GivenStays DEF Typed
<1>8. \A q \in Caller : CallerAt(q)' /\ InEnts(q)' = InEnts(q)
  BY <1>1, <1>2, CallerStays DEF RouterAt
<1>9. InSpool \subseteq InSpool'
  <2>1. InPkts(toss)' = InPkts(toss) /\ InPkts(route)' = InPkts(route)
    BY <1>1 DEF InPkts, Elems
  <2> QED  BY <1>1, <1>3, <1>6, <1>8, <2>1 DEF InSpool, Caller
<1>10. Brought' = Brought /\ Arrived' = Arrived /\ Inbound'
  BY <1>1, <1>2, BroughtStays, ArrivedStays, InboundStays
<1>11. Kept' /\ RunincAt'
  BY <1>1, <1>2, <1>9, <1>10, RunincStays DEF Kept
<1> QED  BY <1>7, <1>8, <1>10, <1>11 DEF IInv, RouterAt

\* What one of two lists of files hides of the other.
LEMMA OverIs ==
  ASSUME NEW g, NEW h
  PROVE  /\ DOMAIN Over(g, h) = DOMAIN g \cup DOMAIN h
         /\ \A y \in DOMAIN g : Over(g, h)[y] = g[y]
         /\ \A y \in DOMAIN h : y \notin DOMAIN g => Over(g, h)[y] = h[y]
BY DEF Over

LEMMA LessIs ==
  ASSUME NEW S
  PROVE  /\ DOMAIN Less(inb, S) = DOMAIN inb \ S
         /\ \A y \in DOMAIN inb \ S : Less(inb, S)[y] = inb[y]
BY DEF Less

\* Some of the files of the inbound are taken out of it.
LEMMA InbWithout ==
  ASSUME Inbound, Given, UNCHANGED <<given, tmpu>>, NEW S, inb' = Less(inb, S)
  PROVE  Inbound' /\ InInb = InInb' \cup UNION {Inside(inb[n]) : n \in DOMAIN inb \cap S}
<1>1. /\ DOMAIN inb' = DOMAIN inb \ S
      /\ \A y \in DOMAIN inb \ S : inb'[y] = inb[y]
  BY LessIs
<1>2. Numbers' = Numbers /\ Inner' = Inner /\ ArcNames' = ArcNames
  BY GivenStays
<1>3. Inbound'
  <2>1. IsFiniteSet(DOMAIN inb')
    BY <1>1, FS_Subset DEF Inbound
  <2> QED  BY <1>1, <1>2, <2>1 DEF Inbound, IsArc
<1>4. InInb = InInb' \cup UNION {Inside(inb[n]) : n \in DOMAIN inb \cap S}
  BY <1>1, InInbIs, InInbThen
<1> QED  BY <1>3, <1>4

LEMMA UnpackedIInv ==
  ASSUME IInv, Unpacked
  PROVE  IInv'
<1>1. /\ UNCHANGED <<given, toss, route, outb, rt, sent, files, gone, killed>>
      /\ UNCHANGED <<tmpu, bad, todo>>
      /\ pc = "unarc" /\ inb[item[1]].ok /\ pc' = "unpack" /\ item' = <<>>
      /\ inb' = Less(inb, Elems(item))
  BY DEF Unpacked, rvars, spool
<1>2. Given /\ Inbound /\ RunincAt
  BY DEF IInv
<1>3. PICK n \in Archives :
        /\ item = <<n>>
        /\ \A x \in DOMAIN inb[n].msgs : x \in DOMAIN tmpu /\ tmpu[x] = inb[n].msgs[x]
  BY <1>1, <1>2 DEF RunincAt
<1>4. Elems(item) = {n} /\ n \notin todo /\ n \in DOMAIN inb /\ inb[n].kind # "pkt"
  <2>1. DOMAIN item = {1} /\ item[1] = n
    BY <1>3
  <2> QED  BY <1>1, <1>2, <1>3, <2>1 DEF Elems, RunincAt, Archives
<1>5. /\ Inbound'
      /\ InInb = InInb' \cup UNION {Inside(inb[y]) : y \in DOMAIN inb \cap {n}}
  BY <1>1, <1>2, <1>4, InbWithout
<1>6. Inside(inb[n]) \subseteq Held(tmpu')
  BY <1>1, <1>3, <1>4 DEF Inside, Held
<1>7. DOMAIN inb' = DOMAIN inb \ {n}
  BY <1>1, <1>4, LessIs
<1>8. RunincAt'
  BY <1>1, <1>2, <1>4, <1>7 DEF RunincAt
<1>9. Brought' = Brought
  BY <1>1, <1>2, BroughtStays
<1>10. InInb \subseteq InInb' \cup Held(tmpu')
  BY <1>5, <1>6
<1> QED  BY <1>1, <1>5, <1>8, <1>9, <1>10, InboundStep

LEMMA UnfitIInv ==
  ASSUME IInv, Unfit
  PROVE  IInv'
<1>1. /\ UNCHANGED <<given, toss, route, outb, rt, sent, files, killed>>
      /\ UNCHANGED <<tmpu, todo, unpflag>>
      /\ pc = "unarc" /\ pc' = "unpack" /\ item' = <<>>
      /\ inb' = Less(inb, Elems(item))
      /\ bad' = Over([n \in Elems(item) |-> inb[n].msgs], bad)
      /\ gone' = gone \cup UNION {Held(bad[n]) : n \in DOMAIN bad \cap Elems(item)}
  BY DEF Unfit, spool
<1>2. Given /\ Inbound /\ RunincAt
  BY DEF IInv
<1>3. PICK n \in Archives : item = <<n>>
  BY <1>1, <1>2 DEF RunincAt
<1>4. Elems(item) = {n} /\ n \notin todo /\ n \in DOMAIN inb /\ inb[n].kind # "pkt"
  <2>1. DOMAIN item = {1} /\ item[1] = n
    BY <1>3
  <2> QED  BY <1>1, <1>2, <1>3, <2>1 DEF Elems, RunincAt, Archives
<1>5. /\ Inbound'
      /\ InInb = InInb' \cup UNION {Inside(inb[y]) : y \in DOMAIN inb \cap {n}}
  BY <1>1, <1>2, <1>4, InbWithout
<1> DEFINE g == [y \in {n} |-> inb[y].msgs]
<1>6. /\ bad' = Over(g, bad) /\ DOMAIN g = {n} /\ Held(g[n]) = Inside(inb[n])
      /\ gone' = gone \cup UNION {Held(bad[y]) : y \in DOMAIN bad \cap {n}}
  BY <1>1, <1>4 DEF Inside
<1> HIDE DEF g
<1>7. InBad' = UNION {Held(bad'[y]) : y \in DOMAIN bad'}
  BY DEF InBad, Held, Elems
<1>8. /\ DOMAIN bad' = {n} \cup DOMAIN bad /\ bad'[n] = g[n]
      /\ \A y \in DOMAIN bad : y # n => bad'[y] = bad[y]
  <2>1. /\ DOMAIN Over(g, bad) = DOMAIN g \cup DOMAIN bad
        /\ \A y \in DOMAIN g : Over(g, bad)[y] = g[y]
        /\ \A y \in DOMAIN bad : y \notin DOMAIN g => Over(g, bad)[y] = bad[y]
    BY OverIs
  <2> QED  BY <1>6, <2>1
<1>9. Inside(inb[n]) \subseteq InBad'
  BY <1>6, <1>7, <1>8
<1>10. InBad \subseteq gone' \cup InBad'
  <2> SUFFICES ASSUME NEW y \in DOMAIN bad
               PROVE  Held(bad[y]) \subseteq gone' \cup InBad'
    BY DEF InBad
  <2>1. CASE y = n
    BY <1>6, <2>1
  <2>2. CASE y # n
    BY <1>7, <1>8, <2>2
  <2> QED  BY <2>1, <2>2
<1>11. DOMAIN inb' = DOMAIN inb \ {n}
  BY <1>1, <1>4, LessIs
<1>12. RunincAt'
  BY <1>1, <1>2, <1>4, <1>11 DEF RunincAt
<1>13. Brought' = Brought /\ Held(tmpu') = Held(tmpu)
  BY <1>1, <1>2, BroughtStays
<1>14. InInb \subseteq InInb' \cup InBad'
  BY <1>5, <1>9
<1> QED  BY <1>1, <1>5, <1>6, <1>10, <1>12, <1>13, <1>14, InboundMoves

\* What unpacking an archive leaves in tmpunpack.
LEMMA LookIs ==
  ASSUME Look
  PROVE  \E n \in todo :
           /\ todo' = todo \ {n}
           /\ \/ inb[n].kind = "pkt" /\ UNCHANGED <<tmpu, item, pc, gone>>
              \/ /\ inb[n].kind # "pkt" /\ item' = <<n>> /\ pc' = "unarc"
                 /\ \E g : /\ DOMAIN g \subseteq DOMAIN inb[n].msgs
                           /\ \A y \in DOMAIN g : g[y] = inb[n].msgs[y]
                           /\ inb[n].ok => DOMAIN g = DOMAIN inb[n].msgs
                           /\ tmpu' = Over(g, tmpu)
                           /\ gone' = gone \cup UNION {Elems(tmpu[x]) : x \in
                                        {y \in DOMAIN tmpu \cap DOMAIN g : tmpu[y] # g[y]}}
<1>1. PICK n \in todo :
        /\ todo' = todo \ {n}
        /\ \/ inb[n].kind = "pkt" /\ UNCHANGED <<tmpu, item, pc, gone>>
           \/ /\ inb[n].kind # "pkt" /\ item' = <<n>> /\ pc' = "unarc"
              /\ \E g \in IF inb[n].ok THEN {inb[n].msgs}
                          ELSE {Less(inb[n].msgs, x) : x \in SUBSET DOMAIN inb[n].msgs} :
                   /\ tmpu' = Over(g, tmpu)
                   /\ gone' = gone \cup UNION {Elems(tmpu[x]) : x \in
                                {y \in DOMAIN tmpu \cap DOMAIN g : tmpu[y] # g[y]}}
  BY DEF Look
<1>2. CASE inb[n].kind = "pkt" /\ UNCHANGED <<tmpu, item, pc, gone>>
  BY <1>1, <1>2
<1>3. CASE inb[n].kind # "pkt" /\ item' = <<n>> /\ pc' = "unarc"
  <2>1. CASE ~(inb[n].kind = "pkt" /\ UNCHANGED <<tmpu, item, pc, gone>>)
    <3>1. PICK g \in IF inb[n].ok THEN {inb[n].msgs}
                     ELSE {Less(inb[n].msgs, x) : x \in SUBSET DOMAIN inb[n].msgs} :
            /\ tmpu' = Over(g, tmpu)
            /\ gone' = gone \cup UNION {Elems(tmpu[x]) : x \in
                         {y \in DOMAIN tmpu \cap DOMAIN g : tmpu[y] # g[y]}}
      BY <1>1, <2>1
    <3>2. /\ DOMAIN g \subseteq DOMAIN inb[n].msgs
          /\ \A y \in DOMAIN g : g[y] = inb[n].msgs[y]
          /\ inb[n].ok => DOMAIN g = DOMAIN inb[n].msgs
      BY DEF Less
    <3> QED  BY <1>1, <1>3, <3>1, <3>2
  <2> QED  BY <1>2, <2>1
<1> QED  BY <1>1, <1>2, <1>3

LEMMA LookIInv ==
  ASSUME IInv, Look
  PROVE  IInv'
<1>1. /\ UNCHANGED <<given, toss, route, outb, rt, sent, files, killed, inb, bad>>
      /\ UNCHANGED unpflag /\ pc = "unpack"
  BY DEF Look, spool
<1>2. Given /\ Inbound /\ RunincAt
  BY DEF IInv
<1>3. PICK n \in todo :
        /\ todo' = todo \ {n}
        /\ \/ inb[n].kind = "pkt" /\ UNCHANGED <<tmpu, item, pc, gone>>
           \/ /\ inb[n].kind # "pkt" /\ item' = <<n>> /\ pc' = "unarc"
              /\ \E g : /\ DOMAIN g \subseteq DOMAIN inb[n].msgs
                        /\ \A y \in DOMAIN g : g[y] = inb[n].msgs[y]
                        /\ inb[n].ok => DOMAIN g = DOMAIN inb[n].msgs
                        /\ tmpu' = Over(g, tmpu)
                        /\ gone' = gone \cup UNION {Elems(tmpu[x]) : x \in
                                     {y \in DOMAIN tmpu \cap DOMAIN g : tmpu[y] # g[y]}}
  BY LookIs
<1>4. n \in DOMAIN inb /\ Brought' = Brought
  BY <1>1, <1>2, <1>3, BroughtStays DEF RunincAt
<1>5. InInb' = InInb
  BY <1>1 DEF InInb, Held, Packets, Archives, Elems
<1>6. CASE inb[n].kind = "pkt" /\ UNCHANGED <<tmpu, item, pc, gone>>
  <2>1. RunincAt'
    BY <1>1, <1>2, <1>3, <1>6 DEF RunincAt, Archives
  <2>2. Inbound'
    BY <1>1, <1>2, <1>6, InboundStays
  <2> QED  BY <1>1, <1>4, <1>5, <1>6, <2>1, <2>2, InboundStep
<1>7. CASE inb[n].kind # "pkt" /\ item' = <<n>> /\ pc' = "unarc"
  <2>1. CASE UNCHANGED <<tmpu, item, pc, gone>>
    BY <1>1, <1>7, <2>1
  <2>2. CASE ~UNCHANGED <<tmpu, item, pc, gone>>
    <3>1. PICK g : /\ DOMAIN g \subseteq DOMAIN inb[n].msgs
                   /\ \A y \in DOMAIN g : g[y] = inb[n].msgs[y]
                   /\ inb[n].ok => DOMAIN g = DOMAIN inb[n].msgs
                   /\ tmpu' = Over(g, tmpu)
                   /\ gone' = gone \cup UNION {Elems(tmpu[x]) : x \in
                                {y \in DOMAIN tmpu \cap DOMAIN g : tmpu[y] # g[y]}}
      BY <1>3, <2>2
    <3>2. IsArc(n, inb[n])
      BY <1>2, <1>4, <1>7 DEF Inbound
    <3>3. /\ DOMAIN tmpu' = DOMAIN g \cup DOMAIN tmpu
          /\ \A y \in DOMAIN g : tmpu'[y] = g[y]
          /\ \A y \in DOMAIN tmpu : y \notin DOMAIN g => tmpu'[y] = tmpu[y]
      <4>1. /\ DOMAIN Over(g, tmpu) = DOMAIN g \cup DOMAIN tmpu
            /\ \A y \in DOMAIN g : Over(g, tmpu)[y] = g[y]
            /\ \A y \in DOMAIN tmpu : y \notin DOMAIN g => Over(g, tmpu)[y] = tmpu[y]
        BY OverIs
      <4> QED  BY <3>1, <4>1
    <3>4. Inbound'
      <4>1. Numbers' = Numbers /\ Inner' = Inner /\ ArcNames' = ArcNames
        BY <1>1, <1>2, GivenStays
      <4>2. IsFiniteSet(DOMAIN g) /\ IsFiniteSet(DOMAIN tmpu)
        BY <1>2, <3>1, <3>2, FS_Subset DEF Inbound, IsArc
      <4>3. IsFiniteSet(DOMAIN tmpu')
        BY <3>3, <4>2, FS_Union
      <4>4. \A x \in DOMAIN tmpu' : x \in Inner /\ tmpu'[x] \in Seq(Numbers)
        BY <1>2, <3>1, <3>2, <3>3 DEF Inbound, IsArc
      <4> QED  BY <1>1, <1>2, <4>1, <4>3, <4>4 DEF Inbound, IsArc
    <3>5. RunincAt'
      <4>1. n \in Archives' /\ item'[1] = n /\ item' # <<>>
        BY <1>1, <1>4, <1>7 DEF Archives
      <4>2. inb'[n].ok => \A x \in DOMAIN inb'[n].msgs : x \in DOMAIN tmpu' /\ tmpu'[x] = inb'[n].msgs[x]
        BY <1>1, <3>1, <3>3
      <4> QED  BY <1>1, <1>2, <1>3, <1>7, <4>1, <4>2 DEF RunincAt
    <3>6. ASSUME NEW y \in DOMAIN tmpu
          PROVE  Elems(tmpu[y]) \subseteq gone' \cup Held(tmpu')
      <4>1. CASE y \in DOMAIN g /\ tmpu[y] # g[y]
        BY <3>1, <4>1
      <4>2. CASE ~(y \in DOMAIN g /\ tmpu[y] # g[y])
        <5>1. y \in DOMAIN tmpu' /\ tmpu'[y] = tmpu[y]
          BY <3>3, <4>2
        <5> QED  BY <5>1 DEF Held
      <4> QED  BY <4>1, <4>2
    <3>7. Held(tmpu) \subseteq gone' \cup Held(tmpu')
      BY <3>6 DEF Held
    <3> QED  BY <1>1, <1>4, <1>5, <3>1, <3>4, <3>5, <3>7, InboundStep
  <2> QED  BY <2>1, <2>2
<1> QED  BY <1>3, <1>6, <1>7

LEMMA UnpackEndIInv ==
  ASSUME IInv, UnpackEnd
  PROVE  IInv'
<1>1. /\ UNCHANGED <<given, toss, route, outb, rt, sent, files, killed>>
      /\ UNCHANGED <<bad, todo, item, unpflag>> /\ pc = "unpack" /\ pc' \in {"toss", "idle"}
  BY DEF UnpackEnd, spool
<1>2. Given /\ Inbound /\ RunincAt
  BY DEF IInv
<1>3. Brought' = Brought
  BY <1>1, <1>2, BroughtStays
<1>4. CASE ~unpflag
  <2>1. UNCHANGED <<inb, tmpu, gone>>
    BY <1>4 DEF UnpackEnd
  <2>2. Inbound' /\ InInb' = InInb
    BY <1>1, <1>2, <2>1, InboundStays DEF InInb, Held, Packets, Archives, Elems
  <2>3. RunincAt'
    BY <1>1, <1>2, <2>1 DEF RunincAt, Archives
  <2> QED  BY <1>1, <1>3, <2>1, <2>2, <2>3, InboundStep
<1>5. CASE unpflag
  <2> DEFINE g == [n \in DOMAIN tmpu |-> [kind |-> "pkt", ok |-> TRUE, name |-> n,
                                         msgs |-> tmpu[n]]]
  <2>1. /\ inb' = Over(g, inb) /\ tmpu' = NoMail
        /\ gone' = gone \cup UNION {Elems(Packets[n]) : n \in DOMAIN tmpu \cap DOMAIN Packets}
    BY <1>5 DEF UnpackEnd, Moved
  <2>2. DOMAIN g = DOMAIN tmpu /\ \A y \in DOMAIN tmpu : g[y].kind = "pkt" /\ g[y].msgs = tmpu[y]
    OBVIOUS
  <2> HIDE DEF g
  <2>3. /\ DOMAIN inb' = DOMAIN tmpu \cup DOMAIN inb
        /\ \A y \in DOMAIN tmpu : inb'[y] = g[y]
        /\ \A y \in DOMAIN inb : y \notin DOMAIN tmpu => inb'[y] = inb[y]
    <3>1. /\ DOMAIN Over(g, inb) = DOMAIN g \cup DOMAIN inb
          /\ \A y \in DOMAIN g : Over(g, inb)[y] = g[y]
          /\ \A y \in DOMAIN inb : y \notin DOMAIN g => Over(g, inb)[y] = inb[y]
      BY OverIs
    <3> QED  BY <2>1, <2>2, <3>1
  <2>4. DOMAIN tmpu' = {}
    BY <2>1 DEF NoMail
  <2>5. Inbound'
    <3>1. Numbers' = Numbers /\ Inner' = Inner /\ ArcNames' = ArcNames
      BY <1>1, <1>2, GivenStays
    <3>2. IsFiniteSet(DOMAIN inb') /\ IsFiniteSet(DOMAIN tmpu')
      BY <1>2, <2>3, <2>4, FS_Union, FS_EmptySet DEF Inbound
    <3> QED  BY <1>2, <2>2, <2>3, <2>4, <3>1, <3>2 DEF Inbound, IsArc
  <2>6. RunincAt'
    BY <1>1, <1>2, <1>5 DEF RunincAt
  <2>7. ASSUME NEW y \in DOMAIN inb
        PROVE  Inside(inb[y]) \subseteq gone' \cup InInb'
    <3>1. CASE y \notin DOMAIN tmpu
      BY <2>3, <3>1, InInbThen
    <3>2. CASE y \in DOMAIN tmpu
      <4>1. y \in Inner
        BY <1>2, <3>2 DEF Inbound
      <4>2. inb[y].kind = "pkt"
        <5>1. ~IsArc(y, inb[y])
          BY <1>2, <4>1, SoundNow DEF IsArc
        <5> QED  BY <1>2, <5>1 DEF Inbound
      <4>3. y \in DOMAIN Packets /\ Packets[y] = inb[y].msgs
        BY <4>2 DEF Packets
      <4> QED  BY <2>1, <3>2, <4>2, <4>3 DEF Inside
    <3> QED  BY <3>1, <3>2
  <2>8. ASSUME NEW y \in DOMAIN tmpu
        PROVE  Elems(tmpu[y]) \subseteq InInb'
    <3>1. Inside(inb'[y]) = Elems(tmpu[y]) /\ y \in DOMAIN inb'
      BY <2>2, <2>3 DEF Inside
    <3> QED  BY <3>1, InInbThen
  <2>9. InInb \cup Held(tmpu) \subseteq gone' \cup InInb'
    BY <2>7, <2>8, InInbIs DEF Held
  <2> QED  BY <1>1, <1>3, <2>1, <2>5, <2>6, <2>9, InboundStep
<1> QED  BY <1>4, <1>5

-----------------------------------------------------------------------------
\* ftntoss.

\* What holds at the start of a walk, and is passed on, holds all along it.
LEMMA Along ==
  ASSUME NEW n \in Nat, NEW f, NEW H, f[0] \in H[0],
         \A i \in 1 .. n : f[i - 1] \in H[i - 1] => f[i] \in H[i]
  PROVE  \A i \in 0 .. n : f[i] \in H[i]
<1> DEFINE Fails == {i \in 0 .. n : f[i] \notin H[i]}
<1>1. SUFFICES ASSUME Fails # {} PROVE FALSE
  OBVIOUS
<1>2. Fails \in SUBSET Nat
  OBVIOUS
<1>3. PICK m \in Fails : \A k \in Fails : m <= k
  <2> HIDE DEF Fails
  <2> QED  BY <1>1, <1>2, LeastOf
<1>4. m \in 1 .. n /\ m - 1 \in 0 .. n
  BY <1>3
<1>5. f[m - 1] \in H[m - 1]
  <2>1. ~(m <= m - 1)
    BY <1>4
  <2>2. m - 1 \notin Fails
    BY <1>3, <2>1
  <2> QED  BY <1>4, <2>2
<1> QED  BY <1>3, <1>4, <1>5

\* A walk that begins somewhere, and can go on from everywhere, has a course.
Goes(S, b, G, f, n) == /\ f \in [0 .. n -> S] /\ f[0] = b
                       /\ \A i \in 1 .. n : f[i] = G[<<f[i - 1], i>>]

LEMMA Course ==
  ASSUME NEW S, NEW b \in S, NEW n \in Nat, NEW G,
         \A a \in S : \A i \in 1 .. n : G[<<a, i>>] \in S
  PROVE  \E f : Goes(S, b, G, f, n)
<1> DEFINE Fails == {k \in 0 .. n : ~\E f : Goes(S, b, G, f, k)}
<1>1. Fails = {}
  <2>1. SUFFICES ASSUME Fails # {} PROVE FALSE
    OBVIOUS
  <2>2. Fails \in SUBSET Nat
    OBVIOUS
  <2>3. PICK m \in Fails : \A k \in Fails : m <= k
    <3> HIDE DEF Fails
    <3> QED  BY <2>1, <2>2, LeastOf
  <2>4. m \in 0 .. n /\ ~\E f : Goes(S, b, G, f, m)
    OBVIOUS
  <2>5. m # 0
    <3>1. Goes(S, b, G, [i \in 0 .. 0 |-> b], 0)
      BY DEF Goes
    <3> QED  BY <2>4, <3>1
  <2>6. m - 1 \in 0 .. n /\ m \in 1 .. n /\ ~(m <= m - 1)
    BY <2>4, <2>5
  <2>7. PICK g : Goes(S, b, G, g, m - 1)
    <3>1. m - 1 \notin Fails
      BY <2>3, <2>6
    <3> QED  BY <2>6, <3>1
  <2> DEFINE h == [i \in 0 .. m |-> IF i = m THEN G[<<g[m - 1], m>>] ELSE g[i]]
  <2>8. \A i \in 0 .. m - 1 : g[i] \in S
    BY <2>7 DEF Goes
  <2>9. m - 1 \in 0 .. m - 1
    BY <2>6
  <2>10. G[<<g[m - 1], m>>] \in S
    BY <2>6, <2>8, <2>9
  <2>11. h \in [0 .. m -> S]
    BY <2>4, <2>8, <2>10
  <2>12. h[0] = b
    BY <2>4, <2>5, <2>7 DEF Goes
  <2>13. ASSUME NEW i \in 1 .. m PROVE h[i] = G[<<h[i - 1], i>>]
    <3>1. CASE i = m
      BY <2>6, <3>1
    <3>2. CASE i # m
      <4>1. i \in 1 .. m - 1 /\ i \in 0 .. m /\ i - 1 \in 0 .. m /\ i - 1 # m
        BY <2>4, <2>13, <3>2
      <4>2. g[i] = G[<<g[i - 1], i>>]
        BY <2>7, <4>1 DEF Goes
      <4> QED  BY <3>2, <4>1, <4>2
    <3> QED  BY <3>1, <3>2
  <2>14. Goes(S, b, G, h, m)
    BY <2>11, <2>12, <2>13 DEF Goes
  <2> HIDE DEF h
  <2> QED  BY <2>4, <2>14
<1>2. \E f : Goes(S, b, G, f, n)
  <2>1. n \in 0 .. n
    OBVIOUS
  <2> QED  BY <1>1, <2>1
<1> QED  BY <1>2

\* One message more goes into the output packets.
LEMMA AddToIs ==
  ASSUME Given, NEW q \in Seq(Parcels), NEW m \in Numbers
  PROVE  /\ AddTo(q, m) \in Seq(Parcels) /\ InPkts(q) \subseteq InPkts(AddTo(q, m))
         /\ Killed(mail[m]) \/ m \in InPkts(AddTo(q, m))
<1> DEFINE old == {i \in DOMAIN q : Same(q[i], Key(m))}
           x == Packet(Key(m), Key(m).to, <<m>>)
<1>1. CASE Killed(mail[m])
  BY <1>1 DEF AddTo
<1>2. CASE ~Killed(mail[m]) /\ old = {}
  <2>1. AddTo(q, m) = Append(q, x)
    BY <1>2 DEF AddTo
  <2>2. x \in Parcels /\ m \in Elems(x.msgs)
    <3>1. mail[m].to \in config.nodes /\ Flav(m) \in Flavors
      <4>1. config.msg[m].flav \in Flavors /\ mail[m].to \in config.nodes
        <5>1. \A k \in Numbers : /\ config.msg[k].flav \in Flavors
                                 /\ Killed(mail[k]) \/ mail[k].to \in config.nodes
          BY SoundNow
        <5> QED  BY <1>2, <5>1
      <4> QED  BY <4>1 DEF Flav, Flavors
    <3>2. <<m>> \in Seq(Numbers) /\ m \in Elems(<<m>>)
      <4>1. DOMAIN <<m>> = {1} /\ <<m>>[1] = m
        OBVIOUS
      <4> QED  BY <4>1 DEF Elems
    <3> QED  BY <3>1, <3>2 DEF Key, Packet, Parcels, Grades
  <2> HIDE DEF x
  <2>3. <<x>> \in Seq(Parcels) /\ AddTo(q, m) = q \o <<x>>
    BY <2>1, <2>2
  <2>4. q \o <<x>> \in Seq(Parcels) /\ InPkts(q \o <<x>>) = InPkts(q) \cup InPkts(<<x>>)
    BY <2>3, PktsTogether
  <2> QED  BY <2>2, <2>3, <2>4, OnePkt
<1>3. CASE ~Killed(mail[m]) /\ old # {}
  <2> DEFINE e == Least(old)
             ms == Append(q[e].msgs, m)
             y == [q[e] EXCEPT !.msgs = ms]
  <2>1. e \in DOMAIN q
    <3>1. old \in SUBSET Nat
      OBVIOUS
    <3>2. e \in old
      BY <1>3, <3>1, LeastIs
    <3> QED  BY <3>2
  <2>2. AddTo(q, m) = [q EXCEPT ![e] = y]
    BY <1>3 DEF AddTo
  <2> HIDE DEF e
  <2>3. q[e] \in Parcels
    BY <2>1
  <2>4. ms \in Seq(Numbers) /\ Elems(q[e].msgs) \subseteq Elems(ms) /\ m \in Elems(ms)
    <3> DEFINE a == q[e].msgs
    <3>1. a \in Seq(Numbers)
      BY <2>3 DEF Parcels
    <3>2. <<m>> \in Seq(Numbers) /\ m \in Elems(<<m>>)
      <4>1. DOMAIN <<m>> = {1} /\ <<m>>[1] = m
        OBVIOUS
      <4> QED  BY <4>1 DEF Elems
    <3> HIDE DEF a
    <3>3. Append(a, m) = a \o <<m>>
      BY <3>1
    <3>4. a \o <<m>> \in Seq(Numbers) /\ Elems(a \o <<m>>) = Elems(a) \cup Elems(<<m>>)
      BY <3>1, <3>2, ElemsTogether
    <3> QED  BY <3>2, <3>3, <3>4 DEF a
  <2> HIDE DEF ms
  <2>5. y \in Parcels /\ y.msgs = ms
    BY <2>3, <2>4 DEF Parcels
  <2> HIDE DEF y
  <2> DEFINE t == [q EXCEPT ![e] = y]
  <2>6. t \in Seq(Parcels) /\ DOMAIN t = DOMAIN q /\ t[e] = y
        /\ \A i \in DOMAIN q : i # e => t[i] = q[i]
    BY <2>1, <2>5
  <2> HIDE DEF t
  <2>7. Elems(ms) \subseteq InPkts(t)
    BY <2>1, <2>5, <2>6 DEF InPkts
  <2>8. \A i \in DOMAIN q : Elems(q[i].msgs) \subseteq InPkts(t)
    <3>1. \A i \in DOMAIN q : i # e => Elems(q[i].msgs) \subseteq InPkts(t)
      BY <2>6 DEF InPkts
    <3> QED  BY <2>4, <2>7, <3>1
  <2>9. InPkts(q) \subseteq InPkts(t) /\ m \in InPkts(t)
    BY <2>4, <2>7, <2>8 DEF InPkts
  <2> QED  BY <2>2, <2>6, <2>9 DEF t
<1> QED  BY <1>1, <1>2, <1>3

\* The output packets after each message.
LEMMA TossedWalk ==
  ASSUME Given, NEW ms \in Seq(Numbers)
  PROVE  \E f : /\ Tossed(ms) = f[Len(ms)] /\ f[0] = <<>>
                /\ \A i \in 1 .. Len(ms) : f[i] = AddTo(f[i - 1], ms[i])
<1> DEFINE n == Len(ms)
           Walks(f) == f = [i \in 0 .. n |-> IF i = 0 THEN <<>> ELSE AddTo(f[i - 1], ms[i])]
           Made == CHOOSE f : Walks(f)
<1>1. n \in Nat /\ \A i \in 1 .. n : ms[i] \in Numbers
  OBVIOUS
<1>2. Tossed(ms) = Made[n]
  BY DEF Tossed
<1>3. Walks(Made)
  <2> DEFINE G == [a \in Seq(Parcels) \X (1 .. n) |-> AddTo(a[1], ms[a[2]])]
  <2>1. \A a \in Seq(Parcels) : \A i \in 1 .. n : G[<<a, i>>] = AddTo(a, ms[i])
    OBVIOUS
  <2>2. \A a \in Seq(Parcels) : \A i \in 1 .. n : G[<<a, i>>] \in Seq(Parcels)
    BY <1>1, <2>1, AddToIs
  <2>3. <<>> \in Seq(Parcels)
    OBVIOUS
  <2> HIDE DEF G, n
  <2>4. PICK f : Goes(Seq(Parcels), <<>>, G, f, n)
    BY <1>1, <2>2, <2>3, Course
  <2>5. \A i \in 1 .. n : f[i] = AddTo(f[i - 1], ms[i])
    <3>1. \A i \in 1 .. n : i - 1 \in 0 .. n
      BY <1>1
    <3> QED  BY <2>1, <2>4, <3>1 DEF Goes
  <2>6. Walks(f)
    <3>1. \A i \in 0 .. n : f[i] = IF i = 0 THEN <<>> ELSE AddTo(f[i - 1], ms[i])
      BY <1>1, <2>4, <2>5 DEF Goes
    <3>2. f = [i \in 0 .. n |-> f[i]]
      BY <2>4 DEF Goes
    <3> QED  BY <3>1, <3>2
  <2> HIDE DEF Walks
  <2> QED  BY <2>6
<1> HIDE DEF Made, n
<1>4. \A i \in 0 .. n : Made[i] = IF i = 0 THEN <<>> ELSE AddTo(Made[i - 1], ms[i])
  BY <1>3
<1>5. Made[0] = <<>> /\ \A i \in 1 .. n : Made[i] = AddTo(Made[i - 1], ms[i])
  BY <1>1, <1>4
<1> QED  BY <1>2, <1>5 DEF n

\* The output packets have every message that is not dropped.
LEMMA TossedIs ==
  ASSUME Given, NEW ms \in Seq(Numbers)
  PROVE  /\ Tossed(ms) \in Seq(Parcels)
         /\ \A m \in Elems(ms) : Killed(mail[m]) \/ m \in InPkts(Tossed(ms))
<1> DEFINE n == Len(ms)
<1>1. n \in Nat /\ \A i \in 1 .. n : ms[i] \in Numbers
  OBVIOUS
<1>2. PICK Made : /\ Tossed(ms) = Made[n] /\ Made[0] = <<>>
                  /\ \A i \in 1 .. n : Made[i] = AddTo(Made[i - 1], ms[i])
  BY TossedWalk
<1> HIDE DEF n
<1> DEFINE Has(i) == {q \in Seq(Parcels) :
                        \A j \in 1 .. i : Killed(mail[ms[j]]) \/ ms[j] \in InPkts(q)}
           H == [i \in 0 .. n |-> Has(i)]
<1>5. Made[0] \in Has(0)
  <2>1. Made[0] = <<>> /\ <<>> \in Seq(Parcels) /\ 1 .. 0 = {}
    BY <1>1, <1>2
  <2> QED  BY <2>1
<1>6. ASSUME NEW i \in 1 .. n, Made[i - 1] \in Has(i - 1) PROVE Made[i] \in Has(i)
  <2>1. Made[i] = AddTo(Made[i - 1], ms[i])
    BY <1>1, <1>2
  <2>2. /\ AddTo(Made[i - 1], ms[i]) \in Seq(Parcels)
        /\ InPkts(Made[i - 1]) \subseteq InPkts(AddTo(Made[i - 1], ms[i]))
        /\ Killed(mail[ms[i]]) \/ ms[i] \in InPkts(AddTo(Made[i - 1], ms[i]))
    BY <1>1, <1>6, AddToIs
  <2>3. \A j \in 1 .. i : j = i \/ j \in 1 .. i - 1
    BY <1>1
  <2> QED  BY <1>6, <2>1, <2>2, <2>3
<1> HIDE DEF Has
<1>7. \A i \in 0 .. n : Made[i] \in H[i]
  <2>1. Made[0] \in H[0] /\ \A i \in 1 .. n : Made[i - 1] \in H[i - 1] => Made[i] \in H[i]
    BY <1>1, <1>5, <1>6
  <2> HIDE DEF H
  <2> QED  BY <1>1, <2>1, Along
<1>8. Made[n] \in Has(n)
  BY <1>1, <1>7
<1>9. \A m \in Elems(ms) : \E j \in 1 .. n : m = ms[j]
  BY DEF Elems, n
<1> QED  BY <1>2, <1>8, <1>9 DEF Has

\* All the messages of some packets, one after the other.
AllOf(s) ==
  LET All[i \in 0 .. Len(s)] == IF i = 0 THEN <<>> ELSE All[i - 1] \o Packets[s[i]]
  IN All[Len(s)]

LEMMA AllOfWalk ==
  ASSUME NEW names, NEW s \in Seq(names), \A x \in names : Packets[x] \in Seq(Numbers)
  PROVE  \E f : /\ AllOf(s) = f[Len(s)] /\ f[0] = <<>>
                /\ \A i \in 1 .. Len(s) : f[i] = f[i - 1] \o Packets[s[i]]
<1> DEFINE n == Len(s)
           Walks(f) == f = [i \in 0 .. n |-> IF i = 0 THEN <<>> ELSE f[i - 1] \o Packets[s[i]]]
           All == CHOOSE f : Walks(f)
<1>1. n \in Nat /\ \A i \in 1 .. n : Packets[s[i]] \in Seq(Numbers)
  OBVIOUS
<1>2. AllOf(s) = All[n]
  BY DEF AllOf
<1>3. Walks(All)
  <2> DEFINE G == [a \in Seq(Numbers) \X (1 .. n) |-> a[1] \o Packets[s[a[2]]]]
  <2>1. \A a \in Seq(Numbers) : \A i \in 1 .. n : G[<<a, i>>] = a \o Packets[s[i]]
    OBVIOUS
  <2>2. \A a \in Seq(Numbers) : \A i \in 1 .. n : G[<<a, i>>] \in Seq(Numbers)
    <3> SUFFICES ASSUME NEW a \in Seq(Numbers), NEW i \in 1 .. n
                 PROVE  a \o Packets[s[i]] \in Seq(Numbers)
      BY <2>1
    <3> DEFINE b == Packets[s[i]]
    <3>1. b \in Seq(Numbers)
      BY <1>1
    <3> HIDE DEF b
    <3>2. a \o b \in Seq(Numbers)
      BY <3>1
    <3> QED  BY <3>2 DEF b
  <2>3. <<>> \in Seq(Numbers)
    OBVIOUS
  <2> HIDE DEF G, n
  <2>4. PICK f : Goes(Seq(Numbers), <<>>, G, f, n)
    BY <1>1, <2>2, <2>3, Course
  <2>5. \A i \in 1 .. n : f[i] = f[i - 1] \o Packets[s[i]]
    <3>1. \A i \in 1 .. n : i - 1 \in 0 .. n
      BY <1>1
    <3> QED  BY <2>1, <2>4, <3>1 DEF Goes
  <2>6. Walks(f)
    <3>1. \A i \in 0 .. n : f[i] = IF i = 0 THEN <<>> ELSE f[i - 1] \o Packets[s[i]]
      <4>1. f[0] = <<>> /\ \A i \in 0 .. n : i = 0 \/ i \in 1 .. n
        BY <1>1, <2>4 DEF Goes
      <4> SUFFICES ASSUME NEW i \in 0 .. n, i # 0 PROVE f[i] = f[i - 1] \o Packets[s[i]]
        BY <4>1
      <4> QED  BY <2>5, <4>1
    <3>2. f = [i \in 0 .. n |-> f[i]]
      BY <2>4 DEF Goes
    <3> QED  BY <3>1, <3>2
  <2> HIDE DEF Walks
  <2> QED  BY <2>6
<1> HIDE DEF All, n
<1>4. \A i \in 0 .. n : All[i] = IF i = 0 THEN <<>> ELSE All[i - 1] \o Packets[s[i]]
  BY <1>3
<1>5. All[0] = <<>>
  BY <1>1, <1>4
<1>6. ASSUME NEW i \in 1 .. n PROVE All[i] = All[i - 1] \o Packets[s[i]]
  <2>1. i \in 0 .. n /\ i # 0
    BY <1>1
  <2>2. All[i] = IF i = 0 THEN <<>> ELSE All[i - 1] \o Packets[s[i]]
    BY <1>4, <2>1
  <2> QED  BY <2>1, <2>2
<1> QED  BY <1>2, <1>5, <1>6 DEF n

LEMMA AllOfIs ==
  ASSUME NEW names, NEW s \in Seq(names), \A x \in names : Packets[x] \in Seq(Numbers)
  PROVE  /\ AllOf(s) \in Seq(Numbers)
         /\ \A x \in Elems(s) : Elems(Packets[x]) \subseteq Elems(AllOf(s))
<1> DEFINE n == Len(s)
<1>1. n \in Nat /\ \A i \in 1 .. n : Packets[s[i]] \in Seq(Numbers)
  OBVIOUS
<1>2. PICK All : /\ AllOf(s) = All[n] /\ All[0] = <<>>
                 /\ \A i \in 1 .. n : All[i] = All[i - 1] \o Packets[s[i]]
  BY AllOfWalk
<1> HIDE DEF n
<1> DEFINE Has(i) == {q \in Seq(Numbers) : \A j \in 1 .. i : Elems(Packets[s[j]]) \subseteq Elems(q)}
           H == [i \in 0 .. n |-> Has(i)]
<1>5. All[0] \in Has(0)
  <2>1. All[0] = <<>> /\ <<>> \in Seq(Numbers) /\ 1 .. 0 = {}
    BY <1>1, <1>2
  <2> QED  BY <2>1
<1>6. ASSUME NEW i \in 1 .. n, All[i - 1] \in Has(i - 1) PROVE All[i] \in Has(i)
  <2> DEFINE a == All[i - 1]
             b == Packets[s[i]]
  <2>1. All[i] = a \o b
    BY <1>1, <1>2
  <2>2. a \in Seq(Numbers) /\ b \in Seq(Numbers)
    BY <1>1, <1>6
  <2>3. \A j \in 1 .. i - 1 : Elems(Packets[s[j]]) \subseteq Elems(a)
    BY <1>6
  <2> HIDE DEF a
  <2>4. a \o b \in Seq(Numbers) /\ Elems(a \o b) = Elems(a) \cup Elems(b)
    <3> HIDE DEF b
    <3> QED  BY <2>2, ElemsTogether
  <2>5. \A j \in 1 .. i : j = i \/ j \in 1 .. i - 1
    BY <1>1
  <2>6. \A j \in 1 .. i : Elems(Packets[s[j]]) \subseteq Elems(a \o b)
    BY <2>3, <2>4, <2>5
  <2> QED  BY <2>1, <2>4, <2>6
<1> HIDE DEF Has
<1>7. \A i \in 0 .. n : All[i] \in H[i]
  <2>1. All[0] \in H[0] /\ \A i \in 1 .. n : All[i - 1] \in H[i - 1] => All[i] \in H[i]
    BY <1>1, <1>5, <1>6
  <2> HIDE DEF H
  <2> QED  BY <1>1, <2>1, Along
<1>8. All[n] \in Has(n)
  BY <1>1, <1>7
<1>9. \A x \in Elems(s) : \E j \in 1 .. n : x = s[j]
  BY DEF Elems, n
<1> QED  BY <1>2, <1>8, <1>9 DEF Has

\* A run of ftntoss: what it takes off the inbound is in toss/toss or dropped.
LEMMA TakeIs ==
  ASSUME Given, Inbound, toss \in Seq(Parcels), NEW names \in SUBSET DOMAIN Packets, Take(names)
  PROVE  /\ toss' \in Seq(Parcels) /\ InPkts(toss) \subseteq InPkts(toss')
         /\ inb' = Less(inb, names) /\ killed \subseteq killed'
         /\ \A x \in names : Inside(inb[x]) \subseteq InPkts(toss') \cup killed'
<1>1. \A x \in names : x \in DOMAIN inb /\ inb[x].kind = "pkt" /\ Packets[x] = inb[x].msgs
  BY DEF Packets
<1>2. \A x \in names : Packets[x] \in Seq(Numbers) /\ Inside(inb[x]) = Elems(Packets[x])
  BY <1>1 DEF Inbound, IsArc, Inside
<1>3. Cardinality(names) \in Nat
  <2>1. IsFiniteSet(names)
    <3>1. names \subseteq DOMAIN inb
      BY <1>1
    <3> QED  BY <3>1, FS_Subset DEF Inbound
  <2> QED  BY <2>1, FS_CardinalityType
<1>4. PICK s \in [1 .. Cardinality(names) -> names] :
        /\ Elems(s) = names
        /\ toss' = toss \o Tossed(AllOf(s))
        /\ inb' = Less(inb, names)
        /\ killed' = killed \cup {m \in Elems(AllOf(s)) : Killed(mail[m])}
  BY DEF Take, AllOf
<1>5. s \in Seq(names)
  BY <1>3
<1> DEFINE ms == AllOf(s)
<1>6. ms \in Seq(Numbers) /\ \A x \in names : Elems(Packets[x]) \subseteq Elems(ms)
  BY <1>2, <1>4, <1>5, AllOfIs
<1> HIDE DEF ms
<1>7. /\ Tossed(ms) \in Seq(Parcels)
      /\ \A m \in Elems(ms) : Killed(mail[m]) \/ m \in InPkts(Tossed(ms))
  BY <1>6, TossedIs
<1>8. /\ toss \o Tossed(ms) \in Seq(Parcels)
      /\ InPkts(toss \o Tossed(ms)) = InPkts(toss) \cup InPkts(Tossed(ms))
  BY <1>7, PktsTogether
<1>9. toss' = toss \o Tossed(ms) /\ killed' = killed \cup {m \in Elems(ms) : Killed(mail[m])}
  BY <1>4 DEF ms
<1>10. Elems(ms) \subseteq InPkts(toss') \cup killed'
  BY <1>7, <1>8, <1>9
<1> QED  BY <1>2, <1>4, <1>6, <1>8, <1>9, <1>10

\* The process and its packets stay as they are.
LEMMA SameDoes ==
  ASSUME IInv, UNCHANGED <<given, route, outb, gone, files, sent, rt>>, NEW p \in Caller,
         toss' \in Seq(Parcels), InPkts(toss) \subseteq InPkts(toss')
  PROVE  Does(p)
<1>1. Given /\ Typed /\ RouterAt
  BY DEF IInv
<1>2. \A q \in Caller : CallerAt(q)' /\ InEnts(q)' = InEnts(q)
  BY <1>1, CallerStays DEF RouterAt
<1>3. Typed'
  BY <1>1, GivenStays DEF Typed
<1>4. InSpool \subseteq InSpool'
  <2>1. InPkts(toss)' = InPkts(toss') /\ InPkts(route)' = InPkts(route) /\ InOutb' = InOutb
    BY DEF InPkts, InOutb, Elems
  <2> QED  BY <1>2, <2>1, SpoolGrows
<1> QED  BY <1>2, <1>3, <1>4 DEF Does, RouterAt

\* What both a run of ftntoss and one that fails come to.
LEMMA TakeIInv ==
  ASSUME IInv, UNCHANGED <<given, files, tmpu, bad, item, todo>>, pc = "toss",
         pc' \in {"toss", "route", "idle"}, pc' = "route" \/ rt'["runinc"].pc = "idle",
         NEW names \in SUBSET DOMAIN Packets, Take(names), Does("runinc")
  PROVE  IInv'
<1>1. Given /\ Inbound /\ RunincAt /\ Kept /\ toss \in Seq(Parcels)
  BY DEF IInv, Typed
<1>2. /\ inb' = Less(inb, names) /\ killed \subseteq killed'
      /\ \A x \in names : Inside(inb[x]) \subseteq InPkts(toss') \cup killed'
  BY <1>1, TakeIs
<1>3. /\ Inbound'
      /\ InInb = InInb' \cup UNION {Inside(inb[y]) : y \in DOMAIN inb \cap names}
  BY <1>1, <1>2, InbWithout
<1>4. InPkts(toss)' = InPkts(toss')
  BY DEF InPkts, Elems
<1>5. InInb \subseteq InInb' \cup InPkts(toss)' \cup killed'
  BY <1>2, <1>3, <1>4
<1>6. Arrived' = Held(tmpu) \cup InInb' \cup InBad \cup killed'
  BY HeldThen DEF Arrived, InBad, Held, Elems
<1>7. Brought' = Brought /\ Given'
  BY <1>1, BroughtStays, GivenStays
<1>8. Kept'
  BY <1>1, <1>2, <1>5, <1>6, <1>7 DEF Kept, Does, Arrived, InSpool
<1>9. RunincAt'
  <2>1. \A y \in Archives : y \in Archives' /\ inb'[y] = inb[y]
    <3>1. \A y \in Archives : y \notin names
      BY DEF Archives, Packets
    <3> QED  BY <1>2, <3>1, LessIs DEF Archives
  <2> QED  BY <1>1, <2>1 DEF RunincAt
<1> QED  BY <1>3, <1>7, <1>8, <1>9 DEF IInv, Does

LEMMA TossIInv ==
  ASSUME IInv, Toss
  PROVE  IInv'
<1> DEFINE p == "runinc"
           r == [Idle EXCEPT !.pc = "next", !.left = Len(toss')]
<1>1. /\ UNCHANGED <<given, route, outb, gone, files, tmpu, bad, todo, item, sent>>
      /\ pc = "toss" /\ pc' = "route" /\ Set(p, r)
  BY DEF Toss, RouteStart
<1>2. PICK names \in SUBSET DOMAIN Packets : Take(names)
  BY DEF Toss
<1>3. p \in Caller
  BY DEF Caller
<1>4. Given /\ Inbound /\ toss \in Seq(Parcels) /\ rt[p].pc = "idle"
  BY <1>1 DEF IInv, Typed, RunincAt
<1>5. rt[p].ent = <<>>
  BY <1>3, <1>4, RouterTyped DEF CallerAt
<1>6. IsRouter(r) /\ r.ent = <<>> /\ r.pc = "next"
  BY IdleIs DEF IsRouter
<1> HIDE DEF r
<1>7. toss' \in Seq(Parcels) /\ InPkts(toss) \subseteq InPkts(toss')
  BY <1>2, <1>4, TakeIs
<1>8. Does(p)
  BY <1>1, <1>3, <1>5, <1>6, <1>7, SetDoes
<1> QED  BY <1>1, <1>2, <1>8, TakeIInv

LEMMA TossFailsIInv ==
  ASSUME IInv, TossFails
  PROVE  IInv'
<1> DEFINE p == "runinc"
           r == [Idle EXCEPT !.pc = "next", !.left = Len(toss')]
<1>1. /\ UNCHANGED <<given, route, outb, gone, files, tmpu, bad, todo, item, sent>>
      /\ pc = "toss"
      /\ \/ pc' = "route" /\ Set(p, r)
         \/ pc' \in {"toss", "idle"} /\ rt' = rt
  BY DEF TossFails, RouteStart
<1>2. PICK names \in SUBSET DOMAIN Packets : Take(names)
  BY DEF TossFails
<1>3. p \in Caller
  BY DEF Caller
<1>4. Given /\ Inbound /\ toss \in Seq(Parcels) /\ rt[p].pc = "idle"
  BY <1>1 DEF IInv, Typed, RunincAt
<1>5. rt[p].ent = <<>>
  BY <1>3, <1>4, RouterTyped DEF CallerAt
<1>6. IsRouter(r) /\ r.ent = <<>> /\ r.pc = "next"
  BY IdleIs DEF IsRouter
<1> HIDE DEF r
<1>7. toss' \in Seq(Parcels) /\ InPkts(toss) \subseteq InPkts(toss')
  BY <1>2, <1>4, TakeIs
<1>8. CASE pc' = "route" /\ Set(p, r)
  <2>1. Does(p)
    BY <1>1, <1>3, <1>5, <1>6, <1>7, <1>8, SetDoes
  <2> QED  BY <1>1, <1>2, <1>8, <2>1, TakeIInv
<1>9. CASE pc' \in {"toss", "idle"} /\ rt' = rt
  <2>1. Does(p)
    BY <1>1, <1>3, <1>7, <1>9, SameDoes
  <2> QED  BY <1>1, <1>2, <1>4, <1>9, <2>1, TakeIInv
<1> QED  BY <1>1, <1>8, <1>9

-----------------------------------------------------------------------------
\* The theorem.

LEMMA InitIInv ==
  ASSUME Init
  PROVE  IInv
<1>1. Given
  BY DEF Init, Given
<1>2. Typed
  <2>1. \A p \in Caller : rt[p] = Idle /\ IsRouter(rt[p])
    BY IdleIs DEF Init
  <2>2. outb \in [[to : config.nodes, flav : Flavors] -> Seq(Numbers)]
    <3>1. <<>> \in Seq(Numbers)
      OBVIOUS
    <3> QED  BY <3>1 DEF Init
  <2>3. <<>> \in Seq(Parcels)
    OBVIOUS
  <2> QED  BY <2>1, <2>2, <2>3 DEF Init, Typed
<1>3. Inbound
  BY FS_EmptySet DEF Init, Inbound, NoMail
<1>4. RouterAt
  BY IdleIs DEF Init, RouterAt, CallerAt
<1>5. RunincAt
  BY IdleIs DEF Init, RunincAt, Caller
<1>6. Kept
  BY DEF Init, Kept, Brought
<1> QED  BY <1>1, <1>2, <1>3, <1>4, <1>5, <1>6 DEF IInv

LEMMA StepIInv ==
  ASSUME IInv, [Next]_vars
  PROVE  IInv'
<1>1. CASE Next
  <2>1. CASE RunincNext
    <3>1. "runinc" \in Caller
      BY DEF Caller
    <3> QED  BY <2>1, <3>1, StartIInv, LookIInv, UnpackedIInv, UnfitIInv, UnpackEndIInv, TossIInv,
               RoutedIInv, PackedIInv, RouteStepIInv DEF RunincNext
  <2>2. CASE RepackNext
    <3>1. "repack" \in Caller
      BY DEF Caller
    <3> QED  BY <2>2, <3>1, RepackStartIInv, RepackStepIInv, RouteStepIInv, RepackPackIInv,
               RepackStopsIInv DEF RepackNext
  <2>3. CASE MailerSends \/ MailerBrings
    BY <2>3, SendIInv, ArriveIInv DEF MailerSends, MailerBrings
  <2> QED  BY <1>1, <2>1, <2>2, <2>3, TossFailsIInv, KillIInv, RepackStopsIInv DEF Next
<1>2. CASE UNCHANGED vars
  <2>1. /\ UNCHANGED <<given, toss, route, outb, rt, sent, files, gone, killed>>
        /\ UNCHANGED <<inb, tmpu, bad, pc, todo, item, unpflag>>
    BY <1>2 DEF vars, rvars, spool, ivars, own
  <2>2. Inbound' /\ RunincAt' /\ Brought' = Brought /\ InInb' = InInb
    BY <2>1, InboundStays, RunincStays, BroughtStays
    DEF IInv, InInb, Held, Packets, Archives, Elems
  <2> QED  BY <2>1, <2>2, InboundStep
<1> QED  BY <1>1, <1>2

\* What the outbound and toss/route have, and what has been sent, counts.
LEMMA CopiesAre ==
  ASSUME Typed, Given, NEW m \in InPkts(route) \cup InOutb \cup Went
  PROVE  m \in Msg /\ Copies(m) > 0
<1> DEFINE InRoute == {i \in DOMAIN route : m \in Elems(route[i].msgs)}
           InOut   == {k \in DOMAIN outb : m \in Elems(outb[k])}
<1>1. m \in Msg
  <2>1. Numbers \subseteq Msg
    BY SoundNow
  <2>2. ASSUME NEW s \in Seq(Numbers), m \in Elems(s) PROVE m \in Msg
    BY <2>1, <2>2 DEF Elems
  <2>3. CASE m \in InPkts(route)
    <3>1. PICK i \in DOMAIN route : m \in Elems(route[i].msgs)
      BY <2>3 DEF InPkts
    <3>2. route[i] \in Parcels
      BY DEF Typed
    <3> QED  BY <2>2, <3>1, <3>2 DEF Parcels
  <2>4. CASE m \in InOutb
    <3>1. PICK k \in DOMAIN outb : m \in Elems(outb[k])
      BY <2>4 DEF InOutb
    <3> QED  BY <2>2, <3>1 DEF Typed
  <2>5. CASE m \in Went
    BY <2>5 DEF Went
  <2> QED  BY <2>3, <2>4, <2>5
<1>2. IsFiniteSet(InRoute)
  <2>1. DOMAIN route = 1 .. Len(route) /\ Len(route) \in Nat
    BY DEF Typed
  <2>2. IsFiniteSet(1 .. Len(route)) /\ InRoute \subseteq 1 .. Len(route)
    BY <2>1, FS_Interval
  <2> QED  BY <2>2, FS_Subset
<1>3. IsFiniteSet(InOut)
  <2> DEFINE N == config.nodes
             f == [x \in N \X Flavors |-> [to |-> x[1], flav |-> x[2]]]
  <2>1. DOMAIN outb = [to : N, flav : Flavors]
    BY DEF Typed
  <2>2. IsFiniteSet(Flavors)
    <3>1. IsFiniteSet({"n"})
      BY FS_Singleton
    <3>2. IsFiniteSet({"n"} \cup {"h"})
      BY <3>1, FS_AddElement
    <3>3. IsFiniteSet(({"n"} \cup {"h"}) \cup {"c"})
      BY <3>2, FS_AddElement
    <3>4. IsFiniteSet((({"n"} \cup {"h"}) \cup {"c"}) \cup {"d"})
      BY <3>3, FS_AddElement
    <3>5. Flavors = (({"n"} \cup {"h"}) \cup {"c"}) \cup {"d"}
      BY DEF Flavors
    <3> QED  BY <3>4, <3>5
  <2>3. IsFiniteSet(N \X Flavors)
    <3>1. IsFiniteSet(N)
      BY SoundNow
    <3> QED  BY <2>2, <3>1, FS_Product
  <2>4. f \in Surjection(N \X Flavors, [to : N, flav : Flavors])
    <3>1. f \in [N \X Flavors -> [to : N, flav : Flavors]]
      OBVIOUS
    <3>2. ASSUME NEW k \in [to : N, flav : Flavors]
          PROVE  \E x \in N \X Flavors : f[x] = k
      <4>1. <<k.to, k.flav>> \in N \X Flavors /\ k = [to |-> k.to, flav |-> k.flav]
        OBVIOUS
      <4> QED  BY <4>1
    <3> QED  BY <3>1, <3>2 DEF Surjection
  <2> HIDE DEF f, N
  <2>5. IsFiniteSet([to : N, flav : Flavors])
    BY <2>3, <2>4, FS_Surjection
  <2>6. InOut \subseteq [to : N, flav : Flavors]
    BY <2>1
  <2> QED  BY <2>5, <2>6, FS_Subset
<1>4. Copies(m) = sent[m] + Cardinality(InRoute) + Cardinality(InOut)
  BY DEF Copies
<1>5. /\ m \in InPkts(route) => InRoute # {}
      /\ m \in InOutb => InOut # {}
      /\ m \in Went => sent[m] > 0
  BY DEF InPkts, InOutb, Went
<1> HIDE DEF InRoute, InOut
<1>6. /\ Cardinality(InRoute) \in Nat /\ (Cardinality(InRoute) = 0 <=> InRoute = {})
      /\ Cardinality(InOut) \in Nat /\ (Cardinality(InOut) = 0 <=> InOut = {})
  BY <1>2, <1>3, FS_CardinalityType, FS_EmptySet
<1>7. sent[m] \in Nat
  BY <1>1 DEF Typed
<1> QED  BY <1>1, <1>4, <1>5, <1>6, <1>7

LEMMA KeptIs ==
  ASSUME IInv
  PROVE  NothingLost
<1> DEFINE Passed == {m \in Msg : Copies(m) > 0}
<1>1. InPkts(route) \cup InOutb \cup Went \subseteq Passed
  BY CopiesAre DEF IInv
<1>2. InPkts(toss) \cup InEnts("runinc") \cup InEnts("repack") \subseteq Everywhere
  <2> DEFINE Ents == UNION {InEnts(p) : p \in Caller}
  <2>1. InPkts(toss) \cup Ents \subseteq Everywhere
    BY DEF InPkts, InEnts, Everywhere
  <2>2. \A p \in Caller : InEnts(p) \subseteq Ents
    OBVIOUS
  <2> HIDE DEF Ents
  <2> QED  BY <2>1, <2>2 DEF Caller
<1>3. Arrived \cup Passed \subseteq Everywhere
  BY DEF Arrived, InInb, Everywhere
<1> HIDE DEF Passed
<1> QED  BY <1>1, <1>2, <1>3 DEF IInv, Kept, InSpool, NothingLost

\* Whatever fails, is killed or is run again between the mailer, runinc,
\* ftntoss, ftnroute, ftnpack and ftnroute -p: a message that the mailer has
\* brought is still in a file, or sent (toss/runinc.c, toss/ftnroute.c).
THEOREM NothingLostHolds == Spec => []NothingLost
<1>1. Init => IInv
  BY InitIInv
<1>2. IInv /\ [Next]_vars => IInv'
  BY StepIInv
<1>3. IInv => NothingLost
  BY KeptIs
<1> QED  BY <1>1, <1>2, <1>3, PTL DEF Spec

-----------------------------------------------------------------------------
\* Where a message is to wait.

\* Where the messages of a packet end: a packet is moved as it is, or every
\* message goes where the packet is routed to.  A direct message goes no other
\* way than its own, and has the rest of its packet move with it.
Ends(c, m, x) ==
  LET d == Route(Desc([grade |-> x.grade, type |-> Netmail, flav |-> x.flav], c.from, x.to),
                 ReadRouting(c.lines), c.hubs)
      away == d.to # x.to
  IN IF d.move THEN {[to |-> x.to, flav |-> d.flav]}
     ELSE {k \in {[to |-> d.to, flav |-> d.flav]} : ~(c.msg[m].direct /\ away)}
            \cup {k \in {[to |-> x.to, flav |-> d.flav]} :
                    away /\ \E n \in DOMAIN c.msg : c.msg[n].direct}

\* What a configuration says of the way of each message is what the ROUTING
\* file makes of the packet ftntoss puts it into, and of every packet that
\* ftnroute -p makes of what waits in the outbound.
WaysAreRouted(c) ==
  LET t == ReadRouting(c.lines) IN
  \A m \in DOMAIN c.msg :
    LET to == Remap(Rewrite(c.msg[m], t), t) IN
    ~Killed(to) =>
      /\ Ends(c, m, [grade |-> c.grade, to |-> to.to,
                     flav |-> IF c.sflag THEN "n" ELSE c.msg[m].flav]) \subseteq c.way[m]
      /\ c.repack => \A k \in c.way[m] :
           LET x == [grade |-> "m", to |-> k.to, flav |-> "n"] IN
           /\ [to |-> x.to, flav |-> x.flav] \in c.way[m]
           /\ Ends(c, m, x) \subseteq c.way[m]

\* A message that may be in a packet still to be routed, or in one that is.
May(m, x)   == ~Killed(mail[m]) /\ Ends(config, m, x) \subseteq config.way[m]
Meant(m, x) == ~Killed(mail[m]) /\ [to |-> x.to, flav |-> x.flav] \in config.way[m]

Coming  == {x \in Parcels : \A m \in Elems(x.msgs) : May(m, x)}
Settled == {x \in Parcels : \A m \in Elems(x.msgs) : Meant(m, x)}
Written == {x \in Entries : \A m \in Elems(x.msgs) : Meant(m, x)}

Directed(r) ==
  /\ r.ent \in Seq(Written)
  /\ r.pc \in {"open", "copy"} => r.cur \in Coming
  /\ r.pc = "copy" => r.d = Way(r.cur) /\ ~r.d.move

WayInv ==
  /\ toss \in Seq(Coming) /\ route \in Seq(Settled)
  /\ \A k \in DOMAIN outb : \A m \in Elems(outb[k]) : Meant(m, k)
  /\ \A p \in Caller : Directed(rt[p])
  /\ rt["repack"].pc # "idle" => config.repack

Routable == \A i \in DOMAIN Configs : WaysAreRouted(Configs[i])

LEMMA RoutedNow ==
  ASSUME Routable, Given
  PROVE  /\ \A m \in Numbers : ~Killed(mail[m]) => May(m, Key(m))
         /\ config.repack =>
              \A m \in Numbers : \A k : Meant(m, k) =>
                LET x == [grade |-> "m", to |-> k.to, flav |-> "n"] IN May(m, x) /\ Meant(m, x)
<1>1. WaysAreRouted(config)
  BY DEF Routable, Given, config
<1>2. \A m \in Numbers : mail[m] = Remap(Rewrite(config.msg[m], ReadRouting(config.lines)),
                                         ReadRouting(config.lines))
  BY DEF Given, Mails, Numbers
<1>3. ASSUME NEW m \in Numbers, ~Killed(mail[m])
      PROVE  /\ May(m, Key(m))
             /\ config.repack => \A k \in config.way[m] :
                  LET x == [grade |-> "m", to |-> k.to, flav |-> "n"] IN
                  [to |-> x.to, flav |-> x.flav] \in config.way[m] /\ May(m, x)
  <2> DEFINE y == [grade |-> config.grade, to |-> mail[m].to,
                   flav |-> IF config.sflag THEN "n" ELSE config.msg[m].flav]
  <2>1. /\ Ends(config, m, y) \subseteq config.way[m]
        /\ config.repack => \A k \in config.way[m] :
             LET x == [grade |-> "m", to |-> k.to, flav |-> "n"] IN
             /\ [to |-> x.to, flav |-> x.flav] \in config.way[m]
             /\ Ends(config, m, x) \subseteq config.way[m]
    BY <1>1, <1>2, <1>3 DEF WaysAreRouted, Numbers
  <2>2. Key(m).grade = y.grade /\ Key(m).to = y.to /\ Key(m).flav = y.flav
    BY DEF Key, Flav
  <2>3. Ends(config, m, Key(m)) = Ends(config, m, y)
    <3> HIDE DEF y
    <3> QED  BY <2>2 DEF Ends
  <2> QED  BY <1>3, <2>1, <2>3 DEF May
<1>4. ASSUME config.repack, NEW m \in Numbers, NEW k, Meant(m, k)
      PROVE  LET x == [grade |-> "m", to |-> k.to, flav |-> "n"] IN May(m, x) /\ Meant(m, x)
  <2> DEFINE h == [to |-> k.to, flav |-> k.flav]
             x == [grade |-> "m", to |-> k.to, flav |-> "n"]
  <2>1. ~Killed(mail[m]) /\ h \in config.way[m]
    BY <1>4 DEF Meant
  <2>2. h.to = k.to
    OBVIOUS
  <2> HIDE DEF h
  <2>3. [to |-> x.to, flav |-> x.flav] \in config.way[m] /\ May(m, x)
    BY <1>3, <1>4, <2>1, <2>2
  <2> QED  BY <2>1, <2>3 DEF Meant
<1> QED  BY <1>3, <1>4

\* Packets of the same node, grade and flavor.
LEMMA AlikeIs ==
  ASSUME NEW x, NEW y, x.to = y.to, x.flav = y.flav
  PROVE  \A m : /\ Meant(m, x) <=> Meant(m, y)
                /\ x.grade = y.grade => (May(m, x) <=> May(m, y))
BY DEF Meant, May, Ends

LEMMA WaysStay ==
  ASSUME Given, UNCHANGED given
  PROVE  /\ \A m, x : May(m, x)' = May(m, x) /\ Meant(m, x)' = Meant(m, x)
         /\ Coming' = Coming /\ Settled' = Settled /\ Written' = Written
         /\ \A r : Directed(r)' = Directed(r)
<1>1. config' = config /\ mail' = mail /\ table' = table /\ Parcels' = Parcels
      /\ Entries' = Entries
  BY GivenStays
<1>2. \A m, x : May(m, x)' = May(m, x) /\ Meant(m, x)' = Meant(m, x)
  BY <1>1 DEF May, Meant, Ends
<1>3. Coming' = Coming /\ Settled' = Settled /\ Written' = Written
  BY <1>1, <1>2 DEF Coming, Settled, Written, Elems
<1>4. \A r : Directed(r)' = Directed(r)
  BY <1>1, <1>3 DEF Directed, Way
<1> QED  BY <1>2, <1>3, <1>4

\* Where ftnroute may put a message of the packet it is at.
LEMMA MayGo ==
  ASSUME Given, NEW x \in Coming, NEW m \in Elems(x.msgs)
  PROVE  LET d == Way(x) IN
         /\ d.move => Meant(m, [to |-> x.to, flav |-> d.flav])
         /\ ~d.move /\ ~(config.msg[m].direct /\ d.to # x.to) => Meant(m, d)
         /\ ~d.move /\ d.to # x.to /\ (\E n \in Numbers : config.msg[n].direct)
              => Meant(m, [to |-> x.to, flav |-> d.flav])
<1> DEFINE y == [grade |-> x.grade, type |-> Netmail, flav |-> x.flav]
           d == Way(x)
<1>1. May(m, x) /\ x \in Parcels
  BY DEF Coming
<1>2. d = Route(Desc(y, config.from, x.to), ReadRouting(config.lines), config.hubs)
  <2>1. x.type = Netmail
    BY <1>1 DEF Parcels
  <2>2. Desc(y, config.from, x.to) = Desc(x, config.from, x.to)
    BY <2>1 DEF Desc
  <2> QED  BY <2>2 DEF Way, Given
<1> HIDE DEF d
<1>3. /\ ~Killed(mail[m])
      /\ (IF d.move THEN {[to |-> x.to, flav |-> d.flav]}
          ELSE {k \in {[to |-> d.to, flav |-> d.flav]} : ~(config.msg[m].direct /\ d.to # x.to)}
                 \cup {k \in {[to |-> x.to, flav |-> d.flav]} :
                         d.to # x.to /\ \E n \in DOMAIN config.msg : config.msg[n].direct})
         \subseteq config.way[m]
  BY <1>1, <1>2 DEF May, Ends
<1> QED  BY <1>3 DEF Meant, Numbers, d

\* What a step must see to: of one ftnroute, and of the directories.
LEMMA WayMoves ==
  ASSUME IInv, WayInv, UNCHANGED given, NEW p \in Caller, NEW r, rt' = [rt EXCEPT ![p] = r],
         Directed(r), toss' \in Seq(Coming), route' \in Seq(Settled),
         \A k \in DOMAIN outb' : \A m \in Elems(outb'[k]) : Meant(m, k),
         r.pc = "idle" \/ config.repack \/ p = "runinc"
  PROVE  WayInv'
<1>1. Given /\ DOMAIN rt = Caller
  BY DEF IInv, Typed
<1>2. /\ Coming' = Coming /\ Settled' = Settled /\ \A y : Directed(y)' = Directed(y)
      /\ \A m, x : Meant(m, x)' = Meant(m, x)
  BY <1>1, WaysStay
<1>3. rt'[p] = r /\ \A q \in Caller : q # p => rt'[q] = rt[q]
  BY <1>1
<1>4. \A q \in Caller : Directed(rt[q])'
  <2>1. ASSUME NEW q \in Caller PROVE Directed(rt'[q])
    BY <1>3 DEF WayInv
  <2>2. ASSUME NEW q \in Caller PROVE Directed(rt[q])' <=> Directed(rt'[q])
    BY <1>2 DEF Directed, Way, given, config
  <2> QED  BY <2>1, <2>2
<1>5. rt'["repack"].pc # "idle" => config'.repack
  <2>1. config' = config /\ "repack" \in Caller
    BY <1>1, GivenStays DEF Caller
  <2> QED  BY <1>3, <2>1 DEF WayInv
<1>6. \A k \in DOMAIN outb' : \A m \in Elems(outb[k])' : Meant(m, k)'
  BY <1>2 DEF Elems
<1> QED  BY <1>2, <1>4, <1>5, <1>6 DEF WayInv

\* One that leaves ftnroute where it is.
LEMMA WayRests ==
  ASSUME IInv, WayInv, UNCHANGED <<given, rt>>, toss' \in Seq(Coming), route' \in Seq(Settled),
         \A k \in DOMAIN outb' : \A m \in Elems(outb'[k]) : Meant(m, k)
  PROVE  WayInv'
<1>1. Given
  BY DEF IInv
<1>2. /\ Coming' = Coming /\ Settled' = Settled /\ \A y : Directed(y)' = Directed(y)
      /\ \A m, x : Meant(m, x)' = Meant(m, x)
  BY <1>1, WaysStay
<1>3. \A q \in Caller : Directed(rt[q])'
  <2>1. ASSUME NEW q \in Caller PROVE Directed(rt[q])' <=> Directed(rt[q])
    BY <1>2 DEF Directed, Way, given, config
  <2> QED  BY <2>1 DEF WayInv
<1>4. config' = config
  BY <1>1, GivenStays
<1>5. \A k \in DOMAIN outb' : \A m \in Elems(outb[k])' : Meant(m, k)'
  BY <1>2 DEF Elems
<1> QED  BY <1>2, <1>3, <1>4, <1>5 DEF WayInv

\* The directories and the outbound when a step leaves them.
LEMMA WayThere ==
  ASSUME WayInv, UNCHANGED outb
  PROVE  /\ toss \in Seq(Coming) /\ route \in Seq(Settled)
         /\ \A k \in DOMAIN outb' : \A m \in Elems(outb'[k]) : Meant(m, k)
BY DEF WayInv

LEMMA DropSettles ==
  ASSUME WayInv, NEW p \in Caller, NEW add \in Seq(Settled), Here(p) # {}, Drop(p, add)
  PROVE  toss' \in Seq(Coming) /\ route' \in Seq(Settled)
<1> DEFINE i == Least(Here(p))
           rest == Without(Source(p), i)
           S == IF p = "runinc" THEN Coming ELSE Settled
<1>1. toss \in Seq(Coming) /\ route \in Seq(Settled) /\ Source(p) \in Seq(S)
  BY DEF WayInv, Source
<1> HIDE DEF S
<1>2. i \in DOMAIN Source(p)
  <2>1. Here(p) \in SUBSET Nat
    BY <1>1 DEF Here
  <2>2. Least(Here(p)) \in Here(p)
    BY <2>1, LeastIs
  <2> QED  BY <2>2 DEF Here
<1> HIDE DEF i
<1>3. rest \in Seq(S)
  BY <1>1, <1>2, TakesOut
<1>4. IF p = "runinc" THEN toss' = rest /\ route' = route \o add
                      ELSE toss' = toss /\ route' = rest \o add
  BY DEF Drop, i
<1> HIDE DEF rest
<1>5. CASE p = "runinc"
  <2>1. route \o add \in Seq(Settled)
    BY <1>1, PktsTogether
  <2> QED  BY <1>3, <1>4, <1>5, <2>1 DEF S
<1>6. CASE p # "runinc"
  <2>1. rest \in Seq(Settled)
    BY <1>3, <1>6 DEF S
  <2>2. rest \o add \in Seq(Settled)
    BY <2>1, PktsTogether
  <2> QED  BY <1>1, <1>4, <1>6, <2>2
<1> QED  BY <1>5, <1>6

LEMMA RouteNextWay ==
  ASSUME IInv, WayInv, NEW p \in Caller, RouteNext(p)
  PROVE  WayInv'
<1>1. /\ UNCHANGED given /\ UNCHANGED <<toss, route, outb>> /\ p = "runinc"
  BY DEF RouteNext, spool
<1>2. Directed(rt[p]) /\ IsRouter(rt[p]) /\ toss \in Seq(Coming)
  BY RouterTyped DEF WayInv
<1>3. PICK r : rt' = [rt EXCEPT ![p] = r] /\ Directed(r)
  <2>1. CASE rt[p].left = 0 \/ rt[p].err \/ toss = <<>>
    <3> DEFINE r == [rt[p] EXCEPT !.pc = "close"]
    <3>1. rt' = [rt EXCEPT ![p] = r]
      BY <2>1 DEF RouteNext, Set
    <3>2. r.ent = rt[p].ent /\ r.pc = "close"
      BY <1>2 DEF IsRouter
    <3> QED  BY <1>2, <3>1, <3>2 DEF Directed
  <2>2. CASE ~(rt[p].left = 0 \/ rt[p].err \/ toss = <<>>)
    <3> DEFINE r == [rt[p] EXCEPT !.pc = "open", !.cur = toss[1], !.left = @ - 1]
    <3>1. rt' = [rt EXCEPT ![p] = r]
      BY <2>2 DEF RouteNext, Set
    <3>2. toss[1] \in Coming
      BY <1>2, <2>2
    <3>3. r.ent = rt[p].ent /\ r.pc = "open" /\ r.cur = toss[1]
      BY <1>2 DEF IsRouter
    <3> HIDE DEF r
    <3> QED  BY <1>2, <3>1, <3>2, <3>3 DEF Directed
  <2> QED  BY <2>1, <2>2
<1>4. /\ toss' \in Seq(Coming) /\ route' \in Seq(Settled)
      /\ \A k \in DOMAIN outb' : \A m \in Elems(outb'[k]) : Meant(m, k)
  BY <1>1 DEF WayInv
<1> QED  BY <1>1, <1>3, <1>4, WayMoves

\* The packet is moved as it is.
LEMMA MoveSettles ==
  ASSUME IInv, WayInv, NEW p \in Caller, rt[p].cur \in Parcels, NEW d \in Ways, Here(p) # {},
         \A m \in Elems(rt[p].cur.msgs) : Meant(m, [to |-> rt[p].cur.to, flav |-> d.flav]),
         Drop(p, <<Packet(d, rt[p].cur.to, rt[p].cur.msgs)>>)
  PROVE  toss' \in Seq(Coming) /\ route' \in Seq(Settled)
<1> DEFINE f == rt[p].cur
           x == Packet(d, f.to, f.msgs)
           y == [to |-> f.to, flav |-> d.flav]
<1>1. x \in Parcels /\ x.msgs = f.msgs /\ x.to = y.to /\ x.flav = y.flav
  BY DEF Packet, Parcels, Ways
<1>2. \A m \in Elems(f.msgs) : Meant(m, y)
  OBVIOUS
<1>3. Drop(p, <<x>>)
  OBVIOUS
<1> HIDE DEF x, y, f
<1>4. x \in Settled
  BY <1>1, <1>2, AlikeIs DEF Settled
<1>5. <<x>> \in Seq(Settled)
  BY <1>4
<1> QED  BY <1>3, <1>5, DropSettles

LEMMA RouteOpenWay ==
  ASSUME IInv, WayInv, NEW p \in Caller, RouteOpen(p)
  PROVE  WayInv'
<1>1. /\ Directed(rt[p]) /\ IsRouter(rt[p]) /\ Given /\ CallerAt(p) /\ "repack" \in Caller
      /\ "runinc" \in Caller
  BY RouterTyped DEF WayInv, IInv, Caller
<1>2. UNCHANGED given /\ UNCHANGED outb /\ rt[p].pc = "open"
  BY DEF RouteOpen
<1> DEFINE f == rt[p].cur
           d == Way(f)
<1>3. f \in Coming /\ f \in Parcels /\ d \in Ways
  BY <1>1, <1>2, SoundNow DEF Directed, CallerAt
<1> HIDE DEF d
<1>4. PICK r : /\ rt' = [rt EXCEPT ![p] = r] /\ Directed(r)
               /\ toss' \in Seq(Coming) /\ route' \in Seq(Settled)
  <2>1. CASE Here(p) = {}
    <3> DEFINE r == [rt[p] EXCEPT !.pc = "next", !.err = TRUE]
    <3>1. rt' = [rt EXCEPT ![p] = r] /\ UNCHANGED <<toss, route>>
      BY <2>1 DEF RouteOpen, Set
    <3>2. r.ent = rt[p].ent /\ r.pc = "next"
      BY <1>1 DEF IsRouter
    <3> HIDE DEF r
    <3>3. Directed(r)
      BY <1>1, <3>2 DEF Directed
    <3> QED  BY <1>2, <3>1, <3>3, WayThere
  <2>2. CASE Here(p) # {} /\ d.move
    <3> DEFINE r == [rt[p] EXCEPT !.pc = "next"]
    <3>1. rt' = [rt EXCEPT ![p] = r] /\ Drop(p, <<Packet(d, f.to, f.msgs)>>)
      BY <2>2 DEF RouteOpen, Set, d
    <3>2. r.ent = rt[p].ent /\ r.pc = "next"
      BY <1>1 DEF IsRouter
    <3> HIDE DEF r
    <3>3. \A m \in Elems(f.msgs) : Meant(m, [to |-> f.to, flav |-> d.flav])
      BY <1>1, <1>3, <2>2, MayGo DEF d
    <3>4. toss' \in Seq(Coming) /\ route' \in Seq(Settled)
      BY <1>3, <2>2, <3>1, <3>3, MoveSettles
    <3>5. Directed(r)
      BY <1>1, <3>2 DEF Directed
    <3> QED  BY <3>1, <3>4, <3>5
  <2>3. CASE Here(p) # {} /\ ~d.move
    <3> DEFINE known == {i \in DOMAIN rt[p].ent : Same(rt[p].ent[i], d)}
               new == [grade |-> d.grade, type |-> d.type, flav |-> d.flav, to |-> d.to,
                       msgs |-> <<>>, open |-> TRUE]
               old == rt[p].ent
               ents == IF known = {} THEN Append(old, new) ELSE old
               r == [rt[p] EXCEPT !.pc = "copy", !.pos = 1, !.d = d,
                       !.ent = IF known = {} THEN Append(@, new) ELSE @]
    <3>1. rt' = [rt EXCEPT ![p] = r] /\ UNCHANGED <<toss, route>>
      BY <2>3 DEF RouteOpen, Set, d
    <3>2. new \in Written
      <4>1. new \in Entries /\ Elems(new.msgs) = {}
        BY <1>3 DEF Entries, Ways, Elems
      <4> QED  BY <4>1 DEF Written
    <3>3. old \in Seq(Written)
      BY <1>1 DEF Directed
    <3>4. r.ent = ents /\ r.pc = "copy" /\ r.d = d /\ r.cur = f
      BY <1>1 DEF IsRouter
    <3> HIDE DEF known, new, old
    <3>5. ents \in Seq(Written)
      BY <3>2, <3>3
    <3> HIDE DEF ents, r
    <3>6. Directed(r)
      BY <1>3, <2>3, <3>4, <3>5 DEF Directed, d
    <3> QED  BY <1>2, <3>1, <3>6, WayThere
  <2> QED  BY <2>1, <2>2, <2>3
<1>5. config.repack \/ p = "runinc"
  BY <1>1, <1>2 DEF WayInv, Caller
<1> QED  BY <1>2, <1>4, <1>5, WayThere, WayMoves

LEMMA CopyWay ==
  ASSUME IInv, WayInv, NEW p \in Caller, Copy(p)
  PROVE  WayInv'
<1>1. /\ Directed(rt[p]) /\ IsRouter(rt[p]) /\ Given /\ CallerAt(p)
  BY RouterTyped DEF WayInv, IInv
<1>2. UNCHANGED given /\ UNCHANGED <<toss, route, outb>> /\ rt[p].pc = "copy"
  BY DEF Copy, spool
<1> DEFINE f == rt[p].cur
           e == Entry(p)
           m == This(p)
           s == rt[p].ent
           d == rt[p].d
<1>3. /\ f \in Coming /\ f \in Parcels /\ d = Way(f) /\ ~d.move /\ s \in Seq(Written)
      /\ rt[p].pos \in 1 .. Len(f.msgs)
  BY <1>1, <1>2 DEF Directed, Copy, CallerAt, IsRouter
<1>4. e \in DOMAIN s /\ Same(s[e], d)
  BY <1>1, <1>2, EntryIs
<1>5. m \in Elems(f.msgs) /\ m \in Numbers
  <2>1. f.msgs \in Seq(Numbers)
    BY <1>3 DEF Parcels
  <2> QED  BY <1>3, <2>1 DEF This, Elems
<1>6. Meant(m, d)
  <2>1. ~(config.msg[m].direct /\ d.to # f.to)
    BY DEF Copy, Direct
  <2> QED  BY <1>1, <1>3, <1>5, <2>1, MayGo
<1> HIDE DEF e, m
<1>7. PICK written \in BOOLEAN, ok \in BOOLEAN :
        rt' = [rt EXCEPT ![p] = [rt[p] EXCEPT
              !.pos = @ + 1,
              !.pc = IF ok THEN "copy" ELSE "next",
              !.err = ~ok,
              !.ent[e].msgs = IF written THEN Append(@, m) ELSE @]]
  BY DEF Copy, Set, e, m
<1> DEFINE ms == IF written THEN Append(s[e].msgs, m) ELSE s[e].msgs
           x == [s[e] EXCEPT !.msgs = ms]
           t == [s EXCEPT ![e] = x]
           r == [rt[p] EXCEPT !.pos = @ + 1, !.pc = IF ok THEN "copy" ELSE "next",
                   !.err = ~ok, !.ent[e].msgs = IF written THEN Append(@, m) ELSE @]
<1>8. s[e] \in Written /\ s[e] \in Entries
  BY <1>3, <1>4 DEF Written
<1>9. ms \in Seq(Numbers) /\ Elems(ms) \subseteq Elems(s[e].msgs) \cup {m}
  <2> DEFINE a == s[e].msgs
  <2>1. a \in Seq(Numbers)
    BY <1>8 DEF Entries
  <2> HIDE DEF a
  <2>2. Append(a, m) \in Seq(Numbers) /\ Elems(Append(a, m)) \subseteq Elems(a) \cup {m}
    BY <1>5, <2>1 DEF Elems
  <2> QED  BY <2>1, <2>2 DEF a
<1> HIDE DEF ms
<1>10. x \in Entries /\ x.msgs = ms /\ x.to = s[e].to /\ x.flav = s[e].flav
  BY <1>8, <1>9 DEF Entries
<1>11. r.pc = (IF ok THEN "copy" ELSE "next") /\ r.ent = t /\ r.cur = f /\ r.d = d
  BY <1>1 DEF IsRouter, ms
<1> HIDE DEF x
<1>12. x \in Written
  <2>1. \A n \in Elems(s[e].msgs) : Meant(n, s[e])
    BY <1>8 DEF Written
  <2>2. Meant(m, s[e])
    <3>1. s[e].to = d.to /\ s[e].flav = d.flav
      BY <1>4 DEF Same
    <3> QED  BY <1>6, <3>1, AlikeIs
  <2>3. \A n \in Elems(ms) : Meant(n, s[e])
    BY <1>9, <2>1, <2>2
  <2> QED  BY <1>10, <2>3, AlikeIs DEF Written
<1>13. t \in Seq(Written)
  BY <1>3, <1>4, <1>12
<1>14. rt' = [rt EXCEPT ![p] = r]
  BY <1>7
<1> HIDE DEF t, r
<1>15. Directed(r)
  BY <1>3, <1>11, <1>13 DEF Directed
<1>16. config.repack \/ p = "runinc"
  BY <1>1, <1>2 DEF WayInv, Caller
<1> QED  BY <1>2, <1>14, <1>15, <1>16, WayThere, WayMoves

\* ftnroute closes an output packet, or writes to none.
LEMMA ClosedWritten ==
  ASSUME NEW s \in Seq(Written), NEW e \in DOMAIN s
  PROVE  [s EXCEPT ![e].open = FALSE] \in Seq(Written)
<1> DEFINE x == [s[e] EXCEPT !.open = FALSE]
<1>1. s[e] \in Written /\ s[e] \in Entries
  BY DEF Written
<1>2. x \in Entries /\ x.msgs = s[e].msgs /\ x.to = s[e].to /\ x.flav = s[e].flav
  BY <1>1 DEF Entries
<1> HIDE DEF x
<1>3. x \in Written
  BY <1>1, <1>2, AlikeIs DEF Written
<1>4. [s EXCEPT ![e] = x] \in Seq(Written)
  BY <1>3
<1> QED  BY <1>4 DEF x

LEMMA CopyDirectWay ==
  ASSUME IInv, WayInv, NEW p \in Caller, CopyDirect(p)
  PROVE  WayInv'
<1>1. /\ Directed(rt[p]) /\ IsRouter(rt[p]) /\ Given /\ CallerAt(p)
  BY RouterTyped DEF WayInv, IInv
<1>2. UNCHANGED given /\ UNCHANGED outb /\ rt[p].pc = "copy"
  BY DEF CopyDirect
<1> DEFINE f == rt[p].cur
           d == rt[p].d
           e == Entry(p)
           s == rt[p].ent
           t == [s EXCEPT ![e].open = FALSE]
<1>3. /\ f \in Coming /\ f \in Parcels /\ d = Way(f) /\ ~d.move /\ d \in Ways
      /\ rt[p].pos \in 1 .. Len(f.msgs) /\ s \in Seq(Written) /\ e \in DOMAIN s
  BY <1>1, <1>2, EntryIs DEF Directed, CopyDirect, CallerAt, IsRouter
<1>4. t \in Seq(Written)
  <2> HIDE DEF e, s
  <2> QED  BY <1>3, ClosedWritten
<1>5. \A m \in Elems(f.msgs) : Meant(m, [to |-> f.to, flav |-> d.flav])
  <2>1. d.to # f.to /\ \E n \in Numbers : config.msg[n].direct
    <3>1. f.msgs \in Seq(Numbers)
      BY <1>3 DEF Parcels
    <3> QED  BY <1>3, <3>1 DEF CopyDirect, Direct, This
  <2> QED  BY <1>1, <1>3, <2>1, MayGo
<1> HIDE DEF e
<1>6. PICK r : /\ rt' = [rt EXCEPT ![p] = r] /\ Directed(r)
               /\ toss' \in Seq(Coming) /\ route' \in Seq(Settled)
  <2>1. CASE Here(p) = {}
    <3> DEFINE r == [rt[p] EXCEPT !.pc = "next", !.err = TRUE, !.ent[e].open = FALSE]
    <3>1. rt' = [rt EXCEPT ![p] = r] /\ UNCHANGED <<toss, route>>
      BY <2>1 DEF CopyDirect, Set, e
    <3>2. r.ent = t /\ r.pc = "next"
      BY <1>1 DEF IsRouter
    <3> HIDE DEF r, t
    <3> QED  BY <1>2, <1>4, <3>1, <3>2, WayThere DEF Directed
  <2>2. CASE Here(p) # {}
    <3> DEFINE r == [rt[p] EXCEPT !.pc = "next", !.ent[e].open = FALSE]
    <3>1. rt' = [rt EXCEPT ![p] = r] /\ Drop(p, <<Packet(d, f.to, f.msgs)>>)
      BY <2>2 DEF CopyDirect, Set, e
    <3>2. r.ent = t /\ r.pc = "next"
      BY <1>1 DEF IsRouter
    <3> HIDE DEF r, t
    <3>3. toss' \in Seq(Coming) /\ route' \in Seq(Settled)
      BY <1>3, <1>5, <2>2, <3>1, MoveSettles
    <3>4. Directed(r)
      BY <1>4, <3>2 DEF Directed
    <3> QED  BY <3>1, <3>3, <3>4
  <2> QED  BY <2>1, <2>2
<1>7. config.repack \/ p = "runinc"
  BY <1>1, <1>2 DEF WayInv, Caller
<1> QED  BY <1>2, <1>6, <1>7, WayThere, WayMoves

LEMMA CopyEndWay ==
  ASSUME IInv, WayInv, NEW p \in Caller, CopyEnd(p)
  PROVE  WayInv'
<1>1. /\ Directed(rt[p]) /\ IsRouter(rt[p])
  BY RouterTyped DEF WayInv
<1>2. UNCHANGED given /\ UNCHANGED outb /\ rt[p].pc = "copy"
  BY DEF CopyEnd
<1>3. PICK r : /\ rt' = [rt EXCEPT ![p] = r] /\ Directed(r)
               /\ toss' \in Seq(Coming) /\ route' \in Seq(Settled)
  <2>1. CASE Here(p) = {}
    <3> DEFINE r == [rt[p] EXCEPT !.pc = "next", !.err = TRUE]
    <3>1. rt' = [rt EXCEPT ![p] = r] /\ UNCHANGED <<toss, route>>
      BY <2>1 DEF CopyEnd, Set
    <3>2. r.ent = rt[p].ent /\ r.pc = "next"
      BY <1>1 DEF IsRouter
    <3> HIDE DEF r
    <3> QED  BY <1>1, <1>2, <3>1, <3>2, WayThere DEF Directed
  <2>2. CASE Here(p) # {}
    <3> DEFINE r == [rt[p] EXCEPT !.pc = "next"]
    <3>1. rt' = [rt EXCEPT ![p] = r] /\ Drop(p, <<>>)
      BY <2>2 DEF CopyEnd, Set
    <3>2. r.ent = rt[p].ent /\ r.pc = "next"
      BY <1>1 DEF IsRouter
    <3> HIDE DEF r
    <3>3. <<>> \in Seq(Settled)
      OBVIOUS
    <3>4. toss' \in Seq(Coming) /\ route' \in Seq(Settled)
      BY <2>2, <3>1, <3>3, DropSettles
    <3> QED  BY <1>1, <3>1, <3>2, <3>4 DEF Directed
  <2> QED  BY <2>1, <2>2
<1>4. config.repack \/ p = "runinc"
  BY <1>1, <1>2 DEF WayInv, Caller
<1> QED  BY <1>2, <1>3, <1>4, WayThere, WayMoves

LEMMA RouteCloseWay ==
  ASSUME IInv, WayInv, NEW p \in Caller, RouteClose(p)
  PROVE  WayInv'
<1>1. /\ Directed(rt[p]) /\ IsRouter(rt[p]) /\ route \in Seq(Settled)
  BY RouterTyped DEF WayInv
<1>2. UNCHANGED given /\ UNCHANGED <<toss, outb>> /\ rt[p].pc = "close"
  BY DEF RouteClose
<1> DEFINE ents == rt[p].ent
           Out(n) == [i \in 1 .. n |-> Packet(ents[i], ents[i].to, ents[i].msgs)]
<1>3. PICK n \in {Len(ents)} \cup {i - 1 : i \in {j \in DOMAIN ents : ~ents[j].open}} :
        /\ route' = route \o Out(n)
        /\ rt' = [rt EXCEPT ![p] =
                    [rt[p] EXCEPT !.pc = IF n = Len(ents) THEN "done" ELSE "died", !.ent = <<>>]]
  BY DEF RouteClose, Set
<1> DEFINE r == [rt[p] EXCEPT !.pc = IF n = Len(ents) THEN "done" ELSE "died", !.ent = <<>>]
<1>4. ents \in Seq(Written)
  BY <1>1 DEF Directed
<1>5. r.pc \in {"done", "died"} /\ r.ent = <<>>
  BY <1>1 DEF IsRouter
<1>6. rt' = [rt EXCEPT ![p] = r]
  BY <1>3
<1> HIDE DEF r, ents
<1>7. Directed(r)
  <2>1. <<>> \in Seq(Written)
    OBVIOUS
  <2> QED  BY <1>5, <2>1 DEF Directed
<1>8. n \in Nat /\ n <= Len(ents)
  BY <1>4
<1>9. \A i \in 1 .. n : Packet(ents[i], ents[i].to, ents[i].msgs) \in Settled
  <2> SUFFICES ASSUME NEW i \in 1 .. n
               PROVE  Packet(ents[i], ents[i].to, ents[i].msgs) \in Settled
    OBVIOUS
  <2> DEFINE y == ents[i]
             x == Packet(y, y.to, y.msgs)
  <2>1. y \in Written
    BY <1>4, <1>8
  <2> HIDE DEF y
  <2>2. x \in Parcels /\ x.msgs = y.msgs /\ x.to = y.to /\ x.flav = y.flav
    BY <2>1 DEF Packet, Parcels, Entries, Written
  <2> HIDE DEF x
  <2>3. x \in Settled
    BY <2>1, <2>2, AlikeIs DEF Settled, Written
  <2> QED  BY <2>3 DEF x, y
<1>10. Out(n) \in Seq(Settled)
  BY <1>8, <1>9
<1> HIDE DEF Out
<1>11. route' \in Seq(Settled)
  <2>1. route \o Out(n) \in Seq(Settled)
    BY <1>1, <1>10, PktsTogether
  <2> QED  BY <1>3, <2>1
<1>12. config.repack \/ p = "runinc"
  BY <1>1, <1>2 DEF WayInv, Caller
<1>13. toss' \in Seq(Coming)
  BY <1>2 DEF WayInv
<1> QED  BY <1>2, <1>6, <1>7, <1>11, <1>12, <1>13, WayThere, WayMoves

LEMMA PackWay ==
  ASSUME IInv, WayInv, NEW p \in Caller, NEW g, Pack(p, g)
  PROVE  WayInv'
<1>1. /\ Given /\ Typed /\ DOMAIN rt = Caller /\ route \in Seq(Settled)
      /\ toss \in Seq(Coming)
      /\ outb \in [[to : config.nodes, flav : Flavors] -> Seq(Numbers)]
  BY DEF IInv, Typed, WayInv
<1>2. UNCHANGED given /\ UNCHANGED <<toss, rt>> /\ rt[p].pc = "pack"
  BY DEF Pack
<1>3. PICK i \in DOMAIN route :
        /\ outb' = [outb EXCEPT ![[to |-> route[i].to, flav |-> route[i].flav]]
                           = @ \o route[i].msgs]
        /\ route' = Without(route, i)
  BY DEF Pack, Packable
<1> DEFINE f == route[i]
           k == [to |-> f.to, flav |-> f.flav]
           old == outb[k]
<1>4. f \in Settled /\ f \in Parcels
  BY <1>1 DEF Settled
<1>5. k \in DOMAIN outb /\ f.msgs \in Seq(Numbers) /\ old \in Seq(Numbers)
  BY <1>1, <1>4 DEF Parcels
<1>6. \A m \in Elems(f.msgs) : Meant(m, k)
  BY <1>4, AlikeIs DEF Settled
<1> HIDE DEF old
<1>7. Elems(old \o f.msgs) = Elems(old) \cup Elems(f.msgs)
  BY <1>5, ElemsTogether
<1>8. \A m \in Elems(old \o f.msgs) : Meant(m, k)
  BY <1>5, <1>6, <1>7 DEF WayInv, old
<1>9. outb'[k] = old \o f.msgs /\ DOMAIN outb' = DOMAIN outb
      /\ \A j \in DOMAIN outb : j # k => outb'[j] = outb[j]
  BY <1>1, <1>3, <1>5 DEF old
<1>10. \A j \in DOMAIN outb' : \A m \in Elems(outb'[j]) : Meant(m, j)
  BY <1>8, <1>9 DEF WayInv
<1>11. route' \in Seq(Settled)
  BY <1>1, <1>3, TakesOut
<1>12. toss' \in Seq(Coming)
  BY <1>1, <1>2
<1> QED  BY <1>2, <1>10, <1>11, <1>12, WayRests

LEMMA RepackWay ==
  ASSUME Routable, IInv, WayInv, Repack
  PROVE  WayInv'
<1> DEFINE p == "repack"
<1>0. p \in Caller
  BY DEF Caller
<1>1. /\ Directed(rt[p]) /\ IsRouter(rt[p]) /\ Given /\ DOMAIN rt = Caller
      /\ route \in Seq(Settled) /\ toss \in Seq(Coming)
      /\ outb \in [[to : config.nodes, flav : Flavors] -> Seq(Numbers)]
  BY <1>0, RouterTyped DEF IInv, Typed, WayInv
<1>2. UNCHANGED given /\ UNCHANGED toss /\ config.repack
  BY DEF Repack, WayInv
<1> HIDE DEF p
<1> DEFINE F(k) == Packet([grade |-> "m", type |-> Netmail, flav |-> "n"], k.to, outb[k])
<1>3. PICK k \in DOMAIN outb :
        /\ outb' = [outb EXCEPT ![k] = <<>>]
        /\ route' = Append(route, F(k))
        /\ rt' = [rt EXCEPT ![p] = [rt[p] EXCEPT !.pc = "open", !.cur = F(k)]]
  BY DEF Repack, Set, p
<1> DEFINE f == F(k)
           r == [rt[p] EXCEPT !.pc = "open", !.cur = f]
           x == [grade |-> "m", to |-> k.to, flav |-> "n"]
<1>4. /\ f \in Parcels /\ f.msgs = outb[k]
      /\ f.to = x.to /\ f.flav = x.flav /\ f.grade = x.grade
  <2>1. k.to \in config.nodes /\ outb[k] \in Seq(Numbers)
    <3>1. k \in [to : config.nodes, flav : Flavors]
      BY <1>1
    <3> QED  BY <1>1, <3>1
  <2>2. "n" \in Flavors /\ "m" \in Grades
    BY DEF Flavors, Grades
  <2> QED  BY <2>1, <2>2 DEF Packet, Parcels
<1>5. r.ent = rt[p].ent /\ r.pc = "open" /\ r.cur = f
  BY <1>1 DEF IsRouter
<1>6. rt' = [rt EXCEPT ![p] = r] /\ route' = Append(route, f)
  BY <1>3
<1> HIDE DEF r, f, F
<1>7. \A m \in Elems(f.msgs) : May(m, f) /\ Meant(m, f)
  <2> SUFFICES ASSUME NEW m \in Elems(f.msgs) PROVE May(m, f) /\ Meant(m, f)
    OBVIOUS
  <2>1. Meant(m, k) /\ m \in Numbers
    <3>1. outb[k] \in Seq(Numbers)
      BY <1>1
    <3> QED  BY <1>4, <3>1 DEF WayInv, Elems
  <2>2. May(m, x) /\ Meant(m, x)
    BY <1>1, <1>2, <2>1, RoutedNow
  <2> QED  BY <1>4, <2>2, AlikeIs
<1>8. f \in Coming /\ f \in Settled
  BY <1>4, <1>7 DEF Coming, Settled
<1>9. Directed(r)
  BY <1>1, <1>5, <1>8 DEF Directed
<1>10. route' \in Seq(Settled) /\ toss' \in Seq(Coming)
  BY <1>1, <1>2, <1>6, <1>8
<1>11. \A j \in DOMAIN outb' : \A m \in Elems(outb'[j]) : Meant(m, j)
  <2>1. DOMAIN outb' = DOMAIN outb /\ \A j \in DOMAIN outb : outb'[j] = outb[j] \/ outb'[j] = <<>>
    BY <1>1, <1>3
  <2>2. Elems(<<>>) = {}
    BY DEF Elems
  <2> QED  BY <2>1, <2>2 DEF WayInv
<1> QED  BY <1>0, <1>2, <1>6, <1>9, <1>10, <1>11, WayMoves

LEMMA RepackEndWay ==
  ASSUME IInv, WayInv, RepackEnd
  PROVE  WayInv'
<1> DEFINE p == "repack"
           r == [rt[p] EXCEPT !.pc = "close"]
<1>1. p \in Caller
  BY DEF Caller
<1>2. UNCHANGED given /\ UNCHANGED <<toss, route, outb>> /\ rt' = [rt EXCEPT ![p] = r]
      /\ config.repack
  BY DEF RepackEnd, spool, Set, WayInv
<1> HIDE DEF p
<1>3. Directed(rt[p]) /\ IsRouter(rt[p])
  BY <1>1, RouterTyped DEF WayInv
<1>4. r.ent = rt[p].ent /\ r.pc = "close"
  BY <1>3 DEF IsRouter
<1> HIDE DEF r
<1>5. Directed(r)
  BY <1>3, <1>4 DEF Directed
<1> QED  BY <1>1, <1>2, <1>5, WayThere, WayMoves

\* A process that is not at a packet, and has none.
LEMMA SetWay ==
  ASSUME IInv, WayInv, UNCHANGED <<given, route, outb>>, NEW p \in Caller, NEW r, Set(p, r),
         r.ent = <<>>, r.pc \notin {"open", "copy"}, toss' \in Seq(Coming),
         r.pc = "idle" \/ config.repack \/ p = "runinc"
  PROVE  WayInv'
<1>1. <<>> \in Seq(Written)
  OBVIOUS
<1>2. Directed(r)
  BY <1>1 DEF Directed
<1> QED  BY <1>2, WayThere, WayMoves DEF Set

\* ftntoss: a message goes into a packet of its key.
LEMMA AddToWay ==
  ASSUME Routable, Given, NEW q \in Seq(Coming), NEW m \in Numbers
  PROVE  AddTo(q, m) \in Seq(Coming)
<1> DEFINE old == {i \in DOMAIN q : Same(q[i], Key(m))}
           x == Packet(Key(m), Key(m).to, <<m>>)
<1>1. CASE Killed(mail[m])
  BY <1>1 DEF AddTo
<1>2. ~Killed(mail[m]) => May(m, Key(m))
  BY RoutedNow
<1>3. CASE ~Killed(mail[m]) /\ old = {}
  <2>1. AddTo(q, m) = Append(q, x)
    BY <1>3 DEF AddTo
  <2>2. x \in Parcels
    <3>1. mail[m].to \in config.nodes /\ Flav(m) \in Flavors
      <4>1. config.msg[m].flav \in Flavors /\ mail[m].to \in config.nodes
        <5>1. \A k \in Numbers : /\ config.msg[k].flav \in Flavors
                                 /\ Killed(mail[k]) \/ mail[k].to \in config.nodes
          BY SoundNow
        <5> QED  BY <1>3, <5>1
      <4> QED  BY <4>1 DEF Flav, Flavors
    <3>2. <<m>> \in Seq(Numbers)
      OBVIOUS
    <3> QED  BY <3>1, <3>2 DEF Key, Packet, Parcels, Grades
  <2>3. /\ x.to = Key(m).to /\ x.flav = Key(m).flav /\ x.grade = Key(m).grade
        /\ Elems(x.msgs) = {m}
    BY DEF Packet, Key, Elems
  <2> HIDE DEF x
  <2>4. x \in Coming
    BY <1>2, <1>3, <2>2, <2>3, AlikeIs DEF Coming
  <2> QED  BY <2>1, <2>4
<1>4. CASE ~Killed(mail[m]) /\ old # {}
  <2> DEFINE e == Least(old)
             ms == Append(q[e].msgs, m)
             y == [q[e] EXCEPT !.msgs = ms]
  <2>1. e \in DOMAIN q /\ Same(q[e], Key(m))
    <3>1. old \in SUBSET Nat
      OBVIOUS
    <3>2. e \in old
      BY <1>4, <3>1, LeastIs
    <3> QED  BY <3>2
  <2>2. AddTo(q, m) = [q EXCEPT ![e] = y]
    BY <1>4 DEF AddTo
  <2> HIDE DEF e
  <2>3. q[e] \in Coming /\ q[e] \in Parcels
    BY <2>1 DEF Coming
  <2>4. ms \in Seq(Numbers) /\ Elems(ms) \subseteq Elems(q[e].msgs) \cup {m}
    <3> DEFINE a == q[e].msgs
    <3>1. a \in Seq(Numbers)
      BY <2>3 DEF Parcels
    <3> HIDE DEF a
    <3>2. Append(a, m) \in Seq(Numbers) /\ Elems(Append(a, m)) \subseteq Elems(a) \cup {m}
      BY <3>1 DEF Elems
    <3> QED  BY <3>2 DEF a
  <2> HIDE DEF ms
  <2>5. /\ y \in Parcels /\ y.msgs = ms /\ y.to = q[e].to /\ y.flav = q[e].flav
        /\ y.grade = q[e].grade
    BY <2>3, <2>4 DEF Parcels
  <2>6. \A n \in Elems(ms) : May(n, q[e])
    <3>1. May(m, q[e])
      <4>1. q[e].to = Key(m).to /\ q[e].flav = Key(m).flav /\ q[e].grade = Key(m).grade
        BY <2>1 DEF Same
      <4> QED  BY <1>2, <1>4, <4>1, AlikeIs
    <3> QED  BY <2>3, <2>4, <3>1 DEF Coming
  <2> HIDE DEF y
  <2>7. y \in Coming
    BY <2>5, <2>6, AlikeIs DEF Coming
  <2> QED  BY <2>1, <2>2, <2>7
<1> QED  BY <1>1, <1>3, <1>4

LEMMA TossedWay ==
  ASSUME Routable, Given, NEW ms \in Seq(Numbers)
  PROVE  Tossed(ms) \in Seq(Coming)
<1> DEFINE n == Len(ms)
           H == [i \in 0 .. n |-> Seq(Coming)]
<1>1. n \in Nat /\ n \in 0 .. n /\ \A i \in 1 .. n : ms[i] \in Numbers
  OBVIOUS
<1>2. PICK Made : /\ Tossed(ms) = Made[n] /\ Made[0] = <<>>
                  /\ \A i \in 1 .. n : Made[i] = AddTo(Made[i - 1], ms[i])
  BY TossedWalk
<1> HIDE DEF n
<1>3. Made[0] \in H[0]
  <2>1. <<>> \in Seq(Coming) /\ 0 \in 0 .. n
    BY <1>1
  <2> QED  BY <1>2, <2>1
<1>4. \A i \in 1 .. n : Made[i - 1] \in H[i - 1] => Made[i] \in H[i]
  <2> SUFFICES ASSUME NEW i \in 1 .. n, Made[i - 1] \in Seq(Coming)
               PROVE  Made[i] \in Seq(Coming)
    BY <1>1
  <2> QED  BY <1>1, <1>2, AddToWay
<1> HIDE DEF H
<1>5. \A i \in 0 .. n : Made[i] \in H[i]
  BY <1>1, <1>3, <1>4, Along
<1> QED  BY <1>1, <1>2, <1>5 DEF H

LEMMA TakeWay ==
  ASSUME Routable, IInv, WayInv, NEW names \in SUBSET DOMAIN Packets, Take(names)
  PROVE  toss' \in Seq(Coming)
<1>1. Given /\ Inbound /\ toss \in Seq(Coming)
  BY DEF IInv, WayInv
<1>2. \A x \in names : Packets[x] \in Seq(Numbers)
  BY <1>1 DEF Packets, Inbound, IsArc
<1>3. Cardinality(names) \in Nat
  <2>1. IsFiniteSet(names)
    <3>1. names \subseteq DOMAIN inb
      BY DEF Packets
    <3> QED  BY <1>1, <3>1, FS_Subset DEF Inbound
  <2> QED  BY <2>1, FS_CardinalityType
<1>4. PICK s \in [1 .. Cardinality(names) -> names] : toss' = toss \o Tossed(AllOf(s))
  BY DEF Take, AllOf
<1>5. s \in Seq(names)
  BY <1>3
<1>6. AllOf(s) \in Seq(Numbers)
  BY <1>2, <1>5, AllOfIs
<1>7. Tossed(AllOf(s)) \in Seq(Coming)
  BY <1>1, <1>6, TossedWay
<1> QED  BY <1>1, <1>4, <1>7, PktsTogether

LEMMA RunincWay ==
  ASSUME Routable, IInv, WayInv, RunincNext \/ TossFails \/ Kill
  PROVE  WayInv'
<1> DEFINE p == "runinc"
<1>1. p \in Caller /\ Directed(rt[p]) /\ RunincAt /\ CallerAt(p)
  BY DEF Caller, WayInv, IInv, RouterAt
<1>2. toss \in Seq(Coming)
  BY DEF WayInv
<1>3. CASE Start \/ Look \/ Unpacked \/ Unfit \/ UnpackEnd
  <2>1. UNCHANGED <<given, toss, route, outb, rt>>
    BY <1>3 DEF Start, Look, Unpacked, Unfit, UnpackEnd, rvars, spool
  <2> QED  BY <1>2, <2>1, WayThere, WayRests
<1>4. CASE Toss
  <2> DEFINE r == [Idle EXCEPT !.pc = "next", !.left = Len(toss')]
  <2>1. UNCHANGED <<given, route, outb>> /\ Set(p, r)
    BY <1>4 DEF Toss, RouteStart
  <2>2. r.ent = <<>> /\ r.pc = "next"
    BY DEF Idle
  <2>3. toss' \in Seq(Coming)
    BY <1>4, TakeWay DEF Toss
  <2> HIDE DEF r, p
  <2> QED  BY <1>1, <2>1, <2>2, <2>3, SetWay DEF p
<1>5. CASE TossFails
  <2> DEFINE r == [Idle EXCEPT !.pc = "next", !.left = Len(toss')]
  <2>1. UNCHANGED <<given, route, outb>> /\ (Set(p, r) \/ rt' = rt)
    BY <1>5 DEF TossFails, RouteStart
  <2>2. r.ent = <<>> /\ r.pc = "next"
    BY DEF Idle
  <2>3. toss' \in Seq(Coming)
    BY <1>5, TakeWay DEF TossFails
  <2> HIDE DEF r, p
  <2>4. CASE Set(p, r)
    BY <1>1, <2>1, <2>2, <2>3, <2>4, SetWay DEF p
  <2>5. CASE rt' = rt
    BY <2>1, <2>3, <2>5, WayThere, WayRests
  <2> QED  BY <2>1, <2>4, <2>5
<1>6. CASE Routed \/ Packed
  <2> DEFINE r == [Idle EXCEPT !.pc = "pack"]
  <2>1. UNCHANGED <<given, toss, route, outb>> /\ (Set(p, r) \/ Set(p, Idle))
    BY <1>6 DEF Routed, Packed, spool
  <2>2. r.ent = <<>> /\ r.pc = "pack" /\ Idle.ent = <<>> /\ Idle.pc = "idle"
    BY DEF Idle
  <2> HIDE DEF r, p
  <2> QED  BY <1>1, <1>2, <2>1, <2>2, SetWay DEF p
<1>7. CASE Kill
  <2>1. UNCHANGED <<given, toss, route, outb>> /\ Set(p, Idle)
    BY <1>7 DEF Kill, RouteKill
  <2>2. Idle.ent = <<>> /\ Idle.pc = "idle"
    BY DEF Idle
  <2> HIDE DEF p
  <2> QED  BY <1>1, <1>2, <2>1, <2>2, SetWay DEF p
<1>8. CASE RouteStep(p)
  BY <1>1, <1>8, RouteNextWay, RouteOpenWay, CopyWay, CopyDirectWay, CopyEndWay, RouteCloseWay,
     PackWay DEF RouteStep
<1> QED  BY <1>3, <1>4, <1>5, <1>6, <1>7, <1>8 DEF RunincNext

LEMMA BesideWay ==
  ASSUME Routable, IInv, WayInv, RepackNext \/ RepackKill \/ MailerSends \/ MailerBrings
  PROVE  WayInv'
<1> DEFINE p == "repack"
<1>1. p \in Caller /\ Directed(rt[p]) /\ IsRouter(rt[p]) /\ CallerAt(p) /\ toss \in Seq(Coming)
  <2>1. p \in Caller
    BY DEF Caller
  <2> QED  BY <2>1, RouterTyped DEF WayInv
<1>2. CASE RepackStart
  <2> DEFINE r == [Idle EXCEPT !.pc = "next", !.left = 0]
  <2>1. UNCHANGED <<given, toss, route, outb>> /\ Set(p, r) /\ config.repack
    BY <1>2 DEF RepackStart, RouteStart, spool
  <2>2. r.ent = <<>> /\ r.pc = "next"
    BY DEF Idle
  <2> HIDE DEF r, p
  <2> QED  BY <1>1, <2>1, <2>2, SetWay
<1>3. CASE RepackPack
  <2> DEFINE r == [rt[p] EXCEPT !.pc = "pack"]
  <2>1. UNCHANGED <<given, toss, route, outb>> /\ Set(p, r) /\ rt[p].pc = "done"
    BY <1>3 DEF RepackPack, spool
  <2>2. r.ent = <<>> /\ r.pc = "pack" /\ config.repack
    BY <1>1, <2>1 DEF IsRouter, CallerAt, WayInv
  <2> HIDE DEF r, p
  <2> QED  BY <1>1, <2>1, <2>2, SetWay
<1>4. CASE RepackDone \/ RepackKill
  <2>1. UNCHANGED <<given, toss, route, outb>> /\ Set(p, Idle)
    BY <1>4 DEF RepackDone, RepackKill, RouteKill
  <2>2. Idle.ent = <<>> /\ Idle.pc = "idle"
    BY DEF Idle
  <2> HIDE DEF p
  <2> QED  BY <1>1, <2>1, <2>2, SetWay
<1>5. CASE RepackStep
  BY <1>5, RepackWay, RepackEndWay DEF RepackStep
<1>6. CASE RouteStep(p)
  BY <1>1, <1>6, RouteNextWay, RouteOpenWay, CopyWay, CopyDirectWay, CopyEndWay, RouteCloseWay,
     PackWay DEF RouteStep
<1>7. CASE MailerBrings
  <2>1. UNCHANGED <<given, toss, route, outb, rt>>
    BY <1>7 DEF MailerBrings, Arrive, rvars, spool
  <2> QED  BY <1>1, <2>1, WayThere, WayRests
<1>8. CASE MailerSends
  <2>1. PICK k \in DOMAIN outb : Send(k)
    BY <1>8 DEF MailerSends
  <2>2. UNCHANGED <<given, toss, route, rt>> /\ outb' = [outb EXCEPT ![k] = <<>>]
    BY <2>1 DEF Send
  <2>3. \A j \in DOMAIN outb' : \A m \in Elems(outb'[j]) : Meant(m, j)
    <3>1. DOMAIN outb' = DOMAIN outb /\ \A j \in DOMAIN outb : outb'[j] = outb[j] \/ outb'[j] = <<>>
      BY <2>2
    <3>2. Elems(<<>>) = {}
      BY DEF Elems
    <3> QED  BY <3>1, <3>2 DEF WayInv
  <2>4. toss' \in Seq(Coming) /\ route' \in Seq(Settled)
    BY <2>2 DEF WayInv
  <2> QED  BY <2>2, <2>3, <2>4, WayRests
<1> QED  BY <1>2, <1>3, <1>4, <1>5, <1>6, <1>7, <1>8 DEF RepackNext

LEMMA InitWay == Init => WayInv
<1> SUFFICES ASSUME Init PROVE WayInv
  OBVIOUS
<1>1. /\ toss = <<>> /\ route = <<>> /\ \A p \in Caller : rt[p] = Idle
      /\ \A k \in DOMAIN outb : outb[k] = <<>> /\ "repack" \in Caller
  BY DEF Init, Caller
<1>2. <<>> \in Seq(Coming) /\ <<>> \in Seq(Settled) /\ <<>> \in Seq(Written) /\ Elems(<<>>) = {}
  BY DEF Elems
<1>3. Directed(Idle) /\ Idle.pc = "idle"
  BY <1>2 DEF Directed, Idle
<1>4. \A k \in DOMAIN outb : Elems(outb[k]) = {}
  BY <1>1, <1>2
<1>5. toss \in Seq(Coming) /\ route \in Seq(Settled)
  BY <1>2 DEF Init
<1>6. rt["repack"].pc = "idle"
  <2>1. rt["repack"] = Idle
    BY DEF Init, Caller
  <2> QED  BY <1>3, <2>1
<1>7. \A p \in Caller : Directed(rt[p])
  BY <1>1, <1>3
<1> QED  BY <1>4, <1>5, <1>6, <1>7 DEF WayInv

\* However often mail is routed again, packets are moved, programs fail and
\* processes cross: a message waits in the outbound for a node and flavor that
\* the ROUTING file leads its packet to (toss/ftnroute.c, toss/ftnpack.c).
THEOREM WayKeptHolds ==
  ASSUME \A i \in DOMAIN Configs : WaysAreRouted(Configs[i])
  PROVE  Spec => []WayKept
<1> USE DEF Routable
<1>1. Init => IInv /\ WayInv
  BY InitIInv, InitWay
<1>2. IInv /\ WayInv /\ [Next]_vars => (IInv /\ WayInv)'
  <2> SUFFICES ASSUME IInv, WayInv, [Next]_vars PROVE WayInv'
    BY StepIInv
  <2>1. Routable
    OBVIOUS
  <2> HIDE DEF Routable
  <2>2. CASE UNCHANGED vars
    BY <2>2, WayThere, WayRests DEF vars, rvars, spool
  <2>3. CASE Next
    BY <2>1, <2>3, RunincWay, BesideWay DEF Next
  <2> QED  BY <2>2, <2>3
<1>3. IInv /\ WayInv => WayKept
  <2> SUFFICES ASSUME IInv, WayInv, NEW k \in DOMAIN outb, NEW m \in Elems(outb[k])
               PROVE  k \in config.way[m]
    BY DEF WayKept
  <2>1. k \in [to : config.nodes, flav : Flavors]
    BY DEF IInv, Typed
  <2>2. k = [to |-> k.to, flav |-> k.flav]
    BY <2>1
  <2> QED  BY <2>2 DEF WayInv, Meant
<1> QED  BY <1>1, <1>2, <1>3, PTL DEF Spec

-----------------------------------------------------------------------------
\* What is in a list, or in several lists together, only once, but for what is
\* in c.

OnceIn(q, c) == \A g, h \in DOMAIN q : q[g] = q[h] => g = h \/ q[g] \in c
Once(b, c) ==
  /\ \A i \in DOMAIN b : OnceIn(b[i], c)
  /\ \A i, k \in DOMAIN b : i # k => Elems(b[i]) \cap Elems(b[k]) \subseteq c
PktsOnce(s, c) ==
  /\ \A i \in DOMAIN s : OnceIn(s[i].msgs, c)
  /\ \A i, k \in DOMAIN s : i # k => Elems(s[i].msgs) \cap Elems(s[k].msgs) \subseteq c

LEMMA OnceMore ==
  ASSUME NEW c, NEW e, c \subseteq e
  PROVE  /\ \A q : OnceIn(q, c) => OnceIn(q, e)
         /\ \A b : Once(b, c) => Once(b, e)
         /\ \A s : PktsOnce(s, c) => PktsOnce(s, e)
<1>1. \A q : OnceIn(q, c) => OnceIn(q, e)
  BY DEF OnceIn
<1>2. \A b : Once(b, c) => Once(b, e)
  BY <1>1 DEF Once
<1>3. \A s : PktsOnce(s, c) => PktsOnce(s, e)
  BY <1>1 DEF PktsOnce
<1> QED  BY <1>1, <1>2, <1>3

LEMMA NothingOnce ==
  ASSUME NEW c
  PROVE  OnceIn(<<>>, c) /\ Elems(<<>>) = {} /\ PktsOnce(<<>>, c) /\ Once(<<>>, c)
BY DEF OnceIn, Elems, PktsOnce, Once

LEMMA AppendOnce ==
  ASSUME NEW S, NEW q \in Seq(S), NEW m \in S, NEW c, OnceIn(q, c), m \in c \/ m \notin Elems(q)
  PROVE  /\ Append(q, m) \in Seq(S) /\ OnceIn(Append(q, m), c)
         /\ Elems(Append(q, m)) = Elems(q) \cup {m}
<1> DEFINE t == Append(q, m)
           n == Len(q)
<1>1. /\ t \in Seq(S) /\ n \in Nat /\ DOMAIN q = 1 .. n /\ DOMAIN t = 1 .. n + 1
      /\ t[n + 1] = m /\ \A i \in 1 .. n : t[i] = q[i]
  OBVIOUS
<1> HIDE DEF t, n
<1>2. \A i \in DOMAIN t : i = n + 1 \/ i \in DOMAIN q
  BY <1>1
<1>3. n + 1 \in DOMAIN t /\ \A i \in DOMAIN q : i \in DOMAIN t
  BY <1>1
<1>4. Elems(t) = Elems(q) \cup {m}
  BY <1>1, <1>2, <1>3 DEF Elems
<1>5. \A i \in DOMAIN q : q[i] # m \/ m \in c
  BY DEF Elems
<1>6. OnceIn(t, c)
  BY <1>1, <1>2, <1>3, <1>5 DEF OnceIn
<1> QED  BY <1>1, <1>4, <1>6 DEF t

LEMMA TogetherOnce ==
  ASSUME NEW S, NEW q \in Seq(S), NEW r \in Seq(S), NEW c, OnceIn(q, c), OnceIn(r, c),
         Elems(q) \cap Elems(r) \subseteq c
  PROVE  q \o r \in Seq(S) /\ OnceIn(q \o r, c) /\ Elems(q \o r) = Elems(q) \cup Elems(r)
<1> DEFINE t == q \o r
           n == Len(q)
<1>1. /\ t \in Seq(S) /\ n \in Nat /\ DOMAIN q = 1 .. n /\ DOMAIN t = 1 .. n + Len(r)
      /\ DOMAIN r = 1 .. Len(r) /\ Len(r) \in Nat
      /\ \A i \in 1 .. n : t[i] = q[i]
      /\ \A i \in (n + 1) .. (n + Len(r)) : t[i] = r[i - n]
  OBVIOUS
<1>2. Elems(t) = Elems(q) \cup Elems(r)
  BY ElemsTogether
<1> HIDE DEF t, n
<1>3. \A i \in DOMAIN t : \/ i \in DOMAIN q /\ t[i] = q[i] /\ i <= n
                          \/ i - n \in DOMAIN r /\ t[i] = r[i - n] /\ i > n
  BY <1>1
<1>4. \A i \in DOMAIN q, k \in DOMAIN r : q[i] = r[k] => q[i] \in c
  BY DEF Elems
<1>5. ASSUME NEW g \in DOMAIN t, NEW h \in DOMAIN t, t[g] = t[h], t[g] \notin c
      PROVE  g = h
  <2>1. g \in Int /\ h \in Int /\ n \in Int
    BY <1>1
  <2>2. CASE g <= n /\ h <= n
    <3>1. g \in DOMAIN q /\ h \in DOMAIN q /\ q[g] = q[h] /\ q[g] \notin c
      BY <1>3, <1>5, <2>1, <2>2
    <3> QED  BY <3>1 DEF OnceIn
  <2>3. CASE g > n /\ h > n
    <3>1. /\ g - n \in DOMAIN r /\ h - n \in DOMAIN r /\ r[g - n] = r[h - n]
          /\ r[g - n] \notin c
      BY <1>3, <1>5, <2>1, <2>3
    <3>2. g - n = h - n
      BY <3>1 DEF OnceIn
    <3> QED  BY <2>1, <3>2
  <2>4. ~(g <= n /\ h > n) /\ ~(g > n /\ h <= n)
    BY <1>3, <1>4, <1>5, <2>1
  <2> QED  BY <2>1, <2>2, <2>3, <2>4
<1>6. OnceIn(t, c)
  BY <1>5 DEF OnceIn
<1> QED  BY <1>1, <1>2, <1>6 DEF t

\* Lists of packets.
LEMMA InPktsIs ==
  ASSUME NEW s, NEW i \in DOMAIN s
  PROVE  Elems(s[i].msgs) \subseteq InPkts(s)
BY DEF InPkts

LEMMA PktsTogetherOnce ==
  ASSUME NEW S, NEW s \in Seq(S), NEW t \in Seq(S), NEW c, PktsOnce(s, c), PktsOnce(t, c),
         InPkts(s) \cap InPkts(t) \subseteq c
  PROVE  PktsOnce(s \o t, c)
<1> DEFINE u == s \o t
           n == Len(s)
<1>1. /\ n \in Nat /\ DOMAIN s = 1 .. n /\ DOMAIN u = 1 .. n + Len(t)
      /\ DOMAIN t = 1 .. Len(t) /\ Len(t) \in Nat
      /\ \A i \in 1 .. n : u[i] = s[i]
      /\ \A i \in (n + 1) .. (n + Len(t)) : u[i] = t[i - n]
  OBVIOUS
<1> HIDE DEF u, n
<1>2. \A i \in DOMAIN u : \/ i \in DOMAIN s /\ u[i] = s[i] /\ i <= n
                          \/ i - n \in DOMAIN t /\ u[i] = t[i - n] /\ i > n
  BY <1>1
<1>3. \A i \in DOMAIN u : OnceIn(u[i].msgs, c)
  BY <1>2 DEF PktsOnce
<1>4. \A i \in DOMAIN s, k \in DOMAIN t : Elems(s[i].msgs) \cap Elems(t[k].msgs) \subseteq c
  BY InPktsIs
<1>5. ASSUME NEW g \in DOMAIN u, NEW h \in DOMAIN u, g # h
      PROVE  Elems(u[g].msgs) \cap Elems(u[h].msgs) \subseteq c
  <2>1. g \in Int /\ h \in Int /\ n \in Int
    BY <1>1
  <2>2. CASE g <= n /\ h <= n
    <3>1. g \in DOMAIN s /\ h \in DOMAIN s /\ u[g] = s[g] /\ u[h] = s[h]
      BY <1>2, <2>1, <2>2
    <3> QED  BY <1>5, <3>1 DEF PktsOnce
  <2>3. CASE g > n /\ h > n
    <3>1. /\ g - n \in DOMAIN t /\ h - n \in DOMAIN t /\ u[g] = t[g - n] /\ u[h] = t[h - n]
          /\ g - n # h - n
      BY <1>2, <1>5, <2>1, <2>3
    <3> QED  BY <3>1 DEF PktsOnce
  <2>4. CASE g <= n /\ h > n
    <3>1. g \in DOMAIN s /\ h - n \in DOMAIN t /\ u[g] = s[g] /\ u[h] = t[h - n]
      BY <1>2, <2>1, <2>4
    <3> QED  BY <1>4, <3>1
  <2>5. CASE g > n /\ h <= n
    <3>1. h \in DOMAIN s /\ g - n \in DOMAIN t /\ u[h] = s[h] /\ u[g] = t[g - n]
      BY <1>2, <2>1, <2>5
    <3> QED  BY <1>4, <3>1
  <2> QED  BY <2>1, <2>2, <2>3, <2>4, <2>5
<1>6. PktsOnce(u, c)
  BY <1>3, <1>5 DEF PktsOnce
<1> QED  BY <1>6 DEF u

LEMMA OnePktOnce ==
  ASSUME NEW x, NEW c, OnceIn(x.msgs, c)
  PROVE  PktsOnce(<<x>>, c)
<1>1. DOMAIN <<x>> = {1} /\ <<x>>[1] = x
  OBVIOUS
<1> QED  BY <1>1 DEF PktsOnce

\* A packet taken out of its list leaves nothing of its own behind.
LEMMA WithoutOnce ==
  ASSUME NEW S, NEW s \in Seq(S), NEW i \in DOMAIN s, NEW c, PktsOnce(s, c)
  PROVE  /\ PktsOnce(Without(s, i), c) /\ InPkts(Without(s, i)) \subseteq InPkts(s)
         /\ InPkts(Without(s, i)) \cap Elems(s[i].msgs) \subseteq c
<1>1. i \in 1 .. Len(s) /\ Len(s) \in Nat /\ DOMAIN s = 1 .. Len(s)
  OBVIOUS
<1> DEFINE a == SubSeq(s, 1, i - 1)
           b == SubSeq(s, i + 1, Len(s))
<1>2. /\ a \in Seq(S) /\ Len(a) = i - 1
      /\ \A j \in 1 .. i - 1 : a[j] = s[j]
  BY <1>1, SubSeqProperties
<1>3. /\ b \in Seq(S) /\ Len(b) = Len(s) - i
      /\ \A j \in 1 .. Len(s) - i : b[j] = s[i + j]
  BY <1>1, SubSeqProperties
<1> HIDE DEF a, b
<1>4. Without(s, i) = a \o b
  BY DEF Without, a, b
<1>5. /\ a \o b \in Seq(S) /\ DOMAIN (a \o b) = 1 .. Len(s) - 1
      /\ \A j \in 1 .. i - 1 : (a \o b)[j] = a[j]
      /\ \A j \in i .. Len(s) - 1 : (a \o b)[j] = b[j - (i - 1)]
  <2>1. i \in 1 .. Len(s) /\ Len(s) \in Nat
    BY <1>1
  <2> QED  BY ONLY <2>1, <1>2, <1>3
<1> DEFINE w == Without(s, i)
           At(h) == IF h < i THEN h ELSE h + 1
<1> HIDE DEF w
<1>6. ASSUME NEW h \in DOMAIN w
      PROVE  At(h) \in DOMAIN s /\ At(h) # i /\ w[h] = s[At(h)] /\ h \in Int
  <2>1. h \in 1 .. Len(s) - 1
    BY <1>4, <1>5 DEF w
  <2>2. CASE h < i
    <3>1. h \in 1 .. i - 1 /\ h \in 1 .. Len(s) /\ h # i /\ h \in Int
      BY <1>1, <2>1, <2>2
    <3>2. w[h] = s[h]
      BY <1>2, <1>4, <1>5, <3>1 DEF w
    <3> QED  BY <1>1, <2>2, <3>1, <3>2
  <2>3. CASE ~(h < i)
    <3>1. h \in i .. Len(s) - 1 /\ h - (i - 1) \in 1 .. Len(s) - i /\ i + (h - (i - 1)) = h + 1
      BY <1>1, <2>1, <2>3
    <3>2. w[h] = s[h + 1]
      BY <1>3, <1>4, <1>5, <3>1 DEF w
    <3> QED  BY <1>1, <2>1, <2>3, <3>1, <3>2
  <2> QED  BY <2>2, <2>3
<1>7. ASSUME NEW g \in DOMAIN w, NEW h \in DOMAIN w, g # h PROVE At(g) # At(h)
  BY <1>1, <1>6, <1>7
<1> HIDE DEF At
<1>8. PktsOnce(w, c)
  BY <1>6, <1>7 DEF PktsOnce
<1>9. InPkts(w) \subseteq InPkts(s)
  BY <1>6 DEF InPkts
<1>10. InPkts(w) \cap Elems(s[i].msgs) \subseteq c
  BY <1>6 DEF InPkts, PktsOnce
<1> QED  BY <1>8, <1>9, <1>10 DEF w

\* One packet more, and one packet changed.
LEMMA AppendPktOnce ==
  ASSUME NEW S, NEW s \in Seq(S), NEW x \in S, NEW c, PktsOnce(s, c), OnceIn(x.msgs, c),
         Elems(x.msgs) \cap InPkts(s) \subseteq c
  PROVE  PktsOnce(Append(s, x), c)
<1>1. <<x>> \in Seq(S) /\ Append(s, x) = s \o <<x>>
  OBVIOUS
<1>2. PktsOnce(<<x>>, c) /\ InPkts(<<x>>) = Elems(x.msgs)
  BY OnePktOnce, OnePkt
<1> QED  BY <1>1, <1>2, PktsTogetherOnce

LEMMA ChangedOnce ==
  ASSUME NEW s, NEW e \in DOMAIN s, NEW x, NEW c, PktsOnce(s, c), OnceIn(x.msgs, c),
         NEW X, Elems(x.msgs) \subseteq Elems(s[e].msgs) \cup X, X \cap InPkts(s) \subseteq c
  PROVE  PktsOnce([s EXCEPT ![e] = x], c) /\ InPkts([s EXCEPT ![e] = x]) \subseteq InPkts(s) \cup X
<1> DEFINE t == [s EXCEPT ![e] = x]
<1>1. DOMAIN t = DOMAIN s /\ t[e] = x /\ \A i \in DOMAIN s : i # e => t[i] = s[i]
  OBVIOUS
<1> HIDE DEF t
<1>2. \A i \in DOMAIN t : OnceIn(t[i].msgs, c)
  BY <1>1 DEF PktsOnce
<1>3. \A i \in DOMAIN s : X \cap Elems(s[i].msgs) \subseteq c
  BY InPktsIs
<1>4. \A i, k \in DOMAIN t : i # k => Elems(t[i].msgs) \cap Elems(t[k].msgs) \subseteq c
  <2> SUFFICES ASSUME NEW i \in DOMAIN t, NEW k \in DOMAIN t, i # k
               PROVE  Elems(t[i].msgs) \cap Elems(t[k].msgs) \subseteq c
    OBVIOUS
  <2>1. CASE i # e /\ k # e
    BY <1>1, <2>1 DEF PktsOnce
  <2>2. CASE i = e
    <3>1. k \in DOMAIN s /\ t[k] = s[k] /\ Elems(s[e].msgs) \cap Elems(s[k].msgs) \subseteq c
      BY <1>1, <2>2 DEF PktsOnce
    <3> QED  BY <1>1, <1>3, <2>2, <3>1
  <2>3. CASE k = e
    <3>1. i \in DOMAIN s /\ t[i] = s[i] /\ Elems(s[e].msgs) \cap Elems(s[i].msgs) \subseteq c
      BY <1>1, <2>3 DEF PktsOnce
    <3> QED  BY <1>1, <1>3, <2>3, <3>1
  <2> QED  BY <2>1, <2>2, <2>3
<1>5. InPkts(t) \subseteq InPkts(s) \cup X
  <2>1. \A i \in DOMAIN t : Elems(t[i].msgs) \subseteq InPkts(s) \cup X
    BY <1>1, InPktsIs
  <2> QED  BY <2>1 DEF InPkts
<1> QED  BY <1>2, <1>4, <1>5 DEF PktsOnce, t

-----------------------------------------------------------------------------
\* The places a message can be in, and what each of them holds only once.

Parts(x) == IF x.kind = "pkt" THEN <<x.msgs>> ELSE x.msgs
FilesOnce(F, c) ==
  /\ \A n \in DOMAIN F : Once(Parts(F[n]), c)
  /\ \A n, k \in DOMAIN F : n # k => Inside(F[n]) \cap Inside(F[k]) \subseteq c

\* The files to come; what was unpacked and is not in its archive any more; what
\* ftnroute has written of packets that it is done with.
Unbrought == UNION {Inside(File(f)) : f \in files}
InArcs == UNION {Held(inb[n].msgs) : n \in Archives}
InTmpu == Held(tmpu) \ InArcs
Done(p) ==
  IF rt[p].pc = "copy"
    THEN {rt[p].cur.msgs[i] : i \in {j \in DOMAIN rt[p].cur.msgs : j < rt[p].pos}}
    ELSE {}
InOutput(p) == InEnts(p) \ Done(p)

Places == [files  |-> Unbrought,
           inb    |-> InInb,
           tmpu   |-> InTmpu,
           toss   |-> InPkts(toss),
           runinc |-> InOutput("runinc"),
           repack |-> InOutput("repack"),
           route  |-> InPkts(route),
           outb   |-> InOutb,
           sent   |-> Went]
Apart(Z, c) == \A y, z \in DOMAIN Z : y # z => Z[y] \cap Z[z] \subseteq c

\* What ftnroute has still to copy of its packet is not in its output.
CopyOnce(p) ==
  rt[p].pc \in {"open", "copy"} =>
    /\ OnceIn(rt[p].cur.msgs, cut)
    /\ \A i \in DOMAIN rt[p].cur.msgs :
         rt[p].pc = "open" \/ i >= rt[p].pos =>
           rt[p].cur.msgs[i] \in cut \/ rt[p].cur.msgs[i] \notin InEnts(p)

\* An unpacked packet and the same one in the archive: runinc will unpack that
\* again, over it, or is about to unlink it.
Again ==
  \A n \in Archives, y \in DOMAIN tmpu : \A x \in DOMAIN inb[n].msgs :
    \/ Elems(inb[n].msgs[x]) \cap Elems(tmpu[y]) \subseteq cut
    \/ /\ x = y
       /\ \/ pc = "idle"
          \/ pc \in {"unpack", "unarc"} /\ n \in todo
          \/ pc = "unarc" /\ item = <<n>>

OInv ==
  /\ Apart(Places, cut)
  /\ PktsOnce(toss, cut) /\ PktsOnce(route, cut)
  /\ \A p \in Caller : PktsOnce(rt[p].ent, cut) /\ CopyOnce(p)
  /\ Once(outb, cut) /\ Once(tmpu, cut)
  /\ FilesOnce(inb, cut) /\ FilesOnce([f \in files |-> File(f)], cut)
  /\ \A m \in Msg \ cut : sent[m] <= 1
  /\ Again

\* Messages go from one place to another.
LEMMA Flow ==
  ASSUME NEW H, NEW G, NEW c, NEW e, c \subseteq e, DOMAIN G = DOMAIN H, Apart(H, c),
         NEW src \in DOMAIN H, NEW dst \in DOMAIN H,
         \A w \in DOMAIN H : w # dst => G[w] \subseteq H[w] \cup e,
         G[dst] \subseteq H[dst] \cup (H[src] \ G[src]) \cup e
  PROVE  Apart(G, e)
<1> SUFFICES ASSUME NEW y \in DOMAIN H, NEW z \in DOMAIN H, y # z, z # dst,
                    NEW m \in G[y] \cap G[z], m \notin e
             PROVE  FALSE
  BY DEF Apart
<1>1. m \in H[z]
  OBVIOUS
<1>2. \A v, w \in DOMAIN H : v # w => ~(m \in H[v] /\ m \in H[w])
  BY DEF Apart
<1>3. CASE y # dst
  BY <1>1, <1>2, <1>3
<1>4. CASE y = dst
  <2>1. m \in H[src] /\ m \notin G[src]
    BY <1>1, <1>2, <1>4
  <2>2. z # src
    BY <2>1
  <2> QED  BY <1>1, <1>2, <2>1, <2>2
<1> QED  BY <1>3, <1>4

Zones == {"files", "inb", "tmpu", "toss", "runinc", "repack", "route", "outb", "sent"}

LEMMA ZonesAre == DOMAIN Places = Zones /\ DOMAIN Places' = Zones
BY DEF Places, Zones

LEMMA PlaceIs ==
  /\ Places["files"] = Unbrought /\ Places["inb"] = InInb /\ Places["tmpu"] = InTmpu
  /\ Places["toss"] = InPkts(toss) /\ Places["route"] = InPkts(route)
  /\ Places["runinc"] = InOutput("runinc") /\ Places["repack"] = InOutput("repack")
  /\ \A p \in Caller : p \in Zones /\ Places[p] = InOutput(p)
  /\ Places["outb"] = InOutb /\ Places["sent"] = Went
BY DEF Places, Caller, Zones

LEMMA PlaceThen ==
  /\ Places'["files"] = Unbrought' /\ Places'["inb"] = InInb' /\ Places'["tmpu"] = InTmpu'
  /\ Places'["toss"] = InPkts(toss') /\ Places'["route"] = InPkts(route')
  /\ Places'["runinc"] = InOutput("runinc")' /\ Places'["repack"] = InOutput("repack")'
  /\ \A p \in Caller : p \in Zones /\ Places'[p] = InOutput(p)'
  /\ Places'["outb"] = InOutb' /\ Places'["sent"] = Went'
BY DEF Places, Caller, Zones, InPkts, Elems

LEMMA PlacesGo ==
  ASSUME OInv, cut \subseteq cut', NEW src \in Zones, NEW dst \in Zones,
         \A w \in Zones : w # dst => Places'[w] \subseteq Places[w] \cup cut',
         Places'[dst] \subseteq Places[dst] \cup (Places[src] \ Places'[src]) \cup cut'
  PROVE  Apart(Places', cut')
BY Flow, ZonesAre DEF OInv

\* Two places have nothing in common.
LEMMA Separate ==
  ASSUME OInv, NEW v \in Zones, NEW w \in Zones, v # w
  PROVE  Places[v] \cap Places[w] \subseteq cut
BY ZonesAre DEF OInv, Apart

\* The parts of OInv after a step.
LEMMA OInvThen ==
  ASSUME Apart(Places', cut'), PktsOnce(toss', cut'), PktsOnce(route', cut'),
         \A p \in Caller : PktsOnce(rt'[p].ent, cut') /\ CopyOnce(p)',
         Once(outb', cut'), Once(tmpu', cut'), FilesOnce(inb', cut'),
         FilesOnce([f \in files' |-> File(f)'], cut'),
         \A m \in Msg \ cut' : sent'[m] <= 1, Again'
  PROVE  OInv'
<1>1. /\ PktsOnce(toss, cut)' /\ PktsOnce(route, cut)' /\ Once(outb, cut)' /\ Once(tmpu, cut)'
      /\ \A p \in Caller : PktsOnce(rt[p].ent, cut)'
  BY DEF PktsOnce, Once, OnceIn, Elems
<1>2. Apart(Places, cut)'
  BY DEF Apart
<1>3. FilesOnce(inb, cut)' /\ FilesOnce([f \in files |-> File(f)], cut)'
  BY DEF FilesOnce, Once, OnceIn, Elems, Inside, Parts, Held
<1> QED  BY <1>1, <1>2, <1>3 DEF OInv

LEMMA ElemsThen == \A q : Elems(q)' = Elems(q)
BY DEF Elems

-----------------------------------------------------------------------------
\* What a step leaves alone.

LEMMA FilesMore ==
  ASSUME NEW F, NEW c, NEW e, c \subseteq e, FilesOnce(F, c)
  PROVE  FilesOnce(F, e)
<1>1. \A n \in DOMAIN F : Once(Parts(F[n]), e)
  BY OnceMore DEF FilesOnce
<1> QED  BY <1>1 DEF FilesOnce

LEMMA InboundRests ==
  ASSUME IInv, OInv, UNCHANGED <<given, files, inb, tmpu>>, cut \subseteq cut',
         \/ UNCHANGED <<pc, todo, item>>
         \/ pc \notin {"idle", "unpack", "unarc"}
         \/ pc' = "idle"
  PROVE  /\ Once(tmpu', cut') /\ FilesOnce(inb', cut')
         /\ FilesOnce([f \in files' |-> File(f)'], cut') /\ Again'
         /\ Unbrought' = Unbrought /\ InInb' = InInb /\ InTmpu' = InTmpu
<1>1. \A f : File(f)' = File(f)
  BY GivenStays DEF IInv
<1>2. FilesOnce([f \in files' |-> File(f)'], cut')
  <2>1. [f \in files' |-> File(f)'] = [f \in files |-> File(f)]
    BY <1>1
  <2> QED  BY <2>1, FilesMore DEF OInv
<1>3. Once(tmpu', cut') /\ FilesOnce(inb', cut')
  BY OnceMore, FilesMore DEF OInv
<1>4. Unbrought' = Unbrought
  BY <1>1 DEF Unbrought, Inside, Held, Elems
<1>5. InInb' = InInb /\ InTmpu' = InTmpu /\ Archives' = Archives
  BY DEF InInb, InTmpu, InArcs, Held, Elems, Packets, Archives
<1>6. Again'
  <2> SUFFICES ASSUME NEW n \in Archives, NEW y \in DOMAIN tmpu, NEW x \in DOMAIN inb[n].msgs
               PROVE  \/ Elems(inb[n].msgs[x]) \cap Elems(tmpu[y]) \subseteq cut'
                      \/ /\ x = y
                         /\ \/ pc' = "idle"
                            \/ pc' \in {"unpack", "unarc"} /\ n \in todo'
                            \/ pc' = "unarc" /\ item' = <<n>>
    BY <1>5 DEF Again, Elems
  <2>1. \/ Elems(inb[n].msgs[x]) \cap Elems(tmpu[y]) \subseteq cut
        \/ /\ x = y
           /\ \/ pc = "idle"
              \/ pc \in {"unpack", "unarc"} /\ n \in todo
              \/ pc = "unarc" /\ item = <<n>>
    BY DEF OInv, Again
  <2>2. CASE Elems(inb[n].msgs[x]) \cap Elems(tmpu[y]) \subseteq cut
    BY <2>2
  <2>3. \/ UNCHANGED <<pc, todo, item>>
        \/ pc \notin {"idle", "unpack", "unarc"}
        \/ pc' = "idle"
    OBVIOUS
  <2>4. CASE ~(Elems(inb[n].msgs[x]) \cap Elems(tmpu[y]) \subseteq cut)
    BY ONLY <2>1, <2>3, <2>4
  <2> QED  BY <2>2, <2>4
<1> QED  BY <1>2, <1>3, <1>4, <1>5, <1>6

LEMMA OutputRests ==
  ASSUME OInv, NEW q \in Caller, rt'[q] = rt[q], cut \subseteq cut'
  PROVE  InOutput(q)' = InOutput(q) /\ PktsOnce(rt'[q].ent, cut') /\ CopyOnce(q)'
<1>1. InEnts(q)' = InEnts(q) /\ Done(q)' = Done(q)
  BY DEF InEnts, InPkts, Elems, Done
<1>2. PktsOnce(rt'[q].ent, cut')
  BY OnceMore DEF OInv
<1>3. CopyOnce(q)'
  <2>1. CopyOnce(q)
    BY DEF OInv
  <2> QED  BY <1>1, <2>1 DEF CopyOnce, OnceIn
<1> QED  BY <1>1, <1>2, <1>3 DEF InOutput

\* A step of ftnroute or ftnpack takes messages from one of its places to another.
LEMMA RouterOnce ==
  ASSUME IInv, OInv, UNCHANGED <<given, files, inb, tmpu, sent>>, cut \subseteq cut',
         \/ UNCHANGED <<pc, todo, item>>
         \/ pc \notin {"idle", "unpack", "unarc"}
         \/ pc' = "idle",
         NEW p \in Caller, \A q \in Caller : q # p => rt'[q] = rt[q],
         PktsOnce(toss', cut'), PktsOnce(route', cut'), PktsOnce(rt'[p].ent, cut'), CopyOnce(p)',
         Once(outb', cut'),
         NEW src \in {"toss", "route", p, "outb"}, NEW dst \in {"toss", "route", p, "outb"},
         \A w \in {"toss", "route", p, "outb"} : w # dst => Places'[w] \subseteq Places[w] \cup cut',
         Places'[dst] \subseteq Places[dst] \cup (Places[src] \ Places'[src]) \cup cut'
  PROVE  OInv'
<1>1. /\ Once(tmpu', cut') /\ FilesOnce(inb', cut')
      /\ FilesOnce([f \in files' |-> File(f)'], cut') /\ Again'
      /\ Unbrought' = Unbrought /\ InInb' = InInb /\ InTmpu' = InTmpu
  BY InboundRests
<1>2. \A q \in Caller : q # p => /\ InOutput(q)' = InOutput(q) /\ PktsOnce(rt'[q].ent, cut')
                                 /\ CopyOnce(q)'
  BY OutputRests
<1>3. Went' = Went /\ \A m \in Msg \ cut' : sent'[m] <= 1
  BY DEF Went, OInv
<1>4. \A w \in Zones : w \notin {"toss", "route", p, "outb"} => Places'[w] = Places[w]
  BY <1>1, <1>2, <1>3, PlaceIs, PlaceThen DEF Zones, Caller
<1>5. Apart(Places', cut')
  <2>1. src \in Zones /\ dst \in Zones
    BY DEF Zones, Caller
  <2>2. \A w \in Zones : w # dst => Places'[w] \subseteq Places[w] \cup cut'
    BY <1>4
  <2> QED  BY <2>1, <2>2, PlacesGo
<1> QED  BY <1>1, <1>2, <1>3, <1>5, OInvThen

\* The packet ftnroute is at is taken out of its directory, for another of it.
LEMMA DropOnce ==
  ASSUME IInv, OInv, NEW p \in Caller, NEW add \in Seq(Parcels), Here(p) # {}, Drop(p, add),
         cut \subseteq cut', InPkts(add) \subseteq Elems(rt[p].cur.msgs), PktsOnce(add, cut)
  PROVE  LET src == IF p = "runinc" THEN "toss" ELSE "route" IN
         /\ PktsOnce(toss', cut') /\ PktsOnce(route', cut')
         /\ InPkts(toss') \subseteq InPkts(toss)
         /\ InPkts(route') \subseteq InPkts(route) \cup InPkts(add)
         /\ InPkts(add) \subseteq Places[src]
         /\ Elems(rt[p].cur.msgs) \subseteq Places[src]
         /\ p = "runinc" => Elems(rt[p].cur.msgs) \cap InPkts(toss') \subseteq cut
         /\ p = "repack" => Elems(rt[p].cur.msgs) \cap InPkts(route') \subseteq cut \cup InPkts(add)
<1> DEFINE i == Least(Here(p))
           s == Source(p)
           src == IF p = "runinc" THEN "toss" ELSE "route"
<1>1. toss \in Seq(Parcels) /\ route \in Seq(Parcels) /\ s \in Seq(Parcels)
      /\ PktsOnce(toss, cut) /\ PktsOnce(route, cut) /\ PktsOnce(s, cut)
      /\ InPkts(toss) \cap InPkts(route) \subseteq cut
  <2>1. toss \in Seq(Parcels) /\ route \in Seq(Parcels) /\ s \in Seq(Parcels)
    BY DEF IInv, Typed, Source
  <2>2. PktsOnce(toss, cut) /\ PktsOnce(route, cut) /\ PktsOnce(s, cut)
    BY DEF OInv, Source
  <2>3. InPkts(toss) \cap InPkts(route) \subseteq cut
    BY Separate, PlaceIs DEF Zones
  <2> QED  BY <2>1, <2>2, <2>3
<1>2. i \in DOMAIN s /\ s[i] = rt[p].cur
  <2>1. Here(p) \in SUBSET Nat
    BY <1>1 DEF Here
  <2>2. Least(Here(p)) \in Here(p)
    BY <2>1, LeastIs
  <2> QED  BY <2>2 DEF Here
<1> DEFINE rest == Without(s, i)
<1>3. /\ rest \in Seq(Parcels) /\ PktsOnce(rest, cut) /\ InPkts(rest) \subseteq InPkts(s)
      /\ InPkts(rest) \cap Elems(rt[p].cur.msgs) \subseteq cut
  BY <1>1, <1>2, TakesOut, WithoutOnce
<1>4. Elems(rt[p].cur.msgs) \subseteq InPkts(s)
  BY <1>2, InPktsIs
<1>5. IF p = "runinc" THEN toss' = rest /\ route' = route \o add
                      ELSE toss' = toss /\ route' = rest \o add
  BY DEF Drop
<1>6. InPkts(s) = Places[src]
  BY PlaceIs DEF Source
<1> HIDE DEF i, rest
<1>7. CASE p = "runinc"
  <2>1. s = toss
    BY <1>7 DEF Source
  <2>2. /\ PktsOnce(route \o add, cut) /\ InPkts(route \o add) = InPkts(route) \cup InPkts(add)
    BY <1>1, <1>4, <2>1, PktsTogetherOnce, PktsTogether
  <2>3. PktsOnce(toss', cut') /\ PktsOnce(route', cut')
    BY <1>3, <1>5, <1>7, <2>2, OnceMore
  <2> HIDE DEF s
  <2> QED  BY <1>3, <1>4, <1>5, <1>6, <1>7, <2>1, <2>2, <2>3
<1>8. CASE p # "runinc"
  <2>1. s = route
    BY <1>8 DEF Source
  <2>2. /\ PktsOnce(rest \o add, cut) /\ InPkts(rest \o add) = InPkts(rest) \cup InPkts(add)
    BY <1>1, <1>3, PktsTogetherOnce, PktsTogether
  <2>3. PktsOnce(toss', cut') /\ PktsOnce(route', cut')
    BY <1>1, <1>5, <1>8, <2>2, OnceMore
  <2> HIDE DEF s
  <2> QED  BY <1>3, <1>4, <1>5, <1>6, <1>8, <2>1, <2>2, <2>3
<1> QED  BY <1>7, <1>8

-----------------------------------------------------------------------------
\* ftnroute.

LEMMA OutputIs ==
  ASSUME IInv, NEW p \in Caller, NEW r, rt' = [rt EXCEPT ![p] = r]
  PROVE  /\ rt'[p] = r /\ \A q \in Caller : q # p => rt'[q] = rt[q]
         /\ InEnts(p)' = InPkts(r.ent)
         /\ r.pc # "copy" => InOutput(p)' = InPkts(r.ent)
         /\ r.pc \notin {"open", "copy"} => CopyOnce(p)'
<1>1. rt'[p] = r /\ \A q \in Caller : q # p => rt'[q] = rt[q]
  BY RouterTyped
<1>2. InEnts(p)' = InPkts(rt'[p].ent)
  BY DEF InEnts, InPkts, Elems
<1>3. r.pc # "copy" => Done(p)' = {}
  BY <1>1 DEF Done
<1> QED  BY <1>1, <1>2, <1>3 DEF InOutput, CopyOnce

\* What it has copied of the packet it is at.
LEMMA DoneIs ==
  ASSUME NEW p \in Caller
  PROVE  /\ Done(p) \subseteq Elems(rt[p].cur.msgs) /\ InEnts(p) \subseteq InOutput(p) \cup Done(p)
         /\ rt[p].pc # "copy" => Done(p) = {} /\ InOutput(p) = InEnts(p)
BY DEF Done, InOutput, Elems

\* No packet goes from one directory to another.
LEMMA StaysOnce ==
  ASSUME IInv, OInv, UNCHANGED <<given, files, ivars, sent, own, toss, route, outb>>,
         cut \subseteq cut', NEW p \in Caller, \A q \in Caller : q # p => rt'[q] = rt[q],
         PktsOnce(rt'[p].ent, cut'), CopyOnce(p)', InOutput(p)' \subseteq InOutput(p) \cup cut'
  PROVE  OInv'
<1>1. PktsOnce(toss', cut') /\ PktsOnce(route', cut') /\ Once(outb', cut')
  BY OnceMore DEF OInv
<1>2. InOutb' = InOutb
  BY DEF InOutb, Elems
<1>3. \A w \in {"toss", "route", p, "outb"} : Places'[w] \subseteq Places[w] \cup cut'
  BY <1>2, PlaceIs, PlaceThen
<1> QED  BY <1>1, <1>3, RouterOnce DEF ivars, own

\* ftnroute leaves its packet where it is, or moves it as it is.
LEMMA LeavesOnce ==
  ASSUME IInv, OInv, UNCHANGED <<given, files, ivars, sent, own, toss, route, outb>>,
         cut \subseteq cut', NEW p \in Caller, NEW r, rt' = [rt EXCEPT ![p] = r],
         r.pc \notin {"open", "copy"}, PktsOnce(r.ent, cut'),
         InPkts(r.ent) \subseteq InOutput(p) \cup cut'
  PROVE  OInv'
<1>1. /\ rt'[p] = r /\ \A q \in Caller : q # p => rt'[q] = rt[q]
      /\ InOutput(p)' = InPkts(r.ent) /\ CopyOnce(p)'
  BY OutputIs
<1> QED  BY <1>1, StaysOnce

LEMMA MovesOnce ==
  ASSUME IInv, OInv, UNCHANGED <<given, files, ivars, sent, own, outb>>,
         cut \subseteq cut', NEW p \in Caller, NEW r, rt' = [rt EXCEPT ![p] = r],
         r.pc \notin {"open", "copy"}, PktsOnce(r.ent, cut'),
         InPkts(r.ent) \subseteq InOutput(p) \cup cut',
         rt[p].pc \in {"open", "copy"}, NEW d \in Ways, Here(p) # {},
         Drop(p, <<Packet(d, rt[p].cur.to, rt[p].cur.msgs)>>)
  PROVE  OInv'
<1> DEFINE f == rt[p].cur
           x == Packet(d, f.to, f.msgs)
           src == IF p = "runinc" THEN "toss" ELSE "route"
<1>1. /\ rt'[p] = r /\ \A q \in Caller : q # p => rt'[q] = rt[q]
      /\ InOutput(p)' = InPkts(r.ent) /\ CopyOnce(p)'
  BY OutputIs
<1>2. f \in Parcels /\ OnceIn(f.msgs, cut)
  BY RouterTyped DEF CallerAt, OInv, CopyOnce
<1>3. x \in Parcels /\ x.msgs = f.msgs
  BY <1>2 DEF Packet, Parcels, Ways
<1> HIDE DEF x
<1>4. <<x>> \in Seq(Parcels) /\ InPkts(<<x>>) = Elems(f.msgs) /\ PktsOnce(<<x>>, cut)
  BY <1>2, <1>3, OnePkt, OnePktOnce
<1>5. Drop(p, <<x>>)
  BY DEF x
<1>6. /\ PktsOnce(toss', cut') /\ PktsOnce(route', cut')
      /\ InPkts(toss') \subseteq InPkts(toss)
      /\ InPkts(route') \subseteq InPkts(route) \cup Elems(f.msgs)
      /\ Elems(f.msgs) \subseteq Places[src]
      /\ p = "runinc" => Elems(f.msgs) \cap InPkts(toss') \subseteq cut
  BY <1>4, <1>5, DropOnce
<1>7. Once(outb', cut') /\ InOutb' = InOutb
  BY OnceMore DEF OInv, InOutb, Elems
<1>8. \A w \in {"toss", "route", p, "outb"} : w # "route" => Places'[w] \subseteq Places[w] \cup cut'
  BY <1>1, <1>6, <1>7, PlaceIs, PlaceThen
<1>9. Places'["route"] \subseteq Places["route"] \cup (Places[src] \ Places'[src]) \cup cut'
  <2>1. CASE p = "runinc"
    BY <1>6, <2>1, PlaceIs, PlaceThen
  <2>2. CASE p # "runinc"
    BY <1>6, <2>2, PlaceIs, PlaceThen
  <2> QED  BY <2>1, <2>2
<1>10. src \in {"toss", "route", p, "outb"} /\ "route" \in {"toss", "route", p, "outb"}
  OBVIOUS
<1> QED  BY <1>1, <1>6, <1>7, <1>8, <1>9, <1>10, RouterOnce DEF ivars, own

\* ftnroute goes to a packet, which is in none of its output packets.
LEMMA OpensOnce ==
  ASSUME IInv, OInv, UNCHANGED <<given, files, ivars, sent, own, toss, cut>>,
         NEW p \in Caller, NEW r, rt' = [rt EXCEPT ![p] = r], rt[p].pc = "next", r.pc = "open",
         r.ent = rt[p].ent, OnceIn(r.cur.msgs, cut), NEW src \in {"toss", "outb"},
         Elems(r.cur.msgs) \subseteq Places[src], Once(outb', cut), PktsOnce(route', cut),
         InOutb' \subseteq InOutb,
         InPkts(route') \subseteq InPkts(route) \cup (InOutb \ InOutb') \cup cut
  PROVE  OInv'
<1>1. /\ rt'[p] = r /\ \A q \in Caller : q # p => rt'[q] = rt[q]
      /\ InOutput(p)' = InPkts(r.ent) /\ InEnts(p)' = InPkts(r.ent)
  BY OutputIs
<1>2. InPkts(r.ent) = InOutput(p)
  BY DoneIs DEF InEnts
<1>3. Places[p] \cap Places[src] \subseteq cut
  BY Separate DEF Caller, Zones
<1>4. CopyOnce(p)'
  <2>1. \A i \in DOMAIN r.cur.msgs : r.cur.msgs[i] \in Places[src]
    BY DEF Elems
  <2>2. \A i \in DOMAIN r.cur.msgs : r.cur.msgs[i] \in cut \/ r.cur.msgs[i] \notin InPkts(r.ent)
    BY <1>2, <1>3, <2>1, PlaceIs
  <2> QED  BY <1>1, <2>2 DEF CopyOnce, OnceIn
<1>5. PktsOnce(toss', cut') /\ PktsOnce(rt'[p].ent, cut') /\ cut \subseteq cut'
  BY <1>1 DEF OInv
<1>6. \A w \in {"toss", "route", p, "outb"} : w # "route" => Places'[w] \subseteq Places[w] \cup cut'
  BY <1>1, <1>2, PlaceIs, PlaceThen
<1>7. Places'["route"] \subseteq Places["route"] \cup (Places["outb"] \ Places'["outb"]) \cup cut'
  BY PlaceIs, PlaceThen
<1> QED  BY <1>1, <1>4, <1>5, <1>6, <1>7, RouterOnce DEF ivars, own

LEMMA RouteNextOnce ==
  ASSUME IInv, OInv, NEW p \in Caller, RouteNext(p), UNCHANGED <<files, ivars, sent, own>>
  PROVE  OInv'
<1>1. /\ UNCHANGED <<given, toss, route, outb, cut>> /\ p = "runinc" /\ rt[p].pc = "next"
  BY DEF RouteNext, spool
<1>2. IsRouter(rt[p]) /\ toss \in Seq(Parcels)
  BY RouterTyped DEF IInv, Typed
<1>3. CASE rt[p].left = 0 \/ rt[p].err \/ toss = <<>>
  <2> DEFINE r == [rt[p] EXCEPT !.pc = "close"]
  <2>1. rt' = [rt EXCEPT ![p] = r]
    BY <1>3 DEF RouteNext, Set
  <2>2. r.ent = rt[p].ent /\ r.pc = "close"
    BY <1>2 DEF IsRouter
  <2> HIDE DEF r
  <2>3. PktsOnce(r.ent, cut') /\ InPkts(r.ent) \subseteq InOutput(p)
    BY <1>1, <2>2, DoneIs DEF OInv, InEnts
  <2> QED  BY <1>1, <2>1, <2>2, <2>3, LeavesOnce
<1>4. CASE ~(rt[p].left = 0 \/ rt[p].err \/ toss = <<>>)
  <2> DEFINE r == [rt[p] EXCEPT !.pc = "open", !.cur = toss[1], !.left = @ - 1]
  <2>1. rt' = [rt EXCEPT ![p] = r]
    BY <1>4 DEF RouteNext, Set
  <2>2. r.ent = rt[p].ent /\ r.pc = "open" /\ r.cur = toss[1] /\ 1 \in DOMAIN toss
    BY <1>2, <1>4 DEF IsRouter
  <2> HIDE DEF r
  <2>3. OnceIn(r.cur.msgs, cut) /\ Elems(r.cur.msgs) \subseteq Places["toss"]
    BY <2>2, InPktsIs, PlaceIs DEF OInv, PktsOnce
  <2>4. Once(outb', cut) /\ PktsOnce(route', cut) /\ InOutb' = InOutb
    BY <1>1 DEF OInv, InOutb, Elems
  <2>5. InPkts(route') = InPkts(route)
    BY <1>1
  <2> QED  BY <1>1, <2>1, <2>2, <2>3, <2>4, <2>5, OpensOnce
<1> QED  BY <1>3, <1>4

LEMMA RouteOpenOnce ==
  ASSUME IInv, OInv, NEW p \in Caller, RouteOpen(p), UNCHANGED <<files, ivars, sent, own>>
  PROVE  OInv'
<1>1. /\ IsRouter(rt[p]) /\ Given /\ CallerAt(p) /\ CopyOnce(p) /\ PktsOnce(rt[p].ent, cut)
  BY RouterTyped DEF IInv, OInv
<1>2. UNCHANGED <<given, outb, cut>> /\ rt[p].pc = "open"
  BY DEF RouteOpen
<1> DEFINE f == rt[p].cur
           d == Way(f)
<1>3. f \in Parcels /\ d \in Ways
  BY <1>1, <1>2, SoundNow DEF CallerAt
<1>4. InOutput(p) = InPkts(rt[p].ent)
  BY <1>2, DoneIs DEF InEnts
<1> HIDE DEF d
<1>5. CASE Here(p) = {}
  <2> DEFINE r == [rt[p] EXCEPT !.pc = "next", !.err = TRUE]
  <2>1. rt' = [rt EXCEPT ![p] = r] /\ UNCHANGED <<toss, route>>
    BY <1>5 DEF RouteOpen, Set
  <2>2. r.ent = rt[p].ent /\ r.pc = "next"
    BY <1>1 DEF IsRouter
  <2> HIDE DEF r
  <2>3. PktsOnce(r.ent, cut') /\ InPkts(r.ent) \subseteq InOutput(p)
    BY <1>1, <1>2, <1>4, <2>2
  <2> QED  BY <1>2, <2>1, <2>2, <2>3, LeavesOnce
<1>6. CASE Here(p) # {} /\ d.move
  <2> DEFINE r == [rt[p] EXCEPT !.pc = "next"]
  <2>1. rt' = [rt EXCEPT ![p] = r] /\ Drop(p, <<Packet(d, f.to, f.msgs)>>)
    BY <1>6 DEF RouteOpen, Set, d
  <2>2. r.ent = rt[p].ent /\ r.pc = "next"
    BY <1>1 DEF IsRouter
  <2> HIDE DEF r
  <2>3. PktsOnce(r.ent, cut') /\ InPkts(r.ent) \subseteq InOutput(p)
    BY <1>1, <1>2, <1>4, <2>2
  <2> QED  BY <1>2, <1>3, <1>6, <2>1, <2>2, <2>3, MovesOnce
<1>7. CASE Here(p) # {} /\ ~d.move
  <2> DEFINE known == {i \in DOMAIN rt[p].ent : Same(rt[p].ent[i], d)}
             new == [grade |-> d.grade, type |-> d.type, flav |-> d.flav, to |-> d.to,
                     msgs |-> <<>>, open |-> TRUE]
             old == rt[p].ent
             ents == IF known = {} THEN Append(old, new) ELSE old
             r == [rt[p] EXCEPT !.pc = "copy", !.pos = 1, !.d = d,
                     !.ent = IF known = {} THEN Append(@, new) ELSE @]
  <2>1. rt' = [rt EXCEPT ![p] = r] /\ UNCHANGED <<toss, route>>
    BY <1>7 DEF RouteOpen, Set, d
  <2>2. new \in Entries /\ new.msgs = <<>>
    BY <1>3 DEF Entries, Ways
  <2>3. old \in Seq(Entries)
    BY <1>1 DEF IsRouter
  <2>4. r.ent = ents /\ r.pc = "copy" /\ r.cur = f /\ r.pos = 1
    BY <1>1 DEF IsRouter
  <2> HIDE DEF known, new, r
  <2>5. PktsOnce(ents, cut) /\ InPkts(ents) = InPkts(old)
    <3>1. OnceIn(new.msgs, cut) /\ Elems(new.msgs) = {}
      BY <2>2, NothingOnce
    <3>2. PktsOnce(Append(old, new), cut)
      BY <1>1, <2>2, <2>3, <3>1, AppendPktOnce
    <3>3. InPkts(Append(old, new)) = InPkts(old)
      <4>1. InPkts(Append(old, new)) = InPkts(old) \cup Elems(new.msgs)
        BY <2>2, <2>3, OneMore
      <4> QED  BY <3>1, <4>1
    <3> QED  BY <1>1, <3>2, <3>3
  <2> HIDE DEF ents
  <2>6. rt'[p] = r /\ (\A q \in Caller : q # p => rt'[q] = rt[q]) /\ InEnts(p)' = InPkts(old)
    BY <2>1, <2>4, <2>5, OutputIs
  <2>7. CopyOnce(p)'
    <3>1. /\ OnceIn(f.msgs, cut)
          /\ \A i \in DOMAIN f.msgs : f.msgs[i] \in cut \/ f.msgs[i] \notin InPkts(old)
      BY <1>1, <1>2 DEF CopyOnce, InEnts
    <3>2. OnceIn(f.msgs, cut)'
      BY <1>2, <2>6, <2>4, <3>1 DEF OnceIn
    <3>3. rt'[p].cur = f
      BY <2>4, <2>6
    <3> HIDE DEF f, old
    <3> QED  BY <1>2, <2>6, <3>1, <3>3 DEF CopyOnce, OnceIn
  <2>8. PktsOnce(rt'[p].ent, cut') /\ InOutput(p)' \subseteq InOutput(p) \cup cut'
    BY <1>2, <1>4, <2>4, <2>5, <2>6 DEF InOutput
  <2> QED  BY <1>2, <2>1, <2>6, <2>7, <2>8, StaysOnce
<1> QED  BY <1>5, <1>6, <1>7

LEMMA CopyOnceMore ==
  ASSUME IInv, OInv, NEW p \in Caller, Copy(p), UNCHANGED <<files, ivars, sent, own>>
  PROVE  OInv'
<1>1. /\ IsRouter(rt[p]) /\ CallerAt(p) /\ Given /\ CopyOnce(p) /\ PktsOnce(rt[p].ent, cut)
  BY RouterTyped DEF IInv, OInv
<1>2. UNCHANGED <<given, toss, route, outb>> /\ rt[p].pc = "copy"
  BY DEF Copy, spool
<1> DEFINE f == rt[p].cur
           e == Entry(p)
           m == This(p)
           n == rt[p].pos
           s == rt[p].ent
<1>3. f \in Parcels /\ n \in Int /\ n >= 1 /\ n <= Len(f.msgs) /\ s \in Seq(Entries)
  BY <1>1, <1>2 DEF Copy, CallerAt, IsRouter
<1>4. e \in DOMAIN s
  BY <1>1, <1>2, EntryIs
<1>5. f.msgs \in Seq(Numbers) /\ n \in DOMAIN f.msgs /\ m = f.msgs[n] /\ m \in Numbers
  <2>1. f.msgs \in Seq(Numbers)
    BY <1>3 DEF Parcels
  <2> QED  BY <1>3, <2>1 DEF This
<1>6. s[e].msgs \in Seq(Numbers) /\ s[e] \in Entries /\ OnceIn(s[e].msgs, cut)
  <2>1. s[e] \in Entries
    BY <1>3, <1>4
  <2> QED  BY <1>1, <1>4, <2>1 DEF Entries, PktsOnce
<1>7. /\ OnceIn(f.msgs, cut)
      /\ m \in cut \/ m \notin InPkts(s)
      /\ \A i \in DOMAIN f.msgs : i >= n => f.msgs[i] \in cut \/ f.msgs[i] \notin InPkts(s)
  BY <1>1, <1>2, <1>3, <1>5 DEF CopyOnce, InEnts
<1> HIDE DEF e, m
<1>8. PICK written \in BOOLEAN, ok \in BOOLEAN :
        /\ rt' = [rt EXCEPT ![p] = [rt[p] EXCEPT
              !.pos = @ + 1,
              !.pc = IF ok THEN "copy" ELSE "next",
              !.err = ~ok,
              !.ent[e].msgs = IF written THEN Append(@, m) ELSE @]]
        /\ cut' = IF ok THEN cut ELSE cut \cup Elems(f.msgs)
  BY DEF Copy, Set, e, m
<1> DEFINE ms == IF written THEN Append(s[e].msgs, m) ELSE s[e].msgs
           x == [s[e] EXCEPT !.msgs = ms]
           t == [s EXCEPT ![e] = x]
           r == [rt[p] EXCEPT !.pos = @ + 1, !.pc = IF ok THEN "copy" ELSE "next",
                   !.err = ~ok, !.ent[e].msgs = IF written THEN Append(@, m) ELSE @]
<1>9. OnceIn(ms, cut) /\ Elems(ms) \subseteq Elems(s[e].msgs) \cup {m}
  <2>1. m \in cut \/ m \notin Elems(s[e].msgs)
    BY <1>4, <1>7, InPktsIs
  <2>2. OnceIn(Append(s[e].msgs, m), cut) /\ Elems(Append(s[e].msgs, m)) = Elems(s[e].msgs) \cup {m}
    BY <1>5, <1>6, <2>1, AppendOnce
  <2> QED  BY <1>6, <2>2
<1>10. x.msgs = ms
  BY <1>6 DEF Entries
<1>11. /\ r.pos = n + 1 /\ r.pc = (IF ok THEN "copy" ELSE "next")
       /\ r.ent = t /\ r.cur = f
  BY <1>1 DEF IsRouter
<1> HIDE DEF ms, x, t, r
<1>12. PktsOnce(t, cut) /\ InPkts(t) \subseteq InPkts(s) \cup {m}
  <2>1. {m} \cap InPkts(s) \subseteq cut
    BY <1>7
  <2> QED  BY <1>1, <1>4, <1>9, <1>10, <2>1, ChangedOnce DEF t
<1>13. rt' = [rt EXCEPT ![p] = r] /\ cut \subseteq cut'
  BY <1>8 DEF r
<1>14. rt'[p] = r /\ (\A q \in Caller : q # p => rt'[q] = rt[q]) /\ InEnts(p)' = InPkts(t)
  BY <1>11, <1>13, OutputIs
<1>15. PktsOnce(rt'[p].ent, cut')
  BY <1>11, <1>12, <1>13, <1>14, OnceMore
<1>16. /\ Done(p) = {f.msgs[i] : i \in {j \in DOMAIN f.msgs : j < n}}
       /\ Done(p) \subseteq Elems(f.msgs) /\ m \in Elems(f.msgs)
  BY <1>2, <1>5 DEF Done, Elems
<1>17. CASE ok
  <2>1. cut' = cut /\ rt'[p].cur = f /\ rt'[p].pos = n + 1 /\ rt'[p].pc = "copy"
    BY <1>8, <1>11, <1>14, <1>17
  <2>2. Done(p)' = {f.msgs[i] : i \in {j \in DOMAIN f.msgs : j < n + 1}}
    BY <2>1 DEF Done
  <2> HIDE DEF f, s, n
  <2>3. Done(p) \cup {m} \subseteq Done(p)'
    BY <1>3, <1>5, <1>16, <2>2
  <2>4. InOutput(p)' \subseteq InOutput(p)
    BY <1>12, <1>14, <2>3 DEF InOutput, InEnts, s
  <2>5. ASSUME NEW i \in DOMAIN f.msgs, i >= n + 1
        PROVE  f.msgs[i] \in cut \/ f.msgs[i] \notin InPkts(t)
    <3>1. i \in Int /\ i >= n /\ i # n
      BY <1>3, <1>5, <2>5
    <3>2. f.msgs[i] # m \/ m \in cut
      BY <1>5, <1>7, <3>1 DEF OnceIn
    <3> QED  BY <1>7, <1>12, <3>1, <3>2
  <2>6. CopyOnce(p)'
    BY <1>7, <1>14, <2>1, <2>5 DEF CopyOnce, OnceIn
  <2> QED  BY <1>2, <1>13, <1>14, <1>15, <2>4, <2>6, StaysOnce
<1>18. CASE ~ok
  <2>1. r.pc = "next" /\ cut' = cut \cup Elems(f.msgs)
    BY <1>8, <1>11, <1>18
  <2> HIDE DEF f, n
  <2>2. InPkts(s) \subseteq InOutput(p) \cup Done(p)
    BY DoneIs DEF InEnts
  <2> HIDE DEF s
  <2>3. InPkts(r.ent) \subseteq InOutput(p) \cup cut'
    BY <1>11, <1>12, <1>16, <2>1, <2>2
  <2> QED  BY <1>2, <1>13, <1>14, <1>15, <2>1, <2>3, LeavesOnce
<1> QED  BY <1>17, <1>18

\* A stream closed.
LEMMA ClosedOnce ==
  ASSUME NEW s \in Seq(Entries), NEW e \in DOMAIN s, NEW c, PktsOnce(s, c)
  PROVE  PktsOnce([s EXCEPT ![e].open = FALSE], c)
<1> DEFINE x == [s[e] EXCEPT !.open = FALSE]
           t == [s EXCEPT ![e].open = FALSE]
<1>1. s[e] \in Entries
  OBVIOUS
<1>2. x.msgs = s[e].msgs
  BY <1>1 DEF Entries
<1>3. t = [s EXCEPT ![e] = x]
  OBVIOUS
<1> HIDE DEF x, t
<1>4. DOMAIN t = DOMAIN s /\ \A i \in DOMAIN s : t[i].msgs = s[i].msgs
  BY <1>2, <1>3
<1> QED  BY <1>4 DEF PktsOnce, t

LEMMA CopyDirectOnce ==
  ASSUME IInv, OInv, NEW p \in Caller, CopyDirect(p), UNCHANGED <<files, ivars, sent, own>>
  PROVE  OInv'
<1>1. /\ IsRouter(rt[p]) /\ CallerAt(p) /\ Given /\ CopyOnce(p) /\ PktsOnce(rt[p].ent, cut)
  BY RouterTyped DEF IInv, OInv
<1>2. UNCHANGED <<given, outb>> /\ rt[p].pc = "copy"
  BY DEF CopyDirect
<1> DEFINE f == rt[p].cur
           d == rt[p].d
           e == Entry(p)
           s == rt[p].ent
           t == [s EXCEPT ![e].open = FALSE]
<1>3. f \in Parcels /\ d \in Ways /\ s \in Seq(Entries) /\ e \in DOMAIN s
  BY <1>1, <1>2, EntryIs DEF CallerAt, IsRouter
<1> HIDE DEF e
<1>4. t \in Seq(Entries) /\ InPkts(t) = InPkts(s) /\ PktsOnce(t, cut)
  BY <1>1, <1>3, EntClosed, ClosedOnce
<1>5. cut \subseteq cut' /\ Done(p) \subseteq cut'
  <2>1. cut' = cut \cup {f.msgs[i] : i \in 1 .. (rt[p].pos - 1)}
    BY DEF CopyDirect
  <2>2. Done(p) = {f.msgs[i] : i \in {j \in DOMAIN f.msgs : j < rt[p].pos}}
    BY <1>2 DEF Done
  <2>3. f.msgs \in Seq(Numbers) /\ rt[p].pos \in Int
    BY <1>1, <1>3 DEF Parcels, IsRouter
  <2>4. \A j \in DOMAIN f.msgs : j < rt[p].pos => j \in 1 .. (rt[p].pos - 1)
    BY <2>3
  <2> QED  BY <2>1, <2>2, <2>4
<1>6. PktsOnce(t, cut') /\ InPkts(t) \subseteq InOutput(p) \cup cut'
  BY <1>4, <1>5, DoneIs, OnceMore DEF InEnts
<1>7. CASE Here(p) = {}
  <2> DEFINE r == [rt[p] EXCEPT !.pc = "next", !.err = TRUE, !.ent[e].open = FALSE]
  <2>1. rt' = [rt EXCEPT ![p] = r] /\ UNCHANGED <<toss, route>>
    BY <1>7 DEF CopyDirect, Set, e
  <2>2. r.ent = t /\ r.pc = "next"
    BY <1>1 DEF IsRouter
  <2> HIDE DEF r, t
  <2> QED  BY <1>2, <1>5, <1>6, <2>1, <2>2, LeavesOnce
<1>8. CASE Here(p) # {}
  <2> DEFINE r == [rt[p] EXCEPT !.pc = "next", !.ent[e].open = FALSE]
  <2>1. rt' = [rt EXCEPT ![p] = r] /\ Drop(p, <<Packet(d, f.to, f.msgs)>>)
    BY <1>8 DEF CopyDirect, Set, e
  <2>2. r.ent = t /\ r.pc = "next"
    BY <1>1 DEF IsRouter
  <2> HIDE DEF r, t
  <2> QED  BY <1>2, <1>3, <1>5, <1>6, <1>8, <2>1, <2>2, MovesOnce
<1> QED  BY <1>7, <1>8

LEMMA CopyEndOnce ==
  ASSUME IInv, OInv, NEW p \in Caller, CopyEnd(p), UNCHANGED <<files, ivars, sent, own>>
  PROVE  OInv'
<1>1. /\ IsRouter(rt[p]) /\ CallerAt(p) /\ PktsOnce(rt[p].ent, cut)
  BY RouterTyped DEF OInv
<1>2. UNCHANGED <<given, outb>> /\ rt[p].pc = "copy"
  BY DEF CopyEnd
<1> DEFINE ms == rt[p].cur.msgs
<1>3. InPkts(rt[p].ent) \subseteq InOutput(p) \cup Elems(ms)
  BY DoneIs DEF InEnts
<1>4. CASE Here(p) = {}
  <2> DEFINE r == [rt[p] EXCEPT !.pc = "next", !.err = TRUE]
  <2>1. rt' = [rt EXCEPT ![p] = r] /\ UNCHANGED <<toss, route>> /\ cut' = cut \cup Elems(ms)
    BY <1>4 DEF CopyEnd, Set
  <2>2. r.ent = rt[p].ent /\ r.pc = "next"
    BY <1>1 DEF IsRouter
  <2> HIDE DEF r, ms
  <2>3. /\ cut \subseteq cut' /\ PktsOnce(r.ent, cut')
        /\ InPkts(r.ent) \subseteq InOutput(p) \cup cut'
    BY <1>1, <1>3, <2>1, <2>2, OnceMore
  <2> QED  BY <1>2, <2>1, <2>2, <2>3, LeavesOnce
<1>5. CASE Here(p) # {}
  <2> DEFINE r == [rt[p] EXCEPT !.pc = "next"]
             src == IF p = "runinc" THEN "toss" ELSE "route"
  <2>1. rt' = [rt EXCEPT ![p] = r] /\ Drop(p, <<>>) /\ cut' = cut
    BY <1>5 DEF CopyEnd, Set
  <2>2. r.ent = rt[p].ent /\ r.pc = "next"
    BY <1>1 DEF IsRouter
  <2> HIDE DEF r
  <2>3. /\ rt'[p] = r /\ \A q \in Caller : q # p => rt'[q] = rt[q]
        /\ InOutput(p)' = InPkts(r.ent) /\ CopyOnce(p)'
    BY <2>1, <2>2, OutputIs
  <2>4. <<>> \in Seq(Parcels) /\ InPkts(<<>>) = {} /\ PktsOnce(<<>>, cut)
    BY NoPkts, NothingOnce
  <2> HIDE DEF ms
  <2>5. /\ PktsOnce(toss', cut') /\ PktsOnce(route', cut')
        /\ InPkts(toss') \subseteq InPkts(toss) /\ InPkts(route') \subseteq InPkts(route)
        /\ Elems(ms) \subseteq Places[src]
        /\ p = "runinc" => Elems(ms) \cap InPkts(toss') \subseteq cut
        /\ p = "repack" => Elems(ms) \cap InPkts(route') \subseteq cut
    <3>1. cut \subseteq cut' /\ InPkts(<<>>) \subseteq Elems(ms)
      BY <2>1, <2>4
    <3> QED  BY <1>5, <2>1, <2>4, <3>1, DropOnce DEF ms
  <2>6. Once(outb', cut') /\ InOutb' = InOutb /\ PktsOnce(rt'[p].ent, cut')
    BY <1>1, <1>2, <2>1, <2>2, <2>3 DEF OInv, InOutb, Elems
  <2>7. \A w \in {"toss", "route", p, "outb"} : w # p => Places'[w] \subseteq Places[w] \cup cut'
    BY <2>5, <2>6, PlaceIs, PlaceThen
  <2>8. Places'[p] \subseteq Places[p] \cup (Places[src] \ Places'[src]) \cup cut'
    <3>1. Places'[p] \subseteq Places[p] \cup Elems(ms)
      BY <1>3, <2>2, <2>3, PlaceIs, PlaceThen
    <3>2. Elems(ms) \cap Places'[src] \subseteq cut
      <4>1. CASE p = "runinc"
        BY <2>5, <4>1, PlaceThen
      <4>2. CASE p = "repack"
        BY <2>5, <4>2, PlaceThen
      <4> QED  BY <4>1, <4>2 DEF Caller
    <3> QED  BY <2>1, <2>5, <3>1, <3>2
  <2>9. src \in {"toss", "route", p, "outb"} /\ p \in {"toss", "route", p, "outb"}
    OBVIOUS
  <2> HIDE DEF src
  <2>10. cut \subseteq cut'
    BY <2>1
  <2> QED  BY <1>2, <2>3, <2>5, <2>6, <2>7, <2>8, <2>9, <2>10, RouterOnce DEF ivars, own
<1> QED  BY <1>4, <1>5

LEMMA RouteCloseOnce ==
  ASSUME IInv, OInv, NEW p \in Caller, RouteClose(p), UNCHANGED <<files, ivars, sent, own>>
  PROVE  OInv'
<1>1. /\ IsRouter(rt[p]) /\ PktsOnce(rt[p].ent, cut) /\ PktsOnce(route, cut)
      /\ route \in Seq(Parcels)
  BY RouterTyped DEF OInv, IInv, Typed
<1>2. UNCHANGED <<given, toss, outb, cut>> /\ rt[p].pc = "close"
  BY DEF RouteClose
<1> DEFINE ents == rt[p].ent
           Out(n) == [i \in 1 .. n |-> Packet(ents[i], ents[i].to, ents[i].msgs)]
<1>3. PICK n \in {Len(ents)} \cup {i - 1 : i \in {j \in DOMAIN ents : ~ents[j].open}} :
        /\ route' = route \o Out(n)
        /\ rt' = [rt EXCEPT ![p] =
                    [rt[p] EXCEPT !.pc = IF n = Len(ents) THEN "done" ELSE "died", !.ent = <<>>]]
  BY DEF RouteClose, Set
<1>4. ents \in Seq(Entries)
  BY <1>1 DEF IsRouter
<1> DEFINE r == [rt[p] EXCEPT !.pc = IF n = Len(ents) THEN "done" ELSE "died", !.ent = <<>>]
<1>5. rt' = [rt EXCEPT ![p] = r] /\ r.pc \in {"done", "died"} /\ r.ent = <<>>
  BY <1>1, <1>3 DEF IsRouter
<1> HIDE DEF r, ents
<1>6. n \in Nat /\ n <= Len(ents)
  BY <1>4
<1>7. ASSUME NEW i \in 1 .. n
      PROVE  /\ i \in DOMAIN ents /\ Out(n)[i] \in Parcels /\ Out(n)[i].msgs = ents[i].msgs
  <2>1. i \in DOMAIN ents /\ ents[i] \in Entries
    BY <1>4, <1>6
  <2>2. Out(n)[i] = Packet(ents[i], ents[i].to, ents[i].msgs)
    OBVIOUS
  <2>3. /\ Packet(ents[i], ents[i].to, ents[i].msgs) \in Parcels
        /\ Packet(ents[i], ents[i].to, ents[i].msgs).msgs = ents[i].msgs
    BY <2>1 DEF Packet, Parcels, Entries
  <2> QED  BY <2>1, <2>2, <2>3
<1>8. Out(n) \in Seq(Parcels) /\ DOMAIN Out(n) = 1 .. n
  BY <1>6, <1>7
<1> HIDE DEF Out
<1>9. PktsOnce(Out(n), cut) /\ InPkts(Out(n)) \subseteq InPkts(ents)
  <2>1. PktsOnce(Out(n), cut)
    BY <1>1, <1>7, <1>8 DEF PktsOnce, ents
  <2>2. InPkts(Out(n)) \subseteq InPkts(ents)
    BY <1>7, <1>8 DEF InPkts
  <2> QED  BY <2>1, <2>2
<1>10. InPkts(ents) = InOutput(p) /\ InPkts(route) \cap InPkts(ents) \subseteq cut
  <2>1. InPkts(ents) = InOutput(p)
    BY <1>2, DoneIs DEF InEnts, ents
  <2>2. Places["route"] \cap Places[p] \subseteq cut
    BY Separate DEF Zones, Caller
  <2> QED  BY <2>1, <2>2, PlaceIs
<1>11. PktsOnce(route', cut') /\ InPkts(route') = InPkts(route) \cup InPkts(Out(n))
  <2>1. InPkts(route) \cap InPkts(Out(n)) \subseteq cut
    BY <1>9, <1>10
  <2>2. PktsOnce(route \o Out(n), cut) /\ InPkts(route \o Out(n)) = InPkts(route) \cup InPkts(Out(n))
    BY <1>1, <1>8, <1>9, <2>1, PktsTogetherOnce, PktsTogether
  <2> QED  BY <1>2, <1>3, <2>2
<1>12. /\ rt'[p] = r /\ \A q \in Caller : q # p => rt'[q] = rt[q]
       /\ InOutput(p)' = {} /\ CopyOnce(p)'
  BY <1>5, OutputIs, NoPkts
<1>13. /\ PktsOnce(toss', cut') /\ PktsOnce(rt'[p].ent, cut') /\ Once(outb', cut')
       /\ InOutb' = InOutb /\ cut \subseteq cut' /\ InPkts(toss') = InPkts(toss)
  BY <1>2, <1>5, <1>12, NothingOnce DEF OInv, InOutb, Elems
<1>14. \A w \in {"toss", "route", p, "outb"} : w # "route" => Places'[w] \subseteq Places[w] \cup cut'
  BY <1>12, <1>13, PlaceIs, PlaceThen
<1>15. Places'["route"] \subseteq Places["route"] \cup (Places[p] \ Places'[p]) \cup cut'
  BY <1>9, <1>10, <1>11, <1>12, PlaceIs, PlaceThen
<1> QED  BY <1>2, <1>11, <1>12, <1>13, <1>14, <1>15, RouterOnce DEF ivars, own

-----------------------------------------------------------------------------
\* ftnpack, ftnroute -p, and the mailer.

LEMMA OutbJoins ==
  ASSUME OInv, outb \in [[to : config.nodes, flav : Flavors] -> Seq(Numbers)],
         NEW k \in DOMAIN outb, NEW ms \in Seq(Numbers), outb' = [outb EXCEPT ![k] = @ \o ms],
         OnceIn(ms, cut), Elems(ms) \cap InOutb \subseteq cut
  PROVE  Once(outb', cut)
<1> DEFINE old == outb[k]
<1>1. old \in Seq(Numbers) /\ OnceIn(old, cut) /\ Elems(old) \subseteq InOutb
  BY DEF OInv, Once, InOutb
<1>2. /\ outb'[k] = old \o ms /\ DOMAIN outb' = DOMAIN outb
      /\ \A j \in DOMAIN outb : j # k => outb'[j] = outb[j]
  OBVIOUS
<1>3. \A j \in DOMAIN outb : /\ OnceIn(outb[j], cut) /\ Elems(outb[j]) \subseteq InOutb
                             /\ j # k => Elems(outb[j]) \cap Elems(old) \subseteq cut
  BY DEF OInv, Once, InOutb
<1> HIDE DEF old
<1>4. OnceIn(old \o ms, cut) /\ Elems(old \o ms) = Elems(old) \cup Elems(ms)
  <2>1. Elems(old) \cap Elems(ms) \subseteq cut
    BY <1>1
  <2> QED  BY <1>1, <2>1, TogetherOnce
<1>5. \A j \in DOMAIN outb : j # k => Elems(outb'[j]) \cap Elems(outb'[k]) \subseteq cut
  BY <1>2, <1>3, <1>4
<1>6. \A j, h \in DOMAIN outb :
        j # h /\ j # k /\ h # k => Elems(outb'[j]) \cap Elems(outb'[h]) \subseteq cut
  BY <1>2 DEF OInv, Once
<1>7. \A j, h \in DOMAIN outb' : j # h => Elems(outb'[j]) \cap Elems(outb'[h]) \subseteq cut
  BY <1>2, <1>5, <1>6
<1>8. \A j \in DOMAIN outb' : OnceIn(outb'[j], cut)
  BY <1>2, <1>3, <1>4
<1> QED  BY <1>7, <1>8 DEF Once

LEMMA OutbLeaves ==
  ASSUME OInv, outb \in [[to : config.nodes, flav : Flavors] -> Seq(Numbers)],
         NEW k \in DOMAIN outb, outb' = [outb EXCEPT ![k] = <<>>]
  PROVE  /\ Once(outb', cut) /\ InOutb' \subseteq InOutb /\ Elems(outb[k]) \subseteq InOutb
         /\ Elems(outb[k]) \cap InOutb' \subseteq cut /\ OnceIn(outb[k], cut)
<1>1. /\ outb'[k] = <<>> /\ DOMAIN outb' = DOMAIN outb
      /\ \A j \in DOMAIN outb : j # k => outb'[j] = outb[j]
  OBVIOUS
<1>2. OnceIn(<<>>, cut) /\ Elems(<<>>) = {}
  BY NothingOnce
<1>3. /\ \A j \in DOMAIN outb : OnceIn(outb[j], cut)
      /\ \A j, h \in DOMAIN outb : j # h => Elems(outb[j]) \cap Elems(outb[h]) \subseteq cut
  BY DEF OInv, Once
<1>4. Once(outb', cut)
  <2>1. \A j \in DOMAIN outb' : OnceIn(outb'[j], cut)
    BY <1>1, <1>2, <1>3
  <2>2. \A j, h \in DOMAIN outb' : j # h => Elems(outb'[j]) \cap Elems(outb'[h]) \subseteq cut
    BY <1>1, <1>2, <1>3
  <2> QED  BY <2>1, <2>2 DEF Once
<1>5. InOutb' = UNION {Elems(outb'[j]) : j \in DOMAIN outb'}
  BY DEF InOutb, Elems
<1>6. \A m \in InOutb' : \E j \in DOMAIN outb : j # k /\ m \in Elems(outb[j])
  BY <1>1, <1>2, <1>5
<1>7. InOutb' \subseteq InOutb /\ Elems(outb[k]) \subseteq InOutb
  BY <1>6 DEF InOutb
<1>8. Elems(outb[k]) \cap InOutb' \subseteq cut
  BY <1>3, <1>6
<1> QED  BY <1>3, <1>4, <1>7, <1>8

LEMMA PackOnce ==
  ASSUME IInv, OInv, NEW p \in Caller, NEW g, Pack(p, g), UNCHANGED <<files, ivars, sent, own>>
  PROVE  OInv'
<1>1. /\ route \in Seq(Parcels) /\ PktsOnce(route, cut)
      /\ outb \in [[to : config.nodes, flav : Flavors] -> Seq(Numbers)]
  BY DEF IInv, Typed, OInv
<1>2. UNCHANGED <<given, toss, rt, cut>>
  BY DEF Pack
<1>3. PICK i \in DOMAIN route :
        /\ outb' = [outb EXCEPT ![[to |-> route[i].to, flav |-> route[i].flav]]
                           = @ \o route[i].msgs]
        /\ route' = Without(route, i)
  BY DEF Pack, Packable
<1> DEFINE f == route[i]
           k == [to |-> f.to, flav |-> f.flav]
<1>4. f \in Parcels
  BY <1>1
<1>5. k \in DOMAIN outb /\ f.msgs \in Seq(Numbers)
  BY <1>1, <1>4 DEF Parcels
<1>6. /\ PktsOnce(route', cut') /\ InPkts(route') \subseteq InPkts(route)
      /\ InPkts(route') \cap Elems(f.msgs) \subseteq cut
  BY <1>1, <1>2, <1>3, WithoutOnce
<1>7. OnceIn(f.msgs, cut) /\ Elems(f.msgs) \subseteq InPkts(route)
  BY <1>1, InPktsIs DEF PktsOnce
<1>8. InPkts(route) \cap InOutb \subseteq cut
  BY Separate, PlaceIs DEF Zones
<1>9. outb' = [outb EXCEPT ![k] = @ \o f.msgs]
  BY <1>3
<1> HIDE DEF f, k
<1>10. Once(outb', cut') /\ InOutb' = InOutb \cup Elems(f.msgs)
  <2>1. Elems(f.msgs) \cap InOutb \subseteq cut
    BY <1>7, <1>8
  <2> QED  BY <1>1, <1>2, <1>5, <1>7, <1>9, <2>1, OutbJoins, OutbAdds
<1>11. /\ cut \subseteq cut' /\ \A q \in Caller : rt'[q] = rt[q]
       /\ InPkts(toss') = InPkts(toss) /\ PktsOnce(toss', cut')
  BY <1>2 DEF OInv
<1>12. InOutput(p)' = InOutput(p) /\ PktsOnce(rt'[p].ent, cut') /\ CopyOnce(p)'
  BY <1>11, OutputRests
<1>13. \A w \in {"toss", "route", p, "outb"} : w # "outb" => Places'[w] \subseteq Places[w] \cup cut'
  BY <1>6, <1>11, <1>12, PlaceIs, PlaceThen
<1>14. Places'["outb"] \subseteq Places["outb"] \cup (Places["route"] \ Places'["route"]) \cup cut'
  BY <1>6, <1>7, <1>10, <1>11, PlaceIs, PlaceThen
<1> QED  BY <1>2, <1>6, <1>10, <1>11, <1>12, <1>13, <1>14, RouterOnce DEF ivars, own

LEMMA RepackOnce ==
  ASSUME IInv, OInv, Repack, UNCHANGED <<files, ivars, sent, own>>
  PROVE  OInv'
<1> DEFINE p == "repack"
<1>0. p \in Caller
  BY DEF Caller
<1>1. /\ IsRouter(rt[p]) /\ route \in Seq(Parcels) /\ PktsOnce(route, cut)
      /\ outb \in [[to : config.nodes, flav : Flavors] -> Seq(Numbers)]
  BY <1>0, RouterTyped DEF IInv, Typed, OInv
<1>2. UNCHANGED <<given, toss, cut>> /\ rt[p].pc = "next"
  BY DEF Repack
<1> HIDE DEF p
<1> DEFINE F(k) == Packet([grade |-> "m", type |-> Netmail, flav |-> "n"], k.to, outb[k])
<1>3. PICK k \in DOMAIN outb :
        /\ outb' = [outb EXCEPT ![k] = <<>>]
        /\ route' = Append(route, F(k))
        /\ rt' = [rt EXCEPT ![p] = [rt[p] EXCEPT !.pc = "open", !.cur = F(k)]]
  BY DEF Repack, Set, p
<1> DEFINE f == F(k)
           r == [rt[p] EXCEPT !.pc = "open", !.cur = f]
<1>4. f \in Parcels /\ f.msgs = outb[k]
  <2>1. k.to \in config.nodes /\ outb[k] \in Seq(Numbers)
    <3>1. k \in [to : config.nodes, flav : Flavors]
      BY <1>1
    <3> QED  BY <1>1, <3>1
  <2>2. "n" \in Flavors /\ "m" \in Grades
    BY DEF Flavors, Grades
  <2> QED  BY <2>1, <2>2 DEF Packet, Parcels
<1>5. r.ent = rt[p].ent /\ r.pc = "open" /\ r.cur = f
  BY <1>1 DEF IsRouter
<1>6. rt' = [rt EXCEPT ![p] = r] /\ route' = Append(route, f)
  BY <1>3
<1> HIDE DEF r, f, F
<1>7. /\ Once(outb', cut) /\ InOutb' \subseteq InOutb /\ Elems(f.msgs) \subseteq InOutb
      /\ Elems(f.msgs) \cap InOutb' \subseteq cut /\ OnceIn(f.msgs, cut)
  BY <1>1, <1>3, <1>4, OutbLeaves
<1>8. InPkts(route) \cap InOutb \subseteq cut
  BY Separate, PlaceIs DEF Zones
<1>9. PktsOnce(route', cut) /\ InPkts(route') = InPkts(route) \cup Elems(f.msgs)
  <2>1. Elems(f.msgs) \cap InPkts(route) \subseteq cut
    BY <1>7, <1>8
  <2> QED  BY <1>1, <1>4, <1>6, <1>7, <2>1, AppendPktOnce, OneMore
<1>10. Elems(r.cur.msgs) \subseteq Places["outb"] /\ OnceIn(r.cur.msgs, cut)
  BY <1>5, <1>7, PlaceIs
<1>11. InPkts(route') \subseteq InPkts(route) \cup (InOutb \ InOutb') \cup cut
  BY <1>7, <1>9
<1> QED  BY <1>0, <1>2, <1>5, <1>6, <1>7, <1>9, <1>10, <1>11, OpensOnce

LEMMA RepackEndOnce ==
  ASSUME IInv, OInv, RepackEnd, UNCHANGED <<files, ivars, sent, own>>
  PROVE  OInv'
<1> DEFINE p == "repack"
           r == [rt[p] EXCEPT !.pc = "close"]
<1>1. p \in Caller
  BY DEF Caller
<1>2. UNCHANGED <<given, toss, route, outb, cut>> /\ rt' = [rt EXCEPT ![p] = r]
      /\ rt[p].pc = "next"
  BY DEF RepackEnd, spool, Set
<1> HIDE DEF p
<1>3. IsRouter(rt[p]) /\ PktsOnce(rt[p].ent, cut)
  BY <1>1, RouterTyped DEF OInv
<1>4. r.ent = rt[p].ent /\ r.pc = "close"
  BY <1>3 DEF IsRouter
<1> HIDE DEF r
<1>5. PktsOnce(r.ent, cut') /\ InPkts(r.ent) \subseteq InOutput(p)
  BY <1>1, <1>2, <1>3, <1>4, DoneIs DEF InEnts
<1> QED  BY <1>1, <1>2, <1>4, <1>5, LeavesOnce

LEMMA RouteStepOnce ==
  ASSUME IInv, OInv, NEW p \in Caller, RouteStep(p)
  PROVE  OInv'
<1>1. UNCHANGED <<files, ivars, sent, own>>
  BY DEF RouteStep
<1>2. \/ RouteNext(p) \/ RouteOpen(p) \/ Copy(p) \/ CopyDirect(p) \/ CopyEnd(p)
      \/ RouteClose(p) \/ Pack(p, config.grade)
  BY DEF RouteStep
<1> QED  BY <1>1, <1>2, RouteNextOnce, RouteOpenOnce, CopyOnceMore, CopyDirectOnce, CopyEndOnce,
            RouteCloseOnce, PackOnce

\* A process that is not at a packet, and has none.
LEMMA SetOnce ==
  ASSUME IInv, OInv, UNCHANGED <<given, files, inb, tmpu, sent, toss, route, outb, cut>>,
         \/ UNCHANGED <<pc, todo, item>>
         \/ pc \notin {"idle", "unpack", "unarc"}
         \/ pc' = "idle",
         NEW p \in Caller, NEW r, Set(p, r), r.pc \notin {"open", "copy"}, r.ent = <<>>
  PROVE  OInv'
<1>1. /\ rt'[p] = r /\ \A q \in Caller : q # p => rt'[q] = rt[q]
      /\ InOutput(p)' = {} /\ CopyOnce(p)'
  <2>1. rt' = [rt EXCEPT ![p] = r]
    BY DEF Set
  <2>2. InPkts(r.ent) = {}
    BY NoPkts
  <2> QED  BY <2>1, <2>2, OutputIs
<1>2. /\ PktsOnce(toss', cut') /\ PktsOnce(route', cut') /\ Once(outb', cut')
      /\ PktsOnce(rt'[p].ent, cut') /\ InOutb' = InOutb /\ cut \subseteq cut'
      /\ InPkts(toss') = InPkts(toss) /\ InPkts(route') = InPkts(route)
  BY <1>1, NothingOnce DEF OInv, InOutb, Elems
<1>3. \A w \in {"toss", "route", p, "outb"} : Places'[w] \subseteq Places[w] \cup cut'
  BY <1>1, <1>2, PlaceIs, PlaceThen
<1>4. "toss" \in {"toss", "route", p, "outb"}
  OBVIOUS
<1> QED  BY <1>1, <1>2, <1>3, <1>4, RouterOnce

LEMMA SendOnce ==
  ASSUME IInv, OInv, NEW k \in DOMAIN outb, Send(k)
  PROVE  OInv'
<1>1. /\ UNCHANGED <<given, files, inb, tmpu, toss, route, rt, cut, pc, todo, item>>
      /\ outb' = [outb EXCEPT ![k] = <<>>]
      /\ sent' = [m \in Msg |-> sent[m] + Cardinality({i \in DOMAIN outb[k] : outb[k][i] = m})]
  BY DEF Send, ivars, own
<1>2. /\ outb \in [[to : config.nodes, flav : Flavors] -> Seq(Numbers)]
      /\ sent \in [Msg -> Nat] /\ outb[k] \in Seq(Numbers)
  BY DEF IInv, Typed
<1> DEFINE q == outb[k]
           S(m) == {i \in DOMAIN q : q[i] = m}
<1>3. /\ Once(outb', cut) /\ InOutb' \subseteq InOutb /\ Elems(q) \subseteq InOutb
      /\ Elems(q) \cap InOutb' \subseteq cut /\ OnceIn(q, cut)
  BY <1>1, <1>2, OutbLeaves
<1>4. \A m \in Msg : S(m) # {} => m \in Elems(q)
  BY DEF Elems
<1>5. ASSUME NEW m \in Msg \ cut
      PROVE  /\ Cardinality(S(m)) = IF m \in Elems(q) THEN 1 ELSE 0
             /\ m \in Elems(q) => sent[m] = 0
  <2>1. CASE m \notin Elems(q)
    <3>1. S(m) = {}
      BY <1>4, <2>1
    <3> QED  BY <2>1, <3>1, FS_EmptySet
  <2>2. CASE m \in Elems(q)
    <3>1. PICK i \in DOMAIN q : q[i] = m
      BY <2>2 DEF Elems
    <3>2. S(m) = {i}
      BY <1>3, <1>5, <3>1 DEF OnceIn
    <3>3. Cardinality(S(m)) = 1
      BY <3>2, FS_Singleton
    <3>4. Places["outb"] \cap Places["sent"] \subseteq cut
      BY Separate DEF Zones
    <3>5. m \notin Went
      BY <1>3, <1>5, <2>2, <3>4, PlaceIs
    <3>6. sent[m] = 0
      BY <1>2, <1>5, <3>5 DEF Went
    <3> QED  BY <2>2, <3>3, <3>6
  <2> QED  BY <2>1, <2>2
<1>6. /\ \A m \in Msg \ cut' : sent'[m] <= 1
      /\ Went' \subseteq Went \cup Elems(q) \cup cut
  <2>1. \A m \in Msg : sent'[m] = sent[m] + Cardinality(S(m))
    BY <1>1
  <2> HIDE DEF S, q
  <2>2. \A m \in Msg \ cut : sent[m] \in Nat /\ sent[m] <= 1
    BY <1>2 DEF OInv
  <2>3. \A m \in Msg \ cut : sent'[m] = IF m \in Elems(q) THEN 1 ELSE sent[m]
    BY <1>5, <2>1, <2>2
  <2>4. \A m \in Msg \ cut' : sent'[m] <= 1
    BY <1>1, <2>2, <2>3
  <2>5. Went' \subseteq Went \cup Elems(q) \cup cut
    BY <2>3 DEF Went
  <2> QED  BY <2>4, <2>5
<1> HIDE DEF q
<1>7. /\ Once(tmpu', cut') /\ FilesOnce(inb', cut')
      /\ FilesOnce([f \in files' |-> File(f)'], cut') /\ Again'
      /\ Unbrought' = Unbrought /\ InInb' = InInb /\ InTmpu' = InTmpu
  BY <1>1, InboundRests
<1>8. \A p \in Caller : /\ InOutput(p)' = InOutput(p) /\ PktsOnce(rt'[p].ent, cut')
                        /\ CopyOnce(p)'
  BY <1>1, OutputRests
<1>9. /\ PktsOnce(toss', cut') /\ PktsOnce(route', cut') /\ Once(outb', cut')
      /\ InPkts(toss') = InPkts(toss) /\ InPkts(route') = InPkts(route)
  BY <1>1, <1>3 DEF OInv
<1>10. \A w \in Zones : w # "sent" => Places'[w] \subseteq Places[w] \cup cut'
  BY <1>3, <1>7, <1>8, <1>9, PlaceIs, PlaceThen DEF Zones, Caller
<1>11. Places'["sent"] \subseteq Places["sent"] \cup (Places["outb"] \ Places'["outb"]) \cup cut'
  BY <1>1, <1>3, <1>6, PlaceIs, PlaceThen
<1>12. Apart(Places', cut')
  <2>1. cut \subseteq cut' /\ "outb" \in Zones /\ "sent" \in Zones
    BY <1>1 DEF Zones
  <2> QED  BY <1>10, <1>11, <2>1, PlacesGo
<1> QED  BY <1>6, <1>7, <1>8, <1>9, <1>12, OInvThen

-----------------------------------------------------------------------------
\* The inbound.

\* A step in the inbound takes files from one of its places to another.
LEMMA InboundOnce ==
  ASSUME IInv, OInv, UNCHANGED <<given, toss, route, outb, rt, sent, cut>>,
         Once(tmpu', cut), FilesOnce(inb', cut), files' \subseteq files, Again',
         NEW src \in {"files", "inb", "tmpu"}, NEW dst \in {"files", "inb", "tmpu"},
         \A w \in {"files", "inb", "tmpu"} : w # dst => Places'[w] \subseteq Places[w] \cup cut,
         Places'[dst] \subseteq Places[dst] \cup (Places[src] \ Places'[src]) \cup cut
  PROVE  OInv'
<1>1. \A f : File(f)' = File(f)
  BY GivenStays DEF IInv
<1>2. FilesOnce([f \in files' |-> File(f)'], cut)
  BY <1>1 DEF OInv, FilesOnce
<1>3. \A p \in Caller : /\ InOutput(p)' = InOutput(p) /\ PktsOnce(rt'[p].ent, cut')
                        /\ CopyOnce(p)'
  BY OutputRests
<1>4. /\ PktsOnce(toss', cut') /\ PktsOnce(route', cut') /\ Once(outb', cut')
      /\ InPkts(toss') = InPkts(toss) /\ InPkts(route') = InPkts(route)
      /\ InOutb' = InOutb /\ Went' = Went /\ \A m \in Msg \ cut' : sent'[m] <= 1
  BY DEF OInv, InOutb, Elems, Went
<1>5. \A w \in Zones : w \notin {"files", "inb", "tmpu"} => Places'[w] = Places[w]
  BY <1>3, <1>4, PlaceIs, PlaceThen DEF Zones, Caller
<1>6. Apart(Places', cut')
  <2>1. src \in Zones /\ dst \in Zones
    BY DEF Zones
  <2>2. \A w \in Zones : w # dst => Places'[w] \subseteq Places[w] \cup cut'
    BY <1>5
  <2> QED  BY <2>1, <2>2, PlacesGo
<1> QED  BY <1>2, <1>3, <1>4, <1>6, OInvThen

LEMMA AgainThen ==
  ASSUME \A n \in DOMAIN inb' : \A y \in DOMAIN tmpu' : \A x \in DOMAIN inb'[n].msgs :
           inb'[n].kind # "pkt" =>
             \/ Elems(inb'[n].msgs[x]) \cap Elems(tmpu'[y]) \subseteq cut'
             \/ /\ x = y
                /\ \/ pc' = "idle"
                   \/ pc' \in {"unpack", "unarc"} /\ n \in todo'
                   \/ pc' = "unarc" /\ item' = <<n>>
  PROVE  Again'
BY DEF Again, Archives, Elems

LEMMA ArcsAre ==
  /\ InArcs = UNION {Held(inb[n].msgs) : n \in {x \in DOMAIN inb : inb[x].kind # "pkt"}}
  /\ InArcs' = UNION {Held(inb'[n].msgs) : n \in {x \in DOMAIN inb' : inb'[x].kind # "pkt"}}
  /\ InArcs \subseteq InInb
<1>1. InArcs' = UNION {Held(inb'[n].msgs) : n \in {x \in DOMAIN inb' : inb'[x].kind # "pkt"}}
  BY DEF InArcs, Archives, Held, Elems
<1> QED  BY <1>1 DEF InArcs, Archives, InInb

LEMMA TmpuThen == InTmpu' = Held(tmpu') \ InArcs'
BY DEF InTmpu, Held, Elems

\* Messages of an archive, and of tmpunpack.
LEMMA InArc ==
  ASSUME OInv, NEW n \in DOMAIN inb, inb[n].kind # "pkt"
  PROVE  /\ n \in Archives /\ Once(inb[n].msgs, cut)
         /\ Inside(inb[n]) = Held(inb[n].msgs) /\ Held(inb[n].msgs) \subseteq InArcs
         /\ \A x \in DOMAIN inb[n].msgs : Elems(inb[n].msgs[x]) \subseteq Inside(inb[n])
<1>1. n \in Archives
  BY DEF Archives
<1>2. Once(Parts(inb[n]), cut)
  BY DEF OInv, FilesOnce
<1> QED  BY <1>1, <1>2 DEF Parts, Inside, Held, InArcs

LEMMA InHeld ==
  ASSUME NEW t, NEW y \in DOMAIN t
  PROVE  Elems(t[y]) \subseteq Held(t)
BY DEF Held

LEMMA StartOnce ==
  ASSUME IInv, OInv, Start
  PROVE  OInv'
<1>1. /\ UNCHANGED <<given, toss, route, outb, rt, sent, cut, files, inb, tmpu>>
      /\ pc = "idle" /\ pc' = "unpack" /\ todo' = DOMAIN inb
  BY DEF Start, rvars, spool, ivars
<1>2. Again'
  <2>1. \A n \in Archives, y \in DOMAIN tmpu : \A x \in DOMAIN inb[n].msgs :
          Elems(inb[n].msgs[x]) \cap Elems(tmpu[y]) \subseteq cut \/ x = y
    BY DEF OInv, Again
  <2>2. \A n \in DOMAIN inb : inb[n].kind # "pkt" => n \in Archives
    BY DEF Archives
  <2> QED  BY <1>1, <2>1, <2>2, AgainThen
<1>3. Once(tmpu', cut) /\ FilesOnce(inb', cut)
  BY <1>1 DEF OInv
<1>4. Unbrought' = Unbrought /\ InInb' = InInb /\ InTmpu' = InTmpu
  <2>1. \A f : File(f)' = File(f)
    BY <1>1, GivenStays DEF IInv
  <2>2. Unbrought' = Unbrought
    BY <1>1, <2>1 DEF Unbrought, Inside, Held, Elems
  <2> QED  BY <1>1, <2>2 DEF InInb, InTmpu, InArcs, Held, Elems, Packets, Archives
<1>5. \A w \in {"files", "inb", "tmpu"} : Places'[w] = Places[w]
  BY <1>4, PlaceIs, PlaceThen
<1>6. "inb" \in {"files", "inb", "tmpu"}
  OBVIOUS
<1> QED  BY <1>1, <1>2, <1>3, <1>5, <1>6, InboundOnce

LEMMA ArriveOnce ==
  ASSUME IInv, OInv, NEW f, Arrive(f)
  PROVE  OInv'
<1> DEFINE x == File(f)
           n == x.name
<1>1. /\ UNCHANGED <<given, toss, route, outb, rt, sent, cut, tmpu, pc, todo, item>>
      /\ f \in files /\ files' = files \ {f} /\ n \notin DOMAIN inb
      /\ inb' = Over([y \in {n} |-> x], inb)
  BY DEF Arrive, rvars, spool, own
<1>2. \A g : File(g)' = File(g)
  BY <1>1, GivenStays DEF IInv
<1>3. Once(Parts(x), cut) /\ \A g \in files : g # f => Inside(File(g)) \cap Inside(x) \subseteq cut
  BY <1>1 DEF OInv, FilesOnce
<1>4. Unbrought' = UNION {Inside(File(g)) : g \in files \ {f}}
  BY <1>1, <1>2 DEF Unbrought, Inside, Held, Elems
<1>5. /\ Unbrought' \subseteq Unbrought /\ Inside(x) \subseteq Unbrought
      /\ Inside(x) \cap Unbrought' \subseteq cut
  BY <1>1, <1>3, <1>4 DEF Unbrought
<1> HIDE DEF x, n
<1>6. /\ DOMAIN inb' = DOMAIN inb \cup {n} /\ inb'[n] = x
      /\ \A y \in DOMAIN inb : y # n /\ inb'[y] = inb[y]
  BY <1>1 DEF Over
<1>7. InInb' = InInb \cup Inside(x)
  BY <1>6, InInbIs, InInbThen
<1>8. InArcs \subseteq InArcs'
  BY <1>6, ArcsAre
<1>9. InTmpu' \subseteq InTmpu
  BY <1>1, <1>8, TmpuThen DEF InTmpu
<1>10. /\ Places["files"] \cap Places["inb"] \subseteq cut
       /\ Places["files"] \cap Places["tmpu"] \subseteq cut
  BY Separate DEF Zones
<1>11. Inside(x) \cap InInb \subseteq cut /\ Inside(x) \cap Held(tmpu) \subseteq cut
  <2>1. Held(tmpu) \subseteq InTmpu \cup InArcs
    BY DEF InTmpu
  <2> QED  BY <1>5, <1>10, <2>1, PlaceIs, ArcsAre
<1>12. FilesOnce(inb', cut)
  <2>1. \A y \in DOMAIN inb' : Once(Parts(inb'[y]), cut)
    BY <1>3, <1>6 DEF OInv, FilesOnce, x
  <2>2. \A y \in DOMAIN inb : Inside(inb[y]) \cap Inside(x) \subseteq cut
    BY <1>11, InInbIs
  <2>3. \A y, k \in DOMAIN inb : y # k => Inside(inb[y]) \cap Inside(inb[k]) \subseteq cut
    BY DEF OInv, FilesOnce
  <2>4. \A y, k \in DOMAIN inb' : y # k => Inside(inb'[y]) \cap Inside(inb'[k]) \subseteq cut
    BY <1>6, <2>2, <2>3
  <2> QED  BY <2>1, <2>4 DEF FilesOnce
<1>13. Again'
  <2> SUFFICES ASSUME NEW k \in DOMAIN inb', NEW y \in DOMAIN tmpu', NEW z \in DOMAIN inb'[k].msgs,
                      inb'[k].kind # "pkt"
               PROVE  \/ Elems(inb'[k].msgs[z]) \cap Elems(tmpu'[y]) \subseteq cut'
                      \/ /\ z = y
                         /\ \/ pc' = "idle"
                            \/ pc' \in {"unpack", "unarc"} /\ k \in todo'
                            \/ pc' = "unarc" /\ item' = <<k>>
    BY AgainThen
  <2>1. CASE k = n
    <3>1. Elems(inb'[k].msgs[z]) \subseteq Inside(x)
      BY <1>6, <2>1 DEF Inside, Held
    <3>2. Elems(tmpu'[y]) \subseteq Held(tmpu)
      BY <1>1, InHeld
    <3> QED  BY <1>1, <1>11, <3>1, <3>2
  <2>2. CASE k # n
    <3>1. k \in Archives /\ inb'[k] = inb[k] /\ y \in DOMAIN tmpu /\ z \in DOMAIN inb[k].msgs
      BY <1>1, <1>6, <2>2 DEF Archives
    <3> HIDE DEF Archives
    <3>2. \/ Elems(inb[k].msgs[z]) \cap Elems(tmpu[y]) \subseteq cut
          \/ /\ z = y
             /\ \/ pc = "idle"
                \/ pc \in {"unpack", "unarc"} /\ k \in todo
                \/ pc = "unarc" /\ item = <<k>>
      BY <3>1 DEF OInv, Again
    <3> QED  BY <1>1, <3>1, <3>2
  <2> QED  BY <2>1, <2>2
<1>14. \A w \in {"files", "inb", "tmpu"} : w # "inb" => Places'[w] \subseteq Places[w] \cup cut
  BY <1>5, <1>9, PlaceIs, PlaceThen
<1>15. Places'["inb"] \subseteq Places["inb"] \cup (Places["files"] \ Places'["files"]) \cup cut
  BY <1>5, <1>7, PlaceIs, PlaceThen
<1>16. Once(tmpu', cut) /\ files' \subseteq files
  BY <1>1 DEF OInv
<1> QED  BY <1>1, <1>12, <1>13, <1>14, <1>15, <1>16, InboundOnce

\* An archive is unlinked, or goes to bad: what of it is in tmpunpack is now
\* only there.
LEMMA ArcLeaves ==
  ASSUME IInv, OInv, UNCHANGED <<given, toss, route, outb, rt, sent, cut, files, tmpu>>,
         NEW n \in DOMAIN inb, inb' = Less(inb, {n}), Again'
  PROVE  OInv'
<1>1. /\ DOMAIN inb' = DOMAIN inb \ {n}
      /\ \A y \in DOMAIN inb \ {n} : inb'[y] = inb[y]
  BY LessIs
<1>2. \A f : File(f)' = File(f)
  BY GivenStays DEF IInv
<1>3. Unbrought' = Unbrought
  BY <1>2 DEF Unbrought, Inside, Held, Elems
<1>4. FilesOnce(inb', cut) /\ Once(tmpu', cut)
  <2>1. FilesOnce(inb, cut) /\ Once(tmpu, cut) /\ tmpu' = tmpu
    BY DEF OInv
  <2>2. \A y \in DOMAIN inb' : y \in DOMAIN inb /\ inb'[y] = inb[y]
    BY <1>1
  <2>3. FilesOnce(inb', cut)
    BY ONLY <2>1, <2>2 DEF FilesOnce
  <2> QED  BY <2>1, <2>3
<1>5. InInb' \subseteq InInb
  <2>1. \A y \in DOMAIN inb' : y \in DOMAIN inb /\ inb'[y] = inb[y]
    BY <1>1
  <2> QED  BY ONLY <2>1, InInbIs, InInbThen
<1>6. Inside(inb[n]) \cap InInb' \subseteq cut /\ Inside(inb[n]) \subseteq InInb
  <2>1. \A k \in DOMAIN inb : k # n => Inside(inb[n]) \cap Inside(inb[k]) \subseteq cut
    BY DEF OInv, FilesOnce
  <2> QED  BY <1>1, <2>1, InInbIs, InInbThen
<1>7. InArcs \subseteq InArcs' \cup Inside(inb[n])
  <2> SUFFICES ASSUME NEW k \in {x \in DOMAIN inb : inb[x].kind # "pkt"}
               PROVE  Held(inb[k].msgs) \subseteq InArcs' \cup Inside(inb[n])
    BY ArcsAre
  <2>1. CASE k = n
    BY <2>1 DEF Inside
  <2>2. CASE k # n
    BY <1>1, <2>2, ArcsAre
  <2> QED  BY <2>1, <2>2
<1>8. InTmpu' \subseteq InTmpu \cup Inside(inb[n])
  BY <1>7, TmpuThen DEF InTmpu
<1>9. InTmpu' \subseteq InTmpu \cup (InInb \ InInb') \cup cut
  BY <1>6, <1>8
<1>10. \A w \in {"files", "inb", "tmpu"} : w # "tmpu" => Places'[w] \subseteq Places[w] \cup cut
  BY <1>3, <1>5, PlaceIs, PlaceThen
<1>11. Places'["tmpu"] \subseteq Places["tmpu"] \cup (Places["inb"] \ Places'["inb"]) \cup cut
  BY <1>9, PlaceIs, PlaceThen
<1> QED  BY <1>4, <1>10, <1>11, InboundOnce

\* Some of it is unpacked: what tmpunpack had by the same names is gone.
LEMMA ArcUnpacked ==
  ASSUME IInv, OInv, UNCHANGED <<given, toss, route, outb, rt, sent, cut, files, inb>>,
         NEW n \in DOMAIN inb, inb[n].kind # "pkt", NEW g, DOMAIN g \subseteq DOMAIN inb[n].msgs,
         \A y \in DOMAIN g : g[y] = inb[n].msgs[y], tmpu' = Over(g, tmpu),
         pc = "unpack", pc' = "unarc", item' = <<n>>, todo' = todo \ {n}
  PROVE  OInv'
<1>1. /\ DOMAIN tmpu' = DOMAIN g \cup DOMAIN tmpu
      /\ \A y \in DOMAIN g : tmpu'[y] = g[y]
      /\ \A y \in DOMAIN tmpu : y \notin DOMAIN g => tmpu'[y] = tmpu[y]
  <2>1. /\ DOMAIN Over(g, tmpu) = DOMAIN g \cup DOMAIN tmpu
        /\ \A y \in DOMAIN g : Over(g, tmpu)[y] = g[y]
        /\ \A y \in DOMAIN tmpu : y \notin DOMAIN g => Over(g, tmpu)[y] = tmpu[y]
    BY OverIs
  <2> QED  BY <2>1
<1>2. /\ n \in Archives /\ Once(g, cut) /\ Held(g) \subseteq Inside(inb[n])
      /\ Held(g) \subseteq InArcs /\ \A x \in DOMAIN g : Elems(g[x]) \subseteq Held(g)
  <2>1. /\ n \in Archives /\ Once(inb[n].msgs, cut)
        /\ Inside(inb[n]) = Held(inb[n].msgs) /\ Held(inb[n].msgs) \subseteq InArcs
    BY InArc
  <2>2. Once(g, cut)
    BY <2>1 DEF Once
  <2>3. Held(g) \subseteq Held(inb[n].msgs)
    BY DEF Held
  <2> QED  BY <2>1, <2>2, <2>3, InHeld
<1>3. ASSUME NEW x \in DOMAIN g, NEW y \in DOMAIN tmpu, x # y
      PROVE  Elems(g[x]) \cap Elems(tmpu[y]) \subseteq cut
  BY <1>2, <1>3 DEF OInv, Again
<1>4. Once(tmpu', cut)
  <2>1. \A y \in DOMAIN tmpu' : OnceIn(tmpu'[y], cut)
    BY <1>1, <1>2 DEF OInv, Once
  <2>2. \A x, y \in DOMAIN g : x # y => Elems(g[x]) \cap Elems(g[y]) \subseteq cut
    BY <1>2 DEF Once
  <2>3. \A x, y \in DOMAIN tmpu : x # y => Elems(tmpu[x]) \cap Elems(tmpu[y]) \subseteq cut
    BY DEF OInv, Once
  <2>4. ASSUME NEW x \in DOMAIN tmpu', NEW y \in DOMAIN tmpu', x # y
        PROVE  Elems(tmpu'[x]) \cap Elems(tmpu'[y]) \subseteq cut
    <3>1. CASE x \in DOMAIN g /\ y \in DOMAIN g
      BY <1>1, <2>2, <2>4, <3>1
    <3>2. CASE x \in DOMAIN g /\ y \notin DOMAIN g
      <4>1. y \in DOMAIN tmpu /\ Elems(g[x]) \cap Elems(tmpu[y]) \subseteq cut
        BY <1>1, <1>3, <2>4, <3>2
      <4> QED  BY <1>1, <3>2, <4>1
    <3>3. CASE x \notin DOMAIN g /\ y \in DOMAIN g
      <4>1. x \in DOMAIN tmpu /\ Elems(g[y]) \cap Elems(tmpu[x]) \subseteq cut
        BY <1>1, <1>3, <2>4, <3>3
      <4> QED  BY <1>1, <3>3, <4>1
    <3>4. CASE x \notin DOMAIN g /\ y \notin DOMAIN g
      BY <1>1, <2>3, <2>4, <3>4
    <3> QED  BY <3>1, <3>2, <3>3, <3>4
  <2> QED  BY <2>1, <2>4 DEF Once
<1>5. Held(tmpu') \subseteq Held(tmpu) \cup Held(g)
  <2>1. \A y \in DOMAIN tmpu' : Elems(tmpu'[y]) \subseteq Held(tmpu) \cup Held(g)
    BY <1>1, InHeld
  <2> QED  BY <2>1 DEF Held
<1>6. /\ \A f : File(f)' = File(f)
      /\ InArcs' = InArcs /\ InInb' = InInb
  BY GivenStays, ArcsAre, InInbIs, InInbThen DEF IInv
<1>7. InTmpu' \subseteq InTmpu
  BY <1>2, <1>5, <1>6, TmpuThen DEF InTmpu
<1>8. Unbrought' = Unbrought
  BY <1>6 DEF Unbrought, Inside, Held, Elems
<1>9. Again'
  <2> SUFFICES ASSUME NEW k \in DOMAIN inb, NEW y \in DOMAIN tmpu', NEW x \in DOMAIN inb[k].msgs,
                      inb[k].kind # "pkt"
               PROVE  \/ Elems(inb[k].msgs[x]) \cap Elems(tmpu'[y]) \subseteq cut
                      \/ x = y /\ (k \in todo' \/ k = n)
    BY AgainThen
  <2>1. /\ k \in Archives /\ Elems(inb[k].msgs[x]) \subseteq Inside(inb[k])
    BY InArc
  <2>2. CASE y \in DOMAIN g
    <3>1. /\ tmpu'[y] = g[y] /\ Elems(g[y]) \subseteq Inside(inb[n])
          /\ y \in DOMAIN inb[n].msgs /\ g[y] = inb[n].msgs[y]
      BY <1>1, <1>2, <2>2
    <3>2. CASE k = n
      <4>1. Once(inb[n].msgs, cut)
        BY InArc
      <4>2. x # y => Elems(inb[n].msgs[x]) \cap Elems(inb[n].msgs[y]) \subseteq cut
        BY <3>1, <3>2, <4>1 DEF Once
      <4> QED  BY <3>1, <3>2, <4>2
    <3>3. CASE k # n
      <4>1. Inside(inb[k]) \cap Inside(inb[n]) \subseteq cut
        BY <3>3 DEF OInv, FilesOnce
      <4> QED  BY <2>1, <3>1, <4>1
    <3> QED  BY <3>2, <3>3
  <2>3. CASE y \notin DOMAIN g
    <3>1. y \in DOMAIN tmpu /\ tmpu'[y] = tmpu[y]
      BY <1>1, <2>3
    <3>2. \/ Elems(inb[k].msgs[x]) \cap Elems(tmpu[y]) \subseteq cut
          \/ x = y /\ k \in todo
      BY <2>1, <3>1 DEF OInv, Again
    <3> QED  BY <3>1, <3>2
  <2> QED  BY <2>2, <2>3
<1>10. FilesOnce(inb', cut)
  BY DEF OInv
<1>11. \A w \in {"files", "inb", "tmpu"} : Places'[w] \subseteq Places[w] \cup cut
  BY <1>6, <1>7, <1>8, PlaceIs, PlaceThen
<1>12. "inb" \in {"files", "inb", "tmpu"}
  OBVIOUS
<1> QED  BY <1>4, <1>9, <1>10, <1>11, <1>12, InboundOnce

LEMMA LookOnce ==
  ASSUME IInv, OInv, Look
  PROVE  OInv'
<1>1. /\ UNCHANGED <<given, toss, route, outb, rt, sent, cut, files, inb>> /\ pc = "unpack"
  BY DEF Look, spool
<1>2. RunincAt
  BY DEF IInv
<1>3. PICK n \in todo :
        /\ todo' = todo \ {n}
        /\ \/ inb[n].kind = "pkt" /\ UNCHANGED <<tmpu, item, pc, gone>>
           \/ /\ inb[n].kind # "pkt" /\ item' = <<n>> /\ pc' = "unarc"
              /\ \E g : /\ DOMAIN g \subseteq DOMAIN inb[n].msgs
                        /\ \A y \in DOMAIN g : g[y] = inb[n].msgs[y]
                        /\ inb[n].ok => DOMAIN g = DOMAIN inb[n].msgs
                        /\ tmpu' = Over(g, tmpu)
                        /\ gone' = gone \cup UNION {Elems(tmpu[x]) : x \in
                                     {y \in DOMAIN tmpu \cap DOMAIN g : tmpu[y] # g[y]}}
  BY LookIs
<1>4. n \in DOMAIN inb
  BY <1>1, <1>2 DEF RunincAt
<1>5. \A k \in Archives, y \in DOMAIN tmpu : \A x \in DOMAIN inb[k].msgs :
        \/ Elems(inb[k].msgs[x]) \cap Elems(tmpu[y]) \subseteq cut
        \/ x = y /\ k \in todo
  BY <1>1 DEF OInv, Again
<1>6. CASE inb[n].kind = "pkt"
  <2>1. UNCHANGED <<inb, tmpu, item, pc>>
    BY <1>1, <1>3, <1>6
  <2>2. Again'
    <3>1. \A k \in DOMAIN inb : inb[k].kind # "pkt" => k \in Archives /\ k # n
      BY <1>6 DEF Archives
    <3> QED  BY <1>1, <1>3, <1>5, <2>1, <3>1, AgainThen
  <2>3. Once(tmpu', cut) /\ FilesOnce(inb', cut)
    BY <2>1 DEF OInv
  <2>4. Unbrought' = Unbrought /\ InInb' = InInb /\ InTmpu' = InTmpu
    <3>1. \A f : File(f)' = File(f)
      BY <1>1, GivenStays DEF IInv
    <3>2. Unbrought' = Unbrought
      BY <1>1, <3>1 DEF Unbrought, Inside, Held, Elems
    <3> QED  BY <2>1, <3>2 DEF InInb, InTmpu, InArcs, Held, Elems, Packets, Archives
  <2>5. \A w \in {"files", "inb", "tmpu"} : Places'[w] = Places[w]
    BY <2>4, PlaceIs, PlaceThen
  <2>6. "inb" \in {"files", "inb", "tmpu"}
    OBVIOUS
  <2> QED  BY <1>1, <2>2, <2>3, <2>5, <2>6, InboundOnce
<1>7. CASE inb[n].kind # "pkt"
  BY <1>1, <1>3, <1>4, <1>7, ArcUnpacked
<1> QED  BY <1>6, <1>7

LEMMA ItemOnce ==
  ASSUME IInv, OInv, Unpacked \/ Unfit
  PROVE  OInv'
<1>1. /\ UNCHANGED <<given, toss, route, outb, rt, sent, cut, files, tmpu, todo>>
      /\ pc = "unarc" /\ pc' = "unpack" /\ inb' = Less(inb, Elems(item))
  BY DEF Unpacked, Unfit, rvars, spool
<1>2. RunincAt
  BY DEF IInv
<1>3. PICK n \in Archives : item = <<n>>
  BY <1>1, <1>2 DEF RunincAt
<1>4. Elems(item) = {n} /\ n \in DOMAIN inb
  <2>1. DOMAIN item = {1} /\ item[1] = n
    BY <1>3
  <2> QED  BY <2>1 DEF Elems, Archives
<1>5. /\ DOMAIN inb' = DOMAIN inb \ {n}
      /\ \A y \in DOMAIN inb \ {n} : inb'[y] = inb[y]
  BY <1>1, <1>4, LessIs
<1>6. \A k \in Archives, y \in DOMAIN tmpu : \A x \in DOMAIN inb[k].msgs :
        \/ Elems(inb[k].msgs[x]) \cap Elems(tmpu[y]) \subseteq cut
        \/ x = y /\ (k \in todo \/ k = n)
  <2>1. \A k : item = <<k>> => k = n
    BY <1>3
  <2> QED  BY <1>1, <2>1 DEF OInv, Again
<1>7. Again'
  <2>1. \A k \in DOMAIN inb : inb[k].kind # "pkt" => k \in Archives
    BY DEF Archives
  <2> QED  BY <1>1, <1>5, <1>6, <2>1, AgainThen
<1> QED  BY <1>1, <1>4, <1>7, ArcLeaves

\* After the last file nothing of tmpunpack is in an archive.
LEMMA UnpackEndOnce ==
  ASSUME IInv, OInv, UnpackEnd
  PROVE  OInv'
<1>1. /\ UNCHANGED <<given, toss, route, outb, rt, sent, cut, files, item, todo>>
      /\ pc = "unpack" /\ todo = {} /\ pc' \in {"toss", "idle"}
  BY DEF UnpackEnd, spool
<1>2. \A k \in Archives, y \in DOMAIN tmpu : \A x \in DOMAIN inb[k].msgs :
        Elems(inb[k].msgs[x]) \cap Elems(tmpu[y]) \subseteq cut
  BY <1>1 DEF OInv, Again
<1>3. Held(tmpu) \subseteq InTmpu \cup cut
  <2>1. \A k \in Archives : Held(inb[k].msgs) \cap Held(tmpu) \subseteq cut
    BY <1>2 DEF Held
  <2> QED  BY <2>1 DEF InTmpu, InArcs
<1>4. Unbrought' = Unbrought
  <2>1. \A f : File(f)' = File(f)
    BY <1>1, GivenStays DEF IInv
  <2> QED  BY <1>1, <2>1 DEF Unbrought, Inside, Held, Elems
<1>5. CASE ~unpflag
  <2>1. UNCHANGED <<inb, tmpu>>
    BY <1>5 DEF UnpackEnd
  <2>2. Again'
    <3>1. \A k \in DOMAIN inb : inb[k].kind # "pkt" => k \in Archives
      BY DEF Archives
    <3> QED  BY <1>1, <1>2, <2>1, <3>1, AgainThen
  <2>3. Once(tmpu', cut) /\ FilesOnce(inb', cut)
    BY <2>1 DEF OInv
  <2>4. InInb' = InInb /\ InTmpu' = InTmpu
    BY <2>1 DEF InInb, InTmpu, InArcs, Held, Elems, Packets, Archives
  <2>5. \A w \in {"files", "inb", "tmpu"} : Places'[w] = Places[w]
    BY <1>4, <2>4, PlaceIs, PlaceThen
  <2>6. "inb" \in {"files", "inb", "tmpu"}
    OBVIOUS
  <2> QED  BY <1>1, <2>2, <2>3, <2>5, <2>6, InboundOnce
<1>6. CASE unpflag
  <2> DEFINE g == [n \in DOMAIN tmpu |-> [kind |-> "pkt", ok |-> TRUE, name |-> n,
                                          msgs |-> tmpu[n]]]
  <2>1. inb' = Over(g, inb) /\ tmpu' = NoMail
    BY <1>6 DEF UnpackEnd, Moved
  <2>2. \A n \in DOMAIN tmpu : g[n].kind = "pkt" /\ g[n].msgs = tmpu[n]
    OBVIOUS
  <2>3. DOMAIN g = DOMAIN tmpu
    OBVIOUS
  <2> HIDE DEF g
  <2>4. /\ DOMAIN inb' = DOMAIN tmpu \cup DOMAIN inb
        /\ \A n \in DOMAIN tmpu : inb'[n] = g[n]
        /\ \A n \in DOMAIN inb : n \notin DOMAIN tmpu => inb'[n] = inb[n]
    <3>1. /\ DOMAIN Over(g, inb) = DOMAIN g \cup DOMAIN inb
          /\ \A y \in DOMAIN g : Over(g, inb)[y] = g[y]
          /\ \A y \in DOMAIN inb : y \notin DOMAIN g => Over(g, inb)[y] = inb[y]
      BY OverIs
    <3> QED  BY <2>1, <2>3, <3>1
  <2>5. ASSUME NEW n \in DOMAIN tmpu
        PROVE  /\ Inside(inb'[n]) = Elems(tmpu[n]) /\ Elems(tmpu[n]) \subseteq Held(tmpu)
               /\ Once(Parts(inb'[n]), cut)
    <3>1. Inside(inb'[n]) = Elems(tmpu[n]) /\ Parts(inb'[n]) = <<tmpu[n]>>
      BY <2>2, <2>4 DEF Inside, Parts
    <3>2. OnceIn(tmpu[n], cut)
      BY DEF OInv, Once
    <3>3. DOMAIN <<tmpu[n]>> = {1} /\ <<tmpu[n]>>[1] = tmpu[n]
      OBVIOUS
    <3>4. Once(<<tmpu[n]>>, cut)
      BY <3>2, <3>3 DEF Once
    <3> QED  BY <3>1, <3>4, InHeld
  <2>6. Held(tmpu) \cap InInb \subseteq cut
    <3>1. Places["tmpu"] \cap Places["inb"] \subseteq cut
      BY Separate DEF Zones
    <3> QED  BY <1>3, <3>1, PlaceIs
  <2>7. \A n \in DOMAIN inb : Inside(inb[n]) \subseteq InInb
    BY InInbIs
  <2>8. FilesOnce(inb', cut)
    <3>1. \A n \in DOMAIN inb' : Once(Parts(inb'[n]), cut)
      BY <2>4, <2>5 DEF OInv, FilesOnce
    <3>2. ASSUME NEW n \in DOMAIN inb', NEW k \in DOMAIN inb', n # k
          PROVE  Inside(inb'[n]) \cap Inside(inb'[k]) \subseteq cut
      <4>1. CASE n \in DOMAIN tmpu /\ k \in DOMAIN tmpu
        <5>1. Elems(tmpu[n]) \cap Elems(tmpu[k]) \subseteq cut
          BY <3>2, <4>1 DEF OInv, Once
        <5> QED  BY <2>5, <4>1, <5>1
      <4>2. CASE n \in DOMAIN tmpu /\ k \notin DOMAIN tmpu
        BY <2>4, <2>5, <2>6, <2>7, <4>2
      <4>3. CASE n \notin DOMAIN tmpu /\ k \in DOMAIN tmpu
        BY <2>4, <2>5, <2>6, <2>7, <4>3
      <4>4. CASE n \notin DOMAIN tmpu /\ k \notin DOMAIN tmpu
        BY <2>4, <3>2, <4>4 DEF OInv, FilesOnce
      <4> QED  BY <4>1, <4>2, <4>3, <4>4
    <3> QED  BY <3>1, <3>2 DEF FilesOnce
  <2>9. InInb' \subseteq InInb \cup Held(tmpu)
    <3>1. \A n \in DOMAIN inb' : Inside(inb'[n]) \subseteq InInb \cup Held(tmpu)
      BY <2>4, <2>5, <2>7
    <3> QED  BY <3>1, InInbThen
  <2>10. DOMAIN tmpu' = {} /\ Held(tmpu') = {}
    BY <2>1 DEF NoMail, Held
  <2>11. InTmpu' = {}
    BY <2>10, TmpuThen
  <2>12. Once(tmpu', cut) /\ Again'
    BY <2>10, AgainThen DEF Once
  <2>13. \A w \in {"files", "inb", "tmpu"} : w # "inb" => Places'[w] \subseteq Places[w] \cup cut
    BY <1>4, <2>11, PlaceIs, PlaceThen
  <2>14. Places'["inb"] \subseteq Places["inb"] \cup (Places["tmpu"] \ Places'["tmpu"]) \cup cut
    BY <1>3, <2>9, <2>11, PlaceIs, PlaceThen
  <2> QED  BY <1>1, <2>8, <2>12, <2>13, <2>14, InboundOnce
<1> QED  BY <1>5, <1>6

-----------------------------------------------------------------------------
\* ftntoss.

LEMMA AddToOnce ==
  ASSUME Given, NEW q \in Seq(Parcels), NEW m \in Numbers, NEW c, PktsOnce(q, c),
         m \in c \/ m \notin InPkts(q)
  PROVE  PktsOnce(AddTo(q, m), c) /\ InPkts(AddTo(q, m)) \subseteq InPkts(q) \cup {m}
<1> DEFINE old == {i \in DOMAIN q : Same(q[i], Key(m))}
           x == Packet(Key(m), Key(m).to, <<m>>)
<1>1. CASE Killed(mail[m])
  BY <1>1 DEF AddTo
<1>2. CASE ~Killed(mail[m]) /\ old = {}
  <2>1. AddTo(q, m) = Append(q, x)
    BY <1>2 DEF AddTo
  <2>2. x.msgs = <<m>>
    BY DEF Packet
  <2>3. <<m>> \in Seq(Numbers) /\ DOMAIN <<m>> = {1} /\ <<m>>[1] = m
    OBVIOUS
  <2>4. OnceIn(x.msgs, c) /\ Elems(x.msgs) = {m}
    BY <2>2, <2>3 DEF OnceIn, Elems
  <2> HIDE DEF x
  <2> DEFINE S == Parcels \cup {x}
  <2>5. q \in Seq(S) /\ x \in S
    OBVIOUS
  <2> HIDE DEF S
  <2> QED  BY <2>1, <2>4, <2>5, AppendPktOnce, OneMore
<1>3. CASE ~Killed(mail[m]) /\ old # {}
  <2> DEFINE e == Least(old)
             ms == Append(q[e].msgs, m)
             y == [q[e] EXCEPT !.msgs = ms]
  <2>1. e \in DOMAIN q
    <3>1. old \in SUBSET Nat
      OBVIOUS
    <3>2. e \in old
      BY <1>3, <3>1, LeastIs
    <3> QED  BY <3>2
  <2>2. AddTo(q, m) = [q EXCEPT ![e] = y]
    BY <1>3 DEF AddTo
  <2> HIDE DEF e
  <2>3. q[e].msgs \in Seq(Numbers) /\ OnceIn(q[e].msgs, c) /\ Elems(q[e].msgs) \subseteq InPkts(q)
    <3>1. q[e] \in Parcels
      BY <2>1
    <3> QED  BY <2>1, <3>1, InPktsIs DEF Parcels, PktsOnce
  <2>4. OnceIn(ms, c) /\ Elems(ms) = Elems(q[e].msgs) \cup {m}
    BY <2>3, AppendOnce
  <2>5. y.msgs = ms
    BY <2>1 DEF Parcels
  <2> HIDE DEF ms, y
  <2> DEFINE X == {m}
  <2>6. X \cap InPkts(q) \subseteq c
    OBVIOUS
  <2>7. OnceIn(y.msgs, c) /\ Elems(y.msgs) \subseteq Elems(q[e].msgs) \cup X
    BY <2>4, <2>5
  <2> HIDE DEF X
  <2>8. PktsOnce([q EXCEPT ![e] = y], c) /\ InPkts([q EXCEPT ![e] = y]) \subseteq InPkts(q) \cup X
    BY <2>1, <2>6, <2>7, ChangedOnce
  <2> QED  BY <2>2, <2>8 DEF X
<1> QED  BY <1>1, <1>2, <1>3

LEMMA TossedOnce ==
  ASSUME Given, NEW ms \in Seq(Numbers), NEW c, OnceIn(ms, c)
  PROVE  PktsOnce(Tossed(ms), c) /\ InPkts(Tossed(ms)) \subseteq Elems(ms)
<1> DEFINE n == Len(ms)
<1>1. n \in Nat /\ DOMAIN ms = 1 .. n /\ \A i \in 1 .. n : ms[i] \in Numbers
  OBVIOUS
<1>2. PICK Made : /\ Tossed(ms) = Made[n] /\ Made[0] = <<>>
                  /\ \A i \in 1 .. n : Made[i] = AddTo(Made[i - 1], ms[i])
  BY TossedWalk
<1> HIDE DEF n
<1> DEFINE Before(i) == {ms[j] : j \in 1 .. i}
           Has(i) == {q \in Seq(Parcels) : PktsOnce(q, c) /\ InPkts(q) \subseteq Before(i)}
           H == [i \in 0 .. n |-> Has(i)]
<1>3. Made[0] \in Has(0)
  <2>1. Made[0] = <<>> /\ <<>> \in Seq(Parcels)
    BY <1>2
  <2> QED  BY <2>1, NothingOnce, NoPkts
<1>4. ASSUME NEW i \in 1 .. n, Made[i - 1] \in Has(i - 1) PROVE Made[i] \in Has(i)
  <2> DEFINE q == Made[i - 1]
  <2>1. Made[i] = AddTo(q, ms[i]) /\ ms[i] \in Numbers
    BY <1>1, <1>2
  <2>2. q \in Seq(Parcels) /\ PktsOnce(q, c) /\ InPkts(q) \subseteq Before(i - 1)
    BY <1>4
  <2> HIDE DEF q
  <2>3. ms[i] \in c \/ ms[i] \notin InPkts(q)
    <3>1. \A j \in 1 .. i - 1 : j \in 1 .. n /\ j # i
      BY <1>1
    <3>2. \A j \in 1 .. i - 1 : ms[j] = ms[i] => ms[i] \in c
      BY <1>1, <3>1 DEF OnceIn
    <3> QED  BY <2>2, <3>2
  <2>4. Before(i - 1) \cup {ms[i]} \subseteq Before(i)
    BY <1>1
  <2> HIDE DEF Before
  <2>5. /\ AddTo(q, ms[i]) \in Seq(Parcels) /\ PktsOnce(AddTo(q, ms[i]), c)
        /\ InPkts(AddTo(q, ms[i])) \subseteq InPkts(q) \cup {ms[i]}
    BY <2>1, <2>2, <2>3, AddToIs, AddToOnce
  <2> QED  BY <2>1, <2>2, <2>4, <2>5
<1> HIDE DEF Has
<1>5. \A i \in 0 .. n : Made[i] \in H[i]
  <2>1. Made[0] \in H[0] /\ \A i \in 1 .. n : Made[i - 1] \in H[i - 1] => Made[i] \in H[i]
    BY <1>1, <1>3, <1>4
  <2> HIDE DEF H
  <2> QED  BY <1>1, <2>1, Along
<1>6. Made[n] \in Has(n)
  BY <1>1, <1>5
<1>7. Before(n) \subseteq Elems(ms)
  BY <1>1 DEF Elems
<1> QED  BY <1>2, <1>6, <1>7 DEF Has

LEMMA AllOfOnce ==
  ASSUME NEW names, NEW s \in Seq(names), NEW c, FilesOnce(inb, c),
         \A x \in names : x \in DOMAIN Packets /\ Packets[x] \in Seq(Numbers),
         \A i, k \in DOMAIN s : s[i] = s[k] => i = k
  PROVE  /\ OnceIn(AllOf(s), c)
         /\ Elems(AllOf(s)) \subseteq UNION {Elems(Packets[x]) : x \in names}
<1> DEFINE n == Len(s)
<1>1. n \in Nat /\ DOMAIN s = 1 .. n /\ \A i \in 1 .. n : s[i] \in names
  OBVIOUS
<1>2. PICK All : /\ AllOf(s) = All[n] /\ All[0] = <<>>
                 /\ \A i \in 1 .. n : All[i] = All[i - 1] \o Packets[s[i]]
  BY AllOfWalk
<1> HIDE DEF n
<1>3. ASSUME NEW x \in names
      PROVE  /\ OnceIn(Packets[x], c) /\ Packets[x] \in Seq(Numbers)
             /\ \A y \in names : y # x => Elems(Packets[y]) \cap Elems(Packets[x]) \subseteq c
  <2>1. \A y \in names : y \in DOMAIN inb /\ inb[y].kind = "pkt" /\ Packets[y] = inb[y].msgs
    BY DEF Packets
  <2>2. Once(<<inb[x].msgs>>, c)
    BY <2>1 DEF FilesOnce, Parts
  <2>3. 1 \in DOMAIN <<inb[x].msgs>> /\ <<inb[x].msgs>>[1] = inb[x].msgs
    OBVIOUS
  <2>4. OnceIn(inb[x].msgs, c)
    BY <2>2, <2>3 DEF Once
  <2>5. \A y \in names : Inside(inb[y]) = Elems(Packets[y])
    BY <2>1 DEF Inside
  <2> QED  BY <2>1, <2>4, <2>5 DEF FilesOnce
<1> DEFINE In(x) == Elems(Packets[x])
           Before(i) == UNION {In(s[j]) : j \in 1 .. i}
           Has(i) == {q \in Seq(Numbers) : OnceIn(q, c) /\ Elems(q) \subseteq Before(i)}
           H == [i \in 0 .. n |-> Has(i)]
<1>4. All[0] \in Has(0)
  <2>1. All[0] = <<>> /\ <<>> \in Seq(Numbers)
    BY <1>2
  <2> QED  BY <2>1, NothingOnce
<1>5. ASSUME NEW i \in 1 .. n, All[i - 1] \in Has(i - 1) PROVE All[i] \in Has(i)
  <2> DEFINE a == All[i - 1]
             b == Packets[s[i]]
  <2>1. All[i] = a \o b /\ s[i] \in names
    BY <1>1, <1>2
  <2>2. a \in Seq(Numbers) /\ OnceIn(a, c) /\ Elems(a) \subseteq Before(i - 1)
    BY <1>5
  <2> HIDE DEF a
  <2>3. Before(i - 1) \cap In(s[i]) \subseteq c
    <3>1. \A j \in 1 .. i - 1 : j \in DOMAIN s /\ j # i /\ i \in DOMAIN s
      BY <1>1
    <3>2. \A j \in 1 .. i - 1 : s[j] # s[i] /\ s[j] \in names
      BY <1>1, <3>1
    <3>3. \A j \in 1 .. i - 1 : In(s[j]) \cap In(s[i]) \subseteq c
      BY <1>3, <2>1, <3>2
    <3> QED  BY <3>3
  <2>4. Before(i - 1) \cup In(s[i]) \subseteq Before(i)
    <3>1. i \in 1 .. i /\ \A j \in 1 .. i - 1 : j \in 1 .. i
      BY <1>1
    <3> QED  BY <3>1
  <2>5. b \in Seq(Numbers) /\ OnceIn(b, c) /\ Elems(b) = In(s[i])
    BY <1>3, <2>1
  <2> HIDE DEF b, In, Before
  <2>6. a \o b \in Seq(Numbers) /\ OnceIn(a \o b, c) /\ Elems(a \o b) = Elems(a) \cup Elems(b)
    <3>1. Elems(a) \cap Elems(b) \subseteq c
      BY <2>2, <2>3, <2>5
    <3> QED  BY <2>2, <2>5, <3>1, TogetherOnce
  <2> QED  BY <2>1, <2>2, <2>4, <2>5, <2>6
<1> HIDE DEF Has
<1>6. \A i \in 0 .. n : All[i] \in H[i]
  <2>1. All[0] \in H[0] /\ \A i \in 1 .. n : All[i - 1] \in H[i - 1] => All[i] \in H[i]
    BY <1>1, <1>4, <1>5
  <2> HIDE DEF H
  <2> QED  BY <1>1, <2>1, Along
<1>7. All[n] \in Has(n)
  BY <1>1, <1>6
<1>8. Before(n) \subseteq UNION {In(x) : x \in names}
  BY <1>1
<1> QED  BY <1>2, <1>7, <1>8 DEF Has

\* The packets it takes come in some order, each once.
LEMMA TakeOrder ==
  ASSUME IInv, NEW names \in SUBSET DOMAIN Packets, Take(names)
  PROVE  \E s \in Seq(names) : /\ \A i, k \in DOMAIN s : s[i] = s[k] => i = k
                               /\ toss' = toss \o Tossed(AllOf(s))
                               /\ inb' = Less(inb, names)
<1> DEFINE n == Cardinality(names)
<1>1. IsFiniteSet(names) /\ n \in Nat
  <2>1. names \subseteq DOMAIN inb /\ IsFiniteSet(DOMAIN inb)
    BY DEF Packets, IInv, Inbound
  <2>2. IsFiniteSet(names)
    BY <2>1, FS_Subset
  <2> QED  BY <2>2, FS_CardinalityType
<1>2. PICK s \in [1 .. n -> names] :
        /\ Elems(s) = names
        /\ toss' = toss \o Tossed(AllOf(s))
        /\ inb' = Less(inb, names)
  BY DEF Take, AllOf
<1>3. IsFiniteSet(1 .. n) /\ Cardinality(1 .. n) = n
  <2> HIDE DEF n
  <2>1. 1 \in Int /\ n \in Int /\ n >= 0
    BY <1>1
  <2> QED  BY <2>1, FS_Interval
<1>4. s \in Surjection(1 .. n, names)
  BY <1>2 DEF Surjection, Elems
<1>5. s \in Injection(1 .. n, names)
  BY <1>3, <1>4, FS_Surjection
<1>6. \A i, k \in DOMAIN s : s[i] = s[k] => i = k
  BY <1>2, <1>5 DEF Injection, IsInjective
<1>7. s \in Seq(names)
  BY <1>1, <1>2
<1> QED  BY <1>2, <1>6, <1>7

LEMMA TakeOnce ==
  ASSUME IInv, OInv, UNCHANGED <<given, route, outb, sent, cut, files, tmpu>>, pc = "toss",
         NEW names \in SUBSET DOMAIN Packets, Take(names),
         NEW r, r.ent = <<>>, r.pc = "next",
         rt' = rt \/ rt' = [rt EXCEPT !["runinc"] = r]
  PROVE  OInv'
<1>1. Given /\ Inbound /\ toss \in Seq(Parcels)
  BY DEF IInv, Typed
<1>2. PICK s \in Seq(names) : /\ \A i, k \in DOMAIN s : s[i] = s[k] => i = k
                              /\ toss' = toss \o Tossed(AllOf(s))
                              /\ inb' = Less(inb, names)
  BY TakeOrder
<1> DEFINE ms == AllOf(s)
           Taken == UNION {Elems(Packets[x]) : x \in names}
<1>3. \A x \in names : /\ x \in DOMAIN inb /\ inb[x].kind = "pkt" /\ x \in DOMAIN Packets
                       /\ Packets[x] = inb[x].msgs /\ Packets[x] \in Seq(Numbers)
  BY <1>1 DEF Packets, Inbound, IsArc
<1>4. FilesOnce(inb, cut)
  BY DEF OInv
<1>5. ms \in Seq(Numbers) /\ OnceIn(ms, cut) /\ Elems(ms) \subseteq Taken
  BY <1>2, <1>3, <1>4, AllOfIs, AllOfOnce
<1> HIDE DEF ms
<1>6. /\ Tossed(ms) \in Seq(Parcels) /\ PktsOnce(Tossed(ms), cut)
      /\ InPkts(Tossed(ms)) \subseteq Taken
  BY <1>1, <1>5, TossedIs, TossedOnce
<1>7. /\ DOMAIN inb' = DOMAIN inb \ names
      /\ \A y \in DOMAIN inb \ names : inb'[y] = inb[y]
  BY <1>2, LessIs
<1>8. \A x \in names : Inside(inb[x]) = Elems(Packets[x])
  BY <1>3 DEF Inside
<1>9. Taken \subseteq InInb /\ InInb' \subseteq InInb /\ Taken \cap InInb' \subseteq cut
  <2>1. \A x \in names, y \in DOMAIN inb \ names : Elems(Packets[x]) \cap Inside(inb[y]) \subseteq cut
    BY <1>3, <1>4, <1>8 DEF FilesOnce
  <2>2. \A x \in names : Elems(Packets[x]) \subseteq InInb
    BY <1>3, <1>8, InInbIs
  <2>3. InInb' \subseteq InInb
    BY <1>7, InInbIs, InInbThen
  <2>4. \A x \in names : Elems(Packets[x]) \cap InInb' \subseteq cut
    BY <1>7, <2>1, InInbThen
  <2> QED  BY <2>2, <2>3, <2>4
<1> HIDE DEF Taken
<1>10. PktsOnce(toss', cut) /\ InPkts(toss') = InPkts(toss) \cup InPkts(Tossed(ms))
  <2>1. Places["inb"] \cap Places["toss"] \subseteq cut
    BY Separate DEF Zones
  <2>2. InPkts(toss) \cap InPkts(Tossed(ms)) \subseteq cut
    BY <1>6, <1>9, <2>1, PlaceIs
  <2>3. PktsOnce(toss, cut)
    BY DEF OInv
  <2>4. toss' = toss \o Tossed(ms)
    BY <1>2 DEF ms
  <2> QED  BY <1>1, <1>6, <2>2, <2>3, <2>4, PktsTogetherOnce, PktsTogether
<1>11. FilesOnce(inb', cut) /\ Once(tmpu', cut)
  BY <1>7 DEF OInv, FilesOnce
<1>12. InArcs' = InArcs /\ InTmpu' = InTmpu
  <2>1. {x \in DOMAIN inb' : inb'[x].kind # "pkt"} = {x \in DOMAIN inb : inb[x].kind # "pkt"}
    BY <1>3, <1>7
  <2>2. \A x \in {y \in DOMAIN inb : inb[y].kind # "pkt"} : inb'[x] = inb[x]
    BY <1>3, <1>7
  <2>3. InArcs' = InArcs
    BY <2>1, <2>2, ArcsAre
  <2> QED  BY <2>3, TmpuThen DEF InTmpu
<1>13. Again'
  <2>1. \A n \in DOMAIN inb' : inb'[n].kind # "pkt" => n \in Archives /\ inb'[n] = inb[n]
    BY <1>7 DEF Archives
  <2>2. \A n \in Archives, y \in DOMAIN tmpu : \A x \in DOMAIN inb[n].msgs :
          Elems(inb[n].msgs[x]) \cap Elems(tmpu[y]) \subseteq cut
    BY DEF OInv, Again
  <2> QED  BY <2>1, <2>2, AgainThen
<1>14. /\ Unbrought' = Unbrought
       /\ FilesOnce([f \in files' |-> File(f)'], cut')
  <2>1. \A f : File(f)' = File(f)
    BY <1>1, GivenStays
  <2>2. Unbrought' = Unbrought
    BY <2>1 DEF Unbrought, Inside, Held, Elems
  <2>3. [f \in files' |-> File(f)'] = [f \in files |-> File(f)]
    BY <2>1
  <2> QED  BY <2>2, <2>3 DEF OInv
<1>15. \A p \in Caller : /\ InOutput(p)' \subseteq InOutput(p) /\ PktsOnce(rt'[p].ent, cut')
                         /\ CopyOnce(p)'
  <2> DEFINE k == "runinc"
  <2>1. CASE rt' = rt
    BY <2>1, OutputRests
  <2>2. CASE rt' = [rt EXCEPT ![k] = r]
    <3>1. k \in Caller /\ cut \subseteq cut'
      BY DEF Caller
    <3> HIDE DEF k
    <3>2. /\ rt'[k] = r /\ \A q \in Caller : q # k => rt'[q] = rt[q]
          /\ InOutput(k)' = {} /\ CopyOnce(k)'
      <4>1. /\ rt'[k] = r /\ \A q \in Caller : q # k => rt'[q] = rt[q]
            /\ InOutput(k)' = InPkts(r.ent) /\ CopyOnce(k)'
        BY <2>2, <3>1, OutputIs
      <4>2. InPkts(r.ent) = {}
        BY NoPkts
      <4> QED  BY <4>1, <4>2
    <3>3. \A q \in Caller : q # k => /\ InOutput(q)' = InOutput(q) /\ PktsOnce(rt'[q].ent, cut')
                                     /\ CopyOnce(q)'
      BY <3>1, <3>2, OutputRests
    <3> QED  BY <3>2, <3>3, NothingOnce
  <2> QED  BY <2>1, <2>2
<1>16. /\ PktsOnce(route', cut') /\ Once(outb', cut') /\ InPkts(route') = InPkts(route)
       /\ InOutb' = InOutb /\ Went' = Went /\ \A m \in Msg \ cut' : sent'[m] <= 1
  BY DEF OInv, InOutb, Elems, Went
<1>17. \A w \in Zones : w # "toss" => Places'[w] \subseteq Places[w] \cup cut'
  <2>1. \A p \in Caller : Places'[p] \subseteq Places[p]
    BY <1>15, PlaceIs, PlaceThen
  <2> QED  BY <1>9, <1>12, <1>14, <1>16, <2>1, PlaceIs, PlaceThen DEF Zones, Caller
<1>18. Places'["toss"] \subseteq Places["toss"] \cup (Places["inb"] \ Places'["inb"]) \cup cut'
  BY <1>6, <1>9, <1>10, PlaceIs, PlaceThen
<1>19. Apart(Places', cut')
  <2>1. cut \subseteq cut' /\ "inb" \in Zones /\ "toss" \in Zones
    BY DEF Zones
  <2> QED  BY <1>17, <1>18, <2>1, PlacesGo
<1> QED  BY <1>10, <1>11, <1>13, <1>14, <1>15, <1>16, <1>19, OInvThen

-----------------------------------------------------------------------------
\* All of it.

LEMMA RunincOnce ==
  ASSUME IInv, OInv, RunincNext \/ TossFails \/ Kill
  PROVE  OInv'
<1> DEFINE p == "runinc"
<1>1. p \in Caller /\ RunincAt
  BY DEF Caller, IInv
<1>2. CASE Start \/ Look \/ Unpacked \/ Unfit \/ UnpackEnd
  BY <1>2, StartOnce, LookOnce, ItemOnce, UnpackEndOnce
<1>3. CASE Toss
  <2> DEFINE r == [Idle EXCEPT !.pc = "next", !.left = Len(toss')]
  <2>1. /\ UNCHANGED <<given, route, outb, sent, cut, files, tmpu>> /\ pc = "toss"
        /\ rt' = [rt EXCEPT ![p] = r]
    BY <1>3 DEF Toss, RouteStart, Set
  <2>2. r.ent = <<>> /\ r.pc = "next"
    BY DEF Idle
  <2>3. PICK names \in SUBSET DOMAIN Packets : Take(names)
    BY <1>3 DEF Toss
  <2> HIDE DEF r
  <2> QED  BY <2>1, <2>2, <2>3, TakeOnce
<1>4. CASE TossFails
  <2> DEFINE r == [Idle EXCEPT !.pc = "next", !.left = Len(toss')]
  <2>1. /\ UNCHANGED <<given, route, outb, sent, cut, files, tmpu>> /\ pc = "toss"
        /\ rt' = rt \/ rt' = [rt EXCEPT ![p] = r]
    BY <1>4 DEF TossFails, RouteStart, Set
  <2>2. r.ent = <<>> /\ r.pc = "next"
    BY DEF Idle
  <2>3. PICK names \in SUBSET DOMAIN Packets : Take(names)
    BY <1>4 DEF TossFails
  <2> HIDE DEF r
  <2> QED  BY <2>1, <2>2, <2>3, TakeOnce
<1>5. CASE Routed \/ Packed
  <2> DEFINE r == [Idle EXCEPT !.pc = "pack"]
  <2>1. /\ UNCHANGED <<given, files, inb, tmpu, sent, toss, route, outb, cut>>
        /\ pc \in {"route", "pack"} /\ (Set(p, r) \/ Set(p, Idle))
    BY <1>5 DEF Routed, Packed, spool, ivars
  <2>2. r.ent = <<>> /\ r.pc = "pack" /\ Idle.ent = <<>> /\ Idle.pc = "idle"
    BY DEF Idle
  <2> HIDE DEF r, p
  <2>3. pc \notin {"idle", "unpack", "unarc"}
    BY <2>1
  <2> QED  BY <1>1, <2>1, <2>2, <2>3, SetOnce
<1>6. CASE Kill
  <2>1. /\ UNCHANGED <<given, files, inb, tmpu, sent, toss, route, outb, cut>>
        /\ pc' = "idle" /\ Set(p, Idle)
    BY <1>6 DEF Kill, RouteKill, ivars
  <2>2. Idle.ent = <<>> /\ Idle.pc = "idle"
    BY DEF Idle
  <2> HIDE DEF p
  <2> QED  BY <1>1, <2>1, <2>2, SetOnce
<1>7. CASE RouteStep(p)
  BY <1>1, <1>7, RouteStepOnce
<1> QED  BY <1>2, <1>3, <1>4, <1>5, <1>6, <1>7 DEF RunincNext

LEMMA BesideOnce ==
  ASSUME IInv, OInv, RepackNext \/ RepackKill \/ MailerSends \/ MailerBrings
  PROVE  OInv'
<1> DEFINE p == "repack"
<1>1. p \in Caller /\ IsRouter(rt[p]) /\ CallerAt(p)
  <2>1. p \in Caller
    BY DEF Caller
  <2> QED  BY <2>1, RouterTyped
<1>2. CASE RepackStart \/ RepackPack \/ RepackDone \/ RepackKill
  <2> DEFINE a == [Idle EXCEPT !.pc = "next", !.left = 0]
             b == [rt[p] EXCEPT !.pc = "pack"]
  <2>1. /\ UNCHANGED <<given, files, inb, tmpu, sent, toss, route, outb, cut, pc, todo, item>>
        /\ \/ Set(p, a)
           \/ Set(p, b) /\ rt[p].pc = "done"
           \/ Set(p, Idle)
    BY <1>2 DEF RepackStart, RouteStart, RepackPack, RepackDone, RepackKill, RouteKill, spool,
                ivars, own
  <2>2. a.ent = <<>> /\ a.pc = "next" /\ Idle.ent = <<>> /\ Idle.pc = "idle"
    BY DEF Idle
  <2>3. rt[p].pc = "done" => b.ent = <<>> /\ b.pc = "pack"
    BY <1>1 DEF IsRouter, CallerAt
  <2> HIDE DEF a, b, p
  <2> QED  BY <1>1, <2>1, <2>2, <2>3, SetOnce
<1>3. CASE RepackStep
  BY <1>3, RepackOnce, RepackEndOnce DEF RepackStep
<1>4. CASE RouteStep(p)
  BY <1>1, <1>4, RouteStepOnce
<1>5. CASE MailerSends \/ MailerBrings
  BY <1>5, SendOnce, ArriveOnce DEF MailerSends, MailerBrings
<1> QED  BY <1>2, <1>3, <1>4, <1>5 DEF RepackNext

LEMMA RestOnce ==
  ASSUME IInv, OInv, UNCHANGED vars
  PROVE  OInv'
<1>1. UNCHANGED <<given, files, inb, tmpu, sent, toss, route, outb, cut, rt, pc, todo, item>>
  BY DEF vars, rvars, spool, ivars, own
<1>2. "runinc" \in Caller /\ cut \subseteq cut'
  BY <1>1 DEF Caller
<1> DEFINE p == "runinc"
<1> HIDE DEF p
<1>3. p \in Caller
  BY <1>2 DEF p
<1>4. InOutput(p)' = InOutput(p) /\ PktsOnce(rt'[p].ent, cut') /\ CopyOnce(p)'
  BY <1>1, <1>3, OutputRests
<1>5. PktsOnce(toss', cut') /\ PktsOnce(route', cut') /\ Once(outb', cut') /\ InOutb' = InOutb
  BY <1>1 DEF OInv, InOutb, Elems
<1>6. \A w \in {"toss", "route", p, "outb"} : Places'[w] \subseteq Places[w] \cup cut'
  BY <1>1, <1>3, <1>4, <1>5, PlaceIs, PlaceThen
<1>7. "toss" \in {"toss", "route", p, "outb"}
  OBVIOUS
<1> QED  BY <1>1, <1>3, <1>4, <1>5, <1>6, <1>7, RouterOnce

\* The mailer has each message once, in one of its files.
MailIsOnce(c) ==
  /\ \A f \in DOMAIN c.files : Once(Parts(c.files[f]), {})
  /\ \A f, g \in DOMAIN c.files : f # g => Inside(c.files[f]) \cap Inside(c.files[g]) = {}

LEMMA InitOnce ==
  ASSUME \A i \in DOMAIN Configs : MailIsOnce(Configs[i]), Init
  PROVE  OInv
<1>1. /\ toss = <<>> /\ route = <<>> /\ \A p \in Caller : rt[p] = Idle
      /\ \A k \in DOMAIN outb : outb[k] = <<>>
      /\ DOMAIN inb = {} /\ DOMAIN tmpu = {} /\ cut = {} /\ \A m \in Msg : sent[m] = 0
      /\ files = DOMAIN config.files /\ MailIsOnce(config)
  BY DEF Init, NoMail, config
<1>2. Idle.ent = <<>> /\ Idle.pc = "idle"
  BY DEF Idle
<1>3. OnceIn(<<>>, cut) /\ Elems(<<>>) = {} /\ PktsOnce(<<>>, cut) /\ InPkts(<<>>) = {}
  BY NothingOnce, NoPkts
<1>4. \A p \in Caller : PktsOnce(rt[p].ent, cut) /\ CopyOnce(p) /\ InOutput(p) = {}
  <2>1. \A p \in Caller : rt[p].ent = <<>> /\ rt[p].pc = "idle"
    BY <1>1, <1>2
  <2> QED  BY <1>3, <2>1 DEF CopyOnce, InOutput, InEnts
<1>5. Once(outb, cut) /\ InOutb = {}
  <2>1. \A k \in DOMAIN outb : OnceIn(outb[k], cut) /\ Elems(outb[k]) = {}
    BY <1>1, <1>3
  <2> QED  BY <2>1 DEF Once, InOutb
<1>6. Once(tmpu, cut) /\ Again /\ FilesOnce(inb, cut) /\ InInb = {} /\ InTmpu = {}
  BY <1>1, InInbIs DEF Once, Again, FilesOnce, InTmpu, Held
<1>7. FilesOnce([f \in files |-> File(f)], cut)
  BY <1>1 DEF MailIsOnce, FilesOnce, File
<1>8. Went = {} /\ \A m \in Msg \ cut : sent[m] <= 1
  BY <1>1 DEF Went
<1>9. Apart(Places, cut)
  <2>1. \A w \in Zones : w # "files" => Places[w] = {}
    BY <1>1, <1>3, <1>4, <1>5, <1>6, <1>8, PlaceIs DEF Zones, Caller
  <2>2. \A y, z \in Zones : y # z => Places[y] \cap Places[z] = {}
    BY <2>1
  <2> QED  BY <2>2, ZonesAre DEF Apart
<1> QED  BY <1>1, <1>3, <1>4, <1>5, <1>6, <1>7, <1>8, <1>9 DEF OInv

LEMMA AtMostOne ==
  ASSUME NEW S, \A x, y \in S : x = y
  PROVE  Cardinality(S) = IF S = {} THEN 0 ELSE 1
<1>1. CASE S = {}
  BY <1>1, FS_EmptySet
<1>2. CASE S # {}
  <2>1. PICK x : S = {x}
    BY <1>2
  <2> QED  BY <1>2, <2>1, FS_Singleton
<1> QED  BY <1>1, <1>2

LEMMA OnceCopied ==
  ASSUME IInv, OInv, NEW m \in Msg \ cut
  PROVE  Copies(m) <= 1
<1> DEFINE InRoute == {i \in DOMAIN route : m \in Elems(route[i].msgs)}
           InOut   == {k \in DOMAIN outb : m \in Elems(outb[k])}
<1>1. Cardinality(InRoute) = IF InRoute = {} THEN 0 ELSE 1
  <2>1. \A i, k \in InRoute : i = k
    BY DEF OInv, PktsOnce
  <2> HIDE DEF InRoute
  <2> QED  BY <2>1, AtMostOne
<1>2. Cardinality(InOut) = IF InOut = {} THEN 0 ELSE 1
  <2>1. \A i, k \in InOut : i = k
    BY DEF OInv, Once
  <2> HIDE DEF InOut
  <2> QED  BY <2>1, AtMostOne
<1>3. sent[m] = 0 \/ sent[m] = 1
  BY DEF IInv, Typed, OInv
<1>4. /\ InRoute # {} => m \in Places["route"]
      /\ InOut # {} => m \in Places["outb"]
      /\ sent[m] = 1 => m \in Places["sent"]
  BY PlaceIs DEF InPkts, InOutb, Went
<1>5. /\ ~(m \in Places["route"] /\ m \in Places["outb"])
      /\ ~(m \in Places["route"] /\ m \in Places["sent"])
      /\ ~(m \in Places["outb"] /\ m \in Places["sent"])
  <2>1. "route" \in Zones /\ "outb" \in Zones /\ "sent" \in Zones
    BY DEF Zones
  <2> QED  BY <2>1, Separate
<1>6. Copies(m) = sent[m] + Cardinality(InRoute) + Cardinality(InOut)
  BY DEF Copies
<1> HIDE DEF InRoute, InOut
<1> QED  BY <1>1, <1>2, <1>3, <1>4, <1>5, <1>6

\* Whatever the tables and however often programs fail, are killed and started
\* again, and cross: a message, of which the mailer has brought one, is in at
\* most one place behind toss/toss - a packet of toss/route, the outbound, or
\* sent - unless ftnroute was cut short in the middle of a packet it had
\* copied part of, or met a direct message there (toss/ftnroute.c, do_packet();
\* toss/ftnpack.c; toss/runinc.c).
THEOREM CopiedOnceHolds ==
  ASSUME \A i \in DOMAIN Configs : MailIsOnce(Configs[i])
  PROVE  Spec => []CopiedOnce
<1>1. Init => IInv /\ OInv
  BY InitIInv, InitOnce
<1>2. IInv /\ OInv /\ [Next]_vars => (IInv /\ OInv)'
  <2> SUFFICES ASSUME IInv, OInv, [Next]_vars PROVE OInv'
    BY StepIInv
  <2>1. CASE UNCHANGED vars
    BY <2>1, RestOnce
  <2>2. CASE Next
    BY <2>2, RunincOnce, BesideOnce DEF Next
  <2> QED  BY <2>1, <2>2
<1>3. IInv /\ OInv => CopiedOnce
  BY OnceCopied DEF CopiedOnce
<1> QED  BY <1>1, <1>2, <1>3, PTL DEF Spec
=============================================================================
