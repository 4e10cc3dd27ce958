--------------------------- MODULE FixMail_proofs ---------------------------
(***************************************************************************)
(* For any configuration, any messages and packets, and any failing calls  *)
(* and deaths of ftnafpkt: an area that waits for messages has been        *)
(* requested at its uplink, and one that is given up cancelled there, as   *)
(* far as the requests were sent.                                          *)
(***************************************************************************)
EXTENDS FixMail, SequenceTheorems, WellFoundedInduction, TLAPS

-----------------------------------------------------------------------------
(* What the configuration says.                                            *)

\* The state of an area that waits for messages, and of one that is given up.
Waits(st)   == st \cap {"W", "F"} # {} /\ "U" \notin st
GivenUp(st) == st # {} /\ st \subseteq {"U", "P"}

\* An area that is passive does not wait.
Plain(st) == "P" \in st => st \cap {"W", "F"} = {}

\* A state that goes with what the uplink is asked.
Suits(st, sign) ==
  Plain(st) /\ (Waits(st) => sign = "+") /\ (GivenUp(st) => sign = "-")

DistinctNames(q) == \A i, j \in DOMAIN q : q[i].name = q[j].name => i = j
Lines(q) == /\ q \in Seq(ToSet(q)) /\ DistinctNames(q)
            /\ \A i \in DOMAIN q : Plain(q[i].state)

StateOption(opts, letters) ==
  "state" \in DOMAIN opts => opts.state \cap letters = {}

\* Every area has one line; no area is made, by a link or at an uplink's entry,
\* in a state that says more than that it is there: what the uplink of such an
\* area was asked is not areafix's doing.
Settled(c) ==
  /\ Lines(c.areas)
  /\ \E Item :
       c.uplinks \in
         Seq({e \in ToSet(c.uplinks) : /\ e.files \in Seq(Seq(Item))
                                       /\ e.items \in Seq(Item)
                                       /\ StateOption(e.opts, {"P"})})
  /\ \A m \in DOMAIN c.msg :
       /\ Len(c.msg[m].lines) \in Nat
       /\ \A k \in 1..Len(c.msg[m].lines) :
            StateOption(c.msg[m].lines[k].opts, {"U", "W", "F", "P"})
  /\ c.size \in Nat /\ c.packets \subseteq Seq(DOMAIN c.msg)

-----------------------------------------------------------------------------
(* What a session keeps.                                                   *)

Parts == {"conf", "areas", "changed", "limG", "node", "auth", "reqs", "out",
           "told", "rules", "stop", "refused"}

\* What the uplink of an area was asked last: a request not yet sent, or what
\* was asked before, unless that is not known.
SaidLast(a, reqs, name, sign) ==
  \/ \E i \in DOMAIN reqs :
       /\ reqs[i].area = name /\ reqs[i].sign = sign
       /\ \A j \in DOMAIN reqs : reqs[j].area = name => j <= i
  \/ /\ \A i \in DOMAIN reqs : reqs[i].area # name
     /\ name \in DOMAIN a /\ a[name] \in {sign, "?"}

Right(name, st, a, reqs) ==
  /\ Plain(st)
  /\ Waits(st) => SaidLast(a, reqs, name, "+")
  /\ GivenUp(st) => SaidLast(a, reqs, name, "-")

AreaList(q) == /\ q \in Seq(ToSet(q)) /\ DistinctNames(q)
               /\ \A i \in DOMAIN q : {"name", "state"} \subseteq DOMAIN q[i]

\* The areas that were read are there, and others behind them.
Still(q, b) == \A i \in DOMAIN b : i \in DOMAIN q /\ q[i] = b[i]

\* A session of configuration c, where a is what was asked before the message
\* and b the areas that were read: the state of each area goes with what its
\* uplink has been asked, but for areas X, for which it is just being asked.
Ok(s, c, a, b, X) ==
  /\ Parts \subseteq DOMAIN s /\ s.conf = c
  /\ AreaList(s.areas) /\ s.reqs \in Seq(ToSet(s.reqs))
  /\ \A i \in DOMAIN s.areas :
       LET p == s.areas[i] IN IF p.name \in X THEN Suits(p.state, "+")
                              ELSE Right(p.name, p.state, a, s.reqs)
  /\ ~s.changed => Still(s.areas, b) /\ s.reqs = <<>> /\ X = {}

-----------------------------------------------------------------------------
(* The invariant.                                                          *)

Packets == Seq(Seq(DOMAIN conf.msg))

\* A run takes the packets that were there when it started, one by one.
MailIn ==
  /\ coming \in Packets /\ inbound \in Packets /\ queue \in Packets
  /\ Len(queue) <= Len(inbound)
  /\ pc # "idle" => pos \in Nat \ {0}
  /\ pc \in {"send", "reply"} => queue # <<>>

\* What may be taken for what the uplinks were asked: of an area whose requests
\* got into each other's way, nothing.
Sure == Over([name \in muddled |-> "?"], asked)

\* areas.bbs goes with what the uplinks were asked before this run.
FileAsked ==
  /\ Lines(file)
  /\ \A i \in DOMAIN file :
       file[i].name \notin mine => Right(file[i].name, file[i].state, Sure, <<>>)
  /\ pc = "idle" => mine = {}

Working ==
  pc # "idle" => /\ Ok(mem, conf, Sure, Areas(file), {})
                 /\ pc # "send" => mem.reqs = <<>>

FixInv == conf \in ToSet(Setups) /\ MailIn /\ FileAsked /\ Working

-----------------------------------------------------------------------------
(* Sequences and loops.                                                    *)

LEMMA LeastOf ==
  ASSUME NEW S \in SUBSET Nat, S # {}
  PROVE  \E d \in S : \A e \in S : d =< e
<1>1. PICK d \in S : \A e \in S : <<e, d>> \notin OpToRel(<, Nat)
  BY NatLessThanWellFounded, WFMin
<1>2. \A e \in S : ~(e < d)
  BY <1>1 DEF OpToRel
<1>3. \A e \in S : d =< e
  BY <1>2
<1> QED  BY <1>3

\* What holds at the start of a loop and is kept by each turn holds throughout.
LEMMA UpTo ==
  ASSUME NEW n \in Nat, NEW G, 0 \in G, \A i \in 1..n : i - 1 \in G => i \in G
  PROVE  \A i \in 0..n : i \in G
<1> DEFINE B == {i \in 0..n : i \notin G}
<1> SUFFICES ASSUME B # {} PROVE FALSE
  OBVIOUS
<1>1. B \in SUBSET Nat
  OBVIOUS
<1>2. PICK d \in B : \A e \in B : d =< e
  <2> HIDE DEF B
  <2> QED  BY <1>1, LeastOf
<1>3. d \in 1..n /\ d \notin G
  BY <1>2
<1>4. d - 1 \in 0..n /\ d - 1 \notin B
  BY <1>2, <1>3
<1> QED  BY <1>3, <1>4

\* Lists put one after the other are a list.
LEMMA FlattenIn ==
  ASSUME NEW S, NEW ss \in Seq(Seq(S))
  PROVE  FlattenSeq(ss) \in Seq(S)
<1> DEFINE n == Len(ss)
           Is(f, m) ==
             f = [i \in 1..m |-> IF i = 1 THEN ss[i] ELSE f[i - 1] \o ss[i]]
           G == {m \in 0..n : \E f : Is(f, m)}
<1>0. n \in Nat /\ \A i \in 1..n : ss[i] \in Seq(S)
  OBVIOUS
<1>1. 0 \in G
  <2>1. Is([i \in 1..0 |-> ss], 0)
    OBVIOUS
  <2> HIDE DEF Is
  <2> QED  BY <1>0, <2>1
<1>2. ASSUME NEW m \in 1..n, m - 1 \in G PROVE m \in G
  <2>1. PICK g : Is(g, m - 1)
    BY <1>2
  <2>0. m \in Nat /\ m # 0 /\ m \in 0..n
    BY <1>0
  <2> DEFINE h == [i \in 1..m |-> IF i # m THEN g[i]
                                  ELSE IF m = 1 THEN ss[m] ELSE g[m - 1] \o ss[m]]
  <2>2. ASSUME NEW i \in 1..m
        PROVE  h[i] = IF i = 1 THEN ss[i] ELSE h[i - 1] \o ss[i]
    <3>1. CASE i = m
      <4>1. i # 1 => h[i - 1] = g[i - 1]
        <5>1. i # 1 => i - 1 \in 1..m /\ i - 1 # m
          BY <2>0, <3>1
        <5> QED  BY <5>1
      <4> HIDE DEF h
      <4>2. h[i] = IF m = 1 THEN ss[m] ELSE g[m - 1] \o ss[m]
        BY <3>1 DEF h
      <4> QED  BY <3>1, <4>1, <4>2
    <3>2. CASE i # m
      <4>0. i \in 1..(m - 1) /\ (i # 1 => i - 1 \in 1..m /\ i - 1 # m)
        BY <2>0, <3>2
      <4>1. h[i] = g[i] /\ (i # 1 => h[i - 1] = g[i - 1])
        BY <3>2, <4>0
      <4>2. g[i] = IF i = 1 THEN ss[i] ELSE g[i - 1] \o ss[i]
        BY <2>1, <4>0
      <4> HIDE DEF h
      <4> QED  BY <4>1, <4>2
    <3> QED  BY <3>1, <3>2
  <2>3. Is(h, m)
    <3> HIDE DEF h
    <3> QED  BY <2>2 DEF h
  <2> HIDE DEF h, Is
  <2> QED  BY <2>0, <2>3
<1>3. n \in G
  <2> HIDE DEF G, Is
  <2>1. \A i \in 1..n : i - 1 \in G => i \in G
    BY <1>2
  <2> HIDE DEF n
  <2>2. \A i \in 0..n : i \in G
    BY <1>0, <1>1, <2>1, UpTo
  <2> QED  BY <1>0, <2>2
<1>4. PICK g : Is(g, n)
  BY <1>3
<1> DEFINE f == CHOOSE f : Is(f, n)
<1>5. Is(f, n)
  BY <1>4
<1>6. FlattenSeq(ss) = IF n = 0 THEN ss ELSE f[n]
  BY DEF FlattenSeq
<1> HIDE DEF f
<1> DEFINE H == {m \in 0..n : m # 0 => f[m] \in Seq(S)}
<1>7. 0 \in H
  BY <1>0
<1>8. ASSUME NEW m \in 1..n, m - 1 \in H PROVE m \in H
  <2>0. m \in Nat /\ m # 0 /\ m \in 0..n
    BY <1>0
  <2>1. f[m] = IF m = 1 THEN ss[m] ELSE f[m - 1] \o ss[m]
    BY <1>5, <2>0
  <2>2. ss[m] \in Seq(S)
    BY <1>0
  <2>3. CASE m = 1
    BY <2>0, <2>1, <2>2, <2>3
  <2>4. CASE m # 1
    <3>1. f[m - 1] \in Seq(S)
      BY <1>8, <2>0, <2>4
    <3>2. f[m] \in Seq(S)
      BY <2>1, <2>2, <2>4, <3>1
    <3> QED  BY <2>0, <3>2
  <2> QED  BY <2>3, <2>4
<1>9. n \in H
  <2>1. \A i \in 1..n : i - 1 \in H => i \in H
    BY <1>8
  <2> HIDE DEF H, n
  <2>2. \A i \in 0..n : i \in H
    BY <1>0, <1>7, <2>1, UpTo
  <2> QED  BY <1>0, <2>2
<1> QED
  <2>1. CASE n = 0
    BY <1>6, <2>1
  <2>2. CASE n # 0
    <3> HIDE DEF n
    <3> QED  BY <1>6, <1>9, <2>2
  <2> QED  BY <2>1, <2>2

-----------------------------------------------------------------------------
(* The steps a command is made of.                                         *)

IsSession(s) == Parts \subseteq DOMAIN s

\* What is said, and counted, does not change areas nor requests.
Same(s, t) ==
  /\ DOMAIN t = DOMAIN s
  /\ t.conf = s.conf /\ t.areas = s.areas /\ t.reqs = s.reqs
  /\ t.changed = s.changed

LEMMA SameOk ==
  ASSUME NEW s, NEW t, NEW c, NEW a, NEW b, NEW X, Ok(s, c, a, b, X), Same(s, t)
  PROVE  Ok(t, c, a, b, X) /\ \A n : Known(t, n) <=> Known(s, n)
BY DEF Ok, Same, Known, Names

LEMMA SaySame ==
  ASSUME NEW s, NEW what, NEW name, IsSession(s)
  PROVE  /\ Same(s, Say(s, what, name)) /\ Same(s, Tell(s, what, name))
         /\ Same(s, Refuse(s, what, name))
         /\ Say(s, what, name).refused = s.refused
         /\ Tell(s, what, name).refused = s.refused
BY DEF Same, Say, Tell, Refuse, IsSession, Parts

\* The area of a name.
LEMMA AreaFound ==
  ASSUME NEW s, NEW name, Known(s, name)
  PROVE  \E i \in DOMAIN s.areas : AreaOf(s, name) = s.areas[i] /\ s.areas[i].name = name
<1>1. PICK i \in DOMAIN s.areas : s.areas[i].name = name
  BY DEF Known, Names, ToSet
<1>2. \E p \in ToSet(s.areas) : p.name = name
  <2>1. s.areas[i] \in ToSet(s.areas)
    BY DEF ToSet
  <2> QED  BY <1>1, <2>1
<1>3. AreaOf(s, name) \in ToSet(s.areas) /\ AreaOf(s, name).name = name
  BY <1>2 DEF AreaOf
<1> QED  BY <1>3 DEF ToSet

\* A request to an uplink changes what that of another area was asked last in
\* nothing.
LEMMA RequestSaid ==
  ASSUME NEW a, NEW reqs, reqs \in Seq(ToSet(reqs)), NEW r, NEW name, NEW sign
  PROVE  LET new == Append(reqs, r) IN
         /\ new \in Seq(ToSet(new))
         /\ r.area = name /\ r.sign = sign => SaidLast(a, new, name, sign)
         /\ r.area # name /\ SaidLast(a, reqs, name, sign) => SaidLast(a, new, name, sign)
<1> DEFINE n == Len(reqs)
           new == Append(reqs, r)
<1>1. /\ n \in Nat /\ DOMAIN reqs = 1..n
      /\ Len(new) = n + 1 /\ DOMAIN new = 1..(n + 1) /\ new[n + 1] = r
      /\ \A i \in 1..n : new[i] = reqs[i]
  OBVIOUS
<1>2. new \in Seq(ToSet(new))
  <2>0. new \in Seq(ToSet(reqs) \cup {r})
    OBVIOUS
  <2> HIDE DEF new, n
  <2>1. new = [i \in 1..(n + 1) |-> new[i]]
    BY <1>1, <2>0
  <2>2. \A i \in 1..(n + 1) : new[i] \in ToSet(new)
    BY <1>1 DEF ToSet
  <2>3. n + 1 \in Nat
    BY <1>1
  <2> QED  BY <2>1, <2>2, <2>3
<1> HIDE DEF new, n
<1>3. ASSUME r.area = name, r.sign = sign PROVE SaidLast(a, new, name, sign)
  BY <1>1, <1>3 DEF SaidLast
<1>4. ASSUME r.area # name, SaidLast(a, reqs, name, sign)
      PROVE  SaidLast(a, new, name, sign)
  <2>1. CASE \E i \in DOMAIN reqs :
               /\ reqs[i].area = name /\ reqs[i].sign = sign
               /\ \A j \in DOMAIN reqs : reqs[j].area = name => j <= i
    <3>1. PICK i \in 1..n : /\ reqs[i].area = name /\ reqs[i].sign = sign
                            /\ \A j \in 1..n : reqs[j].area = name => j <= i
      BY <1>1, <2>1
    <3>2. i \in DOMAIN new /\ new[i] = reqs[i]
      BY <1>1
    <3>3. \A j \in DOMAIN new : new[j].area = name => j <= i
      <4> SUFFICES ASSUME NEW j \in 1..(n + 1), new[j].area = name PROVE j <= i
        BY <1>1
      <4>1. j # n + 1
        BY <1>1, <1>4
      <4> QED  BY <1>1, <3>1, <4>1
    <3> QED  BY <3>1, <3>2, <3>3 DEF SaidLast
  <2>2. CASE /\ \A i \in DOMAIN reqs : reqs[i].area # name
             /\ name \in DOMAIN a /\ a[name] \in {sign, "?"}
    <3>1. \A i \in 1..(n + 1) : new[i].area # name
      BY <1>1, <1>4, <2>2
    <3> QED  BY <1>1, <2>2, <3>1 DEF SaidLast
  <2> QED  BY <1>4, <2>1, <2>2 DEF SaidLast
<1> QED  BY <1>2, <1>3, <1>4 DEF new

LEMMA SuitsRight ==
  ASSUME NEW a, NEW reqs, NEW name, NEW st, NEW sign, Suits(st, sign),
         SaidLast(a, reqs, name, sign)
  PROVE  Right(name, st, a, reqs)
BY DEF Suits, Right

\* An area is changed, and its uplink asked for what goes with its state, if that
\* is another one.
Moved(s, t, i, q, X) ==
  /\ {"name", "state"} \subseteq DOMAIN q /\ q.name = s.areas[i].name
  /\ DOMAIN t = DOMAIN s /\ t.conf = s.conf
  /\ t.areas = Put(s, q).areas /\ t.changed = TRUE
  /\ \/ t.reqs = s.reqs /\ q.state = s.areas[i].state
     \/ \E to, sign :
          /\ t.reqs = Append(s.reqs, [to |-> to, sign |-> sign, area |-> q.name])
          /\ Suits(q.state, sign)
          /\ q.name \in X => sign = "+"

LEMMA PutOk ==
  ASSUME NEW s, NEW t, NEW c, NEW a, NEW b, NEW X, Ok(s, c, a, b, X),
         NEW i \in DOMAIN s.areas, NEW q, Moved(s, t, i, q, X)
  PROVE  Ok(t, c, a, b, X) /\ Names(t) = Names(s) /\ t.areas[i] = q
<1>0. /\ {"name", "state"} \subseteq DOMAIN q /\ q.name = s.areas[i].name
      /\ DOMAIN t = DOMAIN s /\ t.conf = s.conf
      /\ t.areas = Put(s, q).areas /\ t.changed = TRUE
      /\ \/ t.reqs = s.reqs /\ q.state = s.areas[i].state
         \/ \E to, sign :
              /\ t.reqs = Append(s.reqs, [to |-> to, sign |-> sign, area |-> q.name])
              /\ Suits(q.state, sign)
              /\ q.name \in X => sign = "+"
  BY DEF Moved
<1>1. t.areas = [j \in DOMAIN s.areas |-> IF s.areas[j].name = q.name THEN q ELSE s.areas[j]]
  BY <1>0 DEF Put, Ok, Parts
<1>2. ASSUME NEW j \in DOMAIN s.areas
      PROVE  /\ t.areas[j] = IF j = i THEN q ELSE s.areas[j]
             /\ t.areas[j].name = s.areas[j].name
             /\ s.areas[j].name = q.name <=> j = i
  BY <1>0, <1>1 DEF Ok, AreaList, DistinctNames
<1>3. DOMAIN t.areas = DOMAIN s.areas
  BY <1>1
<1>4. Names(t) = Names(s)
  BY <1>2, <1>3 DEF Names
<1>5. AreaList(t.areas)
  <2>1. DistinctNames(t.areas)
    BY <1>2, <1>3 DEF Ok, AreaList, DistinctNames
  <2>2. \A j \in DOMAIN t.areas : {"name", "state"} \subseteq DOMAIN t.areas[j]
    BY <1>0, <1>2, <1>3 DEF Ok, AreaList
  <2>3. DOMAIN s.areas = 1..Len(s.areas) /\ Len(s.areas) \in Nat
    BY DEF Ok, AreaList
  <2>4. t.areas = [j \in 1..Len(s.areas) |-> t.areas[j]]
    BY <1>1, <2>3
  <2>5. \A j \in 1..Len(s.areas) : t.areas[j] \in ToSet(t.areas)
    BY <1>3, <2>3 DEF ToSet
  <2>6. t.areas \in Seq(ToSet(t.areas))
    BY <2>3, <2>4, <2>5
  <2> QED  BY <2>1, <2>2, <2>6 DEF AreaList
<1>6. ASSUME NEW j \in DOMAIN s.areas
      PROVE  LET p == t.areas[j] IN IF p.name \in X THEN Suits(p.state, "+")
                                    ELSE Right(p.name, p.state, a, t.reqs)
  <2>1. LET p == s.areas[j] IN IF p.name \in X THEN Suits(p.state, "+")
                               ELSE Right(p.name, p.state, a, s.reqs)
    BY DEF Ok
  <2>2. CASE t.reqs = s.reqs /\ q.state = s.areas[i].state
    BY <1>0, <1>2, <2>1, <2>2
  <2>3. ASSUME NEW to, NEW sign,
               t.reqs = Append(s.reqs, [to |-> to, sign |-> sign, area |-> q.name]),
               Suits(q.state, sign), q.name \in X => sign = "+"
        PROVE  LET p == t.areas[j] IN IF p.name \in X THEN Suits(p.state, "+")
                                      ELSE Right(p.name, p.state, a, t.reqs)
    <3> DEFINE r == [to |-> to, sign |-> sign, area |-> q.name]
    <3>0. r.area = q.name /\ r.sign = sign /\ s.reqs \in Seq(ToSet(s.reqs))
      BY DEF Ok
    <3> HIDE DEF r
    <3>1. CASE j = i
      <4>1. SaidLast(a, t.reqs, q.name, sign)
        BY <2>3, <3>0, RequestSaid DEF r
      <4>2. Right(q.name, q.state, a, t.reqs)
        BY <2>3, <4>1, SuitsRight
      <4> QED  BY <1>2, <2>3, <3>1, <4>2
    <3>2. CASE j # i
      <4> DEFINE p == s.areas[j]
      <4>1. p.name # r.area
        BY <1>2, <3>0, <3>2
      <4>2. \A sg : SaidLast(a, s.reqs, p.name, sg) => SaidLast(a, t.reqs, p.name, sg)
        <5> HIDE DEF p
        <5> QED  BY <2>3, <3>0, <4>1, RequestSaid DEF r
      <4>3. t.areas[j] = p
        BY <1>2, <3>2
      <4> QED  BY <2>1, <4>2, <4>3 DEF Right
    <3> QED  BY <3>1, <3>2
  <2> QED  BY <1>0, <2>2, <2>3
<1>7. t.reqs \in Seq(ToSet(t.reqs))
  <2>1. s.reqs \in Seq(ToSet(s.reqs))
    BY DEF Ok
  <2>2. \A r : Append(s.reqs, r) \in Seq(ToSet(Append(s.reqs, r)))
    BY <2>1, RequestSaid
  <2> QED  BY <1>0, <2>1, <2>2
<1>8. Ok(t, c, a, b, X)
  BY <1>0, <1>3, <1>5, <1>6, <1>7 DEF Ok
<1> QED  BY <1>2, <1>4, <1>8

\* An area is taken out.
LEMMA RemoveOk ==
  ASSUME NEW s, NEW c, NEW a, NEW b, NEW X, Ok(s, c, a, b, X), NEW name, Known(s, name)
  PROVE  LET t == Remove1(s, name) IN
         /\ Ok(t, c, a, b, X) /\ DOMAIN t = DOMAIN s /\ t.refused = s.refused
         /\ t.reqs = s.reqs /\ t.changed = TRUE
         /\ ~Known(t, name)
         /\ \A n : n # name /\ Known(s, n) => Known(t, n)
<1> DEFINE t == Remove1(s, name)
           k == Place(s, name)
           n == Len(s.areas)
<1>1. k \in DOMAIN s.areas /\ s.areas[k].name = name
  <2>1. \E i \in DOMAIN s.areas : s.areas[i].name = name
    BY AreaFound
  <2> QED  BY <2>1 DEF Place
<1>2. /\ DOMAIN t = DOMAIN s /\ t.conf = s.conf /\ t.reqs = s.reqs
      /\ t.refused = s.refused /\ t.changed = TRUE /\ t.areas = RemoveAt(s.areas, k)
  BY DEF Remove1, Ok, Parts
<1>3. n \in Nat /\ DOMAIN s.areas = 1..n /\ k \in 1..n /\ s.areas \in Seq(ToSet(s.areas))
  BY <1>1 DEF Ok, AreaList
<1> HIDE DEF k, n, t
<1>4. /\ t.areas \in Seq(ToSet(s.areas)) /\ Len(t.areas) = n - 1
      /\ \A i \in 1..(n - 1) : t.areas[i] = IF i < k THEN s.areas[i] ELSE s.areas[i + 1]
  <2> DEFINE u == SubSeq(s.areas, 1, k - 1)
             v == SubSeq(s.areas, k + 1, n)
  <2>1. /\ u \in Seq(ToSet(s.areas)) /\ Len(u) = k - 1
        /\ \A i \in 1..(k - 1) : u[i] = s.areas[i]
    BY <1>3 DEF n
  <2>2. /\ v \in Seq(ToSet(s.areas)) /\ Len(v) = n - k
        /\ \A i \in 1..(n - k) : v[i] = s.areas[i + k]
    BY <1>3 DEF n
  <2>3. t.areas = u \o v
    BY <1>2 DEF RemoveAt, n
  <2> HIDE DEF u, v
  <2>4. t.areas \in Seq(ToSet(s.areas)) /\ Len(t.areas) = n - 1
    BY <1>3, <2>1, <2>2, <2>3
  <2>5. ASSUME NEW i \in 1..(n - 1)
        PROVE  t.areas[i] = IF i < k THEN s.areas[i] ELSE s.areas[i + 1]
    <3>1. CASE i < k
      BY <1>3, <2>1, <2>2, <2>3, <3>1
    <3>2. CASE ~(i < k)
      <4>1. t.areas[i] = v[i - (k - 1)]
        BY <1>3, <2>1, <2>2, <2>3, <3>2
      <4>2. i - (k - 1) \in 1..(n - k) /\ (i - (k - 1)) + k = i + 1
        BY <1>3, <3>2
      <4> QED  BY <2>2, <3>2, <4>1, <4>2
    <3> QED  BY <3>1, <3>2
  <2> QED  BY <2>4, <2>5
<1> DEFINE at(i) == IF i < k THEN i ELSE i + 1
<1>5. /\ DOMAIN t.areas = 1..(n - 1) /\ n - 1 \in Nat
      /\ \A i \in 1..(n - 1) : at(i) \in 1..n /\ at(i) # k /\ t.areas[i] = s.areas[at(i)]
      /\ \A i, j \in 1..(n - 1) : at(i) = at(j) => i = j
  BY <1>3, <1>4
<1>6. \A j \in 1..n : j # k => \E i \in 1..(n - 1) : at(i) = j
  <2> SUFFICES ASSUME NEW j \in 1..n, j # k PROVE \E i \in 1..(n - 1) : at(i) = j
    OBVIOUS
  <2>1. CASE j < k
    <3>1. j \in 1..(n - 1) /\ at(j) = j
      BY <1>3, <2>1
    <3> QED  BY <3>1
  <2>2. CASE j > k
    <3>1. j - 1 \in 1..(n - 1) /\ at(j - 1) = j
      BY <1>3, <2>2
    <3> QED  BY <3>1
  <2> QED  BY <1>3, <2>1, <2>2
<1> HIDE DEF at
<1>7. \A i, j \in 1..n : s.areas[i].name = s.areas[j].name => i = j
  BY <1>3 DEF Ok, AreaList, DistinctNames
<1>8. AreaList(t.areas)
  <2>1. DistinctNames(t.areas)
    BY <1>5, <1>7 DEF DistinctNames
  <2>2. \A i \in DOMAIN t.areas : {"name", "state"} \subseteq DOMAIN t.areas[i]
    BY <1>3, <1>5 DEF Ok, AreaList
  <2>3. t.areas = [i \in 1..(n - 1) |-> t.areas[i]]
    BY <1>4, <1>5
  <2>4. \A i \in 1..(n - 1) : t.areas[i] \in ToSet(t.areas)
    BY <1>5 DEF ToSet
  <2>5. t.areas \in Seq(ToSet(t.areas))
    BY <1>5, <2>3, <2>4
  <2> QED  BY <2>1, <2>2, <2>5 DEF AreaList
<1>9. Ok(t, c, a, b, X)
  <2>1. \A i \in DOMAIN t.areas :
          LET p == t.areas[i] IN IF p.name \in X THEN Suits(p.state, "+")
                                 ELSE Right(p.name, p.state, a, t.reqs)
    BY <1>2, <1>3, <1>5 DEF Ok
  <2> QED  BY <1>2, <1>8, <2>1 DEF Ok
<1>10. ~Known(t, name)
  <2>1. \A i \in 1..(n - 1) : t.areas[i].name # name
    BY <1>1, <1>3, <1>5, <1>7
  <2> QED  BY <1>5, <2>1 DEF Known, Names, ToSet
<1>11. ASSUME NEW m, m # name, Known(s, m) PROVE Known(t, m)
  <2>1. PICK j \in 1..n : s.areas[j].name = m
    BY <1>3, <1>11, AreaFound
  <2>2. j # k
    BY <1>1, <1>11, <2>1
  <2>3. PICK i \in 1..(n - 1) : at(i) = j
    BY <1>6, <2>2
  <2>4. i \in DOMAIN t.areas /\ t.areas[i].name = m
    BY <1>5, <2>1, <2>3
  <2> QED  BY <2>4 DEF Known, Names, ToSet
<1> QED  BY <1>2, <1>9, <1>10, <1>11 DEF t

-----------------------------------------------------------------------------
(* What a command does to an area.                                         *)

Cell(p) == {"name", "state"} \subseteq DOMAIN p

LEMMA ChStateIs ==
  ASSUME NEW p, Cell(p), NEW old, NEW new
  PROVE  LET q == ChState(p, old, new) IN
         /\ DOMAIN q = DOMAIN p /\ q.name = p.name
         /\ q.state = IF new \in p.state THEN p.state ELSE (p.state \ old) \cup {new}
BY DEF ChState, Cell

\* Whatever state an area is in, what its uplink is asked goes with its new one.
LEMMA AsksRight ==
  ASSUME NEW p, Cell(p), Plain(p.state)
  PROVE  /\ IsState(p, {"U", "P"}) => Suits(ChState(p, {"U", "P"}, "W").state, "+")
         /\ Suits(ChState(p, {"S", "W", "F"}, "U").state, "-")
         /\ IF IsState(p, {"W", "F", "S"})
            THEN Suits(ChState(p, {"W", "F", "S"}, "P").state, "-")
            ELSE Suits(p.state, "-")
         /\ IF IsState(p, {"P", "U"}) THEN Suits(ChState(p, {"P"}, "W").state, "+")
                                      ELSE Suits(p.state, "+")
         /\ "P" \notin p.state => Suits(ChState(p, {"S"}, "F").state, "+")
<1>1. \A old, new : ChState(p, old, new).state =
        IF new \in p.state THEN p.state ELSE (p.state \ old) \cup {new}
  BY ChStateIs
<1> DEFINE st == p.state
<1>2. Plain(st)
  OBVIOUS
<1> HIDE DEF st
<1>3. st \cap {"U", "P"} # {}
      => Suits(IF "W" \in st THEN st ELSE (st \ {"U", "P"}) \cup {"W"}, "+")
  BY <1>2 DEF Suits, Plain, Waits, GivenUp
<1>4. Suits(IF "U" \in st THEN st ELSE (st \ {"S", "W", "F"}) \cup {"U"}, "-")
  BY <1>2 DEF Suits, Plain, Waits, GivenUp
<1>5. st \cap {"W", "F", "S"} # {}
      => Suits(IF "P" \in st THEN st ELSE (st \ {"W", "F", "S"}) \cup {"P"}, "-")
  BY <1>2 DEF Suits, Plain, Waits, GivenUp
<1>6. st \cap {"W", "F", "S"} = {} => Suits(st, "-")
  BY <1>2 DEF Suits, Plain, Waits, GivenUp
<1>7. st \cap {"P", "U"} # {}
      => Suits(IF "W" \in st THEN st ELSE (st \ {"P"}) \cup {"W"}, "+")
  BY <1>2 DEF Suits, Plain, Waits, GivenUp
<1>8. st \cap {"P", "U"} = {} => Suits(st, "+")
  BY <1>2 DEF Suits, Plain, Waits, GivenUp
<1>9. "P" \notin st => Suits(IF "F" \in st THEN st ELSE (st \ {"S"}) \cup {"F"}, "+")
  BY <1>2 DEF Suits, Plain, Waits, GivenUp
<1> QED  BY <1>1, <1>3, <1>4, <1>5, <1>6, <1>7, <1>8, <1>9 DEF st, IsState

\* The session s with an area p of it, that of name.
At(s, c, a, b, X, i) == Ok(s, c, a, b, X) /\ i \in DOMAIN s.areas

LEMMA CellAt ==
  ASSUME NEW s, NEW c, NEW a, NEW b, NEW X, NEW i, At(s, c, a, b, X, i)
  PROVE  /\ Cell(s.areas[i]) /\ Plain(s.areas[i].state) /\ Known(s, s.areas[i].name)
         /\ IsSession(s)
<1>1. Known(s, s.areas[i].name)
  BY DEF At, Known, Names, ToSet
<1>2. Cell(s.areas[i]) /\ Plain(s.areas[i].state) /\ IsSession(s)
  BY DEF At, Ok, AreaList, Cell, Suits, Right, IsSession
<1> QED  BY <1>1, <1>2

\* What becomes of a session: the areas of other names stay, and the command is
\* refused only where its own stays, too.
Done(s, t, c, a, b, X, name) ==
  /\ Ok(t, c, a, b, X)
  /\ \A n : n # name /\ Known(s, n) => Known(t, n)
  /\ t.refused = s.refused \/ Known(t, name)

LEMMA DoneSame ==
  ASSUME NEW s, NEW c, NEW a, NEW b, NEW X, NEW i, At(s, c, a, b, X, i), NEW t,
         Same(s, t)
  PROVE  Done(s, t, c, a, b, X, s.areas[i].name)
<1>1. Ok(t, c, a, b, X) /\ \A n : Known(t, n) <=> Known(s, n)
  BY SameOk DEF At
<1>2. Known(s, s.areas[i].name)
  BY CellAt
<1> QED  BY <1>1, <1>2 DEF Done

LEMMA DoneThen ==
  ASSUME NEW s, NEW t, NEW u, NEW c, NEW a, NEW b, NEW X, NEW name,
         Done(s, t, c, a, b, X, name), t.refused = s.refused,
         Done(t, u, c, a, b, X, name)
  PROVE  Done(s, u, c, a, b, X, name)
BY DEF Done

\* An area is put in the place of the one with its name, and perhaps requested.
LEMMA DonePut ==
  ASSUME NEW s, NEW c, NEW a, NEW b, NEW X, NEW i, At(s, c, a, b, X, i),
         NEW t, NEW q, Moved(s, t, i, q, X)
  PROVE  /\ Done(s, t, c, a, b, X, q.name) /\ t.areas[i] = q
         /\ At(t, c, a, b, X, i) /\ Names(t) = Names(s)
<1>1. Ok(t, c, a, b, X) /\ Names(t) = Names(s) /\ t.areas[i] = q
  BY PutOk DEF At
<1>0. q.name = s.areas[i].name
  BY DEF Moved
<1>2. \A n : Known(t, n) <=> Known(s, n)
  BY <1>1 DEF Known
<1>3. i \in DOMAIN t.areas
  BY <1>1 DEF At, Names
<1> QED  BY <1>0, <1>1, <1>2, <1>3, CellAt DEF At, Done

LEMMA DoneDead ==
  ASSUME NEW s, NEW c, NEW a, NEW b, NEW X, NEW i, At(s, c, a, b, X, i)
  PROVE  LET name == s.areas[i].name IN
         /\ Done(s, Remove1(s, name), c, a, b, X, name)
         /\ Done(s, Dead(s, s.areas[i]), c, a, b, X, name)
         /\ Done(s, Remove1(Say(s, "delete", name), name), c, a, b, X, name)
<1> DEFINE name == s.areas[i].name
<1>1. Known(s, name) /\ IsSession(s) /\ Ok(s, c, a, b, X)
  BY CellAt DEF At
<1> HIDE DEF name
<1>2. \A t : Ok(t, c, a, b, X) /\ Known(t, name)
             => Done(t, Remove1(t, name), c, a, b, X, name)
  BY RemoveOk DEF Done
<1>3. Done(s, Remove1(s, name), c, a, b, X, name)
  BY <1>1, <1>2
<1>4. Done(s, Dead(s, s.areas[i]), c, a, b, X, name)
  <2> DEFINE t == Remove1(s, name)
  <2>1. Ok(t, c, a, b, X) /\ IsSession(t)
    BY <1>3 DEF Done, Ok, IsSession
  <2>2. Dead(s, s.areas[i]) = Say(t, "dead", name)
    BY DEF Dead, name
  <2> HIDE DEF t
  <2>3. Same(t, Say(t, "dead", name)) /\ Say(t, "dead", name).refused = t.refused
    BY <2>1, SaySame
  <2>4. /\ Ok(Say(t, "dead", name), c, a, b, X)
        /\ \A n : Known(Say(t, "dead", name), n) <=> Known(t, n)
    BY <2>1, <2>3, SameOk
  <2> QED  BY <1>3, <2>2, <2>3, <2>4 DEF Done, t
<1>5. Done(s, Remove1(Say(s, "delete", name), name), c, a, b, X, name)
  <2> DEFINE t == Say(s, "delete", name)
  <2>1. Same(s, t) /\ t.refused = s.refused
    BY <1>1, SaySame
  <2> HIDE DEF t
  <2>2. Ok(t, c, a, b, X) /\ \A n : Known(t, n) <=> Known(s, n)
    BY <1>1, <2>1, SameOk
  <2>3. Done(t, Remove1(t, name), c, a, b, X, name)
    BY <1>1, <1>2, <2>2
  <2> QED  BY <2>1, <2>2, <2>3 DEF Done, t
<1> QED  BY <1>3, <1>4, <1>5 DEF name

\* An area without its passive or with other nodes is still that area.
LEMMA NodesCell ==
  ASSUME NEW p, Cell(p), NEW l, NEW m
  PROVE  LET q == [p EXCEPT !.nodes = l]
             r == [p EXCEPT !.passive = m]
             u == [p EXCEPT !.nodes = l, !.passive = m] IN
         /\ Cell(q) /\ q.name = p.name /\ q.state = p.state
         /\ Cell(r) /\ r.name = p.name /\ r.state = p.state
         /\ Cell(u) /\ u.name = p.name /\ u.state = p.state
BY DEF Cell

LEMMA MovedBy ==
  ASSUME NEW s, NEW t, NEW i, NEW q, NEW X, Cell(q), q.name = s.areas[i].name,
         DOMAIN t = DOMAIN s, t.conf = s.conf, t.areas = Put(s, q).areas,
         t.changed = TRUE, t.reqs = s.reqs, q.state = s.areas[i].state
  PROVE  Moved(s, t, i, q, X)
BY DEF Moved, Cell

LEMMA MovedAsking ==
  ASSUME NEW s, NEW t, NEW i, NEW q, NEW X, Cell(q), q.name = s.areas[i].name,
         DOMAIN t = DOMAIN s, t.conf = s.conf, t.areas = Put(s, q).areas,
         t.changed = TRUE, NEW to, NEW sign,
         t.reqs = Append(s.reqs, [to |-> to, sign |-> sign, area |-> q.name]),
         Suits(q.state, sign), q.name \in X => sign = "+"
  PROVE  Moved(s, t, i, q, X)
BY DEF Moved, Cell

\* An area that is given up is asked for again.
LEMMA ReopenDone ==
  ASSUME NEW s, NEW c, NEW a, NEW b, NEW X, NEW i, At(s, c, a, b, X, i),
         s.changed = TRUE, NEW p, p = s.areas[i], IsState(p, {"U", "P"})
  PROVE  Done(s, Reopen(s, p), c, a, b, X, p.name)
<1>0. /\ Cell(p) /\ Plain(p.state) /\ IsSession(s)
  BY CellAt
<1>1. CASE UplinkLine(s, p.nodes[1]) = <<>>
  <2>1. Reopen(s, p) = Refuse(s, "no uplink entry", p.name)
    BY <1>1 DEF Reopen
  <2> QED  BY <1>0, <2>1, SaySame, DoneSame
<1>2. CASE UplinkLine(s, p.nodes[1]) # <<>>
  <2> DEFINE q1 == ChState(p, {"U", "P"}, "W")
             q  == [q1 EXCEPT !.passive = LonRemove(@, s.node)]
             to == Znf1(p.nodes[1])
             t  == Request(Put(s, q), to, "+", p.name)
  <2>1. Reopen(s, p) = t
    BY <1>2 DEF Reopen
  <2>2. Cell(q1) /\ q1.name = p.name /\ Suits(q1.state, "+")
    <3>1. DOMAIN q1 = DOMAIN p /\ q1.name = p.name
      BY <1>0 DEF ChState, Cell
    <3>2. Suits(q1.state, "+")
      BY <1>0, AsksRight
    <3> QED  BY <1>0, <3>1, <3>2 DEF Cell
  <2>3. Cell(q) /\ q.name = p.name /\ q.state = q1.state
    <3> HIDE DEF q1
    <3> QED  BY <2>2 DEF Cell
  <2> HIDE DEF q, to
  <2>4. /\ DOMAIN t = DOMAIN s /\ t.conf = s.conf /\ t.areas = Put(s, q).areas
        /\ t.changed = TRUE
        /\ t.reqs = Append(s.reqs, [to |-> to, sign |-> "+", area |-> q.name])
    BY <1>0, <2>3 DEF Request, Put, IsSession, Parts
  <2> HIDE DEF t, q1
  <2>5. Moved(s, t, i, q, X)
    BY <2>2, <2>3, <2>4, MovedAsking
  <2> QED  BY <2>1, <2>3, <2>5, DonePut
<1> QED  BY <1>1, <1>2

\* A link joins.
LEMMA JoinDone ==
  ASSUME NEW s, NEW c, NEW a, NEW b, NEW X, NEW i, At(s, c, a, b, X, i),
         NEW p, p = s.areas[i], NEW wild
  PROVE  Done(s, Join(s, p, wild), c, a, b, X, p.name)
<1>0. Cell(p) /\ IsSession(s)
  BY CellAt
<1> DEFINE q == [p EXCEPT !.nodes = Append(@, s.node)]
           said == IF s.node \in ToSet(p.passive) THEN "again" ELSE "subscribed"
           t == [Tell(Changed(s, q), said, p.name) EXCEPT !.limG = @ + 1]
           u == IF IsState(q, {"U", "P"}) THEN Reopen(t, q) ELSE t
           v == IF wild THEN u ELSE SendRules(u, p.name)
<1>1. Join(s, p, wild) = v
  <2> DEFINE On(x)    == [Tell(Changed(s, x), said, p.name) EXCEPT !.limG = @ + 1]
             Asked(x) == Then(On(x), LAMBDA y : IF IsState(x, {"U", "P"}) THEN Reopen(y, x)
                                                                          ELSE y)
  <2>1. Asked(q) = u
    <3>1. On(q) = t
      OBVIOUS
    <3> HIDE DEF On, t
    <3> QED  BY <3>1 DEF Then
  <2>2. Then(q, Asked) = Asked(q)
    <3> HIDE DEF Asked
    <3> QED  BY DEF Then
  <2>3. Join(s, p, wild) = Then(Then(q, Asked), LAMBDA x : IF wild THEN x ELSE SendRules(x, p.name))
    BY DEF Join
  <2> HIDE DEF Asked, u
  <2> QED  BY <2>1, <2>2, <2>3 DEF Then
<1>2. Cell(q) /\ q.name = p.name /\ q.state = p.state
  BY <1>0 DEF Cell
<1> HIDE DEF q
<1>3. /\ DOMAIN t = DOMAIN s /\ t.conf = s.conf /\ t.areas = Put(s, q).areas
      /\ t.changed = TRUE /\ t.reqs = s.reqs /\ t.refused = s.refused
  BY <1>0 DEF Tell, Say, Changed, Put, IsSession, Parts
<1> HIDE DEF t
<1>4. Moved(s, t, i, q, X)
  BY <1>2, <1>3, MovedBy
<1>5. Done(s, t, c, a, b, X, p.name) /\ t.areas[i] = q /\ At(t, c, a, b, X, i)
  BY <1>2, <1>4, DonePut
<1>6. Done(s, u, c, a, b, X, p.name)
  <2>1. CASE IsState(q, {"U", "P"})
    <3>1. Done(t, Reopen(t, q), c, a, b, X, p.name)
      BY <1>2, <1>3, <1>5, <2>1, ReopenDone
    <3> QED  BY <1>3, <1>5, <2>1, <3>1, DoneThen
  <2> QED  BY <1>5, <2>1
<1> HIDE DEF u
<1>7. Same(u, v) /\ v.refused = u.refused
  <2>1. IsSession(u)
    BY <1>6 DEF Done, Ok, IsSession
  <2> QED  BY <2>1 DEF Same, SendRules, IsSession, Parts
<1> HIDE DEF v
<1>8. Ok(v, c, a, b, X) /\ \A n : Known(v, n) <=> Known(u, n)
  BY <1>6, <1>7, SameOk DEF Done
<1> QED  BY <1>1, <1>6, <1>7, <1>8 DEF Done

\* A link that reads the area, is passive in it, or may not have it.
LEMMA SubDone ==
  ASSUME NEW s, NEW c, NEW a, NEW b, NEW X, NEW i, At(s, c, a, b, X, i),
         NEW p, p = s.areas[i], NEW wild
  PROVE  Done(s, SubArea(s, p, wild), c, a, b, X, p.name)
<1>0. Cell(p) /\ IsSession(s)
  BY CellAt
<1>1. \A what : /\ Done(s, Say(s, what, p.name), c, a, b, X, p.name)
                /\ Done(s, Refuse(s, what, p.name), c, a, b, X, p.name)
  BY <1>0, SaySame, DoneSame
<1>2. Done(s, Dead(s, p), c, a, b, X, p.name)
  BY DoneDead
<1>3. Done(s, Join(s, p, wild), c, a, b, X, p.name)
  BY JoinDone
<1>4. Done(s, Again(s, p), c, a, b, X, p.name)
  <2> DEFINE q == [p EXCEPT !.passive = LonRemove(@, s.node)]
             t == [Tell(Changed(s, q), "active", p.name) EXCEPT !.limG = @ + 1]
  <2>1. Cell(q) /\ q.name = p.name /\ q.state = p.state
    BY <1>0 DEF Cell
  <2> HIDE DEF q
  <2>2. /\ DOMAIN t = DOMAIN s /\ t.conf = s.conf /\ t.areas = Put(s, q).areas
        /\ t.changed = TRUE /\ t.reqs = s.reqs
    BY <1>0 DEF Tell, Say, Changed, Put, IsSession, Parts
  <2> HIDE DEF t
  <2>3. Moved(s, t, i, q, X)
    BY <2>1, <2>2, MovedBy
  <2>4. Done(s, t, c, a, b, X, p.name)
    BY <2>1, <2>3, DonePut
  <2>5. Again(s, p) = IF s.node \in ToSet(p.passive) THEN t
                      ELSE Say(s, "already active", p.name)
    BY DEF Again, q, t
  <2> QED  BY <1>1, <2>4, <2>5
<1> HIDE DEF Done
<1>5. \/ \E what : SubArea(s, p, wild) \in {Say(s, what, p.name), Refuse(s, what, p.name)}
      \/ SubArea(s, p, wild) \in {Dead(s, p), Join(s, p, wild), Again(s, p)}
  BY DEF SubArea
<1> QED  BY <1>1, <1>2, <1>3, <1>4, <1>5

\* The last link that goes gives the area up.
LEMMA GiveUpDone ==
  ASSUME NEW s, NEW c, NEW a, NEW b, NEW X, NEW i, At(s, c, a, b, X, i),
         s.changed = TRUE, NEW p, p = s.areas[i], p.name \notin X
  PROVE  Done(s, GiveUp(s, p), c, a, b, X, p.name)
<1>0. /\ Cell(p) /\ Plain(p.state) /\ IsSession(s)
  BY CellAt
<1>1. CASE UplinkLine(s, p.nodes[1]) = <<>>
  <2>1. GiveUp(s, p) = Remove1(s, p.name)
    BY <1>1 DEF GiveUp
  <2> QED  BY <2>1, DoneDead
<1>2. CASE UplinkLine(s, p.nodes[1]) # <<>>
  <2> DEFINE q  == ChState(p, {"S", "W", "F"}, "U")
             to == Znfp1(p.nodes[1])
             t  == Request(Put(s, q), to, "-", p.name)
  <2>1. GiveUp(s, p) = t
    BY <1>2 DEF GiveUp
  <2>2. Cell(q) /\ q.name = p.name
    BY <1>0 DEF ChState, Cell
  <2>3. Suits(q.state, "-")
    BY <1>0, AsksRight
  <2> HIDE DEF q, to
  <2>4. /\ DOMAIN t = DOMAIN s /\ t.conf = s.conf /\ t.areas = Put(s, q).areas
        /\ t.changed = TRUE
        /\ t.reqs = Append(s.reqs, [to |-> to, sign |-> "-", area |-> q.name])
    BY <1>0, <2>2 DEF Request, Put, IsSession, Parts
  <2> HIDE DEF t
  <2>5. Moved(s, t, i, q, X)
    BY <2>2, <2>3, <2>4, MovedAsking
  <2> QED  BY <2>1, <2>2, <2>5, DonePut
<1> QED  BY <1>1, <1>2

LEMMA UnsubDone ==
  ASSUME NEW s, NEW c, NEW a, NEW b, NEW X, NEW i, At(s, c, a, b, X, i),
         NEW p, p = s.areas[i], p.name \notin X
  PROVE  Done(s, UnsubArea(s, p), c, a, b, X, p.name)
<1>0. Cell(p) /\ IsSession(s)
  BY CellAt
<1> DEFINE q == [p EXCEPT !.nodes = LonRemove(@, s.node), !.passive = LonRemove(@, s.node)]
           t == Left(s, q)
<1>1. Cell(q) /\ q.name = p.name /\ q.state = p.state
  BY <1>0 DEF Cell
<1> HIDE DEF q
<1>2. /\ DOMAIN t = DOMAIN s /\ t.conf = s.conf /\ t.areas = Put(s, q).areas
      /\ t.changed = TRUE /\ t.reqs = s.reqs /\ t.refused = s.refused
  BY <1>0 DEF Left, Tell, Say, Changed, Put, IsSession, Parts
<1> HIDE DEF t
<1>3. Moved(s, t, i, q, X)
  BY <1>1, <1>2, MovedBy
<1>4. Done(s, t, c, a, b, X, p.name) /\ t.areas[i] = q /\ At(t, c, a, b, X, i)
  BY <1>1, <1>3, DonePut
<1>5. Done(t, GiveUp(t, q), c, a, b, X, p.name)
  BY <1>1, <1>2, <1>4, GiveUpDone
<1>6. Done(t, Remove1(t, p.name), c, a, b, X, p.name)
  BY <1>1, <1>4, DoneDead
<1>7. /\ Done(s, GiveUp(t, q), c, a, b, X, p.name)
      /\ Done(s, Remove1(t, p.name), c, a, b, X, p.name)
  BY <1>2, <1>4, <1>5, <1>6, DoneThen
<1>8. Done(s, Dead(s, p), c, a, b, X, p.name)
  BY DoneDead
<1>9. Done(s, Say(s, "not subscribed", p.name), c, a, b, X, p.name)
  BY <1>0, SaySame, DoneSame
<1>10. UnsubArea(s, p) \in {Dead(s, p), Say(s, "not subscribed", p.name), t,
                            GiveUp(t, q), Remove1(t, p.name)}
  BY DEF UnsubArea, Then, q, t
<1> QED  BY <1>4, <1>7, <1>8, <1>9, <1>10

\* A link that goes passive, the last of an area or not.
LEMMA PassiveDone ==
  ASSUME NEW s, NEW c, NEW a, NEW b, NEW X, NEW i, At(s, c, a, b, X, i),
         NEW p, p = s.areas[i], p.name \notin X
  PROVE  Done(s, PassiveArea(s, p), c, a, b, X, p.name)
<1>0. Cell(p) /\ Plain(p.state) /\ IsSession(s)
  BY CellAt
<1> DEFINE q == IF IsState(p, {"W", "F", "S"}) THEN ChState(p, {"W", "F", "S"}, "P") ELSE p
           to == Znfp1(p.nodes[1])
           r == Request(s, to, "-", p.name)
           Away(x) == [x EXCEPT !.nodes = LonRemove(@, s.node), !.passive = Append(@, s.node)]
<1>1. Cell(q) /\ q.name = p.name
  BY <1>0 DEF ChState, Cell
<1>2. Suits(q.state, "-")
  BY <1>0, AsksRight
<1>3. PassiveArea(s, p) \in {s, [s EXCEPT !.stop = TRUE], MovePassive(r, q), MovePassive(s, p)}
  BY DEF PassiveArea
<1> HIDE DEF q, to
<1>4. Done(s, s, c, a, b, X, p.name) /\ Done(s, [s EXCEPT !.stop = TRUE], c, a, b, X, p.name)
  <2>1. Same(s, s) /\ Same(s, [s EXCEPT !.stop = TRUE])
    BY <1>0 DEF Same, IsSession, Parts
  <2> QED  BY <2>1, DoneSame
<1>5. Done(s, MovePassive(r, q), c, a, b, X, p.name)
  <2> DEFINE t == MovePassive(r, q)
  <2>1. Cell(Away(q)) /\ Away(q).name = p.name /\ Away(q).state = q.state
    BY <1>1 DEF Cell
  <2>2. r.node = s.node
    BY <1>0 DEF Request, IsSession, Parts
  <2>3. t = Tell(Changed(r, Away(q)), "passive", q.name)
    BY <2>2 DEF MovePassive
  <2> HIDE DEF Away, t
  <2>4. /\ DOMAIN t = DOMAIN s /\ t.conf = s.conf /\ t.areas = Put(s, Away(q)).areas
        /\ t.changed = TRUE
        /\ t.reqs = Append(s.reqs, [to |-> to, sign |-> "-", area |-> p.name])
    BY <1>0, <2>3 DEF Tell, Say, Changed, Put, Request, IsSession, Parts
  <2>5. Moved(s, t, i, Away(q), X)
    BY <1>2, <2>1, <2>4, MovedAsking
  <2> QED  BY <2>1, <2>5, DonePut DEF t
<1>6. Done(s, MovePassive(s, p), c, a, b, X, p.name)
  <2> DEFINE t == MovePassive(s, p)
  <2>1. Cell(Away(p)) /\ Away(p).name = p.name /\ Away(p).state = p.state
    BY <1>0 DEF Cell
  <2>3. t = Tell(Changed(s, Away(p)), "passive", p.name)
    BY DEF MovePassive
  <2> HIDE DEF Away, t
  <2>4. /\ DOMAIN t = DOMAIN s /\ t.conf = s.conf /\ t.areas = Put(s, Away(p)).areas
        /\ t.changed = TRUE /\ t.reqs = s.reqs
    BY <1>0, <2>3 DEF Tell, Say, Changed, Put, IsSession, Parts
  <2>5. Moved(s, t, i, Away(p), X)
    BY <2>1, <2>4, MovedBy
  <2> QED  BY <2>1, <2>5, DonePut DEF t
<1> QED  BY <1>3, <1>4, <1>5, <1>6

\* A link that comes back, the first of an area or not.
LEMMA ActiveDone ==
  ASSUME NEW s, NEW c, NEW a, NEW b, NEW X, NEW i, At(s, c, a, b, X, i),
         NEW p, p = s.areas[i], p.name \notin X
  PROVE  Done(s, ActiveArea(s, p), c, a, b, X, p.name)
<1>0. Cell(p) /\ Plain(p.state) /\ IsSession(s)
  BY CellAt
<1> DEFINE q == IF IsState(p, {"P", "U"}) THEN ChState(p, {"P"}, "W") ELSE p
           to == Znfp1(p.nodes[1])
           r == Request(s, to, "+", p.name)
           Back(x) == [x EXCEPT !.nodes = Append(@, s.node), !.passive = LonRemove(@, s.node)]
<1>1. Cell(q) /\ q.name = p.name
  BY <1>0 DEF ChState, Cell
<1>2. Suits(q.state, "+")
  BY <1>0, AsksRight
<1>3. ActiveArea(s, p) \in {s, [s EXCEPT !.stop = TRUE], MoveActive(r, q), MoveActive(s, p),
                            Say(s, "already active", p.name)}
  BY DEF ActiveArea
<1> HIDE DEF q, to
<1>4. /\ Done(s, s, c, a, b, X, p.name) /\ Done(s, [s EXCEPT !.stop = TRUE], c, a, b, X, p.name)
      /\ Done(s, Say(s, "already active", p.name), c, a, b, X, p.name)
  <2>1. /\ Same(s, s) /\ Same(s, [s EXCEPT !.stop = TRUE])
        /\ Same(s, Say(s, "already active", p.name))
    <3>1. Same(s, Say(s, "already active", p.name))
      BY <1>0, SaySame
    <3> QED  BY <1>0, <3>1 DEF Same, IsSession, Parts
  <2> QED  BY <2>1, DoneSame
<1>5. Done(s, MoveActive(r, q), c, a, b, X, p.name)
  <2> DEFINE t == MoveActive(r, q)
  <2>1. Cell(Back(q)) /\ Back(q).name = p.name /\ Back(q).state = q.state
    BY <1>1 DEF Cell
  <2>2. r.node = s.node
    BY <1>0 DEF Request, IsSession, Parts
  <2>3. t = Tell(Changed(r, Back(q)), "active", q.name)
    BY <2>2 DEF MoveActive
  <2> HIDE DEF Back, t
  <2>4. /\ DOMAIN t = DOMAIN s /\ t.conf = s.conf /\ t.areas = Put(s, Back(q)).areas
        /\ t.changed = TRUE
        /\ t.reqs = Append(s.reqs, [to |-> to, sign |-> "+", area |-> p.name])
    BY <1>0, <2>3 DEF Tell, Say, Changed, Put, Request, IsSession, Parts
  <2>5. Moved(s, t, i, Back(q), X)
    BY <1>2, <2>1, <2>4, MovedAsking
  <2> QED  BY <2>1, <2>5, DonePut DEF t
<1>6. Done(s, MoveActive(s, p), c, a, b, X, p.name)
  <2> DEFINE t == MoveActive(s, p)
  <2>1. Cell(Back(p)) /\ Back(p).name = p.name /\ Back(p).state = p.state
    BY <1>0 DEF Cell
  <2>3. t = Tell(Changed(s, Back(p)), "active", p.name)
    BY DEF MoveActive
  <2> HIDE DEF Back, t
  <2>4. /\ DOMAIN t = DOMAIN s /\ t.conf = s.conf /\ t.areas = Put(s, Back(p)).areas
        /\ t.changed = TRUE /\ t.reqs = s.reqs
    BY <1>0, <2>3 DEF Tell, Say, Changed, Put, IsSession, Parts
  <2>5. Moved(s, t, i, Back(p), X)
    BY <2>1, <2>4, MovedBy
  <2> QED  BY <2>1, <2>5, DonePut DEF t
<1> QED  BY <1>3, <1>4, <1>5, <1>6

\* What any command does to an area.
AreaCommands == {"sub", "unsub", "passive", "active", "delete"}

LEMMA OnAreaDone ==
  ASSUME NEW s, NEW c, NEW a, NEW b, NEW X, NEW i, At(s, c, a, b, X, i),
         NEW p, p = s.areas[i], NEW cmd \in AreaCommands, NEW pat,
         cmd # "sub" => X = {}
  PROVE  Done(s, OnArea(s, p, cmd, pat), c, a, b, X, p.name)
<1>1. CASE cmd = "sub"
  <2>1. OnArea(s, p, cmd, pat) = SubArea(s, p, IsWildcard(s, pat))
    BY <1>1 DEF OnArea
  <2> QED  BY <2>1, SubDone
<1>2. CASE cmd = "unsub"
  BY <1>2, UnsubDone DEF OnArea
<1>3. CASE cmd = "passive"
  BY <1>3, PassiveDone DEF OnArea
<1>4. CASE cmd = "active"
  BY <1>4, ActiveDone DEF OnArea
<1>5. CASE cmd = "delete"
  BY <1>5, DoneDead DEF OnArea
<1> QED  BY <1>1, <1>2, <1>3, <1>4, <1>5 DEF AreaCommands

-----------------------------------------------------------------------------
(* The loop over the areas.                                                *)

Turn(t, name, hits, cmd, pat) ==
  IF t.stop \/ name \notin hits THEN t ELSE OnArea(t, AreaOf(t, name), cmd, pat)

LEMMA EachIs ==
  ASSUME NEW s, NEW hits, NEW cmd, NEW pat, Len(Names(s)) \in Nat
  PROVE  \E f : /\ f[0] = s
                /\ \A i \in 1..Len(Names(s)) : f[i] = Turn(f[i - 1], Names(s)[i], hits, cmd, pat)
                /\ Each(s, hits, cmd, pat) = [f[Len(Names(s))] EXCEPT !.stop = FALSE]
<1> DEFINE names == Names(s)
           n == Len(names)
           Next1(t, name) == IF t.stop \/ name \notin hits THEN t
                             ELSE Then(AreaOf(t, name), LAMBDA p : OnArea(t, p, cmd, pat))
           Step(x, i) == Then(x, LAMBDA t : Next1(t, names[i]))
           Is(f, m) == f = [i \in 0..m |-> IF i = 0 THEN s ELSE Step(f[i - 1], i)]
           G == {m \in 0..n : \E f : Is(f, m)}
<1>0. Each(s, hits, cmd, pat) = [(CHOOSE f : Is(f, n))[n] EXCEPT !.stop = FALSE]
  BY DEF Each
<1>00. \A x, i : Step(x, i) = Turn(x, names[i], hits, cmd, pat)
  BY DEF Then, Turn
<1> HIDE DEF Step, names
<1>1. 0 \in G
  <2>1. Is([i \in 0..0 |-> s], 0)
    OBVIOUS
  <2> HIDE DEF Is
  <2> QED  BY <2>1 DEF names
<1>2. ASSUME NEW m \in 1..n, m - 1 \in G PROVE m \in G
  <2>1. PICK g : Is(g, m - 1)
    BY <1>2
  <2>0. m \in Nat /\ m # 0 /\ m \in 0..n
    BY DEF names
  <2> DEFINE h == [i \in 0..m |-> IF i = m THEN Step(g[m - 1], m) ELSE g[i]]
  <2>2. ASSUME NEW i \in 0..m PROVE h[i] = IF i = 0 THEN s ELSE Step(h[i - 1], i)
    <3>1. CASE i = m
      <4>1. h[i - 1] = g[i - 1]
        <5>1. i - 1 \in 0..m /\ i - 1 # m
          BY <2>0, <3>1
        <5> QED  BY <5>1
      <4> HIDE DEF h
      <4>2. h[i] = Step(g[m - 1], m)
        BY <3>1 DEF h
      <4> QED  BY <2>0, <3>1, <4>1, <4>2
    <3>2. CASE i # m
      <4>0. i \in 0..(m - 1) /\ (i # 0 => i - 1 \in 0..m /\ i - 1 # m)
        BY <2>0, <3>2
      <4>1. h[i] = g[i] /\ (i # 0 => h[i - 1] = g[i - 1])
        BY <3>2, <4>0
      <4>2. g[i] = IF i = 0 THEN s ELSE Step(g[i - 1], i)
        BY <2>1, <4>0
      <4> HIDE DEF h
      <4> QED  BY <4>1, <4>2
    <3> QED  BY <3>1, <3>2
  <2>3. Is(h, m)
    <3> HIDE DEF h
    <3> QED  BY <2>2 DEF h
  <2> HIDE DEF h, Is
  <2> QED  BY <2>0, <2>3
<1>3. n \in G
  <2> HIDE DEF G, Is
  <2>1. \A i \in 1..n : i - 1 \in G => i \in G
    BY <1>2
  <2>2. n \in Nat
    BY DEF names
  <2> HIDE DEF n
  <2>3. \A i \in 0..n : i \in G
    BY <1>1, <2>1, <2>2, UpTo
  <2> QED  BY <2>2, <2>3
<1>4. PICK g : Is(g, n)
  BY <1>3
<1> DEFINE f == CHOOSE f : Is(f, n)
<1>5. Is(f, n)
  BY <1>4
<1>6. Each(s, hits, cmd, pat) = [f[n] EXCEPT !.stop = FALSE]
  BY <1>0
<1> HIDE DEF f
<1>7. n \in Nat
  BY DEF names
<1> HIDE DEF n
<1>8. f[0] = s
  BY <1>5, <1>7
<1>9. \A i \in 1..n : f[i] = Turn(f[i-1], names[i], hits, cmd, pat)
  BY <1>00, <1>5, <1>7
<1> QED  BY <1>6, <1>8, <1>9 DEF names, n


LEMMA TurnDone ==
  ASSUME NEW t, NEW c, NEW a, NEW b, NEW X, Ok(t, c, a, b, X),
         NEW name, Known(t, name), NEW hits, NEW cmd \in AreaCommands, NEW pat,
         cmd # "sub" => X = {}
  PROVE  Done(t, Turn(t, name, hits, cmd, pat), c, a, b, X, name)
<1>1. CASE t.stop \/ name \notin hits
  BY <1>1 DEF Turn, Done
<1>2. CASE ~(t.stop \/ name \notin hits)
  <2>1. PICK i \in DOMAIN t.areas : AreaOf(t, name) = t.areas[i] /\ t.areas[i].name = name
    BY AreaFound
  <2>2. At(t, c, a, b, X, i)
    BY <2>1 DEF At
  <2>3. Done(t, OnArea(t, t.areas[i], cmd, pat), c, a, b, X, t.areas[i].name)
    BY <2>2, OnAreaDone
  <2> QED  BY <1>2, <2>1, <2>3 DEF Turn
<1> QED  BY <1>1, <1>2

LEMMA NamesAre ==
  ASSUME NEW s, AreaList(s.areas)
  PROVE  /\ Len(Names(s)) \in Nat /\ Len(Names(s)) = Len(s.areas)
         /\ DOMAIN Names(s) = 1..Len(Names(s))
         /\ \A i \in 1..Len(Names(s)) : Names(s)[i] = s.areas[i].name
         /\ \A i, j \in 1..Len(Names(s)) : Names(s)[i] = Names(s)[j] => i = j
         /\ \A i \in 1..Len(Names(s)) : Known(s, Names(s)[i])
<1>1. Len(s.areas) \in Nat /\ DOMAIN s.areas = 1..Len(s.areas)
  BY DEF AreaList
<1>2. Names(s) = [i \in 1..Len(s.areas) |-> s.areas[i].name]
  BY <1>1 DEF Names
<1>3. DOMAIN Names(s) = 1..Len(s.areas)
  BY <1>2
<1>4. Len(Names(s)) = Len(s.areas)
  BY <1>1, <1>2
<1>5. \A i \in 1..Len(s.areas) : Names(s)[i] = s.areas[i].name
  BY <1>2
<1>6. \A i, j \in 1..Len(s.areas) : Names(s)[i] = Names(s)[j] => i = j
  BY <1>1, <1>5 DEF AreaList, DistinctNames
<1>7. \A i \in 1..Len(s.areas) : Known(s, Names(s)[i])
  BY <1>3 DEF Known, ToSet
<1> QED  BY <1>1, <1>3, <1>4, <1>5, <1>6, <1>7

\* A loop keeps the states right; where it is about one area, a refusal leaves it.
LEMMA EachOk ==
  ASSUME NEW s, NEW c, NEW a, NEW b, NEW X, Ok(s, c, a, b, X),
         NEW hits, NEW cmd \in AreaCommands, NEW pat, cmd # "sub" => X = {}
  PROVE  LET t == Each(s, hits, cmd, pat) IN
         /\ Ok(t, c, a, b, X)
         /\ \A nm : hits \subseteq {nm} => t.refused = s.refused \/ Known(t, nm)
<1> DEFINE names == Names(s)
           n == Len(names)
<1>1. /\ n \in Nat
      /\ \A i, j \in 1..n : names[i] = names[j] => i = j
      /\ \A i \in 1..n : Known(s, names[i])
  BY NamesAre DEF Ok
<1>2. PICK f : /\ f[0] = s
               /\ \A i \in 1..n : f[i] = Turn(f[i - 1], names[i], hits, cmd, pat)
               /\ Each(s, hits, cmd, pat) = [f[n] EXCEPT !.stop = FALSE]
  <2>1. Len(Names(s)) \in Nat
    BY <1>1
  <2>2. \E f : /\ f[0] = s
               /\ \A i \in 1..Len(Names(s)) : f[i] = Turn(f[i - 1], Names(s)[i], hits, cmd, pat)
               /\ Each(s, hits, cmd, pat) = [f[Len(Names(s))] EXCEPT !.stop = FALSE]
    BY <2>1, EachIs
  <2> QED  BY <2>2
<1> HIDE DEF names, n
<1> DEFINE Kept(i) == Ok(f[i], c, a, b, X) /\ \A j \in 1..n : j > i => Known(f[i], names[j])
           G == {i \in 0..n : Kept(i)}
<1>3. ASSUME NEW i \in 1..n, Kept(i - 1)
      PROVE  Done(f[i - 1], f[i], c, a, b, X, names[i])
  <2>1. Known(f[i - 1], names[i]) /\ Ok(f[i - 1], c, a, b, X)
    BY <1>1, <1>3
  <2> HIDE DEF Kept
  <2> QED  BY <1>2, <2>1, TurnDone
<1>4. 0 \in G
  BY <1>1, <1>2
<1>5. ASSUME NEW i \in 1..n, i - 1 \in G PROVE i \in G
  <2>1. Done(f[i - 1], f[i], c, a, b, X, names[i]) /\ Kept(i - 1)
    BY <1>3, <1>5
  <2>2. Ok(f[i], c, a, b, X)
    BY <2>1 DEF Done
  <2>3. ASSUME NEW j \in 1..n, j > i PROVE Known(f[i], names[j])
    <3>1. names[j] # names[i] /\ j > i - 1
      BY <1>1, <2>3
    <3>2. Known(f[i - 1], names[j])
      BY <2>1, <3>1
    <3> QED  BY <2>1, <3>1, <3>2 DEF Done
  <2>4. i \in 0..n
    BY <1>1
  <2> QED  BY <2>2, <2>3, <2>4
<1>6. \A i \in 0..n : i \in G
  <2>1. \A i \in 1..n : i - 1 \in G => i \in G
    BY <1>5
  <2> HIDE DEF G
  <2> QED  BY <1>1, <1>4, <2>1, UpTo
<1>7. Ok(f[n], c, a, b, X)
  BY <1>1, <1>6
<1> DEFINE t == Each(s, hits, cmd, pat)
<1>8. Same(f[n], t) /\ t.refused = f[n].refused
  BY <1>2, <1>7 DEF Same, Ok, Parts
<1> HIDE DEF t
<1>9. Ok(t, c, a, b, X) /\ \A nm : Known(t, nm) <=> Known(f[n], nm)
  BY <1>7, <1>8, SameOk
<1>10. ASSUME NEW nm, hits \subseteq {nm}
       PROVE  f[n].refused = s.refused \/ Known(f[n], nm)
  <2> DEFINE Not(i) == \A j \in 1..i : names[j] # nm
             One(i) == IF Not(i) THEN f[i] = s
                       ELSE f[i].refused = s.refused \/ Known(f[i], nm)
             H == {i \in 0..n : One(i)}
  <2>1. 0 \in H
    BY <1>1, <1>2
  <2>2. ASSUME NEW i \in 1..n, i - 1 \in H PROVE i \in H
    <3>0. i \in 0..n /\ i - 1 \in 0..n /\ i \in 1..i /\ 1..(i - 1) \subseteq 1..i
          /\ \A j \in 1..i : j # i => j \in 1..(i - 1)
      BY <1>1
    <3>1. CASE names[i] = nm
      <4>1. \A j \in 1..(i - 1) : names[j] # nm
        BY <1>1, <3>1
      <4>2. f[i - 1] = s
        BY <2>2, <4>1
      <4>3. Kept(i - 1)
        BY <1>6, <3>0
      <4>4. Done(s, f[i], c, a, b, X, nm)
        <5> HIDE DEF Kept
        <5> QED  BY <1>3, <3>1, <4>2, <4>3
      <4>5. f[i].refused = s.refused \/ Known(f[i], nm)
        BY <4>4 DEF Done
      <4>6. ~Not(i)
        BY <3>0, <3>1
      <4> QED  BY <3>0, <4>5, <4>6
    <3>2. CASE names[i] # nm
      <4>1. f[i] = f[i - 1]
        BY <1>2, <1>10, <3>2 DEF Turn
      <4>2. Not(i) <=> Not(i - 1)
        BY <3>0, <3>2
      <4>3. One(i - 1)
        BY <2>2
      <4> HIDE DEF Not
      <4> QED  BY <3>0, <4>1, <4>2, <4>3
    <3> QED  BY <3>1, <3>2
  <2>3. \A i \in 0..n : i \in H
    <3>1. \A i \in 1..n : i - 1 \in H => i \in H
      BY <2>2
    <3> HIDE DEF H
    <3> QED  BY <1>1, <2>1, <3>1, UpTo
  <2>4. One(n)
    BY <1>1, <2>3
  <2> QED  BY <2>4
<1> QED  BY <1>8, <1>9, <1>10 DEF t

-----------------------------------------------------------------------------
(* cmd_sub(): areas that are there, and those of uplinks.                  *)

LEMMA SubHitsOk ==
  ASSUME NEW s, NEW c, NEW a, NEW b, NEW X, Ok(s, c, a, b, X), NEW pat
  PROVE  LET t == SubHits(s, pat) IN
         /\ Ok(t, c, a, b, X)
         /\ ~IsWildcard(s, pat) => t.refused = s.refused \/ Known(t, pat)
<1> DEFINE u == Counted(s)
           hits == Hits(s, pat)
           t == Each(u, hits, "sub", pat)
<1>1. Same(s, u) /\ u.refused = s.refused
  BY DEF Same, Counted, Ok, Parts
<1> HIDE DEF u
<1>2. Ok(u, c, a, b, X)
  BY <1>1, SameOk
<1>3. ~IsWildcard(s, pat) => hits \subseteq {pat}
  BY DEF Hits, WildMatch
<1>4. SubHits(s, pat) = t
  BY DEF SubHits, u
<1> HIDE DEF hits
<1>5. /\ Ok(t, c, a, b, X)
      /\ \A nm : hits \subseteq {nm} => t.refused = u.refused \/ Known(t, nm)
  BY <1>2, EachOk DEF AreaCommands
<1> HIDE DEF t
<1> QED  BY <1>1, <1>3, <1>4, <1>5

\* An area that is new, perhaps just being asked for.
Appended(s, t, q) ==
  /\ Cell(q) /\ ~Known(s, q.name)
  /\ DOMAIN t = DOMAIN s /\ t.conf = s.conf /\ t.areas = Append(s.areas, q)
  /\ t.reqs = s.reqs /\ t.changed \in {TRUE, s.changed}

LEMMA AppendOk ==
  ASSUME NEW s, NEW t, NEW c, NEW a, NEW b, Ok(s, c, a, b, {}), NEW q, Appended(s, t, q)
  PROVE  /\ Right(q.name, q.state, a, s.reqs) => Ok(t, c, a, b, {})
         /\ Suits(q.state, "+") /\ t.changed => Ok(t, c, a, b, {q.name})
<1>0. /\ Cell(q) /\ ~Known(s, q.name)
      /\ DOMAIN t = DOMAIN s /\ t.conf = s.conf /\ t.areas = Append(s.areas, q)
      /\ t.reqs = s.reqs /\ t.changed \in {TRUE, s.changed}
  BY DEF Appended
<1> DEFINE n == Len(s.areas)
<1>1. /\ n \in Nat /\ DOMAIN s.areas = 1..n /\ s.areas \in Seq(ToSet(s.areas))
      /\ \A i \in 1..n : s.areas[i].name # q.name
  <2>1. \A i \in DOMAIN s.areas : s.areas[i].name # q.name
    BY <1>0 DEF Known, Names, ToSet
  <2> QED  BY <2>1 DEF Ok, AreaList
<1>2. /\ Len(t.areas) = n + 1 /\ DOMAIN t.areas = 1..(n + 1) /\ t.areas[n + 1] = q
      /\ \A i \in 1..n : t.areas[i] = s.areas[i]
      /\ t.areas \in Seq(ToSet(s.areas) \cup {q})
  BY <1>0, <1>1
<1> HIDE DEF n
<1>3. t.areas \in Seq(ToSet(t.areas))
  <2>1. t.areas = [i \in 1..(n + 1) |-> t.areas[i]]
    BY <1>1, <1>2
  <2>2. \A i \in 1..(n + 1) : t.areas[i] \in ToSet(t.areas)
    BY <1>2 DEF ToSet
  <2> QED  BY <1>1, <2>1, <2>2
<1>4. DistinctNames(t.areas)
  <2>1. \A i, j \in 1..n : s.areas[i].name = s.areas[j].name => i = j
    BY <1>1 DEF Ok, AreaList, DistinctNames
  <2>2. ASSUME NEW i \in 1..(n + 1), NEW j \in 1..(n + 1), t.areas[i].name = t.areas[j].name
        PROVE  i = j
    <3>1. i \in 1..n \/ i = n + 1
      BY <1>1
    <3>2. j \in 1..n \/ j = n + 1
      BY <1>1
    <3>3. CASE i \in 1..n /\ j \in 1..n
      BY <1>2, <2>1, <2>2, <3>3
    <3>4. CASE i = n + 1 \/ j = n + 1
      BY <1>1, <1>2, <2>2, <3>1, <3>2, <3>4
    <3> QED  BY <3>1, <3>2, <3>3, <3>4
  <2> QED  BY <1>2, <2>2 DEF DistinctNames
<1>5. \A i \in DOMAIN t.areas : {"name", "state"} \subseteq DOMAIN t.areas[i]
  BY <1>0, <1>1, <1>2 DEF Ok, AreaList, Cell
<1>6. ASSUME NEW i \in DOMAIN t.areas, NEW Y \in {{}, {q.name}},
             IF q.name \in Y THEN Suits(q.state, "+") ELSE Right(q.name, q.state, a, s.reqs)
      PROVE  LET p == t.areas[i] IN IF p.name \in Y THEN Suits(p.state, "+")
                                    ELSE Right(p.name, p.state, a, t.reqs)
  <2>1. CASE i = n + 1
    BY <1>0, <1>2, <1>6, <2>1
  <2>2. CASE i # n + 1
    <3>1. i \in DOMAIN s.areas /\ t.areas[i] = s.areas[i] /\ s.areas[i].name # q.name
      BY <1>1, <1>2, <2>2
    <3>2. Right(s.areas[i].name, s.areas[i].state, a, s.reqs)
      BY <3>1 DEF Ok
    <3> QED  BY <1>0, <3>1, <3>2
  <2> QED  BY <2>1, <2>2
<1>7. ASSUME NEW Y \in {{}, {q.name}},
             IF q.name \in Y THEN Suits(q.state, "+") ELSE Right(q.name, q.state, a, s.reqs),
             t.changed \/ Y = {}
      PROVE  Ok(t, c, a, b, Y)
  <2>1. ~t.changed => Still(t.areas, b) /\ t.reqs = <<>> /\ Y = {}
    <3> SUFFICES ASSUME ~t.changed PROVE Still(t.areas, b) /\ t.reqs = <<>> /\ Y = {}
      OBVIOUS
    <3>1. ~s.changed
      BY <1>0
    <3>2. Still(s.areas, b) /\ s.reqs = <<>>
      BY <3>1 DEF Ok
    <3> QED  BY <1>0, <1>1, <1>2, <1>7, <3>2 DEF Still
  <2> QED  BY <1>0, <1>3, <1>4, <1>5, <1>6, <1>7, <2>1 DEF Ok, AreaList
<1> QED  BY <1>7

\* cmd_new() makes an area, or says why it does not.
LEMMA NewIs ==
  ASSUME NEW s, NEW node, NEW name, NEW opts, NEW inter, IsSession(s)
  PROVE  LET t == New(s, node, name, opts, inter)
             q == NewOptions(s, node, name, opts, inter) IN
         /\ Cell(q) /\ q.name = name
         /\ q.state = IF "state" \in DOMAIN opts THEN opts.state ELSE {"S"}
         /\ Same(s, t) \/ Appended(s, t, q)
<1> DEFINE q == NewOptions(s, node, name, opts, inter)
           t == New(s, node, name, opts, inter)
           made == [s EXCEPT !.areas = Append(@, q), !.changed = IF s.conf.autoCreate THEN @ ELSE TRUE]
<1>1. /\ Cell(q) /\ q.name = name
      /\ q.state = IF "state" \in DOMAIN opts THEN opts.state ELSE {"S"}
  BY DEF NewOptions, Cell
<1>2. \/ \E what : t = Say(s, what, name)
      \/ ~Known(s, name)
         /\ t \in {made, Say(made, "subscribed", name), Tell(made, "subscribed", name)}
  <2> HIDE DEF q
  <2>1. t = LET may == s.auth.ok /\ (May(s, "$") \/ (inter /\ May(s, "&"))) IN
            CASE ~may                              -> Say(s, "not authorized", name)
              [] may /\ Known(s, name)             -> Say(s, "exists", name)
              [] may /\ ~Known(s, name) /\ name \in s.conf.forbidden ->
                   Say(s, "forbidden", name)
              [] OTHER -> IF inter THEN made
                          ELSE IF s.conf.autoCreate THEN Say(made, "subscribed", name)
                          ELSE Tell(made, "subscribed", name)
    BY DEF New, q
  <2> HIDE DEF t, made
  <2> QED  BY <2>1
<1> HIDE DEF q
<1>3. /\ DOMAIN made = DOMAIN s /\ made.conf = s.conf /\ made.areas = Append(s.areas, q)
      /\ made.reqs = s.reqs /\ made.changed = IF s.conf.autoCreate THEN s.changed ELSE TRUE
  BY DEF IsSession, Parts
<1> HIDE DEF made, t
<1>4. /\ Same(made, Tell(made, "subscribed", name))
      /\ Same(made, Say(made, "subscribed", name))
  BY <1>3, SaySame DEF IsSession
<1>5. \A what : Same(s, Say(s, what, name))
  BY SaySame
<1>6. made.changed \in {TRUE, s.changed}
  BY <1>3
<1> QED  BY <1>1, <1>2, <1>3, <1>4, <1>5, <1>6 DEF Same, Appended, t, q

LEMMA NewOk ==
  ASSUME NEW s, NEW c, NEW a, NEW b, Ok(s, c, a, b, {}),
         NEW node, NEW name, NEW opts, NEW inter, StateOption(opts, {"U", "W", "F", "P"})
  PROVE  Ok(New(s, node, name, opts, inter), c, a, b, {})
<1> DEFINE t == New(s, node, name, opts, inter)
           q == NewOptions(s, node, name, opts, inter)
<1>0. IsSession(s)
  BY DEF Ok, IsSession
<1>1. /\ Cell(q) /\ q.name = name
      /\ q.state = IF "state" \in DOMAIN opts THEN opts.state ELSE {"S"}
      /\ \/ Same(s, t)
         \/ Appended(s, t, q)
  BY <1>0, NewIs
<1> HIDE DEF t, q
<1>2. q.state \cap {"U", "W", "F", "P"} = {}
  BY <1>1 DEF StateOption
<1>3. Right(q.name, q.state, a, s.reqs)
  BY <1>2 DEF Right, Plain, Waits, GivenUp
<1>4. CASE Same(s, t)
  BY <1>4, SameOk DEF t
<1>5. CASE ~Same(s, t)
  <2>1. Ok(t, c, a, b, {})
    BY <1>1, <1>3, <1>5, AppendOk
  <2> QED  BY <2>1 DEF t
<1> QED  BY <1>4, <1>5

\* The area that an uplink has been asked for is made, and requested.
LEMMA SubNewOk ==
  ASSUME NEW s, NEW c, NEW a, NEW b, NEW r, Ok(s, c, a, b, {r.areas}),
         ~IsWildcard(s, r.areas)
  PROVE  Ok(SubNew(s, r), c, a, b, {})
<1> DEFINE u == [s EXCEPT !.refused = FALSE]
           t == SubHits(u, r.areas)
           gone == [Remove1(t, r.areas) EXCEPT !.refused = s.refused]
           kept == [t EXCEPT !.refused = s.refused]
           there == Request(kept, Znfp1(r.uplink), "+", r.areas)
           name == r.areas
<1>1. SubNew(s, r) = IF t.refused THEN gone ELSE there
  <2> HIDE DEF u
  <2>1. SubNew(s, r) = Then(t, LAMBDA v : IF v.refused
                                  THEN [Remove1(v, r.areas) EXCEPT !.refused = s.refused]
                                  ELSE Request([v EXCEPT !.refused = s.refused],
                                               Znfp1(r.uplink), "+", r.areas))
    BY DEF SubNew, u
  <2> HIDE DEF t
  <2> QED  BY <2>1 DEF Then
<1>2. Same(s, u) /\ u.refused = FALSE
  BY DEF Same, Ok, Parts
<1> HIDE DEF u, name
<1>3. Ok(u, c, a, b, {name}) /\ ~IsWildcard(u, name)
  BY <1>2, SameOk DEF Same, IsWildcard, name
<1>4. Ok(t, c, a, b, {name}) /\ (t.refused = FALSE \/ Known(t, name))
  <2>1. /\ Ok(SubHits(u, name), c, a, b, {name})
        /\ SubHits(u, name).refused = u.refused \/ Known(SubHits(u, name), name)
    BY <1>3, SubHitsOk
  <2> QED  BY <1>2, <2>1 DEF name
<1> HIDE DEF t
<1>5. ASSUME t.refused PROVE Ok(gone, c, a, b, {})
  <2>1. LET v == Remove1(t, name) IN
        /\ Ok(v, c, a, b, {name}) /\ v.reqs = t.reqs /\ ~Known(v, name)
        /\ v.changed = TRUE
    BY <1>4, <1>5, RemoveOk
  <2> DEFINE v == Remove1(t, name)
  <2>2. gone = [v EXCEPT !.refused = s.refused]
    BY DEF name
  <2> HIDE DEF gone, v
  <2>3. Same(v, gone)
    BY <2>1, <2>2 DEF Same, Ok, Parts, v
  <2>4. Ok(v, c, a, b, {name}) /\ ~Known(v, name) /\ v.changed = TRUE
    BY <2>1 DEF v
  <2>5. \A i \in DOMAIN v.areas : v.areas[i].name # name
    BY <2>4 DEF Known, Names, ToSet
  <2>6. Ok(v, c, a, b, {})
    BY <2>4, <2>5 DEF Ok
  <2> QED  BY <2>3, <2>6, SameOk
<1>6. Ok(there, c, a, b, {})
  <2> DEFINE q == [to |-> Znfp1(r.uplink), sign |-> "+", area |-> name]
  <2>1. /\ DOMAIN there = DOMAIN t /\ there.conf = t.conf /\ there.areas = t.areas
        /\ there.changed = t.changed /\ there.reqs = Append(t.reqs, q)
    BY <1>4 DEF Request, Ok, Parts, name
  <2>2. q.area = name /\ q.sign = "+" /\ t.reqs \in Seq(ToSet(t.reqs))
    BY <1>4 DEF Ok
  <2> HIDE DEF there, q
  <2>3. /\ there.reqs \in Seq(ToSet(there.reqs))
        /\ SaidLast(a, there.reqs, name, "+")
        /\ \A n, sign : n # name /\ SaidLast(a, t.reqs, n, sign)
                        => SaidLast(a, there.reqs, n, sign)
    BY <2>1, <2>2, RequestSaid
  <2>4. ASSUME NEW i \in DOMAIN t.areas
        PROVE  Right(t.areas[i].name, t.areas[i].state, a, there.reqs)
    <3> DEFINE p == t.areas[i]
    <3>1. IF p.name \in {name} THEN Suits(p.state, "+") ELSE Right(p.name, p.state, a, t.reqs)
      BY <1>4 DEF Ok
    <3> HIDE DEF p
    <3>2. CASE p.name = name
      BY <2>3, <3>1, <3>2, SuitsRight DEF p
    <3>3. CASE p.name # name
      BY <2>3, <3>1, <3>3 DEF Right, p
    <3> QED  BY <3>2, <3>3
  <2>5. ~(~t.changed)
    BY <1>4 DEF Ok
  <2> QED  BY <1>4, <2>1, <2>3, <2>4, <2>5 DEF Ok
<1> QED  BY <1>1, <1>5, <1>6

LEMMA ForwardOk ==
  ASSUME NEW s, NEW c, NEW a, NEW b, Ok(s, c, a, b, {}), NEW r, StateOption(r.opts, {"P"})
  PROVE  Ok(Forward(s, r), c, a, b, {})
<1> DEFINE name == r.areas
           t == New(s, r.uplink, name, r.opts, TRUE)
           q == NewOptions(s, r.uplink, name, r.opts, TRUE)
           p == ChState(AreaOf(t, name), {"S"}, "F")
           u == Changed(t, p)
<1>0. IsSession(s)
  BY DEF Ok, IsSession
<1>1. Forward(s, r) = IF Known(s, name) \/ IsWildcard(s, name) THEN s
                      ELSE IF ~Known(t, name) THEN Say(s, "internal error", name)
                      ELSE SubNew(u, r)
  <2>1. Forward(s, r) = IF Known(s, name) \/ IsWildcard(s, name) THEN s
           ELSE Then(t, LAMBDA x : IF ~Known(x, name) THEN Say(s, "internal error", name)
                          ELSE SubNew(Changed(x, ChState(AreaOf(x, name), {"S"}, "F")), r))
    BY DEF Forward
  <2> HIDE DEF t
  <2> QED  BY <2>1 DEF Then
<1>2. Ok(Say(s, "internal error", name), c, a, b, {})
  BY <1>0, SaySame, SameOk
<1>3. ASSUME ~Known(s, name), ~IsWildcard(s, name), Known(t, name)
      PROVE  Ok(SubNew(u, r), c, a, b, {})
  <2>1. /\ Cell(q) /\ q.name = name
        /\ q.state = IF "state" \in DOMAIN r.opts THEN r.opts.state ELSE {"S"}
        /\ Same(s, t) \/ Appended(s, t, q)
    BY <1>0, NewIs
  <2> HIDE DEF t, q, name
  <2>2. ~Same(s, t)
    BY <1>3, SameOk
  <2>3. /\ DOMAIN t = DOMAIN s /\ t.conf = s.conf
        /\ t.areas = Append(s.areas, q) /\ t.reqs = s.reqs
    BY <2>1, <2>2 DEF Appended
  <2> DEFINE n == Len(s.areas)
  <2>4. /\ n \in Nat /\ DOMAIN s.areas = 1..n /\ s.areas \in Seq(ToSet(s.areas))
    BY DEF Ok, AreaList
  <2>5. \A i \in 1..n : s.areas[i].name # name
    BY <1>3, <2>4 DEF Known, Names, ToSet
  <2>6. /\ DOMAIN t.areas = 1..(n + 1) /\ t.areas[n + 1] = q
        /\ \A i \in 1..n : t.areas[i] = s.areas[i]
    BY <2>3, <2>4
  <2> HIDE DEF n
  <2>7. AreaOf(t, name) = q
    <3>1. PICK i \in DOMAIN t.areas : AreaOf(t, name) = t.areas[i] /\ t.areas[i].name = name
      BY <1>3, AreaFound
    <3>2. i = n + 1
      BY <2>4, <2>5, <2>6, <3>1
    <3> QED  BY <2>6, <3>1, <3>2
  <2>8. Cell(p) /\ p.name = name
    <3>1. p = ChState(q, {"S"}, "F")
      BY <2>7
    <3>2. LET w == ChState(q, {"S"}, "F") IN DOMAIN w = DOMAIN q /\ w.name = q.name
      BY <2>1 DEF ChState, Cell
    <3> HIDE DEF p
    <3> QED  BY <2>1, <3>1, <3>2 DEF Cell
  <2>9. "P" \notin q.state
    BY <2>1 DEF StateOption
  <2>10. Suits(p.state, "+")
    <3>1. Plain(q.state)
      BY <2>9 DEF Plain
    <3> QED  BY <2>1, <2>7, <2>9, <3>1, AsksRight
  <2> HIDE DEF p
  <2>11. /\ DOMAIN u = DOMAIN s /\ u.conf = s.conf /\ u.reqs = s.reqs /\ u.changed = TRUE
         /\ u.areas = [i \in DOMAIN t.areas |-> IF t.areas[i].name = p.name THEN p
                                                 ELSE t.areas[i]]
    BY <1>0, <2>3 DEF Changed, Put, IsSession, Parts
  <2> HIDE DEF u
  <2>12. u.areas = Append(s.areas, p)
    <3> DEFINE v == Append(s.areas, p)
    <3>1. /\ DOMAIN v = 1..(n + 1) /\ v[n + 1] = p /\ \A i \in 1..n : v[i] = s.areas[i]
          /\ v = [i \in 1..(n + 1) |-> v[i]]
      BY <2>4 DEF n
    <3> HIDE DEF v
    <3>2. ASSUME NEW i \in 1..(n + 1) PROVE u.areas[i] = v[i]
      <4>1. CASE i = n + 1
        BY <2>1, <2>6, <2>8, <2>11, <3>1, <4>1
      <4>2. CASE i # n + 1
        <5>1. i \in 1..n
          BY <2>4, <4>2, n \in Nat DEF n
        <5> QED  BY <2>5, <2>6, <2>8, <2>11, <3>1, <5>1
      <4> QED  BY <4>1, <4>2
    <3>3. u.areas = [i \in 1..(n + 1) |-> u.areas[i]]
      BY <2>6, <2>11
    <3>4. u.areas = v
      BY <3>1, <3>2, <3>3
    <3> QED  BY <3>4 DEF v
  <2>13. Ok(u, c, a, b, {name})
    <3>1. Appended(s, u, p)
      BY <1>3, <2>8, <2>11, <2>12 DEF Appended
    <3> QED  BY <2>8, <2>10, <2>11, <3>1, AppendOk
  <2>14. ~IsWildcard(u, name)
    BY <1>3, <2>11 DEF IsWildcard
  <2> QED  BY <2>13, <2>14, SubNewOk DEF name
<1> QED  BY <1>1, <1>2, <1>3

-----------------------------------------------------------------------------
(* What the uplinks have.                                                  *)

LEMMA PickedIn ==
  ASSUME NEW S, NEW list \in Seq(S), NEW g, g = [i \in DOMAIN list |-> g[i]],
         \A i \in DOMAIN list : g[i] \in {<<>>, <<list[i]>>}
  PROVE  FlattenSeq(g) \in Seq(S)
<1>1. \A i \in DOMAIN list : g[i] \in Seq(S)
  <2> SUFFICES ASSUME NEW i \in DOMAIN list PROVE g[i] \in Seq(S)
    OBVIOUS
  <2>1. list[i] \in S
    OBVIOUS
  <2>2. <<>> \in Seq(S) /\ <<list[i]>> \in Seq(S)
    BY <2>1
  <2> QED  BY <2>2
<1>2. g \in Seq(Seq(S))
  BY <1>1
<1> QED  BY <1>2, FlattenIn

LEMMA TextsIn ==
  ASSUME NEW Item, NEW entry, entry.files \in Seq(Seq(Item)), entry.items \in Seq(Item),
         NEW s, NEW name, NEW wild
  PROVE  Texts(s, entry, name, wild) \in Seq(Item)
<1> DEFINE lists == Append(entry.files, entry.items)
           Part(i) == IF wild THEN Keep(lists[i], LAMBDA item : ~item.not)
                              ELSE Before(s, lists[i], name)
           parts == [i \in DOMAIN lists |-> Part(i)]
<1>1. lists \in Seq(Seq(Item))
  OBVIOUS
<1>2. Texts(s, entry, name, wild) = FlattenSeq(parts)
  BY DEF Texts
<1> HIDE DEF lists
<1>3. ASSUME NEW i \in DOMAIN lists PROVE Part(i) \in Seq(Item)
  <2> DEFINE list == lists[i]
  <2>1. list \in Seq(Item)
    BY <1>1
  <2> HIDE DEF list
  <2>2. Keep(list, LAMBDA item : ~item.not) \in Seq(Item)
    <3> DEFINE g == [j \in DOMAIN list |-> IF ~list[j].not THEN <<list[j]>> ELSE <<>>]
    <3>1. Keep(list, LAMBDA item : ~item.not) = FlattenSeq(g)
      BY DEF Keep
    <3>2. g = [j \in DOMAIN list |-> g[j]]
          /\ \A j \in DOMAIN list : g[j] \in {<<>>, <<list[j]>>}
      OBVIOUS
    <3> HIDE DEF g
    <3> QED  BY <2>1, <3>1, <3>2, PickedIn
  <2>3. Before(s, list, name) \in Seq(Item)
    <3> DEFINE no == {j \in DOMAIN list : list[j].not /\ WildMatch(s, name, list[j].text)}
               g == [j \in DOMAIN list |->
                       IF list[j].not \/ \E k \in no : k < j THEN <<>> ELSE <<list[j]>>]
    <3>1. Before(s, list, name) = FlattenSeq(g)
      BY DEF Before
    <3> HIDE DEF no
    <3>2. g = [j \in DOMAIN list |-> g[j]]
          /\ \A j \in DOMAIN list : g[j] \in {<<>>, <<list[j]>>}
      OBVIOUS
    <3> HIDE DEF g
    <3> QED  BY <2>1, <3>1, <3>2, PickedIn
  <2> QED  BY <2>2, <2>3 DEF list
<1> HIDE DEF Part
<1>4. parts \in Seq(Seq(Item))
  <2> DEFINE n == Len(lists)
  <2>1. n \in Nat /\ DOMAIN lists = 1..n
    BY <1>1
  <2> HIDE DEF n
  <2>2. parts = [i \in 1..n |-> Part(i)] /\ \A i \in 1..n : Part(i) \in Seq(Item)
    BY <1>3, <2>1
  <2> HIDE DEF parts
  <2> QED  BY <2>1, <2>2
<1> HIDE DEF parts
<1> QED  BY <1>2, <1>4, FlattenIn

LEMMA LookupIn ==
  ASSUME NEW s, Settled(s.conf), NEW pat
  PROVE  LET ups == UplinksLookup(s, pat) IN
         /\ Len(ups) \in Nat
         /\ \A i \in 1..Len(ups) : StateOption(ups[i].opts, {"P"})
<1> DEFINE c == s.conf
           E(I) == {e \in ToSet(c.uplinks) : /\ e.files \in Seq(Seq(I))
                                             /\ e.items \in Seq(I)
                                             /\ StateOption(e.opts, {"P"})}
<1>1. PICK Item : c.uplinks \in Seq(E(Item))
  BY DEF Settled
<1> DEFINE wild == IsWildcard(s, pat)
           Fits(item) == IF wild THEN WildMatch(s, item.text, pat)
                                 ELSE WildMatch(s, pat, item.text)
           Items(e) == Keep(Texts(s, e, pat, wild), Fits)
           Of(e) == LET items == Items(e) IN
                    [j \in DOMAIN items |->
                       [areas |-> items[j].text, uplink |-> e.uplink, opts |-> e.opts]]
           lists == [i \in DOMAIN c.uplinks |->
                       IF c.uplinks[i].af = c.areafix THEN Of(c.uplinks[i]) ELSE <<>>]
           all == FlattenSeq(lists)
           R == {[areas |-> x.text, uplink |-> e.uplink, opts |-> e.opts] :
                   x \in Item, e \in E(Item)}
<1>2. UplinksLookup(s, pat) = IF wild \/ all = <<>> THEN all ELSE <<all[1]>>
  BY DEF UplinksLookup
<1>3. ASSUME NEW e \in E(Item) PROVE Of(e) \in Seq(R)
  <2> DEFINE texts == Texts(s, e, pat, wild)
             items == Items(e)
  <2>1. texts \in Seq(Item)
    BY TextsIn
  <2>2. items \in Seq(Item)
    <3> DEFINE g == [j \in DOMAIN texts |-> IF Fits(texts[j]) THEN <<texts[j]>> ELSE <<>>]
    <3> HIDE DEF Fits
    <3>1. items = FlattenSeq(g)
      BY DEF Keep
    <3> HIDE DEF texts, items
    <3>2. g = [j \in DOMAIN texts |-> g[j]]
          /\ \A j \in DOMAIN texts : g[j] \in {<<>>, <<texts[j]>>}
      OBVIOUS
    <3> HIDE DEF g
    <3> QED  BY <2>1, <3>1, <3>2, PickedIn
  <2> DEFINE At1(j) == [areas |-> items[j].text, uplink |-> e.uplink, opts |-> e.opts]
  <2>3. Of(e) = [j \in DOMAIN items |-> At1(j)]
    OBVIOUS
  <2> HIDE DEF items, Of, E
  <2>4. \A j \in DOMAIN items : At1(j) \in R
    <3>1. \A j \in DOMAIN items : items[j] \in Item
      BY <2>2
    <3> QED  BY <3>1
  <2> HIDE DEF At1, R
  <2> QED  BY <2>2, <2>3, <2>4
<1>4. lists \in Seq(Seq(R))
  <2>1. \A i \in DOMAIN c.uplinks : c.uplinks[i] \in E(Item)
    BY <1>1
  <2> HIDE DEF Of, R, E
  <2>2. \A i \in DOMAIN c.uplinks : lists[i] \in Seq(R)
    BY <1>3, <2>1
  <2>3. DOMAIN c.uplinks = 1..Len(c.uplinks) /\ Len(c.uplinks) \in Nat
    BY <1>1
  <2>4. lists = [i \in 1..Len(c.uplinks) |-> lists[i]]
    BY <2>3
  <2> HIDE DEF lists
  <2> QED  BY <2>2, <2>3, <2>4
<1> HIDE DEF lists, wild
<1>5. \A r \in R : StateOption(r.opts, {"P"})
  OBVIOUS
<1> HIDE DEF R
<1>6. all \in Seq(R)
  BY <1>4, FlattenIn
<1> HIDE DEF all
<1>7. UplinksLookup(s, pat) \in Seq(R)
  <2>1. CASE wild \/ all = <<>>
    BY <1>2, <1>6, <2>1
  <2>2. CASE ~(wild \/ all = <<>>)
    <3>1. all[1] \in R
      BY <1>6, <2>2
    <3> QED  BY <1>2, <2>2, <3>1
  <2> QED  BY <2>1, <2>2
<1> QED  BY <1>5, <1>7

\* The loop over the uplinks that have the area, or the areas.
LEMMA ForwardEachIs ==
  ASSUME NEW s, NEW ups, Len(ups) \in Nat
  PROVE  \E f : /\ f[0] = s
                /\ \A i \in 1..Len(ups) : f[i] = Forward(f[i - 1], ups[i])
                /\ ForwardEach(s, ups) = f[Len(ups)]
<1> DEFINE n == Len(ups)
           Step(x, i) == Then(ups[i], LAMBDA a : Then(x, LAMBDA t : Forward(t, a)))
           Is(f, m) == f = [i \in 0..m |-> IF i = 0 THEN s ELSE Step(f[i - 1], i)]
           G == {m \in 0..n : \E f : Is(f, m)}
<1>0. ForwardEach(s, ups) = (CHOOSE f : Is(f, n))[n]
  BY DEF ForwardEach
<1>00. \A x, i : Step(x, i) = Forward(x, ups[i])
  <2> SUFFICES ASSUME NEW x, NEW i PROVE Step(x, i) = Forward(x, ups[i])
    OBVIOUS
  <2>1. \A a : Then(x, LAMBDA t : Forward(t, a)) = Forward(x, a)
    BY DEF Then
  <2>2. Step(x, i) = Then(x, LAMBDA t : Forward(t, ups[i]))
    BY DEF Then
  <2> QED  BY <2>1, <2>2
<1> HIDE DEF Step
<1>1. 0 \in G
  <2>1. Is([i \in 0..0 |-> s], 0)
    OBVIOUS
  <2> HIDE DEF Is
  <2> QED  BY <2>1
<1>2. ASSUME NEW m \in 1..n, m - 1 \in G PROVE m \in G
  <2>1. PICK g : Is(g, m - 1)
    BY <1>2
  <2>0. m \in Nat /\ m # 0 /\ m \in 0..n
    OBVIOUS
  <2> DEFINE h == [i \in 0..m |-> IF i = m THEN Step(g[m - 1], m) ELSE g[i]]
  <2>2. ASSUME NEW i \in 0..m PROVE h[i] = IF i = 0 THEN s ELSE Step(h[i - 1], i)
    <3>1. CASE i = m
      <4>1. h[i - 1] = g[i - 1]
        <5>1. i - 1 \in 0..m /\ i - 1 # m
          BY <2>0, <3>1
        <5> QED  BY <5>1
      <4> HIDE DEF h
      <4>2. h[i] = Step(g[m - 1], m)
        BY <3>1 DEF h
      <4> QED  BY <2>0, <3>1, <4>1, <4>2
    <3>2. CASE i # m
      <4>0. i \in 0..(m - 1) /\ (i # 0 => i - 1 \in 0..m /\ i - 1 # m)
        BY <2>0, <3>2
      <4>1. h[i] = g[i] /\ (i # 0 => h[i - 1] = g[i - 1])
        BY <3>2, <4>0
      <4>2. g[i] = IF i = 0 THEN s ELSE Step(g[i - 1], i)
        BY <2>1, <4>0
      <4> HIDE DEF h
      <4> QED  BY <4>1, <4>2
    <3> QED  BY <3>1, <3>2
  <2>3. Is(h, m)
    <3> HIDE DEF h
    <3> QED  BY <2>2 DEF h
  <2> HIDE DEF h, Is
  <2> QED  BY <2>0, <2>3
<1>3. n \in G
  <2> HIDE DEF G, Is
  <2>1. \A i \in 1..n : i - 1 \in G => i \in G
    BY <1>2
  <2>2. n \in Nat
    OBVIOUS
  <2> HIDE DEF n
  <2>3. \A i \in 0..n : i \in G
    BY <1>1, <2>1, <2>2, UpTo
  <2> QED  BY <2>2, <2>3
<1>4. PICK g : Is(g, n)
  BY <1>3
<1> DEFINE f == CHOOSE f : Is(f, n)
<1>5. Is(f, n)
  BY <1>4
<1>6. ForwardEach(s, ups) = f[n]
  BY <1>0
<1> HIDE DEF f
<1>7. n \in Nat
  OBVIOUS
<1> HIDE DEF n
<1>8. f[0] = s
  BY <1>5, <1>7
<1>9. \A i \in 1..n : f[i] = Forward(f[i - 1], ups[i])
  BY <1>00, <1>5, <1>7
<1> QED  BY <1>6, <1>8, <1>9 DEF n

LEMMA ForwardAllOk ==
  ASSUME NEW s, NEW c, NEW a, NEW b, Ok(s, c, a, b, {}), Settled(c), NEW pat
  PROVE  Ok(ForwardAll(s, pat), c, a, b, {})
<1> DEFINE ups == UplinksLookup(s, pat)
           n == Len(ups)
<1>1. n \in Nat /\ \A i \in 1..n : StateOption(ups[i].opts, {"P"})
  BY LookupIn DEF Ok
<1>2. ForwardAll(s, pat) = ForwardEach(s, ups)
  <2> HIDE DEF ups
  <2> QED  BY DEF ForwardAll, Then, ups
<1> HIDE DEF ups
<1>3. PICK f : /\ f[0] = s
               /\ \A i \in 1..n : f[i] = Forward(f[i - 1], ups[i])
               /\ ForwardEach(s, ups) = f[n]
  <2>1. Len(ups) \in Nat
    BY <1>1
  <2>2. \E f : /\ f[0] = s
               /\ \A i \in 1..Len(ups) : f[i] = Forward(f[i - 1], ups[i])
               /\ ForwardEach(s, ups) = f[Len(ups)]
    BY <2>1, ForwardEachIs
  <2> QED  BY <2>2
<1> HIDE DEF n
<1> DEFINE G == {i \in 0..n : Ok(f[i], c, a, b, {})}
<1>4. 0 \in G
  BY <1>1, <1>3
<1>5. \A i \in 1..n : i - 1 \in G => i \in G
  <2> SUFFICES ASSUME NEW i \in 1..n, Ok(f[i - 1], c, a, b, {}) PROVE Ok(f[i], c, a, b, {})
    BY <1>1
  <2> QED  BY <1>1, <1>3, ForwardOk
<1>6. n \in G
  <2> HIDE DEF G
  <2>1. \A i \in 0..n : i \in G
    BY <1>1, <1>4, <1>5, UpTo
  <2> QED  BY <1>1, <2>1
<1> QED  BY <1>2, <1>3, <1>6

-----------------------------------------------------------------------------
(* The commands.                                                           *)

LEMMA SayOk ==
  ASSUME NEW s, NEW c, NEW a, NEW b, NEW X, Ok(s, c, a, b, X), NEW what, NEW name
  PROVE  Ok(Say(s, what, name), c, a, b, X)
<1>1. IsSession(s)
  BY DEF Ok, IsSession
<1> QED  BY <1>1, SaySame, SameOk

\* An answer of any length.
LEMMA OutSame ==
  ASSUME NEW s, IsSession(s), NEW l
  PROVE  Same(s, [s EXCEPT !.out = l])
BY DEF Same, IsSession, Parts

LEMMA SubOk ==
  ASSUME NEW s, NEW c, NEW a, NEW b, Ok(s, c, a, b, {}), Settled(c), NEW pat
  PROVE  Ok(Sub(s, pat), c, a, b, {})
<1> DEFINE one == ~IsWildcard(s, pat) /\ Hits(s, pat) # {}
           done == one /\ pat # Last(Names(s))
           forward == ~one
           t == SubHits(s, pat)
<1>1. Sub(s, pat) = IF ~s.auth.ok THEN Say(s, "not authorized", pat)
                    ELSE AfterHits(t, pat, done, forward)
  <2>1. Sub(s, pat) = IF ~s.auth.ok THEN Say(s, "not authorized", pat)
                      ELSE Then(t, LAMBDA u : AfterHits(u, pat, done, forward))
    BY DEF Sub
  <2> HIDE DEF t, done, forward
  <2> QED  BY <2>1 DEF Then
<1>2. Ok(t, c, a, b, {})
  BY SubHitsOk
<1>3. done \in BOOLEAN
  OBVIOUS
<1> HIDE DEF t, done, forward
<1>4. AfterHits(t, pat, done, forward)
        \in {t, Say(t, "forward not authorized", pat), ForwardAll(t, pat)}
  BY <1>3 DEF AfterHits
<1>5. Ok(ForwardAll(t, pat), c, a, b, {})
  BY <1>2, ForwardAllOk
<1>6. \A what : Ok(Say(s, what, pat), c, a, b, {}) /\ Ok(Say(t, what, pat), c, a, b, {})
  BY <1>2, SayOk
<1> QED  BY <1>1, <1>2, <1>4, <1>5, <1>6

LEMMA CommandsOk ==
  ASSUME NEW s, NEW c, NEW a, NEW b, Ok(s, c, a, b, {}), NEW pat
  PROVE  /\ Ok(Unsub(s, pat), c, a, b, {})  /\ Ok(Passive(s, pat), c, a, b, {})
         /\ Ok(Active(s, pat), c, a, b, {}) /\ Ok(Delete(s, pat), c, a, b, {})
<1>1. \A what : Ok(Say(s, what, pat), c, a, b, {})
  BY SayOk
<1>2. \A hits : \A cmd \in AreaCommands : Ok(Each(s, hits, cmd, pat), c, a, b, {})
  BY EachOk
<1>3. \A hits : /\ Ok(Each(s, hits, "unsub", pat), c, a, b, {})
                /\ Ok(Each(s, hits, "passive", pat), c, a, b, {})
                /\ Ok(Each(s, hits, "active", pat), c, a, b, {})
                /\ Ok(Each(s, hits, "delete", pat), c, a, b, {})
  BY <1>2 DEF AreaCommands
<1>4. Ok(Unsub(s, pat), c, a, b, {})
  BY <1>1, <1>3 DEF Unsub
<1>5. Ok(Passive(s, pat), c, a, b, {})
  BY <1>1, <1>3 DEF Passive
<1>6. Ok(Active(s, pat), c, a, b, {})
  BY <1>1, <1>3 DEF Active
<1>7. Ok(Delete(s, pat), c, a, b, {})
  BY <1>1, <1>3 DEF Delete
<1> QED  BY <1>4, <1>5, <1>6, <1>7

LEMMA ShowSame ==
  ASSUME NEW s, IsSession(s), NEW avail
  PROVE  /\ Same(s, List(s, avail)) /\ Same(s, Query(s)) /\ Same(s, Unlinked(s))
         /\ Same(s, ListAll(s)) /\ Same(s, Help(s))
<1>1. \A l : Same(s, [s EXCEPT !.out = l])
  BY OutSame
<1>2. \A what, name : Same(s, Say(s, what, name))
  BY SaySame
<1>3. Same(s, List(s, avail))
  <2> DEFINE shown == Show(s, "list", LAMBDA p : Listed(s, p, avail))
  <2>1. \E l : shown = [s EXCEPT !.out = l]
    BY DEF Show
  <2>2. List(s, avail) \in {shown, Say(s, "not authorized", ""), Say(s, "file", "")}
    BY DEF List
  <2>3. Same(s, shown)
    BY <1>1, <2>1
  <2> HIDE DEF shown
  <2> QED  BY <1>2, <2>2, <2>3
<1>4. Same(s, Query(s))
  <2> DEFINE shown == Show(s, "query", LAMBDA p : s.node \in ToSet(p.nodes))
  <2>1. \E l : shown = [s EXCEPT !.out = l]
    BY DEF Show
  <2>2. Query(s) \in {shown, Say(s, "not authorized", "")}
    BY DEF Query
  <2>3. Same(s, shown)
    BY <1>1, <2>1
  <2> HIDE DEF shown
  <2> QED  BY <1>2, <2>2, <2>3
<1>5. Same(s, Unlinked(s))
  <2> DEFINE shown == Show(s, "unlinked", LAMBDA p :
                        /\ Visible(s, p)
                        /\ s.conf.areafix => p.zone = s.node.zone
                        /\ s.node \notin ToSet(p.nodes))
  <2>1. \E l : shown = [s EXCEPT !.out = l]
    BY DEF Show
  <2>2. Unlinked(s) \in {shown, Say(s, "not authorized", "")}
    BY DEF Unlinked
  <2>3. Same(s, shown)
    BY <1>1, <2>1
  <2> HIDE DEF shown
  <2> QED  BY <1>2, <2>2, <2>3
<1>6. Same(s, ListAll(s))
  <2> DEFINE shown == Show(s, "all", LAMBDA p : TRUE)
  <2>1. \E l : shown = [s EXCEPT !.out = l]
    BY DEF Show
  <2>2. \/ ListAll(s) = Say(s, "not authorized", "")
        \/ \E l : ListAll(s) = [shown EXCEPT !.out = l]
    BY DEF ListAll
  <2> HIDE DEF shown
  <2>3. \A l : Same(s, [shown EXCEPT !.out = l])
    BY <2>1 DEF Same, IsSession, Parts
  <2> QED  BY <1>2, <2>2, <2>3
<1>7. Same(s, Help(s))
  BY <1>2 DEF Help
<1> QED  BY <1>3, <1>4, <1>5, <1>6, <1>7

LEMMA AuthSame ==
  ASSUME NEW s, IsSession(s), NEW node, NEW pass, NEW check
  PROVE  Same(s, AuthCheck(s, node, pass, check))
BY DEF Same, AuthCheck, IsSession, Parts

LEMMA PasswdSame ==
  ASSUME NEW s, IsSession(s), NEW arg
  PROVE  Same(s, Passwd(s, arg))
<1> DEFINE closed == [s EXCEPT !.auth.ok = FALSE]
           named == [closed EXCEPT !.node = arg.node[1]]
           t == AuthCheck(named, arg.node[1], arg.pass[1], TRUE)
<1>1. Same(s, closed) /\ Same(s, named)
  BY DEF Same, IsSession, Parts
<1>2. Passwd(s, arg) \in {Say(closed, "no address", ""), Say(named, "no password", ""),
                          t, Say(t, "failed", "")}
  <2>1. Passwd(s, arg) =
          CASE arg.node = <<>> -> Say(closed, "no address", "")
            [] arg.node # <<>> /\ arg.pass = <<>> -> Say(named, "no password", "")
            [] OTHER -> IF t.auth.ok THEN t ELSE Say(t, "failed", "")
    BY DEF Passwd
  <2> HIDE DEF closed, named, t
  <2> QED  BY <2>1
<1> HIDE DEF closed, named
<1>3. IsSession(closed) /\ IsSession(named)
  BY <1>1 DEF Same, IsSession
<1>4. Same(named, t)
  BY <1>3, AuthSame
<1> HIDE DEF t
<1>5. IsSession(t)
  BY <1>3, <1>4 DEF Same, IsSession
<1>6. /\ \A what : Same(closed, Say(closed, what, "")) /\ Same(named, Say(named, what, ""))
      /\ \A what : Same(t, Say(t, what, ""))
  BY <1>3, <1>5, SaySame
<1>7. \A u, v, w : Same(u, v) /\ Same(v, w) => Same(u, w)
  BY DEF Same
<1>8. Same(s, t)
  BY <1>1, <1>4, <1>7
<1>9. /\ Same(s, Say(closed, "no address", "")) /\ Same(s, Say(named, "no password", ""))
      /\ Same(s, Say(t, "failed", ""))
  <2>1. Same(closed, Say(closed, "no address", ""))
    BY <1>6
  <2>2. Same(named, Say(named, "no password", ""))
    BY <1>6
  <2>3. Same(t, Say(t, "failed", ""))
    BY <1>6
  <2> QED  BY <1>1, <1>7, <1>8, <2>1, <2>2, <2>3
<1> QED  BY <1>2, <1>8, <1>9

LEMMA DoCmdOk ==
  ASSUME NEW s, NEW c, NEW a, NEW b, Ok(s, c, a, b, {}), Settled(c), NEW line,
         StateOption(line.opts, {"U", "W", "F", "P"})
  PROVE  Ok(DoCmd(s, line, Command(line.word)), c, a, b, {})
<1> DEFINE cmd == Command(line.word)
           Outcomes == {Say(s, "unknown", line.word), Sub(s, line.arg), Sub(s, line.word),
                        Unsub(s, line.arg), New(s, s.node, line.arg, line.opts, FALSE),
                        Delete(s, line.arg), Passive(s, line.arg), Active(s, line.arg),
                        Passwd(s, line.arg), List(s, FALSE), List(s, TRUE), ListAll(s),
                        Query(s), Unlinked(s), Help(s)}
<1>1. cmd \in {"sub", "unsub", "new", "delete", "passwd", "passive", "active", "list",
               "avail", "query", "unlinked", "help", "listall", "area"}
  BY DEF Command
<1> HIDE DEF cmd
<1>2. DoCmd(s, line, cmd) \in Outcomes
  BY <1>1 DEF DoCmd
<1>3. IsSession(s)
  BY DEF Ok, IsSession
<1>4. /\ Same(s, Say(s, "unknown", line.word)) /\ Same(s, Passwd(s, line.arg))
      /\ Same(s, List(s, FALSE)) /\ Same(s, List(s, TRUE)) /\ Same(s, ListAll(s))
      /\ Same(s, Query(s)) /\ Same(s, Unlinked(s)) /\ Same(s, Help(s))
  BY <1>3, SaySame, PasswdSame, ShowSame
<1>5. \A t : Same(s, t) => Ok(t, c, a, b, {})
  BY SameOk
<1>6. Ok(Sub(s, line.arg), c, a, b, {}) /\ Ok(Sub(s, line.word), c, a, b, {})
  BY SubOk
<1>7. Ok(New(s, s.node, line.arg, line.opts, FALSE), c, a, b, {})
  BY NewOk
<1>8. /\ Ok(Unsub(s, line.arg), c, a, b, {})   /\ Ok(Delete(s, line.arg), c, a, b, {})
      /\ Ok(Passive(s, line.arg), c, a, b, {}) /\ Ok(Active(s, line.arg), c, a, b, {})
  BY CommandsOk
<1>9. \A t \in Outcomes : Ok(t, c, a, b, {})
  BY <1>4, <1>5, <1>6, <1>7, <1>8
<1> QED  BY <1>2, <1>9 DEF cmd

LEMMA DoLineOk ==
  ASSUME NEW s, NEW c, NEW a, NEW b, Ok(s, c, a, b, {}), Settled(c), NEW line,
         StateOption(line.opts, {"U", "W", "F", "P"})
  PROVE  Ok(DoLine(s, line), c, a, b, {})
<1>1. Same(s, [s EXCEPT !.stop = TRUE])
  BY DEF Same, Ok, Parts
<1>2. Ok([s EXCEPT !.stop = TRUE], c, a, b, {})
  BY <1>1, SameOk
<1>3. Ok(DoCmd(s, line, Command(line.word)), c, a, b, {})
  BY DoCmdOk
<1>4. DoLine(s, line) \in {s, [s EXCEPT !.stop = TRUE], DoCmd(s, line, Command(line.word))}
  BY DEF DoLine
<1> QED  BY <1>2, <1>3, <1>4

\* The loop over the lines of a message.
LEMMA DoLinesIs ==
  ASSUME NEW s, NEW lines, Len(lines) \in Nat
  PROVE  \E f : /\ f[0] = s
                /\ \A i \in 1..Len(lines) : f[i] = DoLine(f[i - 1], lines[i])
                /\ DoLines(s, lines) = [f[Len(lines)] EXCEPT !.stop = FALSE]
<1> DEFINE n == Len(lines)
           Step(x, i) == Then(x, LAMBDA t : DoLine(t, lines[i]))
           Is(f, m) == f = [i \in 0..m |-> IF i = 0 THEN s ELSE Step(f[i - 1], i)]
           G == {m \in 0..n : \E f : Is(f, m)}
<1>0. DoLines(s, lines) = [(CHOOSE f : Is(f, n))[n] EXCEPT !.stop = FALSE]
  BY DEF DoLines
<1>00. \A x, i : Step(x, i) = DoLine(x, lines[i])
  BY DEF Then
<1> HIDE DEF Step
<1>1. 0 \in G
  <2>1. Is([i \in 0..0 |-> s], 0)
    OBVIOUS
  <2> HIDE DEF Is
  <2> QED  BY <2>1
<1>2. ASSUME NEW m \in 1..n, m - 1 \in G PROVE m \in G
  <2>1. PICK g : Is(g, m - 1)
    BY <1>2
  <2>0. m \in Nat /\ m # 0 /\ m \in 0..n
    OBVIOUS
  <2> DEFINE h == [i \in 0..m |-> IF i = m THEN Step(g[m - 1], m) ELSE g[i]]
  <2>2. ASSUME NEW i \in 0..m PROVE h[i] = IF i = 0 THEN s ELSE Step(h[i - 1], i)
    <3>1. CASE i = m
      <4>1. h[i - 1] = g[i - 1]
        <5>1. i - 1 \in 0..m /\ i - 1 # m
          BY <2>0, <3>1
        <5> QED  BY <5>1
      <4> HIDE DEF h
      <4>2. h[i] = Step(g[m - 1], m)
        BY <3>1 DEF h
      <4> QED  BY <2>0, <3>1, <4>1, <4>2
    <3>2. CASE i # m
      <4>0. i \in 0..(m - 1) /\ (i # 0 => i - 1 \in 0..m /\ i - 1 # m)
        BY <2>0, <3>2
      <4>1. h[i] = g[i] /\ (i # 0 => h[i - 1] = g[i - 1])
        BY <3>2, <4>0
      <4>2. g[i] = IF i = 0 THEN s ELSE Step(g[i - 1], i)
        BY <2>1, <4>0
      <4> HIDE DEF h
      <4> QED  BY <4>1, <4>2
    <3> QED  BY <3>1, <3>2
  <2>3. Is(h, m)
    <3> HIDE DEF h
    <3> QED  BY <2>2 DEF h
  <2> HIDE DEF h, Is
  <2> QED  BY <2>0, <2>3
<1>3. n \in G
  <2> HIDE DEF G, Is
  <2>1. \A i \in 1..n : i - 1 \in G => i \in G
    BY <1>2
  <2>2. n \in Nat
    OBVIOUS
  <2> HIDE DEF n
  <2>3. \A i \in 0..n : i \in G
    BY <1>1, <2>1, <2>2, UpTo
  <2> QED  BY <2>2, <2>3
<1>4. PICK g : Is(g, n)
  BY <1>3
<1> DEFINE f == CHOOSE f : Is(f, n)
<1>5. Is(f, n)
  BY <1>4
<1>6. DoLines(s, lines) = [f[n] EXCEPT !.stop = FALSE]
  BY <1>0
<1> HIDE DEF f
<1>7. n \in Nat
  OBVIOUS
<1> HIDE DEF n
<1>8. f[0] = s
  BY <1>5, <1>7
<1>9. \A i \in 1..n : f[i] = DoLine(f[i - 1], lines[i])
  BY <1>00, <1>5, <1>7
<1> QED  BY <1>6, <1>8, <1>9 DEF n

\* A message does no harm.
LEMMA DoOk ==
  ASSUME NEW s, NEW c, NEW a, NEW b, Ok(s, c, a, b, {}), Settled(c), NEW k \in DOMAIN c.msg
  PROVE  Ok(Do(s, c.msg[k]), c, a, b, {})
<1> DEFINE m == c.msg[k]
           n == Len(m.lines)
           s1 == AuthCheck(s, m.from, m.pass, TRUE)
           s2 == IF "q" \in m.opts THEN Query(s1) ELSE s1
           s3 == IF "l" \in m.opts THEN List(s2, FALSE) ELSE s2
           t  == DoLines(s3, m.lines)
<1>1. n \in Nat /\ \A i \in 1..n : StateOption(m.lines[i].opts, {"U", "W", "F", "P"})
  BY DEF Settled
<1>2. Do(s, c.msg[k]) = t
  <2> DEFINE Lined(x) == DoLines(x, m.lines)
             Opted(x) == DoOptions(x, m.opts)
             Both(x) == Then(Opted(x), Lined)
  <2>1. Do(s, c.msg[k]) = Then(s1, Both)
    BY DEF Do
  <2>2. Then(s1, Both) = Both(s1)
    <3> HIDE DEF s1, Both
    <3> QED  BY DEF Then
  <2>3. Both(s1) = Lined(Opted(s1))
    <3> HIDE DEF s1, Opted, Lined
    <3> QED  BY DEF Then
  <2>4. Opted(s1) = s3
    <3>1. Opted(s1) = Then(s2, LAMBDA x : IF "l" \in m.opts THEN List(x, FALSE) ELSE x)
      BY DEF DoOptions
    <3> HIDE DEF s2, Opted
    <3> QED  BY <3>1 DEF Then
  <2> HIDE DEF s1, s3, Opted, Both
  <2> QED  BY <2>1, <2>2, <2>3, <2>4
<1> HIDE DEF m
<1>3. \A u, v : Same(u, v) /\ Ok(u, c, a, b, {}) => Ok(v, c, a, b, {})
  BY SameOk
<1>4. \A u : Ok(u, c, a, b, {}) => IsSession(u)
  BY DEF Ok, IsSession
<1>5. Ok(s1, c, a, b, {})
  BY <1>3, <1>4, AuthSame
<1> HIDE DEF s1
<1>6. Ok(s2, c, a, b, {})
  <2>1. Same(s1, Query(s1))
    BY <1>4, <1>5, ShowSame
  <2> QED  BY <1>3, <1>5, <2>1
<1> HIDE DEF s2
<1>7. Ok(s3, c, a, b, {})
  <2>1. Same(s2, List(s2, FALSE))
    BY <1>4, <1>6, ShowSame
  <2> QED  BY <1>3, <1>6, <2>1
<1> HIDE DEF s3
<1>8. PICK f : /\ f[0] = s3
               /\ \A i \in 1..n : f[i] = DoLine(f[i - 1], m.lines[i])
               /\ t = [f[n] EXCEPT !.stop = FALSE]
  BY <1>1, DoLinesIs
<1> HIDE DEF n, t
<1> DEFINE G == {i \in 0..n : Ok(f[i], c, a, b, {})}
<1>9. 0 \in G
  BY <1>1, <1>7, <1>8
<1>10. \A i \in 1..n : i - 1 \in G => i \in G
  <2> SUFFICES ASSUME NEW i \in 1..n, Ok(f[i - 1], c, a, b, {}) PROVE Ok(f[i], c, a, b, {})
    BY <1>1
  <2> QED  BY <1>1, <1>8, DoLineOk
<1>11. Ok(f[n], c, a, b, {})
  <2> HIDE DEF G
  <2>1. \A i \in 0..n : i \in G
    BY <1>1, <1>9, <1>10, UpTo
  <2> QED  BY <1>1, <2>1 DEF G
<1>12. Same(f[n], t)
  BY <1>4, <1>8, <1>11 DEF Same, IsSession, Parts
<1> QED  BY <1>2, <1>3, <1>11, <1>12

-----------------------------------------------------------------------------
(* The program.                                                            *)

\* An area keeps its name and its state when it is written and read again.
LEMMA WrittenRead ==
  \A p : /\ WriteArea(p).name = p.name /\ WriteArea(p).state = p.state
         /\ ReadArea(p).name = p.name /\ ReadArea(p).state = p.state
         /\ Cell(WriteArea(p)) /\ Cell(ReadArea(p))
BY DEF WriteArea, ReadArea, Cell

LEMMA AreasAre ==
  ASSUME NEW q, Lines(q)
  PROVE  /\ AreaList(Areas(q)) /\ DOMAIN Areas(q) = DOMAIN q
         /\ \A i \in DOMAIN q : /\ Areas(q)[i].name = q[i].name
                                /\ Areas(q)[i].state = q[i].state
<1> DEFINE n == Len(q)
<1>1. n \in Nat /\ DOMAIN q = 1..n
  BY DEF Lines
<1> HIDE DEF n
<1>2. Areas(q) = [i \in 1..n |-> ReadArea(q[i])]
  BY <1>1 DEF Areas
<1>3. \A i \in 1..n : /\ Areas(q)[i].name = q[i].name /\ Areas(q)[i].state = q[i].state
                      /\ Cell(Areas(q)[i]) /\ Areas(q)[i] \in ToSet(Areas(q))
  BY <1>2, WrittenRead DEF ToSet
<1>4. Areas(q) \in Seq(ToSet(Areas(q)))
  BY <1>1, <1>2, <1>3
<1>5. DistinctNames(Areas(q))
  BY <1>1, <1>2, <1>3 DEF Lines, DistinctNames
<1> QED  BY <1>1, <1>2, <1>3, <1>4, <1>5 DEF AreaList, Cell

\* What is known now is known, and what was known of others still is.
LEMMA OverIs ==
  ASSUME NEW g, NEW a, NEW name
  PROVE  /\ name \in DOMAIN g
              => name \in DOMAIN Over(g, a) /\ Over(g, a)[name] = g[name]
         /\ name \notin DOMAIN g /\ name \in DOMAIN a
              => name \in DOMAIN Over(g, a) /\ Over(g, a)[name] = a[name]
BY DEF Over

LEMMA InitFix ==
  ASSUME \A c \in ToSet(Setups) : Settled(c), Init
  PROVE  FixInv
<1>1. conf \in ToSet(Setups) /\ Settled(conf)
  BY DEF Init
<1>2. MailIn
  <2> DEFINE D == DOMAIN conf.msg
  <2>0. pc = "idle" /\ inbound = <<>> /\ queue = <<>>
    BY DEF Init
  <2>1. conf.size \in Nat /\ conf.packets \subseteq Seq(D)
    BY <1>1 DEF Settled
  <2>2. \/ coming \in [1..conf.size -> {<<m>> : m \in D}]
        \/ coming \in {<<p>> : p \in conf.packets}
    BY DEF Init
  <2> HIDE DEF D
  <2>3. \A m \in D : <<m>> \in Seq(D)
    OBVIOUS
  <2>4. coming \in Seq(Seq(D))
    <3>1. CASE coming \in [1..conf.size -> {<<m>> : m \in D}]
      <4>1. coming \in [1..conf.size -> Seq(D)]
        BY <2>3, <3>1
      <4> QED  BY <2>1, <4>1
    <3>2. CASE coming \in {<<p>> : p \in conf.packets}
      <4>1. PICK p \in Seq(D) : coming = <<p>>
        BY <2>1, <3>2
      <4> QED  BY <4>1
    <3> QED  BY <2>2, <3>1, <3>2
  <2>5. <<>> \in Seq(Seq(D)) /\ Len(<<>>) = 0
    OBVIOUS
  <2> QED  BY <2>0, <2>4, <2>5 DEF MailIn, Packets, D
<1>3. FileAsked
  <2>1. /\ file = conf.areas /\ mine = {} /\ muddled = {} /\ asked = AskedBefore(file)
        /\ Lines(file)
    BY <1>1 DEF Init, Settled
  <2>2. ASSUME NEW i \in DOMAIN file PROVE Right(file[i].name, file[i].state, Sure, <<>>)
    <3> DEFINE l == file[i]
               k == CHOOSE x \in ToSet(file) : x.name = l.name
    <3>1. l \in ToSet(file)
      BY DEF ToSet
    <3>2. k = l
      <4>1. k \in ToSet(file) /\ k.name = l.name
        BY <3>1
      <4> HIDE DEF k
      <4>2. PICK j \in DOMAIN file : k = file[j]
        BY <4>1 DEF ToSet
      <4> QED  BY <2>1, <4>1, <4>2 DEF Lines, DistinctNames
    <3>3. /\ l.name \in DOMAIN asked
          /\ asked[l.name] = IF IsState(ReadArea(k), {"U", "P"}) THEN "-" ELSE "+"
      BY <2>1, <3>1 DEF AskedBefore
    <3> HIDE DEF k
    <3>4. asked[l.name] = IF l.state \cap {"U", "P"} # {} THEN "-" ELSE "+"
      BY <3>2, <3>3, WrittenRead DEF IsState
    <3>5. Plain(l.state)
      BY <2>1 DEF Lines
    <3> HIDE DEF l
    <3>6. Waits(l.state) => asked[l.name] = "+"
      BY <3>4, <3>5 DEF Waits, Plain
    <3>7. GivenUp(l.state) => asked[l.name] = "-"
      BY <3>4 DEF GivenUp
    <3>8. l.name \in DOMAIN Sure /\ Sure[l.name] = asked[l.name]
      BY <2>1, <3>3, OverIs DEF Sure
    <3> QED  BY <3>5, <3>6, <3>7, <3>8 DEF Right, SaidLast, l
  <2> QED  BY <2>1, <2>2 DEF FileAsked
<1> QED  BY <1>1, <1>2, <1>3 DEF FixInv, Working, Init

\* A session begins with the areas of the file.
LEMMA StartFix ==
  ASSUME FixInv, Start
  PROVE  FixInv'
<1>0. /\ pc = "idle" /\ inbound # <<>> /\ pc' = "packet" /\ queue' = inbound /\ pos' = 1
      /\ mem' = Session(conf, Areas(file), told)
      /\ UNCHANGED <<conf, coming, inbound, file, asked, mine, muddled>>
  BY DEF Start
<1>1. MailIn'
  <2>1. MailIn
    BY DEF FixInv
  <2> QED  BY <1>0, <2>1 DEF MailIn, Packets
<1>2. FileAsked'
  BY <1>0 DEF FixInv, FileAsked, Sure, Over
<1>3. Working'
  <2> DEFINE t == Session(conf, Areas(file), told)
  <2>1. /\ Parts \subseteq DOMAIN t /\ t.conf = conf /\ t.areas = Areas(file)
        /\ t.reqs = <<>> /\ t.changed = FALSE
    BY DEF Session, Parts
  <2> HIDE DEF t
  <2>2. Lines(file) /\ mine = {}
    BY <1>0 DEF FixInv, FileAsked
  <2>3. /\ AreaList(t.areas) /\ DOMAIN t.areas = DOMAIN file
        /\ \A i \in DOMAIN file : /\ t.areas[i].name = file[i].name
                                  /\ t.areas[i].state = file[i].state
    BY <2>1, <2>2, AreasAre
  <2>4. \A i \in DOMAIN t.areas : Right(t.areas[i].name, t.areas[i].state, Sure, t.reqs)
    BY <2>1, <2>2, <2>3 DEF FixInv, FileAsked
  <2>5. t.reqs \in Seq(ToSet(t.reqs))
    BY <2>1
  <2>6. Ok(t, conf, Sure, Areas(file), {})
    BY <2>1, <2>3, <2>4, <2>5 DEF Ok, Still
  <2>7. Areas(file)' = Areas(file) /\ Sure' = Sure
    BY <1>0 DEF Areas, Sure, Over
  <2> QED  BY <1>0, <2>1, <2>6, <2>7 DEF Working, t
<1> QED  BY <1>0, <1>1, <1>2, <1>3 DEF FixInv

LEMMA DoMessageFix ==
  ASSUME \A c \in ToSet(Setups) : Settled(c), FixInv, DoMessage
  PROVE  FixInv'
<1>0. /\ pc = "packet" /\ queue # <<>> /\ pos <= Len(queue[1]) /\ pc' = "send"
      /\ mem' = Do(mem, Message)
      /\ UNCHANGED <<conf, coming, inbound, file, queue, pos, asked, mine, muddled>>
  BY DEF DoMessage
<1>1. MailIn'
  <2>1. MailIn
    BY DEF FixInv
  <2> QED  BY <1>0, <2>1 DEF MailIn, Packets
<1>2. FileAsked'
  BY <1>0 DEF FixInv, FileAsked, Sure, Over
<1>3. Working'
  <2>1. queue \in Seq(Seq(DOMAIN conf.msg)) /\ pos \in Nat \ {0}
    BY <1>0 DEF FixInv, MailIn, Packets
  <2>2. queue[1] \in Seq(DOMAIN conf.msg)
    BY <1>0, <2>1
  <2>3. queue[1][pos] \in DOMAIN conf.msg
    BY <1>0, <2>1, <2>2
  <2>4. Ok(mem, conf, Sure, Areas(file), {}) /\ Settled(conf)
    BY <1>0 DEF FixInv, Working
  <2>5. Ok(mem', conf, Sure, Areas(file), {})
    BY <1>0, <2>3, <2>4, DoOk DEF Message
  <2>6. Areas(file)' = Areas(file) /\ Sure' = Sure
    BY <1>0 DEF Areas, Sure, Over
  <2> QED  BY <1>0, <2>5, <2>6 DEF Working
<1> QED  BY <1>0, <1>1, <1>2, <1>3 DEF FixInv

\* Requests for an area that are not in each other's way go out in one message,
\* and the last one is the last to be read.
LEMMA ClearSent ==
  ASSUME NEW reqs, reqs \in Seq(ToSet(reqs)), NEW name, name \in Requested(reqs),
         ~Muddled(reqs, name)
  PROVE  \E k \in Sent(reqs) :
           /\ LastSent(reqs, name) = reqs[k] /\ reqs[k].area = name
           /\ \A j \in DOMAIN reqs : reqs[j].area = name => j <= k
<1> DEFINE n == Len(reqs)
           T == {i \in DOMAIN reqs : reqs[i].area = name}
<1>1. n \in Nat /\ DOMAIN reqs = 1..n
  OBVIOUS
<1> HIDE DEF n
<1>2. \A i \in DOMAIN reqs : /\ First(reqs, i) \in DOMAIN reqs /\ First(reqs, i) <= i
                             /\ reqs[First(reqs, i)].to = reqs[i].to
                             /\ \A j \in DOMAIN reqs : reqs[j].to = reqs[i].to
                                                        => First(reqs, i) <= j
  <2> SUFFICES ASSUME NEW i \in 1..n
               PROVE  /\ First(reqs, i) \in DOMAIN reqs /\ First(reqs, i) <= i
                      /\ reqs[First(reqs, i)].to = reqs[i].to
                      /\ \A j \in DOMAIN reqs : reqs[j].to = reqs[i].to
                                                 => First(reqs, i) <= j
    BY <1>1
  <2> DEFINE S == {j \in DOMAIN reqs : reqs[j].to = reqs[i].to}
  <2>1. S \in SUBSET Nat /\ S # {} /\ i \in S
    BY <1>1
  <2>2. First(reqs, i) = CHOOSE x \in S : \A y \in S : x =< y
    BY DEF First, Min
  <2>3. \E x \in S : \A y \in S : x =< y
    <3> HIDE DEF S
    <3> QED  BY <2>1, LeastOf
  <2>4. First(reqs, i) \in S /\ \A y \in S : First(reqs, i) <= y
    <3> HIDE DEF S
    <3> QED  BY <2>2, <2>3
  <2> QED  BY <2>1, <2>4
<1>3. \A i \in T, j \in DOMAIN reqs :
        reqs[j].to # reqs[i].to =>
          reqs[j].area # name /\ (j < i => ~PartOf(reqs[i].to, reqs[j].to))
  BY DEF Muddled
<1>4. T \subseteq Sent(reqs)
  <2> SUFFICES ASSUME NEW i \in T, NEW j \in 1..(First(reqs, i) - 1)
               PROVE  ~PartOf(reqs[i].to, reqs[j].to)
    BY DEF Sent
  <2>1. j \in DOMAIN reqs /\ j < First(reqs, i) /\ j < i /\ ~(First(reqs, i) <= j)
    BY <1>1, <1>2
  <2>2. reqs[j].to # reqs[i].to
    BY <1>2, <2>1
  <2> QED  BY <1>3, <2>1, <2>2
<1>5. \A i, j \in T : First(reqs, i) = First(reqs, j)
  <2> SUFFICES ASSUME NEW i \in T, NEW j \in T PROVE First(reqs, i) = First(reqs, j)
    OBVIOUS
  <2>1. reqs[i].to = reqs[j].to
    BY <1>3
  <2> QED  BY <2>1 DEF First
<1>6. PICK k \in T : \A j \in T : j <= k
  <2> DEFINE B == {x \in Nat : \A j \in T : j <= x}
  <2>1. B \in SUBSET Nat /\ n \in B
    BY <1>1
  <2>2. PICK d \in B : \A e \in B : d =< e
    <3> HIDE DEF B
    <3> QED  BY <2>1, LeastOf
  <2>3. d \in T
    <3> SUFFICES ASSUME d \notin T PROVE FALSE
      OBVIOUS
    <3>1. PICK t \in T : TRUE
      BY DEF Requested
    <3>2. d \in Nat /\ t <= d /\ t \in 1..n
      BY <1>1, <2>2
    <3>3. d - 1 \in Nat
      BY <3>2
    <3>4. \A j \in T : j <= d - 1
      BY <1>1, <2>2, <3>2
    <3>5. d - 1 \in B
      BY <3>3, <3>4
    <3> QED  BY <2>2, <3>2, <3>5
  <2> QED  BY <2>2, <2>3
<1> DEFINE Latest(i) == /\ reqs[i].area = name
                        /\ \A j \in Sent(reqs) : reqs[j].area = name =>
                             \/ First(reqs, j) < First(reqs, i)
                             \/ First(reqs, j) = First(reqs, i) /\ j <= i
           m == CHOOSE i \in Sent(reqs) : Latest(i)
<1>7. Latest(k) /\ k \in Sent(reqs)
  BY <1>4, <1>5, <1>6 DEF Sent
<1>8. m \in Sent(reqs) /\ Latest(m)
  <2> HIDE DEF Latest
  <2> QED  BY <1>7
<1>9. LastSent(reqs, name) = reqs[m]
  BY DEF LastSent
<1> HIDE DEF m
<1>10. m \in T /\ k \in T /\ m \in 1..n /\ k \in 1..n
  BY <1>1, <1>6, <1>8 DEF Sent
<1>11. m = k
  <2>1. First(reqs, k) = First(reqs, m) /\ First(reqs, m) \in 1..n
    BY <1>1, <1>2, <1>5, <1>10
  <2>2. k <= m
    BY <1>7, <1>8, <1>10, <2>1
  <2>3. m <= k
    BY <1>6, <1>10
  <2> QED  BY <1>10, <2>2, <2>3
<1> QED  BY <1>6, <1>7, <1>9, <1>11

\* What was asked, with the requests that are sent now.
LEMMA SentSaid ==
  ASSUME NEW reqs, reqs \in Seq(ToSet(reqs)), NEW lost, NEW a, NEW b, NEW mud,
         NEW g, g = [name \in {reqs[i].area : i \in Sent(reqs)} |->
                       IF \E i \in Sent(reqs) :
                            reqs[i].area = name /\ reqs[i].to \in lost
                         THEN "?" ELSE LastSent(reqs, name).sign],
         NEW new, new = (mud \ Requested(reqs))
                        \cup {name \in Requested(reqs) : Muddled(reqs, name)},
         NEW name, NEW sign,
         SaidLast(Over([x \in mud |-> "?"], a), reqs, name, sign)
  PROVE  SaidLast(Over([x \in new |-> "?"], Over(g, a)), <<>>, name, sign)
<1> DEFINE c == Over(g, a)
           d == Over([x \in new |-> "?"], c)
<1>1. name \in new => SaidLast(d, <<>>, name, sign)
  <2> SUFFICES ASSUME name \in new PROVE SaidLast(d, <<>>, name, sign)
    OBVIOUS
  <2> HIDE DEF c
  <2>1. name \in DOMAIN d /\ d[name] = "?"
    BY OverIs
  <2> QED  BY <2>1 DEF SaidLast
<1>2. name \notin new /\ name \in DOMAIN c /\ c[name] \in {sign, "?"}
        => SaidLast(d, <<>>, name, sign)
  <2> SUFFICES ASSUME name \notin new, name \in DOMAIN c, c[name] \in {sign, "?"}
               PROVE  SaidLast(d, <<>>, name, sign)
    OBVIOUS
  <2> HIDE DEF c
  <2>1. name \in DOMAIN d /\ d[name] = c[name]
    BY OverIs
  <2> QED  BY <2>1 DEF SaidLast
<1> HIDE DEF d
<1>3. CASE name \in Requested(reqs) /\ name \notin new
  <2>1. ~Muddled(reqs, name)
    BY <1>3
  <2>2. PICK k \in Sent(reqs) : /\ LastSent(reqs, name) = reqs[k] /\ reqs[k].area = name
                                /\ \A j \in DOMAIN reqs : reqs[j].area = name => j <= k
    BY <1>3, <2>1, ClearSent
  <2>3. PICK i \in DOMAIN reqs : /\ reqs[i].area = name /\ reqs[i].sign = sign
                                 /\ \A j \in DOMAIN reqs : reqs[j].area = name => j <= i
    BY <1>3 DEF SaidLast, Requested
  <2>4. i = k
    <3>1. k \in DOMAIN reqs /\ k \in Nat /\ i \in Nat
      BY DEF Sent
    <3> QED  BY <2>2, <2>3, <3>1
  <2>5. name \in DOMAIN g /\ g[name] \in {sign, "?"}
    BY <2>2, <2>3, <2>4
  <2>6. name \in DOMAIN c /\ c[name] = g[name]
    BY <2>5, OverIs
  <2> QED  BY <1>2, <1>3, <2>5, <2>6 DEF c, d
<1>4. CASE name \notin Requested(reqs) /\ name \notin new
  <2>1. name \notin mud /\ name \notin DOMAIN g
    BY <1>4 DEF Requested, Sent
  <2> DEFINE o == Over([x \in mud |-> "?"], a)
  <2>2. name \in DOMAIN o /\ o[name] \in {sign, "?"}
    <3> HIDE DEF o
    <3> QED  BY <1>4 DEF SaidLast, Requested, o
  <2>3. name \in DOMAIN a /\ o[name] = a[name]
    BY <2>1, <2>2 DEF Over
  <2>4. name \in DOMAIN c /\ c[name] = a[name]
    BY <2>1, <2>3, OverIs
  <2> QED  BY <1>2, <1>4, <2>2, <2>3, <2>4 DEF c, d
<1> QED  BY <1>1, <1>3, <1>4 DEF c, d

LEMMA SendFix ==
  ASSUME FixInv, Send
  PROVE  FixInv'
<1> DEFINE reqs == mem.reqs
<1>0. /\ pc = "send" /\ pc' = "reply" /\ mem' = [mem EXCEPT !.reqs = <<>>]
      /\ mine' = mine \cup Requested(reqs)
      /\ muddled' = (muddled \ Requested(reqs))
                    \cup {name \in Requested(reqs) : Muddled(reqs, name)}
      /\ UNCHANGED <<conf, coming, inbound, file, queue, pos>>
  BY DEF Send
<1>1. Ok(mem, conf, Sure, Areas(file), {})
  BY <1>0 DEF FixInv, Working
<1>2. reqs \in Seq(ToSet(reqs))
  BY <1>1 DEF Ok
<1> HIDE DEF reqs
<1>3. PICK lost : asked' = Over([name \in {reqs[i].area : i \in Sent(reqs)} |->
                              IF \E i \in Sent(reqs) :
                                   reqs[i].area = name /\ reqs[i].to \in lost
                                THEN "?" ELSE LastSent(reqs, name).sign], asked)
  BY DEF Send, reqs
<1>4. \A name, sign : SaidLast(Sure, reqs, name, sign) => SaidLast(Sure', <<>>, name, sign)
  <2> SUFFICES ASSUME NEW name, NEW sign, SaidLast(Sure, reqs, name, sign)
               PROVE  SaidLast(Sure', <<>>, name, sign)
    OBVIOUS
  <2> DEFINE g == [n \in {reqs[i].area : i \in Sent(reqs)} |->
                     IF \E i \in Sent(reqs) : reqs[i].area = n /\ reqs[i].to \in lost
                       THEN "?" ELSE LastSent(reqs, n).sign]
             new == (muddled \ Requested(reqs))
                    \cup {n \in Requested(reqs) : Muddled(reqs, n)}
  <2>1. SaidLast(Over([x \in muddled |-> "?"], asked), reqs, name, sign)
    BY DEF Sure
  <2>2. SaidLast(Over([x \in new |-> "?"], Over(g, asked)), <<>>, name, sign)
    BY <1>2, <2>1, SentSaid
  <2>3. asked' = Over(g, asked) /\ muddled' = new
    BY <1>0, <1>3
  <2> HIDE DEF g, new
  <2>4. Sure' = Over([x \in new |-> "?"], Over(g, asked))
    BY <2>3 DEF Sure, Over
  <2> QED  BY <2>2, <2>4
<1>5. MailIn'
  <2>1. MailIn
    BY DEF FixInv
  <2> QED  BY <1>0, <2>1 DEF MailIn, Packets
<1>6. FileAsked'
  <2>0. FileAsked
    BY DEF FixInv
  <2>1. ASSUME NEW i \in DOMAIN file, file[i].name \notin mine'
        PROVE  Right(file[i].name, file[i].state, Sure', <<>>)
    <3> DEFINE name == file[i].name
    <3>1. name \notin mine /\ name \notin Requested(reqs)
      BY <1>0, <2>1
    <3>2. Right(name, file[i].state, Sure, <<>>)
      BY <2>0, <3>1 DEF FileAsked
    <3> HIDE DEF name
    <3>3. \A sign : SaidLast(Sure, <<>>, name, sign) => SaidLast(Sure, reqs, name, sign)
      BY <3>1 DEF SaidLast, Requested
    <3>4. \A sign : SaidLast(Sure, <<>>, name, sign) => SaidLast(Sure', <<>>, name, sign)
      BY <1>4, <3>3
    <3> QED  BY <3>2, <3>4 DEF Right, name
  <2> QED  BY <1>0, <2>0, <2>1 DEF FileAsked
<1>7. Working'
  <2> DEFINE t == [mem EXCEPT !.reqs = <<>>]
  <2>1. /\ Parts \subseteq DOMAIN t /\ t.conf = conf /\ t.areas = mem.areas
        /\ t.reqs = <<>> /\ t.changed = mem.changed
    BY <1>1 DEF Ok, Parts
  <2> HIDE DEF t
  <2>2. ASSUME NEW i \in DOMAIN t.areas
        PROVE  Right(t.areas[i].name, t.areas[i].state, Sure', t.reqs)
    <3>1. Right(t.areas[i].name, t.areas[i].state, Sure, reqs)
      BY <1>1, <2>1 DEF Ok, reqs
    <3> QED  BY <1>4, <2>1, <3>1 DEF Right
  <2>3. t.reqs \in Seq(ToSet(t.reqs))
    BY <2>1
  <2>4. Ok(t, conf, Sure', Areas(file), {})
    BY <1>1, <2>1, <2>2, <2>3 DEF Ok
  <2>5. Areas(file)' = Areas(file)
    BY <1>0 DEF Areas
  <2> QED  BY <1>0, <2>1, <2>4, <2>5 DEF Working, t
<1> QED  BY <1>0, <1>5, <1>6, <1>7 DEF FixInv

\* What is asked for does not change: mem changes in nothing that counts.
LEMMA RestFix ==
  ASSUME FixInv, MailIn', UNCHANGED <<conf, file, asked, mine, muddled>>,
         \/ UNCHANGED <<pc, mem>>
         \/ pc = "reply" /\ pc' = "packet" /\ mem' = [mem EXCEPT !.out = <<>>, !.rules = {}]
  PROVE  FixInv'
<1>2. Areas(file)' = Areas(file) /\ Sure' = Sure
  BY DEF Areas, Sure, Over
<1>1. FileAsked'
  <2>1. pc = "idle" <=> pc' = "idle"
    OBVIOUS
  <2> QED  BY <1>2, <2>1 DEF FixInv, FileAsked
<1>3. Working'
  <2>1. CASE UNCHANGED <<pc, mem>>
    BY <1>2, <2>1 DEF FixInv, Working
  <2>2. CASE pc = "reply" /\ pc' = "packet" /\ mem' = [mem EXCEPT !.out = <<>>, !.rules = {}]
    <3>1. Ok(mem, conf, Sure, Areas(file), {}) /\ mem.reqs = <<>>
      BY <2>2 DEF FixInv, Working
    <3>2. Same(mem, mem')
      BY <2>2, <3>1 DEF Same, Ok, Parts
    <3>3. Ok(mem', conf, Sure, Areas(file), {}) /\ mem'.reqs = <<>>
      BY <3>1, <3>2, SameOk DEF Same
    <3> QED  BY <1>2, <2>2, <3>3 DEF Working
  <2> QED  BY <2>1, <2>2
<1> QED  BY <1>1, <1>3 DEF FixInv

\* A packet that comes, is done, or is put away.
LEMMA TailIn ==
  ASSUME NEW S, NEW q \in Seq(S), q # <<>>
  PROVE  Tail(q) \in Seq(S) /\ Len(Tail(q)) = Len(q) - 1 /\ Len(q) \in Nat \ {0}
OBVIOUS

LEMMA PacketsFix ==
  ASSUME FixInv, Arrive \/ Reply \/ EndPacket \/ ReadFails \/ ReplyFails
  PROVE  FixInv'
<1> DEFINE P == Seq(DOMAIN conf.msg)
<1>0. MailIn /\ conf' = conf
  BY DEF FixInv, Arrive, Reply, EndPacket, ReadFails, ReplyFails
<1>1. /\ coming \in Seq(P) /\ inbound \in Seq(P) /\ queue \in Seq(P)
      /\ Len(queue) <= Len(inbound)
  BY <1>0 DEF MailIn, Packets
<1> HIDE DEF P
<1>2. CASE Arrive
  <2>1. /\ coming # <<>> /\ coming' = Tail(coming) /\ inbound' = Append(inbound, Head(coming))
        /\ UNCHANGED <<queue, pos, pc, mem, file, asked, mine, muddled>>
    BY <1>2 DEF Arrive
  <2>2. coming' \in Seq(P)
    BY <1>1, <2>1
  <2>3. Head(coming) \in P
    BY <1>1, <2>1
  <2>4. inbound' \in Seq(P) /\ Len(inbound') = Len(inbound) + 1
    BY <1>1, <2>1, <2>3
  <2>5. Len(queue) <= Len(inbound')
    BY <1>1, <2>4
  <2>6. MailIn'
    BY <1>0, <1>1, <2>1, <2>2, <2>4, <2>5 DEF MailIn, Packets, P
  <2> QED  BY <1>0, <2>1, <2>6, RestFix
<1>3. CASE Reply
  <2>1. /\ pc = "reply" /\ pc' = "packet" /\ mem' = [mem EXCEPT !.out = <<>>, !.rules = {}]
        /\ pos' = pos + 1 /\ UNCHANGED <<coming, inbound, queue, file, asked, mine, muddled>>
    BY <1>3 DEF Reply
  <2>2. pos' \in Nat \ {0}
    BY <1>0, <2>1 DEF MailIn
  <2>3. MailIn'
    BY <1>0, <1>1, <2>1, <2>2 DEF MailIn, Packets, P
  <2> QED  BY <1>0, <2>1, <2>3, RestFix
<1>4. CASE EndPacket \/ ReadFails \/ ReplyFails
  <2>1. /\ \/ UNCHANGED <<pc, mem>>
           \/ /\ pc = "reply" /\ pc' = "packet"
              /\ mem' = [mem EXCEPT !.out = <<>>, !.rules = {}]
        /\ pc' = "packet"
        /\ inbound' = Tail(inbound) /\ queue' = Tail(queue) /\ pos' = 1
        /\ UNCHANGED <<coming, file, asked, mine, muddled>>
    BY <1>4 DEF EndPacket, ReadFails, ReplyFails
  <2>2. queue # <<>>
    BY <1>0, <1>4 DEF EndPacket, ReadFails, ReplyFails, MailIn
  <2>3. inbound # <<>>
    BY <1>1, <2>2
  <2>4. /\ Tail(queue) \in Seq(P) /\ Tail(inbound) \in Seq(P)
        /\ Len(Tail(queue)) <= Len(Tail(inbound))
    BY <1>1, <2>2, <2>3, TailIn
  <2>5. MailIn'
    BY <1>0, <1>1, <2>1, <2>4 DEF MailIn, Packets, P
  <2> QED  BY <1>0, <2>1, <2>5, RestFix
<1> QED  BY <1>2, <1>3, <1>4

\* A run that fails: what it has asked for is not known.
LEMMA VoidFix ==
  ASSUME FixInv, UnlinkFails \/ Signal \/ Kill \/ SaveFails
  PROVE  FixInv'
<1> DEFINE g == [name \in mine |-> "?"]
<1>1. /\ asked' = Over(g, asked) /\ mine' = {} /\ queue' = <<>> /\ pc' = "idle"
      /\ UNCHANGED <<conf, coming, file, muddled>>
  BY DEF UnlinkFails, Signal, Kill, SaveFails, Void
<1>0. MailIn /\ FileAsked
  BY DEF FixInv
<1>2. MailIn'
  <2> DEFINE P == Seq(DOMAIN conf.msg)
  <2>1. /\ coming \in Seq(P) /\ inbound \in Seq(P) /\ queue \in Seq(P)
        /\ Len(queue) <= Len(inbound)
    BY <1>0 DEF MailIn, Packets
  <2> HIDE DEF P
  <2>2. inbound' = inbound \/ (inbound' = Tail(inbound) /\ queue # <<>>)
    BY <1>0 DEF UnlinkFails, Signal, Kill, SaveFails, MailIn
  <2>3. inbound' \in Seq(P)
    <3>1. queue # <<>> => inbound # <<>>
      BY <2>1
    <3> QED  BY <2>1, <2>2, <3>1, TailIn
  <2>4. <<>> \in Seq(P) /\ Len(<<>>) = 0 /\ Len(inbound') \in Nat
    BY <2>3
  <2> QED  BY <1>1, <2>1, <2>3, <2>4 DEF MailIn, Packets, P
<1>3. FileAsked'
  <2>1. ASSUME NEW i \in DOMAIN file
        PROVE  Right(file[i].name, file[i].state, Sure', <<>>)
    <3> DEFINE name == file[i].name
    <3>1. Plain(file[i].state)
      BY <1>0 DEF FileAsked, Lines
    <3>2. CASE name \in mine
      <4> HIDE DEF name
      <4>1. name \in DOMAIN Over(g, asked) /\ Over(g, asked)[name] = "?"
        BY <3>2, OverIs
      <4>2. \A sign : SaidLast(Sure', <<>>, name, sign)
        <5>1. name \in DOMAIN Sure' /\ Sure'[name] = "?"
          BY <1>1, <4>1 DEF Sure, Over
        <5> QED  BY <5>1 DEF SaidLast
      <4> QED  BY <3>1, <4>2 DEF Right, name
    <3>3. CASE name \notin mine
      <4>1. Right(name, file[i].state, Sure, <<>>)
        BY <1>0, <3>3 DEF FileAsked
      <4> HIDE DEF name
      <4>2. \A sign : SaidLast(Sure, <<>>, name, sign) => SaidLast(Sure', <<>>, name, sign)
        <5>1. name \in DOMAIN Sure => name \in DOMAIN Sure' /\ Sure'[name] = Sure[name]
          BY <1>1, <3>3 DEF Sure, Over
        <5> QED  BY <5>1 DEF SaidLast
      <4> QED  BY <4>1, <4>2 DEF Right, name
    <3> QED  BY <3>2, <3>3
  <2> QED  BY <1>0, <1>1, <2>1 DEF FileAsked
<1> QED  BY <1>1, <1>2, <1>3 DEF FixInv, Working

\* The file is written as the areas are, if anything has changed.
LEMMA SaveFix ==
  ASSUME FixInv, Save
  PROVE  FixInv'
<1>0. /\ pc = "packet" /\ queue = <<>> /\ mine' = {} /\ pc' = "idle"
      /\ UNCHANGED <<conf, coming, inbound, queue, asked, muddled>>
      /\ file' = IF mem.changed THEN [i \in DOMAIN mem.areas |-> WriteArea(mem.areas[i])]
                                ELSE file
  BY DEF Save
<1>1. MailIn'
  <2>1. MailIn
    BY DEF FixInv
  <2> QED  BY <1>0, <2>1 DEF MailIn, Packets
<1>2. Ok(mem, conf, Sure, Areas(file), {}) /\ mem.reqs = <<>> /\ Lines(file)
  BY <1>0 DEF FixInv, Working, FileAsked
<1>3. \A i \in DOMAIN mem.areas : Right(mem.areas[i].name, mem.areas[i].state, Sure, <<>>)
  BY <1>2 DEF Ok
<1>4. FileAsked'
  <2>0. Sure' = Sure
    BY <1>0 DEF Sure, Over
  <2>1. CASE mem.changed
    <3> DEFINE q == [i \in DOMAIN mem.areas |-> WriteArea(mem.areas[i])]
               n == Len(mem.areas)
    <3>1. n \in Nat /\ DOMAIN mem.areas = 1..n
      BY <1>2 DEF Ok, AreaList
    <3> HIDE DEF n
    <3>2. /\ q = [i \in 1..n |-> q[i]] /\ DOMAIN q = 1..n
          /\ \A i \in 1..n : /\ q[i].name = mem.areas[i].name
                             /\ q[i].state = mem.areas[i].state /\ q[i] \in ToSet(q)
      BY <3>1, WrittenRead DEF ToSet
    <3>3. file' = q
      BY <1>0, <2>1
    <3> HIDE DEF q
    <3>4. q \in Seq(ToSet(q))
      BY <3>1, <3>2
    <3>5. DistinctNames(q)
      BY <1>2, <3>1, <3>2 DEF Ok, AreaList, DistinctNames
    <3>6. \A i \in DOMAIN q : Right(q[i].name, q[i].state, Sure, <<>>)
      BY <1>3, <3>1, <3>2
    <3>7. \A i \in DOMAIN q : Plain(q[i].state)
      BY <3>6 DEF Right
    <3> QED  BY <1>0, <2>0, <3>3, <3>4, <3>5, <3>6, <3>7 DEF FileAsked, Lines
  <2>2. CASE ~mem.changed
    <3>1. file' = file /\ Still(mem.areas, Areas(file))
      BY <1>0, <1>2, <2>2 DEF Ok
    <3>2. \A i \in DOMAIN file : /\ i \in DOMAIN mem.areas
                                 /\ mem.areas[i].name = file[i].name
                                 /\ mem.areas[i].state = file[i].state
      BY <1>2, <3>1, AreasAre DEF Still
    <3>3. \A i \in DOMAIN file : Right(file[i].name, file[i].state, Sure, <<>>)
      BY <1>3, <3>2
    <3> QED  BY <1>0, <1>2, <2>0, <3>1, <3>3 DEF FileAsked
  <2> QED  BY <2>1, <2>2
<1> QED  BY <1>0, <1>1, <1>4 DEF FixInv, Working

LEMMA FixAsked ==
  ASSUME FixInv
  PROVE  AskedTrue
<1> SUFFICES ASSUME pc = "idle", NEW p \in ToSet(Now), p.name \notin muddled
             PROVE  AskedFor(p)
  BY DEF AskedTrue
<1>1. Lines(file) /\ mine = {}
  BY DEF FixInv, FileAsked
<1>2. PICK i \in DOMAIN file : p = Areas(file)[i]
  BY <1>1, AreasAre DEF ToSet, Now
<1>3. p.name = file[i].name /\ p.state = file[i].state
  BY <1>1, <1>2, AreasAre
<1>4. Right(p.name, p.state, Sure, <<>>)
  BY <1>1, <1>3 DEF FixInv, FileAsked
<1>5. \A sign : SaidLast(Sure, <<>>, p.name, sign)
                => p.name \in DOMAIN asked /\ asked[p.name] \in {sign, "?"}
  <2>1. p.name \in DOMAIN Sure
          => p.name \in DOMAIN asked /\ Sure[p.name] = asked[p.name]
    BY DEF Sure, Over
  <2> QED  BY <2>1 DEF SaidLast
<1>6. Waits(p.state) => p.name \in DOMAIN asked /\ asked[p.name] \in {"+", "?"}
  BY <1>4, <1>5 DEF Right
<1>7. GivenUp(p.state) => p.name \in DOMAIN asked /\ asked[p.name] \in {"-", "?"}
  BY <1>4, <1>5 DEF Right
<1>8. IsState(p, {"W", "F"}) /\ ~IsState(p, {"U"}) => Waits(p.state)
  BY DEF IsState, Waits
<1>9. p.state # {} /\ p.state \subseteq {"U", "P"} => GivenUp(p.state)
  BY DEF GivenUp
<1> QED  BY <1>6, <1>7, <1>8, <1>9 DEF AskedFor

\* Whatever configuration, messages and packets: the area of areas.bbs that waits
\* for messages has been requested at its uplink, and the one that is given up
\* cancelled, as far as the requests could be written and did not get into each
\* other's way under different texts of an address, or parts of it, in the last
\* message that had some for the area - for areas with one line each, none of
\* which was made in a state of that kind by an option of its link or
\* uplink (areafix/areafix.c, cmd_sub() to cmd_active(); ftnafpkt.c; areasbbs.c).
THEOREM AskedTrueHolds ==
  ASSUME \A c \in ToSet(Setups) : Settled(c)
  PROVE  Spec => []AskedTrue
<1>1. Init => FixInv
  BY InitFix
<1>2. FixInv /\ [Next]_vars => FixInv'
  <2> SUFFICES ASSUME FixInv, [Next]_vars PROVE FixInv'
    OBVIOUS
  <2>1. CASE UNCHANGED vars
    <3>1. MailIn'
      <4>1. MailIn
        BY DEF FixInv
      <4> QED  BY <2>1, <4>1 DEF vars, MailIn, Packets
    <3> QED  BY <2>1, <3>1, RestFix DEF vars
  <2>2. CASE Start
    BY <2>2, StartFix
  <2>3. CASE DoMessage
    BY <2>3, DoMessageFix
  <2>4. CASE Send
    BY <2>4, SendFix
  <2>5. CASE Arrive \/ Reply \/ EndPacket \/ ReadFails \/ ReplyFails
    BY <2>5, PacketsFix
  <2>6. CASE UnlinkFails \/ Signal \/ Kill \/ SaveFails
    BY <2>6, VoidFix
  <2>7. CASE Save
    BY <2>7, SaveFix
  <2> QED  BY <2>1, <2>2, <2>3, <2>4, <2>5, <2>6, <2>7 DEF Next
<1>3. FixInv => AskedTrue
  BY FixAsked
<1> QED  BY <1>1, <1>2, <1>3, PTL DEF Spec
=============================================================================
