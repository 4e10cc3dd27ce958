---------------------------- MODULE Gate_proofs ----------------------------
(***************************************************************************)
(* For any messages and articles, options, failing calls and kills: what   *)
(* the gateways are given they gate, refuse or keep.  ftn2rfc removes no   *)
(* packet with a message that is nowhere else, and rfc2ftn no list of      *)
(* articles, wherever it goes on after a kill.                             *)
(***************************************************************************)
EXTENDS Gate, FiniteSetTheorems, SequenceTheorems, WellFoundedInduction, TLAPS

-----------------------------------------------------------------------------
\* Lists.

LEMMA SetToSeqIsList ==
  ASSUME NEW S, IsFiniteSet(S)
  PROVE  SetToSeq(S) \in Seq(S)
<1>1. Cardinality(S) \in Nat /\ ExistsBijection(1 .. Cardinality(S), S)
  BY FS_CardinalityType
<1>2. PICK f : f \in Bijection(1 .. Cardinality(S), S)
  BY <1>1 DEF ExistsBijection
<1>3. f \in [1 .. Cardinality(S) -> S] /\ IsInjective(f)
  BY <1>2 DEF Bijection, Injection, IsInjective
<1>4. SetToSeq(S) \in [1 .. Cardinality(S) -> S]
  BY <1>3 DEF SetToSeq
<1> QED  BY <1>1, <1>4

LEMMA ListProperties ==
  ASSUME NEW s, IsList(s)
  PROVE  Len(s) \in Nat /\ DOMAIN s = 1 .. Len(s)
BY DEF IsList

LEMMA HeadAndTail ==
  ASSUME NEW S, NEW s \in Seq(S), s # <<>>
  PROVE  /\ Head(s) \in S /\ Head(s) \in Range(s) /\ Tail(s) \in Seq(S)
         /\ Range(Tail(s)) \subseteq Range(s)
         /\ \A x \in Range(s) : x = Head(s) \/ x \in Range(Tail(s))
<1>1. Len(s) \in Nat \ {0} /\ DOMAIN s = 1 .. Len(s) /\ Head(s) = s[1]
  OBVIOUS
<1>2. Tail(s) \in Seq(S) /\ Len(Tail(s)) = Len(s) - 1
  OBVIOUS
<1>3. DOMAIN Tail(s) = 1 .. Len(s) - 1
  BY <1>2
<1>4. \A i \in 1 .. Len(s) - 1 : Tail(s)[i] = s[i + 1]
  OBVIOUS
<1>5. ASSUME NEW x \in Range(s), x # s[1] PROVE x \in Range(Tail(s))
  <2>1. PICK i \in 1 .. Len(s) : x = s[i]  BY <1>1 DEF Range
  <2>2. i # 1  BY <2>1, <1>5
  <2>3. i - 1 \in 1 .. Len(s) - 1 /\ Tail(s)[i - 1] = s[i]
    BY <2>1, <2>2, <1>1, <1>4
  <2> QED  BY <2>1, <2>3, <1>3 DEF Range
<1>6. ASSUME NEW x \in Range(Tail(s)) PROVE x \in Range(s)
  <2>1. PICK i \in 1 .. Len(s) - 1 : x = Tail(s)[i]  BY <1>3 DEF Range
  <2>2. i + 1 \in 1 .. Len(s) /\ x = s[i + 1]  BY <2>1, <1>1, <1>4
  <2> QED  BY <2>2, <1>1 DEF Range
<1>7. s[1] \in S /\ s[1] \in Range(s)  BY <1>1 DEF Range
<1> QED  BY <1>1, <1>2, <1>5, <1>6, <1>7

-----------------------------------------------------------------------------
\* ftn2rfc and ftninpost.

SpoolFile == [kind : {"mail", "news"}, ext : {"tmp", "rfc", "bad", "gone"},
              items : Seq(Key)]

\* What the steps keep of the packets, the place in them and the files.
InTyped ==
  /\ \A p \in Packet : Len(content[p]) \in Nat
  /\ pkt \in [Packet -> {"away", "in", "bad", "gone"}]
  /\ pc \in {"idle", "next", "read", "mail", "article", "failed", "remove", "bad"}
  /\ queue \in Seq(Packet)
  /\ pc \notin {"idle", "next"} => cur \in Packet /\ at \in Nat \ {0}
  /\ spool \in Seq(SpoolFile)
  /\ handed \in [Key -> Nat]
  /\ outcome = [k \in Key |-> outcome[k]]
  /\ pqueue \in Seq(DOMAIN spool)
  /\ faults \in Nat

\* A file that is written has not been renamed, one that is handed over has;
\* the mail and the news file are different ones.
FilesApart ==
  /\ pc = "mail" => mfile \in DOMAIN spool /\ spool[mfile].kind = "mail"
  /\ nfile # NONE => /\ nfile \in DOMAIN spool
                     /\ spool[nfile].kind = "news" /\ spool[nfile].ext = "tmp"
  /\ \A i \in DOMAIN pqueue : spool[pqueue[i]].ext # "tmp"

\* What is to be unlinked was handed over.
HandedOver ==
  ppc = "unlink" =>
    pqueue # <<>> /\ \A k \in Range(spool[Head(pqueue)].items) : handed[k] > 0

\* NothingLost of one message that was treated.
Treated(k) == outcome[k].what # "unseen"
Settled(k) ==
  CASE outcome[k].what \in {"gated", "bounced"} -> Kept(k)
    [] outcome[k].what = "unbounced" -> faults > 0
    [] outcome[k].what = "swallowed" ->
         \E i \in 1..(k[2] - 1) : Unread(<<k[1], i>>)
    [] OTHER -> TRUE

AllSettled == \A k \in Key : Treated(k) => Settled(k)

\* Nothing in front of the place in the packet was passed over.
Passed ==
  /\ pc \in {"read", "mail", "article"} =>
       \A k \in Key : k[1] = cur /\ k[2] < at => Treated(k)
  /\ pc = "remove" => \A k \in Key : k[1] = cur => Treated(k)
  /\ \A k \in Key : pkt[k[1]] = "gone" => Treated(k)

InInv == InTyped /\ FilesApart /\ HandedOver /\ AllSettled /\ Passed

LEMMA KeyParts ==
  ASSUME NEW k \in Key
  PROVE  k = <<k[1], k[2]>> /\ k[1] \in Packet /\ k[2] \in 1 .. Len(content[k[1]])
BY DEF Key

LEMMA KeyOf ==
  ASSUME NEW p \in Packet, NEW i \in 1 .. Len(content[p])
  PROVE  <<p, i>> \in Key
BY DEF Key

\* The files keep what they hold, and only what was handed over goes.
SpoolKept ==
  /\ content' = content
  /\ \A k \in Key : handed[k] > 0 => handed'[k] > 0
  /\ \A n \in DOMAIN spool :
       /\ n \in DOMAIN spool'
       /\ Range(spool[n].items) \subseteq Range(spool'[n].items)
       /\ spool'[n].ext = "gone" =>
            \/ spool[n].ext = "gone"
            \/ \A k \in Range(spool[n].items) : handed[k] > 0

LEMMA SettledStays ==
  ASSUME InTyped, SpoolKept, faults' \in {faults, faults + 1},
         NEW k \in Key, outcome'[k] = outcome[k], Settled(k)
  PROVE  Settled(k)'
<1>1. ASSUME Kept(k) PROVE Kept(k)'
  <2>1. PICK n \in DOMAIN spool :
          /\ k \in Range(spool[n].items)
          /\ spool[n].ext = "gone" => handed[k] > 0
    BY <1>1 DEF Kept
  <2>2. /\ n \in DOMAIN spool'
        /\ Range(spool[n].items) \subseteq Range(spool'[n].items)
        /\ spool'[n].ext = "gone" =>
             \/ spool[n].ext = "gone"
             \/ \A l \in Range(spool[n].items) : handed[l] > 0
    BY DEF SpoolKept
  <2>3. handed[k] > 0 => handed'[k] > 0
    BY DEF SpoolKept
  <2> QED  BY <2>1, <2>2, <2>3 DEF Kept
<1>2. faults > 0 => faults' > 0
  BY DEF InTyped
<1>3. \A l : Unread(l) = Unread(l)'
  BY DEF Unread, Body, SpoolKept
<1> QED  BY <1>1, <1>2, <1>3 DEF Settled

\* Steps that treat no message and write no file.
LEMMA QuietSettled ==
  ASSUME InTyped, AllSettled, UNCHANGED <<content, spool, handed, outcome>>,
         faults' \in {faults, faults + 1}
  PROVE  AllSettled'
<1>1. SpoolKept
  BY DEF SpoolKept
<1>2. Key' = Key
  BY DEF Key
<1> QED  BY <1>1, <1>2, SettledStays DEF AllSettled, Treated

\* Steps that write no file and neither begin nor end a packet.
LEMMA QuietKeeps ==
  ASSUME InInv, UNCHANGED inown, faults' \in {faults, faults + 1}
  PROVE  InInv'
<1> USE DEF inown, unpackv, postv
<1>0. Key' = Key  BY DEF Key
<1>1. InTyped'
  BY <1>0 DEF InInv, InTyped, SpoolFile
<1>2. FilesApart' /\ HandedOver'
  BY DEF InInv, FilesApart, HandedOver
<1>3. AllSettled'
  BY QuietSettled DEF InInv
<1>4. Passed'
  BY <1>0 DEF InInv, Passed, Treated
<1> QED  BY <1>1, <1>2, <1>3, <1>4 DEF InInv

LEMMA BeginKeeps == ASSUME InInv, Begin PROVE InInv'
<1> USE DEF unpackv, postv
<1>0. Key' = Key  BY DEF Key, Begin
<1>1. queue' \in Seq(Packet)
  <2> DEFINE in == {p \in Packet : pkt[p] = "in"}
  <2>1. IsFiniteSet(in)  BY PacketAssumption, FS_Subset
  <2>2. SetToSeq(in) \in Seq(in)  BY <2>1, SetToSeqIsList
  <2> QED  BY <2>2 DEF Begin
<1>2. InTyped'
  BY <1>0, <1>1 DEF InInv, InTyped, SpoolFile, Begin
<1>3. FilesApart' /\ HandedOver'
  BY DEF InInv, FilesApart, HandedOver, Begin
<1>4. AllSettled'
  BY QuietSettled DEF InInv, Begin
<1>5. Passed'
  BY <1>0 DEF InInv, Passed, Treated, Begin
<1> QED  BY <1>2, <1>3, <1>4, <1>5 DEF InInv

LEMMA OpenPacketKeeps == ASSUME InInv, OpenPacket PROVE InInv'
<1> USE DEF unpackv, postv
<1>0. Key' = Key  BY DEF Key, OpenPacket
<1>1. Head(queue) \in Packet /\ Tail(queue) \in Seq(Packet)
  BY HeadAndTail DEF InInv, InTyped, OpenPacket
<1>2. faults' \in {faults, faults + 1}
  BY DEF OpenPacket, Fine, Fault
<1>3. InTyped'
  BY <1>0, <1>1, <1>2 DEF InInv, InTyped, SpoolFile, OpenPacket
<1>4. FilesApart' /\ HandedOver'
  BY DEF InInv, FilesApart, HandedOver, OpenPacket
<1>5. AllSettled'
  BY <1>2, QuietSettled DEF InInv, OpenPacket
<1>6. Passed'
  <2>1. \A k \in Key : k[1] \in Packet /\ k[2] \in Nat \ {0}
    <3>1. SUFFICES ASSUME NEW k \in Key PROVE k[1] \in Packet /\ k[2] \in Nat \ {0}
      OBVIOUS
    <3>2. k[1] \in Packet /\ k[2] \in 1 .. Len(content[k[1]])
      BY KeyParts
    <3> QED  BY <3>2 DEF InInv, InTyped
  <2>2. pc' = "read" => at' = 1
    BY DEF OpenPacket
  <2>3. \A p \in Packet : pkt'[p] = "gone" => pkt[p] = "gone"
    BY <1>1 DEF InInv, InTyped, OpenPacket
  <2>4. pc' \in {"read", "next"} /\ outcome' = outcome
    BY DEF OpenPacket
  <2> QED  BY <1>0, <2>1, <2>2, <2>3, <2>4 DEF InInv, Passed, Treated
<1> QED  BY <1>3, <1>4, <1>5, <1>6 DEF InInv

LEMMA EndKeeps == ASSUME InInv, End \/ InKill PROVE InInv'
<1> USE DEF unpackv, postv, End, InKill
<1>0. Key' = Key  BY DEF Key
<1>1. faults' \in {faults, faults + 1}
  BY DEF Fault
<1>2. InTyped'
  BY <1>0, <1>1 DEF InInv, InTyped, SpoolFile
<1>3. FilesApart' /\ HandedOver'
  BY DEF InInv, FilesApart, HandedOver
<1>4. AllSettled'
  BY <1>1, QuietSettled DEF InInv
<1>5. Passed'
  BY <1>0 DEF InInv, Passed, Treated
<1> QED  BY <1>2, <1>3, <1>4, <1>5 DEF InInv

\* The packet goes when each of its messages was treated.
LEMMA RemovePacketKeeps == ASSUME InInv, RemovePacket PROVE InInv'
<1> USE DEF unpackv, postv
<1>0. Key' = Key  BY DEF Key, RemovePacket
<1>1. faults' \in {faults, faults + 1}
  BY DEF RemovePacket, Fine, Fault
<1>2. InTyped'
  <2>1. pkt' \in [Packet -> {"away", "in", "bad", "gone"}] /\ pc' = "next"
    BY DEF InInv, InTyped, RemovePacket, Removed
  <2> QED  BY <1>0, <1>1, <2>1 DEF InInv, InTyped, SpoolFile, RemovePacket
<1>3. FilesApart' /\ HandedOver'
  BY DEF InInv, FilesApart, HandedOver, RemovePacket
<1>4. AllSettled'
  BY <1>1, QuietSettled DEF InInv, RemovePacket
<1>5. Passed'
  <2>1. \A k \in Key : k[1] \in Packet
    BY KeyParts
  <2>2. cur \in Packet /\ pkt \in [Packet -> {"away", "in", "bad", "gone"}]
    BY DEF InInv, InTyped, RemovePacket
  <2>3. pkt'[cur] = "gone" => pc = "remove"
    BY <2>2 DEF RemovePacket, Removed
  <2>4. \A p \in Packet \ {cur} : pkt'[p] = pkt[p]
    BY <2>2 DEF RemovePacket
  <2> QED  BY <1>0, <2>1, <2>3, <2>4 DEF InInv, Passed, Treated, RemovePacket
<1> QED  BY <1>2, <1>3, <1>4, <1>5 DEF InInv

\* A message is treated; behind one that is not read others are swallowed.
LEMMA AdvanceTreats ==
  ASSUME InTyped, Reading, NEW what, Advance(what)
  PROVE  /\ K \in Key
         /\ at' \in Nat \ {0}
         /\ outcome' = [k \in Key |-> outcome'[k]]
         /\ outcome'[K] = what
         /\ \A k \in Key \ {K} :
              \/ outcome'[k] = outcome[k]
              \/ /\ outcome'[k] = [what |-> "swallowed"] /\ B.unread
                 /\ k[1] = cur /\ k[2] > at
         /\ \A k \in Key \ {K} :
              k[1] = cur /\ k[2] < at' =>
                k[2] < at \/ outcome'[k] = [what |-> "swallowed"]
<1>1. cur \in Packet /\ at \in Nat \ {0} /\ Len(content[cur]) \in Nat
  BY DEF InTyped, Reading
<1>2. K \in Key
  BY <1>1, KeyOf DEF K, Reading
<1>3. PICK to \in IF B.unread THEN (at + 2)..(Len(content[cur]) + 2) ELSE {at + 1} :
        /\ at' = to
        /\ outcome' = [k \in Key |->
             IF k = K THEN what
             ELSE IF k[1] = cur /\ k[2] > at /\ k[2] < to
                  THEN [what |-> "swallowed"] ELSE outcome[k]]
  BY DEF Advance
<1>4. to \in Nat \ {0} /\ (~B.unread => to = at + 1)
  BY <1>1, <1>3
<1>5. ASSUME NEW k \in Key \ {K}
      PROVE  k[1] = cur => k[2] \in Nat /\ k[2] # at
  <2>1. k = <<k[1], k[2]>> /\ k[2] \in 1 .. Len(content[k[1]])
    BY KeyParts
  <2> QED  BY <2>1, <1>1 DEF K
<1>6. ASSUME NEW k \in Key \ {K}
      PROVE  /\ \/ outcome'[k] = outcome[k]
                \/ /\ outcome'[k] = [what |-> "swallowed"] /\ B.unread
                   /\ k[1] = cur /\ k[2] > at
             /\ k[1] = cur /\ k[2] < at' =>
                  k[2] < at \/ outcome'[k] = [what |-> "swallowed"]
  <2>1. outcome'[k] = IF k[1] = cur /\ k[2] > at /\ k[2] < to
                      THEN [what |-> "swallowed"] ELSE outcome[k]
    BY <1>3
  <2>2. CASE k[1] # cur  BY <2>1, <2>2
  <2>3. CASE k[1] = cur
    <3>1. k[2] \in Nat /\ k[2] # at  BY <1>5, <2>3
    <3> QED  BY <2>1, <2>3, <3>1, <1>1, <1>3, <1>4
  <2> QED  BY <2>2, <2>3
<1> QED  BY <1>2, <1>3, <1>4, <1>6

LEMMA AdvanceKeeps ==
  ASSUME InInv, Reading, NEW what, Advance(what), what.what # "unseen",
         NEW x, x = K, Settled(x)', SpoolKept, faults' \in {faults, faults + 1},
         pc' \in {"read", "mail", "article"}, UNCHANGED <<cur, pkt>>
  PROVE  AllSettled' /\ Passed'
<1>1. /\ K \in Key /\ outcome'[K] = what
      /\ \A k \in Key \ {K} :
           \/ outcome'[k] = outcome[k]
           \/ /\ outcome'[k] = [what |-> "swallowed"] /\ B.unread
              /\ k[1] = cur /\ k[2] > at
      /\ \A k \in Key \ {K} :
           k[1] = cur /\ k[2] < at' =>
             k[2] < at \/ outcome'[k] = [what |-> "swallowed"]
  BY AdvanceTreats DEF InInv
<1>2. Key' = Key
  BY DEF Key, SpoolKept
<1>3. \A k \in Key : Treated(k) => Treated(k)'
  BY <1>1 DEF Treated
<1>5. ASSUME NEW k \in Key, Treated(k)'
      PROVE  Settled(k)'
  <2>1. CASE k = K
    BY <2>1
  <2>2. CASE k # K /\ outcome'[k] = outcome[k]
    BY <2>2, <1>5, SettledStays DEF InInv, AllSettled, Treated
  <2>3. CASE k # K /\ outcome'[k] # outcome[k]
    <3>1. outcome'[k].what = "swallowed" /\ B.unread /\ k[1] = cur /\ k[2] > at
      BY <2>3, <1>1
    <3>2. k[2] \in Nat /\ at \in Nat \ {0}
      BY <3>1, KeyParts DEF InInv, InTyped, Reading
    <3>3. at \in 1 .. (k[2] - 1)
      BY <3>1, <3>2
    <3>4. PICK i \in 1 .. (k[2] - 1) : i = at
      BY <3>3
    <3>5. Unread(<<k[1], i>>)'
      BY <3>1, <3>4 DEF Unread, Body, B, M, SpoolKept
    <3> QED  BY <3>1, <3>5 DEF Settled
  <2> QED  BY <2>1, <2>2, <2>3
<1>6. AllSettled'
  BY <1>2, <1>5 DEF AllSettled
<1>7. ASSUME NEW k \in Key, k[1] = cur, k[2] < at'
      PROVE  Treated(k)'
  <2>1. CASE k = K
    BY <2>1, <1>1 DEF Treated
  <2>2. CASE k # K /\ outcome'[k] = [what |-> "swallowed"]
    BY <2>2 DEF Treated
  <2>3. CASE k # K /\ k[2] < at
    BY <2>3, <1>3, <1>7 DEF InInv, Passed, Reading
  <2> QED  BY <2>1, <2>2, <2>3, <1>1, <1>7
<1>8. Passed'
  BY <1>2, <1>3, <1>7 DEF InInv, Passed
<1> QED  BY <1>6, <1>8

\* A file is begun with its first message, or gets another one.
LEMMA FileBegun ==
  ASSUME InTyped, NEW x \in Key, NEW kind \in {"mail", "news"},
         spool' = Append(spool, File(kind, <<x>>)), UNCHANGED <<content, handed>>
  PROVE  /\ spool' \in Seq(SpoolFile) /\ SpoolKept
         /\ DOMAIN spool \subseteq DOMAIN spool' /\ Next_ \in DOMAIN spool'
         /\ spool'[Next_] = File(kind, <<x>>)
         /\ \A n \in DOMAIN spool : n # Next_ /\ spool'[n] = spool[n]
         /\ Kept(x)'
<1>1. File(kind, <<x>>) \in SpoolFile
  BY DEF File, SpoolFile
<1>2. spool \in Seq(SpoolFile) /\ Len(spool) \in Nat
  BY DEF InTyped
<1>3. /\ spool' \in Seq(SpoolFile) /\ DOMAIN spool' = 1 .. Len(spool) + 1
      /\ spool'[Len(spool) + 1] = File(kind, <<x>>)
      /\ \A n \in 1 .. Len(spool) : spool'[n] = spool[n]
  BY <1>1, <1>2
<1>4. DOMAIN spool = 1 .. Len(spool)
  BY <1>2
<1>5. /\ DOMAIN spool \subseteq DOMAIN spool' /\ Next_ \in DOMAIN spool'
      /\ \A n \in DOMAIN spool : n # Next_ /\ spool'[n] = spool[n]
  BY <1>2, <1>3, <1>4 DEF Next_
<1>6. SpoolKept
  BY <1>5 DEF SpoolKept
<1>7. Kept(x)'
  <2>1. x \in Range(File(kind, <<x>>).items) /\ File(kind, <<x>>).ext = "tmp"
    BY DEF File, Range
  <2> QED  BY <2>1, <1>3, <1>5 DEF Kept, Next_
<1> QED  BY <1>3, <1>5, <1>6, <1>7 DEF Next_

LEMMA FileFields ==
  ASSUME NEW S, NEW f \in [kind : {"mail", "news"}, ext : {"tmp", "rfc", "bad", "gone"},
                           items : Seq(S)], NEW items, NEW ext
  PROVE  /\ [f EXCEPT !.items = items] = [kind |-> f.kind, ext |-> f.ext, items |-> items]
         /\ [f EXCEPT !.ext = ext] = [kind |-> f.kind, ext |-> ext, items |-> f.items]
OBVIOUS

LEMMA FileGoesOn ==
  ASSUME InTyped, FilesApart, NEW x \in Key, nfile # NONE,
         spool' = [spool EXCEPT ![nfile].items = Append(@, x)],
         UNCHANGED <<content, handed>>
  PROVE  /\ spool' \in Seq(SpoolFile) /\ SpoolKept
         /\ DOMAIN spool' = DOMAIN spool
         /\ \A n \in DOMAIN spool :
              /\ spool'[n].kind = spool[n].kind /\ spool'[n].ext = spool[n].ext
              /\ n # nfile => spool'[n] = spool[n]
         /\ Kept(x)'
<1> DEFINE f == spool[nfile]
           g == [kind |-> f.kind, ext |-> f.ext, items |-> Append(f.items, x)]
<1>1. nfile \in DOMAIN spool /\ f \in SpoolFile /\ f.ext = "tmp"
  BY DEF InTyped, FilesApart
<1>2. /\ g \in SpoolFile
      /\ \A y \in Range(f.items) : y \in Range(g.items)
      /\ x \in Range(g.items)
  <2>1. f.items \in Seq(Key) /\ Len(f.items) \in Nat
    BY <1>1 DEF SpoolFile
  <2>2. Append(f.items, x) \in Seq(Key)
    BY <2>1
  <2>3. /\ DOMAIN Append(f.items, x) = 1 .. Len(f.items) + 1
        /\ DOMAIN f.items = 1 .. Len(f.items)
        /\ Append(f.items, x)[Len(f.items) + 1] = x
        /\ \A i \in 1 .. Len(f.items) : Append(f.items, x)[i] = f.items[i]
    BY <2>1
  <2>4. g.items = Append(f.items, x)
    OBVIOUS
  <2>5. x \in Range(g.items)
    BY <2>1, <2>3, <2>4 DEF Range
  <2>6. ASSUME NEW y \in Range(f.items) PROVE y \in Range(g.items)
    <3>1. PICK i \in 1 .. Len(f.items) : y = f.items[i]
      BY <2>3 DEF Range
    <3>2. i \in DOMAIN g.items /\ g.items[i] = y
      BY <3>1, <2>1, <2>3, <2>4
    <3> QED  BY <3>2 DEF Range
  <2> QED  BY <2>2, <2>5, <2>6, <1>1 DEF SpoolFile
<1>3. [f EXCEPT !.items = Append(@, x)] = g
  BY <1>1, FileFields DEF SpoolFile
<1>4. spool' = [spool EXCEPT ![nfile] = g]
  BY <1>3
<1> HIDE DEF g
<1>5. /\ spool' \in Seq(SpoolFile) /\ DOMAIN spool' = DOMAIN spool
      /\ spool'[nfile] = g /\ \A n \in DOMAIN spool \ {nfile} : spool'[n] = spool[n]
  <2>1. spool \in Seq(SpoolFile) /\ g \in SpoolFile /\ nfile \in 1 .. Len(spool)
    BY <1>1, <1>2 DEF InTyped
  <2>2. [spool EXCEPT ![nfile] = g] \in Seq(SpoolFile)
    BY <2>1, ExceptSeq
  <2>3. spool' \in Seq(SpoolFile) /\ DOMAIN spool' = DOMAIN spool
    BY <1>4, <2>2
  <2> QED  BY <1>4, <2>1, <2>3
<1>6. g.kind = f.kind /\ g.ext = f.ext
  BY DEF g
<1>7. SpoolKept
  BY <1>1, <1>2, <1>5, <1>6 DEF SpoolKept
<1>8. Kept(x)'
  BY <1>1, <1>2, <1>5, <1>6 DEF Kept
<1> QED  BY <1>1, <1>5, <1>6, <1>7, <1>8

LEMMA SkipMessageKeeps == ASSUME InInv, SkipMessage PROVE InInv'
<1> USE DEF unpackv, postv
<1>0. Key' = Key  BY DEF Key, SkipMessage
<1>1. Reading /\ Advance([what |-> "skipped"]) /\ K \in Key
      /\ at' \in Nat \ {0} /\ outcome' = [k \in Key |-> outcome'[k]]
      /\ outcome'[K] = [what |-> "skipped"]
  BY AdvanceTreats DEF InInv, SkipMessage
<1>2. InTyped'
  BY <1>0, <1>1 DEF InInv, InTyped, SpoolFile, SkipMessage, Reading
<1>3. FilesApart' /\ HandedOver'
  BY DEF InInv, FilesApart, HandedOver, SkipMessage, Reading
<1>4. SpoolKept
  BY DEF SpoolKept, SkipMessage
<1>5. PICK x \in Key : x = K
  BY <1>1
<1>6. Settled(x)'
  <2>1. outcome'[x].what = "skipped"
    BY <1>1, <1>5
  <2> QED  BY <2>1 DEF Settled
<1>7. AllSettled' /\ Passed'
  BY <1>1, <1>4, <1>5, <1>6, AdvanceKeeps DEF SkipMessage, Reading
<1> QED  BY <1>2, <1>3, <1>7 DEF InInv

\* A mail: a bounce, or a message that is gated.
LEMMA MailWritten ==
  ASSUME InInv, Reading, NEW what, what.what \in {"gated", "bounced"}, Advance(what),
         spool' = Append(spool, File("mail", <<K>>)), mfile' = Next_, pc' = "mail",
         UNCHANGED <<content, pkt, queue, cur, nfile, postv, handed, faults>>
  PROVE  InInv'
<1> USE DEF unpackv, postv
<1>0. Key' = Key  BY DEF Key
<1>1. K \in Key /\ at' \in Nat \ {0} /\ outcome' = [k \in Key |-> outcome'[k]]
      /\ outcome'[K] = what
  BY AdvanceTreats DEF InInv
<1>2. PICK x \in Key : x = K
  BY <1>1
<1>3. /\ spool' \in Seq(SpoolFile) /\ SpoolKept
      /\ DOMAIN spool \subseteq DOMAIN spool' /\ Next_ \in DOMAIN spool'
      /\ spool'[Next_] = File("mail", <<x>>)
      /\ \A n \in DOMAIN spool : n # Next_ /\ spool'[n] = spool[n]
      /\ Kept(x)'
  BY <1>2, FileBegun DEF InInv
<1>4. InTyped'
  <2>1. pqueue' \in Seq(DOMAIN spool')
    BY <1>3 DEF InInv, InTyped
  <2>2. SpoolFile' = SpoolFile /\ pc' # "idle" /\ cur \in Packet
    BY <1>0 DEF InInv, InTyped, SpoolFile, Reading
  <2>3. spool' \in Seq(SpoolFile')
    BY <1>3, <2>2
  <2> QED  BY <1>0, <1>1, <2>1, <2>2, <2>3 DEF InInv, InTyped
<1>5. \A i \in DOMAIN pqueue : pqueue[i] \in DOMAIN spool
  BY DEF InInv, InTyped
<1>6. FilesApart'
  BY <1>3, <1>5 DEF InInv, FilesApart, File
<1>7. HandedOver'
  BY <1>3, HeadAndTail DEF InInv, InTyped, HandedOver
<1>8. Settled(x)'
  BY <1>1, <1>2, <1>3 DEF Settled
<1>9. AllSettled' /\ Passed'
  BY <1>2, <1>3, <1>8, AdvanceKeeps
<1> QED  BY <1>4, <1>6, <1>7, <1>9 DEF InInv

LEMMA FileRenamed ==
  ASSUME InTyped, NEW n \in DOMAIN spool, NEW ext \in {"tmp", "rfc", "bad", "gone"},
         spool' = [spool EXCEPT ![n].ext = ext], UNCHANGED <<content, handed>>,
         ext = "gone" => \A k \in Range(spool[n].items) : handed[k] > 0
  PROVE  /\ spool' \in Seq(SpoolFile) /\ SpoolKept /\ DOMAIN spool' = DOMAIN spool
         /\ spool'[n].kind = spool[n].kind /\ spool'[n].items = spool[n].items
         /\ spool'[n].ext = ext
         /\ \A m \in DOMAIN spool \ {n} : spool'[m] = spool[m]
<1> DEFINE f == spool[n]
           g == [kind |-> f.kind, ext |-> ext, items |-> f.items]
<1>1. spool \in Seq(SpoolFile) /\ n \in 1 .. Len(spool) /\ f \in SpoolFile
  BY DEF InTyped
<1>2. g \in SpoolFile
  BY <1>1 DEF SpoolFile
<1>3. spool' = [spool EXCEPT ![n] = g]
  BY <1>1, FileFields DEF SpoolFile
<1>4. g.kind = f.kind /\ g.items = f.items /\ g.ext = ext
  OBVIOUS
<1> HIDE DEF g
<1>5. [spool EXCEPT ![n] = g] \in Seq(SpoolFile)
  BY <1>1, <1>2, ExceptSeq
<1>6. /\ spool' \in Seq(SpoolFile) /\ DOMAIN spool' = DOMAIN spool
      /\ spool'[n] = g /\ \A m \in DOMAIN spool \ {n} : spool'[m] = spool[m]
  BY <1>3, <1>5
<1>7. SpoolKept
  <2>1. SUFFICES ASSUME NEW m \in DOMAIN spool
        PROVE  /\ m \in DOMAIN spool'
               /\ Range(spool[m].items) \subseteq Range(spool'[m].items)
               /\ spool'[m].ext = "gone" =>
                    \/ spool[m].ext = "gone"
                    \/ \A k \in Range(spool[m].items) : handed[k] > 0
    BY DEF SpoolKept
  <2> QED  BY <1>4, <1>6
<1> QED  BY <1>4, <1>6, <1>7

\* The other steps of the reader that treat no message.
LEMMA FileKeepsSettled ==
  ASSUME InInv, SpoolKept, UNCHANGED outcome, faults' \in {faults, faults + 1}
  PROVE  AllSettled'
<1>1. Key' = Key  BY DEF Key, SpoolKept
<1> QED  BY <1>1, SettledStays DEF InInv, AllSettled, Treated

LEMMA BounceMessageKeeps == ASSUME InInv, BounceMessage PROVE InInv'
<1> USE DEF unpackv, postv
<1>0. UNCHANGED <<content, pkt, queue, cur, nfile, postv, handed>> /\ Reading
  BY DEF BounceMessage
<1>1. CASE /\ Fine /\ Advance([what |-> "bounced", why |-> Bounce(B, M)])
           /\ spool' = Append(spool, File("mail", <<K>>))
           /\ mfile' = Next_ /\ pc' = "mail"
  <2>1. PICK what : what.what = "bounced" /\ Advance(what)
    BY <1>1
  <2> QED  BY <1>0, <1>1, <2>1, MailWritten DEF Fine
<1>2. CASE /\ Fault /\ Advance([what |-> "unbounced"])
           /\ UNCHANGED <<spool, mfile, pc>>
  <2>0. Key' = Key  BY <1>0 DEF Key
  <2>1. K \in Key /\ at' \in Nat \ {0}
        /\ outcome' = [k \in Key |-> outcome'[k]]
        /\ outcome'[K] = [what |-> "unbounced"]
    BY <1>0, <1>2, AdvanceTreats DEF InInv
  <2>2. faults' = faults + 1 /\ faults \in Nat
    BY <1>2 DEF Fault, InInv, InTyped
  <2>3. InTyped'
    BY <1>0, <1>2, <2>0, <2>1, <2>2 DEF InInv, InTyped, SpoolFile, Reading
  <2>4. FilesApart' /\ HandedOver'
    BY <1>0, <1>2 DEF InInv, FilesApart, HandedOver, Reading
  <2>5. SpoolKept
    BY <1>0, <1>2 DEF SpoolKept
  <2>6. PICK x \in Key : x = K
    BY <2>1
  <2>7. Settled(x)'
    <3>1. outcome'[x].what = "unbounced"
      BY <2>1, <2>6
    <3>2. faults' > 0
      BY <2>2
    <3> QED  BY <3>1, <3>2 DEF Settled
  <2>8. AllSettled' /\ Passed'
    <3>1. pc' \in {"read", "mail", "article"}
      BY <1>0, <1>2 DEF Reading
    <3> QED  BY <1>0, <1>2, <2>2, <2>5, <2>6, <2>7, <3>1, AdvanceKeeps
  <2> QED  BY <2>3, <2>4, <2>8 DEF InInv
<1> QED  BY <1>1, <1>2 DEF BounceMessage

LEMMA MailKeeps == ASSUME InInv, Mail PROVE InInv'
<1> USE DEF unpackv, postv
<1>1. CASE /\ Fine
           /\ Advance([what |-> "gated", busy |-> FALSE, item |-> Written(B, M, K, db)])
           /\ spool' = Append(spool, File("mail", <<K>>))
           /\ mfile' = Next_ /\ pc' = "mail"
  <2>1. PICK what : what.what = "gated" /\ Advance(what)
    BY <1>1
  <2> QED  BY <1>1, <2>1, MailWritten DEF Mail, Fine
<1>2. CASE Fault /\ pc' = "failed" /\ UNCHANGED <<spool, mfile, mailto, acl, at, outcome>>
  <2>0. Key' = Key  BY DEF Key, Mail
  <2>1. faults' = faults + 1
    BY <1>2 DEF Fault
  <2>2. InTyped'
    BY <1>2, <2>0, <2>1 DEF InInv, InTyped, SpoolFile, Mail, Reading
  <2>3. FilesApart' /\ HandedOver'
    BY <1>2 DEF InInv, FilesApart, HandedOver, Mail
  <2>4. AllSettled'
    BY <1>2, <2>1, QuietSettled DEF InInv, Mail
  <2>5. Passed'
    BY <1>2, <2>0 DEF InInv, Passed, Treated, Mail
  <2> QED  BY <2>2, <2>3, <2>4, <2>5 DEF InInv
<1> QED  BY <1>1, <1>2 DEF Mail

LEMMA MailCloseKeeps == ASSUME InInv, MailClose PROVE InInv'
<1> USE DEF unpackv, postv
<1>0. Key' = Key  BY DEF Key, MailClose
<1>1. faults' \in {faults, faults + 1}
  BY DEF MailClose, Fine, Fault
<1>2. mfile \in DOMAIN spool /\ spool[mfile].kind = "mail"
  BY DEF InInv, FilesApart, MailClose
<1>3. /\ spool' \in Seq(SpoolFile) /\ SpoolKept /\ DOMAIN spool' = DOMAIN spool
      /\ spool'[mfile].items = spool[mfile].items
      /\ spool'[mfile].ext \in {"rfc", spool[mfile].ext}
      /\ \A m \in DOMAIN spool \ {mfile} : spool'[m] = spool[m]
  <2>1. CASE spool' = [spool EXCEPT ![mfile].ext = "rfc"]
    BY <1>2, <2>1, FileRenamed DEF InInv, MailClose
  <2>2. CASE UNCHANGED spool
    BY <2>2 DEF InInv, InTyped, SpoolKept, MailClose
  <2> QED  BY <2>1, <2>2 DEF MailClose
<1>4. InTyped'
  BY <1>0, <1>1, <1>3 DEF InInv, InTyped, SpoolFile, MailClose
<1>5. \A i \in DOMAIN pqueue : pqueue[i] \in DOMAIN spool
  BY DEF InInv, InTyped
<1>6. FilesApart'
  BY <1>2, <1>3, <1>5 DEF InInv, FilesApart, MailClose
<1>7. HandedOver'
  <2>1. ppc = "unlink" => Head(pqueue) \in DOMAIN spool
    BY HeadAndTail DEF InInv, InTyped, HandedOver
  <2>2. \A n \in DOMAIN spool : spool'[n].items = spool[n].items
    BY <1>3
  <2> QED  BY <2>1, <2>2 DEF InInv, HandedOver, MailClose
<1>8. AllSettled'
  BY <1>1, <1>3, FileKeepsSettled DEF MailClose
<1>9. Passed'
  BY <1>0 DEF InInv, Passed, Treated, MailClose
<1> QED  BY <1>4, <1>6, <1>7, <1>8, <1>9 DEF InInv

\* The file that is being handed over is not being written.
LEMMA QueuedFile ==
  ASSUME InInv, pqueue # <<>>
  PROVE  /\ Head(pqueue) \in DOMAIN spool /\ spool[Head(pqueue)].ext # "tmp"
         /\ Tail(pqueue) \in Seq(DOMAIN spool)
         /\ \A i \in DOMAIN Tail(pqueue) : spool[Tail(pqueue)[i]].ext # "tmp"
<1>1. pqueue \in Seq(DOMAIN spool) /\ Len(pqueue) \in Nat
  BY DEF InInv, InTyped
<1>2. \A n \in Range(pqueue) : spool[n].ext # "tmp"
  BY DEF InInv, FilesApart, Range
<1>3. /\ Head(pqueue) \in DOMAIN spool /\ Head(pqueue) \in Range(pqueue)
      /\ Tail(pqueue) \in Seq(DOMAIN spool)
      /\ Range(Tail(pqueue)) \subseteq Range(pqueue)
  BY <1>1, HeadAndTail
<1>4. \A i \in DOMAIN Tail(pqueue) : Tail(pqueue)[i] \in Range(Tail(pqueue))
  BY DEF Range
<1> QED  BY <1>2, <1>3, <1>4

LEMMA NewsWritten ==
  ASSUME InInv, Reading, NEW what, what.what = "gated", Advance(what),
         nfile' = IF nfile = NONE THEN Next_ ELSE nfile,
         spool' = IF nfile = NONE THEN Append(spool, File("news", <<K>>))
                  ELSE [spool EXCEPT ![nfile].items = Append(@, K)],
         pc' \in {"article", "read"}, faults' \in {faults, faults + 1},
         UNCHANGED <<content, pkt, queue, cur, mfile, postv, handed>>
  PROVE  InInv'
<1> USE DEF unpackv, postv
<1>0. Key' = Key  BY DEF Key
<1>1. K \in Key /\ at' \in Nat \ {0} /\ outcome' = [k \in Key |-> outcome'[k]]
      /\ outcome'[K] = what
  BY AdvanceTreats DEF InInv
<1>2. PICK x \in Key : x = K
  BY <1>1
<1>3. /\ spool' \in Seq(SpoolFile) /\ SpoolKept /\ Kept(x)'
      /\ DOMAIN spool \subseteq DOMAIN spool' /\ nfile' \in DOMAIN spool'
      /\ spool'[nfile'].kind = "news" /\ spool'[nfile'].ext = "tmp"
      /\ \A n \in DOMAIN spool :
           /\ spool'[n].ext = spool[n].ext
           /\ n # nfile => spool'[n] = spool[n]
  <2>1. CASE nfile = NONE
    <3>1. nfile' = Next_ /\ spool' = Append(spool, File("news", <<x>>))
      BY <1>2, <2>1
    <3>2. /\ spool' \in Seq(SpoolFile) /\ SpoolKept /\ Kept(x)'
          /\ DOMAIN spool \subseteq DOMAIN spool' /\ Next_ \in DOMAIN spool'
          /\ spool'[Next_] = File("news", <<x>>)
          /\ \A n \in DOMAIN spool : spool'[n] = spool[n]
      BY <3>1, FileBegun DEF InInv
    <3> QED  BY <3>1, <3>2 DEF File
  <2>2. CASE nfile # NONE
    <3>1. nfile' = nfile /\ spool' = [spool EXCEPT ![nfile].items = Append(@, x)]
      BY <1>2, <2>2
    <3>2. /\ spool' \in Seq(SpoolFile) /\ SpoolKept /\ Kept(x)'
          /\ DOMAIN spool' = DOMAIN spool
          /\ \A n \in DOMAIN spool :
               /\ spool'[n].kind = spool[n].kind /\ spool'[n].ext = spool[n].ext
               /\ n # nfile => spool'[n] = spool[n]
      BY <2>2, <3>1, FileGoesOn DEF InInv
    <3>3. nfile \in DOMAIN spool /\ spool[nfile].kind = "news" /\ spool[nfile].ext = "tmp"
      BY <2>2 DEF InInv, FilesApart
    <3> QED  BY <3>1, <3>2, <3>3
  <2> QED  BY <2>1, <2>2
<1>4. InTyped'
  <2>1. pqueue' \in Seq(DOMAIN spool')
    BY <1>3 DEF InInv, InTyped
  <2>2. SpoolFile' = SpoolFile /\ pc' # "idle" /\ cur \in Packet
    BY <1>0 DEF InInv, InTyped, SpoolFile, Reading
  <2>3. spool' \in Seq(SpoolFile')
    BY <1>3, <2>2
  <2>4. /\ UNCHANGED <<content, pkt, queue, cur, handed>> /\ faults' \in Nat
        /\ pc' \in {"article", "read"} /\ InTyped
    BY DEF InInv, InTyped
  <2> QED  BY ONLY <1>0, <1>1, <2>1, <2>2, <2>3, <2>4 DEF InTyped
<1>5. \A i \in DOMAIN pqueue : pqueue[i] \in DOMAIN spool
  BY DEF InInv, InTyped
<1>6. FilesApart'
  BY <1>3, <1>5 DEF InInv, FilesApart
<1>7. HandedOver'
  <2>1. SUFFICES ASSUME ppc = "unlink"
        PROVE  \A k \in Range(spool'[Head(pqueue)].items) : handed[k] > 0
    BY DEF InInv, HandedOver
  <2>2. pqueue # <<>> /\ \A k \in Range(spool[Head(pqueue)].items) : handed[k] > 0
    BY <2>1 DEF InInv, HandedOver
  <2>3. Head(pqueue) \in DOMAIN spool /\ spool[Head(pqueue)].ext # "tmp"
    BY <2>2, QueuedFile
  <2>4. Head(pqueue) # nfile \/ nfile = NONE
    BY <2>3 DEF InInv, FilesApart
  <2>5. spool'[Head(pqueue)] = spool[Head(pqueue)]
    <3>1. CASE nfile = NONE
      <4>1. spool' = Append(spool, File("news", <<x>>))
        BY <1>2, <3>1
      <4> QED  BY <2>3, <4>1, FileBegun DEF InInv
    <3> QED  BY <1>3, <2>3, <2>4, <3>1
  <2> QED  BY <2>2, <2>5
<1>8. Settled(x)'
  BY <1>1, <1>2, <1>3 DEF Settled
<1>9. AllSettled' /\ Passed'
  BY <1>2, <1>3, <1>8, AdvanceKeeps
<1> QED  BY <1>4, <1>6, <1>7, <1>9 DEF InInv

LEMMA NewsKeeps == ASSUME InInv, News PROVE InInv'
<1> USE DEF unpackv, postv
<1>0. UNCHANGED <<opt, content, pkt, queue, cur, mfile, postv, handed>> /\ Reading
  BY DEF News
<1>1. CASE /\ \/ /\ Fine /\ db' = db \cup Saved(B)
                 /\ Advance([what |-> "gated", busy |-> FALSE, item |-> Written(B, M, K, db)])
              \/ /\ opt.dbc /\ Fault /\ UNCHANGED db
                 /\ Advance([what |-> "gated", busy |-> TRUE, item |-> Written(B, M, K, {})])
           /\ nfile' = IF nfile = NONE THEN Next_ ELSE nfile
           /\ spool' = IF nfile = NONE THEN Append(spool, File("news", <<K>>))
                       ELSE [spool EXCEPT ![nfile].items = Append(@, K)]
           /\ pc' = IF opt.single THEN "article" ELSE "read"
  <2>1. PICK what : what.what = "gated" /\ Advance(what)
    BY <1>1
  <2>2. faults' \in {faults, faults + 1}
    BY <1>1 DEF Fine, Fault
  <2>3. pc' \in {"article", "read"}
    BY <1>1
  <2> QED  BY <1>0, <1>1, <2>1, <2>2, <2>3, NewsWritten
<1>2. CASE Fault /\ pc' = "failed" /\ UNCHANGED <<spool, nfile, mailto, acl, at, outcome>>
  <2>0. Key' = Key  BY <1>0 DEF Key
  <2>1. faults' = faults + 1
    BY <1>2 DEF Fault
  <2>2. InTyped'
    BY <1>0, <1>2, <2>0, <2>1 DEF InInv, InTyped, SpoolFile, Reading
  <2>3. FilesApart' /\ HandedOver'
    BY <1>0, <1>2 DEF InInv, FilesApart, HandedOver
  <2>4. AllSettled'
    BY <1>0, <1>2, <2>1, QuietSettled DEF InInv
  <2>5. Passed'
    BY <1>0, <1>2, <2>0 DEF InInv, Passed, Treated
  <2> QED  BY <2>2, <2>3, <2>4, <2>5 DEF InInv
<1> QED  BY <1>1, <1>2 DEF News

\* The news file is closed, or stays behind under its temporary name.
LEMMA NewsClosedKeeps ==
  ASSUME InInv, NewsClosed, pc \notin {"idle", "next"}, pc' \in {"read", "remove", "bad"},
         UNCHANGED <<content, pkt, queue, cur, at, mfile, postv, handed, outcome>>
  PROVE  InTyped' /\ FilesApart' /\ HandedOver' /\ AllSettled'
<1> USE DEF unpackv, postv
<1>0. Key' = Key  BY DEF Key
<1>1. faults' \in {faults, faults + 1}
  BY DEF NewsClosed, Fine, Fault
<1>2. /\ spool' \in Seq(SpoolFile) /\ SpoolKept /\ DOMAIN spool' = DOMAIN spool
      /\ \A n \in DOMAIN spool :
           /\ spool'[n].items = spool[n].items
           /\ spool[n].ext # "tmp" => spool'[n].ext # "tmp"
  <2>1. CASE nfile # NONE /\ spool' = [spool EXCEPT ![nfile].ext = "rfc"]
    <3>1. nfile \in DOMAIN spool
      BY <2>1 DEF InInv, FilesApart
    <3> QED  BY <2>1, <3>1, FileRenamed DEF InInv
  <2>2. CASE UNCHANGED spool
    BY <2>2 DEF InInv, InTyped, SpoolKept
  <2> QED  BY <2>1, <2>2 DEF NewsClosed
<1>3. InTyped'
  BY <1>0, <1>1, <1>2 DEF InInv, InTyped, SpoolFile
<1>4. \A i \in DOMAIN pqueue : pqueue[i] \in DOMAIN spool
  BY DEF InInv, InTyped
<1>5. FilesApart'
  BY <1>2, <1>4 DEF InInv, FilesApart, NewsClosed
<1>6. HandedOver'
  <2>1. ppc = "unlink" => Head(pqueue) \in DOMAIN spool
    BY QueuedFile DEF InInv, HandedOver
  <2> QED  BY <1>2, <2>1 DEF InInv, HandedOver
<1>7. AllSettled'
  BY <1>1, <1>2, FileKeepsSettled
<1> QED  BY <1>3, <1>5, <1>6, <1>7

LEMMA ArticleCloseKeeps == ASSUME InInv, ArticleClose PROVE InInv'
<1>1. InTyped' /\ FilesApart' /\ HandedOver' /\ AllSettled'
  BY NewsClosedKeeps DEF ArticleClose
<1>2. Key' = Key  BY DEF Key, ArticleClose
<1>3. Passed'
  BY <1>2 DEF InInv, Passed, Treated, ArticleClose
<1> QED  BY <1>1, <1>3 DEF InInv

\* Behind the last message every one was treated.
LEMMA UnpackedKeeps == ASSUME InInv, Unpacked PROVE InInv'
<1>1. InTyped' /\ FilesApart' /\ HandedOver' /\ AllSettled'
  BY NewsClosedKeeps DEF Unpacked
<1>2. Key' = Key  BY DEF Key, Unpacked
<1>3. ASSUME pc' = "remove", NEW k \in Key, k[1] = cur
      PROVE  Treated(k)
  <2>1. pc = "read" /\ at > Len(content[cur])
    BY <1>3 DEF Unpacked
  <2>2. /\ k[1] \in Packet /\ k[2] \in 1 .. Len(content[k[1]])
        /\ at \in Nat /\ Len(content[k[1]]) \in Nat
    BY <2>1, KeyParts DEF InInv, InTyped
  <2>3. k[2] < at
    BY <1>3, <2>1, <2>2
  <2> QED  BY <1>3, <2>1, <2>3 DEF InInv, Passed
<1>4. pc' \in {"bad", "remove"} /\ UNCHANGED <<pkt, cur, outcome>>
  BY DEF Unpacked
<1>5. Passed'
  BY <1>2, <1>3, <1>4 DEF InInv, Passed, Treated
<1> QED  BY <1>1, <1>5 DEF InInv

\* ftninpost takes the files that were renamed, and only those.
LEMMA PublishedFiles ==
  ASSUME InTyped, NEW kind
  PROVE  /\ Published(kind) \in Seq(DOMAIN spool)
         /\ \A i \in DOMAIN Published(kind) : spool[Published(kind)[i]].ext = "rfc"
<1> DEFINE files == {n \in DOMAIN spool : spool[n].kind = kind /\ spool[n].ext = "rfc"}
<1>1. IsFiniteSet(DOMAIN spool)
  <2>1. Len(spool) \in Nat /\ DOMAIN spool = 1 .. Len(spool)
    BY DEF InTyped
  <2> QED  BY <2>1, FS_Interval
<1>2. IsFiniteSet(files)
  BY <1>1, FS_Subset
<1>3. SetToSeq(files) \in Seq(files)
  BY <1>2, SetToSeqIsList
<1>4. Published(kind) = SetToSeq(files)
  BY DEF Published
<1> HIDE DEF files
<1>5. \A i \in DOMAIN Published(kind) : Published(kind)[i] \in files
  BY <1>3, <1>4
<1>6. files \subseteq DOMAIN spool /\ \A n \in files : spool[n].ext = "rfc"
  BY DEF files
<1>7. Published(kind) \in Seq(DOMAIN spool)
  BY <1>3, <1>4, <1>6
<1> QED  BY <1>5, <1>6, <1>7

LEMMA PostBeginKeeps == ASSUME InInv, PostBegin PROVE InInv'
<1> USE DEF unpackv
<1>0. Key' = Key  BY DEF Key, PostBegin
<1>1. /\ pqueue' \in Seq(DOMAIN spool)
      /\ \A i \in DOMAIN pqueue' : spool[pqueue'[i]].ext # "tmp"
  <2> DEFINE S == DOMAIN spool
             a == Published("mail")
             b == Published("news")
  <2>1. /\ a \in Seq(S) /\ b \in Seq(S)
        /\ \A i \in DOMAIN a : spool[a[i]].ext = "rfc"
        /\ \A i \in DOMAIN b : spool[b[i]].ext = "rfc"
    BY PublishedFiles DEF InInv
  <2>2. pqueue' = a \o b
    BY DEF PostBegin
  <2> HIDE DEF S, a, b
  <2>3. /\ a \o b \in Seq(S)
        /\ DOMAIN (a \o b) = 1 .. Len(a) + Len(b)
        /\ Len(a) \in Nat /\ Len(b) \in Nat
        /\ DOMAIN a = 1 .. Len(a) /\ DOMAIN b = 1 .. Len(b)
        /\ \A i \in 1 .. Len(a) + Len(b) :
             (a \o b)[i] = IF i <= Len(a) THEN a[i] ELSE b[i - Len(a)]
    BY <2>1
  <2>4. ASSUME NEW i \in DOMAIN (a \o b) PROVE spool[(a \o b)[i]].ext = "rfc"
    <3>1. CASE i <= Len(a)
      <4>1. i \in DOMAIN a /\ (a \o b)[i] = a[i]  BY <2>3, <2>4, <3>1
      <4> QED  BY <2>1, <4>1
    <3>2. CASE ~(i <= Len(a))
      <4>1. i - Len(a) \in DOMAIN b /\ (a \o b)[i] = b[i - Len(a)]  BY <2>3, <2>4, <3>2
      <4> QED  BY <2>1, <4>1
    <3> QED  BY <3>1, <3>2
  <2> QED  BY <2>2, <2>3, <2>4 DEF S
<1>2. InTyped'
  BY <1>0, <1>1 DEF InInv, InTyped, SpoolFile, PostBegin
<1>3. FilesApart' /\ HandedOver'
  BY <1>1 DEF InInv, FilesApart, HandedOver, PostBegin
<1>4. AllSettled'
  BY QuietSettled DEF InInv, PostBegin
<1>5. Passed'
  BY <1>0 DEF InInv, Passed, Treated, PostBegin
<1> QED  BY <1>2, <1>3, <1>4, <1>5 DEF InInv

\* A file that was handed over, or could not be, is renamed or unlinked.
LEMMA FileTaken ==
  ASSUME InInv, pqueue # <<>>, NEW ext \in {"bad", "gone"},
         spool' = [spool EXCEPT ![Head(pqueue)].ext = ext],
         ext = "gone" => ppc = "unlink",
         pqueue' = Tail(pqueue), ppc' = "send", faults' \in {faults, faults + 1},
         UNCHANGED <<content, pkt, unpackv, handed, outcome>>
  PROVE  InInv'
<1> USE DEF unpackv
<1>0. Key' = Key  BY DEF Key
<1> DEFINE n == Head(pqueue)
<1>1. /\ n \in DOMAIN spool /\ spool[n].ext # "tmp"
      /\ Tail(pqueue) \in Seq(DOMAIN spool)
      /\ \A i \in DOMAIN Tail(pqueue) : spool[Tail(pqueue)[i]].ext # "tmp"
  BY QueuedFile
<1>2. ext = "gone" => \A k \in Range(spool[n].items) : handed[k] > 0
  BY DEF InInv, HandedOver
<1>3. /\ spool' \in Seq(SpoolFile) /\ SpoolKept /\ DOMAIN spool' = DOMAIN spool
      /\ spool'[n].kind = spool[n].kind /\ spool'[n].ext # "tmp"
      /\ \A m \in DOMAIN spool \ {n} : spool'[m] = spool[m]
  BY <1>1, <1>2, FileRenamed DEF InInv
<1> HIDE DEF n
<1>4. InTyped'
  <2>1. pqueue' \in Seq(DOMAIN spool')
    BY <1>1, <1>3
  <2> QED  BY <1>0, <1>3, <2>1 DEF InInv, InTyped, SpoolFile
<1>5. \A i \in DOMAIN Tail(pqueue) : Tail(pqueue)[i] \in DOMAIN spool
  BY <1>1
<1>6. FilesApart'
  BY <1>1, <1>3, <1>5 DEF InInv, FilesApart
<1>7. HandedOver'
  BY DEF HandedOver
<1>8. AllSettled'
  BY <1>3, FileKeepsSettled
<1>9. Passed'
  BY <1>0 DEF InInv, Passed, Treated
<1> QED  BY <1>4, <1>6, <1>7, <1>8, <1>9 DEF InInv

LEMMA PostKeeps == ASSUME InInv, Post PROVE InInv'
<1> USE DEF unpackv
<1> DEFINE n == Head(pqueue)
<1>0. pqueue # <<>> /\ ppc = "send" /\ UNCHANGED <<opt, content, pkt, unpackv, outcome>>
  BY DEF Post
<1>1. CASE /\ Fine /\ ppc' = "unlink"
           /\ handed' = [k \in Key |-> IF k \in Range(spool[n].items)
                                       THEN handed[k] + 1 ELSE handed[k]]
           /\ UNCHANGED <<spool, pqueue>>
  <2>0. Key' = Key  BY <1>0 DEF Key
  <2>1. handed \in [Key -> Nat] /\ faults' = faults
    BY <1>1 DEF InInv, InTyped, Fine
  <2>2. handed' \in [Key -> Nat] /\ \A k \in Key : handed[k] > 0 => handed'[k] > 0
    BY <1>1, <2>1
  <2>3. InTyped'
    BY <1>0, <1>1, <2>0, <2>1, <2>2 DEF InInv, InTyped, SpoolFile
  <2>4. FilesApart'
    BY <1>0, <1>1 DEF InInv, FilesApart
  <2>5. HandedOver'
    <3>1. n \in DOMAIN spool
      BY <1>0, QueuedFile
    <3>2. Range(spool[n].items) \subseteq Key
      <4> HIDE DEF n
      <4>1. spool[n] \in SpoolFile
        BY <3>1 DEF InInv, InTyped
      <4>2. spool[n].items \in Seq(Key)
        BY <4>1 DEF SpoolFile
      <4> QED  BY <4>2 DEF Range
    <3>3. \A k \in Range(spool[n].items) : handed'[k] > 0
      BY <1>1, <2>1, <3>2
    <3> QED  BY <1>0, <1>1, <3>3 DEF HandedOver
  <2>6. SpoolKept
    BY <1>0, <1>1, <2>2 DEF SpoolKept
  <2>7. AllSettled'
    BY <1>0, <2>1, <2>6, FileKeepsSettled
  <2>8. Passed'
    BY <1>0, <2>0 DEF InInv, Passed, Treated
  <2> QED  BY <2>3, <2>4, <2>5, <2>7, <2>8 DEF InInv
<1>2. CASE /\ Fault /\ spool' = [spool EXCEPT ![n].ext = "bad"]
           /\ pqueue' = Tail(pqueue) /\ UNCHANGED <<handed, ppc>>
  BY <1>0, <1>2, FileTaken DEF Fault
<1> QED  BY <1>1, <1>2 DEF Post

LEMMA PostUnlinkKeeps == ASSUME InInv, PostUnlink PROVE InInv'
<1>1. pqueue # <<>>
  BY DEF InInv, HandedOver, PostUnlink
<1> QED  BY <1>1, FileTaken DEF PostUnlink

\* The next run begins again with what is published then.
LEMMA PostEndKeeps == ASSUME InInv, PostEnd \/ PostKill PROVE InInv'
<1>1. /\ UNCHANGED <<content, pkt, unpackv, spool, handed, outcome>>
      /\ faults' \in {faults, faults + 1} /\ ppc' = "idle"
      /\ pqueue' \in {pqueue, <<>>}
  BY DEF PostEnd, PostKill, Fault
<1>2. pqueue' \in Seq(DOMAIN spool)
  <2>1. \A S : <<>> \in Seq(S)
    OBVIOUS
  <2>2. pqueue \in Seq(DOMAIN spool)
    BY DEF InInv, InTyped
  <2> QED  BY ONLY <1>1, <2>1, <2>2
<1> USE DEF unpackv
<1>3. Key' = Key  BY <1>1 DEF Key
<1>4. InTyped'
  BY <1>1, <1>2, <1>3 DEF InInv, InTyped, SpoolFile
<1>5. FilesApart' /\ HandedOver'
  <2>1. \A i \in DOMAIN pqueue' : spool[pqueue'[i]].ext # "tmp"
    BY <1>1 DEF InInv, FilesApart
  <2> QED  BY <1>1, <2>1 DEF InInv, FilesApart, HandedOver
<1>6. AllSettled'
  BY <1>1, QuietSettled DEF InInv
<1>7. Passed'
  BY <1>1, <1>3 DEF InInv, Passed, Treated
<1> QED  BY <1>4, <1>5, <1>6, <1>7 DEF InInv

LEMMA ArriveKeeps == ASSUME InInv, NEW p \in Packet, Arrive(p) PROVE InInv'
<1> USE DEF unpackv, postv, Arrive
<1>0. Key' = Key  BY DEF Key
<1>1. pkt \in [Packet -> {"away", "in", "bad", "gone"}]
  BY DEF InInv, InTyped
<1>2. /\ pkt' \in [Packet -> {"away", "in", "bad", "gone"}]
      /\ \A q \in Packet : pkt'[q] = "gone" => pkt[q] = "gone"
  BY <1>1
<1>3. InTyped'
  BY <1>0, <1>2 DEF InInv, InTyped, SpoolFile
<1>4. FilesApart' /\ HandedOver'
  BY DEF InInv, FilesApart, HandedOver
<1>5. AllSettled'
  BY QuietSettled DEF InInv
<1>6. Passed'
  BY <1>0, <1>2, KeyParts DEF InInv, Passed, Treated
<1> QED  BY <1>3, <1>4, <1>5, <1>6 DEF InInv

LEMMA InInitInv ==
  ASSUME NEW s \in Scenarios, InInit(s.in), faults = 0
  PROVE  InInv
<1>1. \A p \in Packet : IsList(s.in.content[p])
  BY ScenariosAssumption DEF Sound
<1>2. ASSUME NEW p \in Packet PROVE Len(content[p]) \in Nat
  <2>1. /\ Len(s.in.content[p]) \in Nat
        /\ DOMAIN s.in.content[p] = 1 .. Len(s.in.content[p])
    BY <1>1, ListProperties
  <2>2. content[p] = [i \in 1 .. Len(s.in.content[p]) |-> content[p][i]]
    BY <2>1 DEF InInit
  <2> QED  BY <2>1, <2>2
<1>3. handed \in [Key -> Nat] /\ outcome = [k \in Key |-> outcome[k]]
  BY DEF InInit
<1>4. InTyped
  BY <1>2, <1>3 DEF InTyped, InInit, SpoolFile
<1>5. \A k \in Key : ~Treated(k) /\ k[1] \in Packet
  BY KeyParts DEF InInit, Treated, Unseen
<1>6. \A p \in Packet : pkt[p] # "gone"
  BY DEF InInit
<1>7. FilesApart /\ HandedOver
  BY DEF FilesApart, HandedOver, InInit
<1>8. AllSettled /\ Passed
  BY <1>5, <1>6 DEF AllSettled, Passed, InInit
<1> QED  BY <1>4, <1>7, <1>8 DEF InInv

LEMMA InNextKeeps == ASSUME InInv, InNext PROVE InInv'
BY BeginKeeps, OpenPacketKeeps, EndKeeps, SkipMessageKeeps, BounceMessageKeeps,
   MailKeeps, MailCloseKeeps, NewsKeeps, ArticleCloseKeeps, UnpackedKeeps,
   RemovePacketKeeps, PostBeginKeeps, PostKeeps, PostUnlinkKeeps, PostEndKeeps
   DEF InNext, GateInStep, PostStep

-----------------------------------------------------------------------------
\* The least of some numbers is one of them.
LEMMA LeastIn ==
  ASSUME NEW S \in SUBSET Nat, S # {}
  PROVE  \E n \in S : \A m \in S : n <= m
<1>1. PICK n \in S : \A m \in S : <<m, n>> \notin OpToRel(<, Nat)
  BY NatLessThanWellFounded, WFMin
<1>2. \A m \in S : ~(m < n)
  BY <1>1 DEF OpToRel
<1> QED  BY <1>2

-----------------------------------------------------------------------------
\* The parts of a message: what the loops that count and that cut them do.

CutPart(u, l, max, total) ==
  IF total > 1 /\ u.size + l.n > max
  THEN [done |-> Append(u.done, Append(u.cur, l)), cur |-> <<>>, size |-> 0]
  ELSE [u EXCEPT !.cur = Append(@, l), !.size = @ + l.n]
CutTo(lines, max, total, w, n) ==
  w = [i \in 0 .. n |->
         IF i = 0 THEN [done |-> <<>>, cur |-> <<>>, size |-> 0]
         ELSE CutPart(w[i - 1], lines[i], max, total)]

LEMMA CutExists ==
  ASSUME NEW lines, NEW max, NEW total, NEW n \in Nat
  PROVE  \E w : CutTo(lines, max, total, w, n)
<1> DEFINE Fails == {m \in Nat : ~\E w : CutTo(lines, max, total, w, m)}
<1>1. SUFFICES ASSUME Fails # {} PROVE FALSE
  OBVIOUS
<1>2. PICK m \in Fails : \A k \in Fails : m <= k
  BY <1>1, LeastIn
<1>3. CASE m = 0
  <2> DEFINE w == [i \in 0 .. 0 |-> [done |-> <<>>, cur |-> <<>>, size |-> 0]]
  <2>1. CutTo(lines, max, total, w, 0)
    BY DEF CutTo
  <2> QED  BY <1>2, <1>3, <2>1
<1>4. CASE m # 0
  <2>1. m \in Nat /\ m - 1 \in Nat /\ m - 1 \notin Fails
    BY <1>2, <1>4
  <2>2. PICK v : CutTo(lines, max, total, v, m - 1)
    BY <2>1
  <2> DEFINE w == [i \in 0 .. m |->
                     IF i = m THEN CutPart(v[m - 1], lines[m], max, total) ELSE v[i]]
  <2>3. \A i \in 0 .. m - 1 : w[i] = v[i] /\ i \in 0 .. m
    BY <2>1
  <2>4. \A i \in 0 .. m - 1 :
          v[i] = IF i = 0 THEN [done |-> <<>>, cur |-> <<>>, size |-> 0]
                 ELSE CutPart(v[i - 1], lines[i], max, total)
    BY <2>2 DEF CutTo
  <2>5. w[m] = CutPart(v[m - 1], lines[m], max, total)
    BY <2>1
  <2>6. w = [i \in 0 .. m |-> w[i]]
    OBVIOUS
  <2> HIDE DEF w
  <2>7. ASSUME NEW i \in 0 .. m
        PROVE  w[i] = IF i = 0 THEN [done |-> <<>>, cur |-> <<>>, size |-> 0]
                      ELSE CutPart(w[i - 1], lines[i], max, total)
    <3>1. CASE i = m
      <4>1. m - 1 \in 0 .. m - 1  BY <2>1
      <4> QED  BY <1>4, <2>3, <2>5, <3>1, <4>1
    <3>2. CASE i = 0
      <4>1. 0 \in 0 .. m - 1  BY <2>1
      <4> QED  BY <2>3, <2>4, <3>2, <4>1
    <3>3. CASE i # m /\ i # 0
      <4>1. i \in 0 .. m - 1 /\ i - 1 \in 0 .. m - 1  BY <2>1, <3>3
      <4> QED  BY <2>3, <2>4, <3>3, <4>1
    <3> QED  BY <3>1, <3>2, <3>3
  <2>8. CutTo(lines, max, total, w, m)
    BY <2>6, <2>7 DEF CutTo
  <2> QED  BY <1>2, <2>8
<1> QED  BY <1>3, <1>4

LEMMA PartsAreCut ==
  ASSUME NEW lines, NEW max, NEW total, Len(lines) \in Nat
  PROVE  \E w : /\ CutTo(lines, max, total, w, Len(lines))
                /\ Parts(lines, max, total) = w[Len(lines)]
<1>1. \A w : CutTo(lines, max, total, w, Len(lines)) <=>
        w = [i \in 0 .. Len(lines) |->
               IF i = 0 THEN [done |-> <<>>, cur |-> <<>>, size |-> 0]
               ELSE CHOOSE r \in {CutPart(u, lines[i], max, total) : u \in {w[i - 1]}} : TRUE]
  <2>1. \A u, l : CutPart(u, l, max, total)
                  = CHOOSE r \in {CutPart(z, l, max, total) : z \in {u}} : TRUE
    OBVIOUS
  <2> QED  BY <2>1 DEF CutTo
<1> DEFINE w == CHOOSE w :
        w = [i \in 0 .. Len(lines) |->
               IF i = 0 THEN [done |-> <<>>, cur |-> <<>>, size |-> 0]
               ELSE CHOOSE r \in {CutPart(u, lines[i], max, total) : u \in {w[i - 1]}} : TRUE]
<1>2. \E v : CutTo(lines, max, total, v, Len(lines))
  BY CutExists
<1>3. CutTo(lines, max, total, w, Len(lines))
  BY <1>1, <1>2
<1>4. Parts(lines, max, total) = w[Len(lines)]
  BY DEF Parts, Walk, CutPart
<1> QED  BY <1>3, <1>4

\* Every part is a sequence of lines, and there is at least one.
LEMMA CutIsTyped ==
  ASSUME NEW R, NEW lines \in Seq(R), NEW max, NEW total, NEW w,
         CutTo(lines, max, total, w, Len(lines)), NEW n \in 0 .. Len(lines)
  PROVE  /\ w[n] = [done |-> w[n].done, cur |-> w[n].cur, size |-> w[n].size]
         /\ w[n].done \in Seq(Seq(R)) /\ w[n].cur \in Seq(R)
         /\ ~(total > 1) => w[n].done = <<>>
<1> DEFINE Good(u) == /\ u = [done |-> u.done, cur |-> u.cur, size |-> u.size]
                      /\ u.done \in Seq(Seq(R)) /\ u.cur \in Seq(R)
                      /\ ~(total > 1) => u.done = <<>>
           Fails == {i \in 0 .. Len(lines) : ~Good(w[i])}
<1>2. Len(lines) \in Nat /\ \A i \in 1 .. Len(lines) : lines[i] \in R
  OBVIOUS
<1>3. \A i \in 0 .. Len(lines) :
        w[i] = IF i = 0 THEN [done |-> <<>>, cur |-> <<>>, size |-> 0]
               ELSE CutPart(w[i - 1], lines[i], max, total)
  BY DEF CutTo
<1>4. ASSUME NEW u, NEW l \in R, Good(u) PROVE Good(CutPart(u, l, max, total))
  <2>1. Append(u.cur, l) \in Seq(R) /\ <<>> \in Seq(R)
    BY <1>4
  <2>2. Append(u.done, Append(u.cur, l)) \in Seq(Seq(R))
    BY <1>4, <2>1
  <2>3. PICK d, c, z : u = [done |-> d, cur |-> c, size |-> z]
    BY <1>4
  <2>4. \/ /\ total > 1
           /\ CutPart(u, l, max, total) =
                [done |-> Append(u.done, Append(u.cur, l)), cur |-> <<>>, size |-> 0]
        \/ CutPart(u, l, max, total) =
             [done |-> u.done, cur |-> Append(u.cur, l), size |-> u.size + l.n]
    BY <2>3 DEF CutPart
  <2>5. \A y : \A e \in Seq(Seq(R)), f \in Seq(R) :
          (~(total > 1) => e = <<>>) => Good([done |-> e, cur |-> f, size |-> y])
    OBVIOUS
  <2> HIDE DEF Good
  <2>6. u.done \in Seq(Seq(R)) /\ u.cur \in Seq(R) /\ (~(total > 1) => u.done = <<>>)
    BY <1>4 DEF Good
  <2> QED  BY <2>1, <2>2, <2>4, <2>5, <2>6
<1>5. Good(w[0])
  <2>1. 0 \in 0 .. Len(lines)  BY <1>2
  <2>2. w[0] = [done |-> <<>>, cur |-> <<>>, size |-> 0]  BY <1>3, <2>1
  <2> QED  BY <2>2
<1> HIDE DEF Good
<1>6. Fails = {}
  <2>1. SUFFICES ASSUME Fails # {} PROVE FALSE
    OBVIOUS
  <2>2. PICK m \in Fails : \A k \in Fails : m <= k
    <3>1. Fails \in SUBSET Nat
      BY <1>2
    <3> HIDE DEF Fails
    <3> QED  BY <2>1, <3>1, LeastIn
  <2>3. m # 0 /\ m \in 1 .. Len(lines) /\ m - 1 \in 0 .. Len(lines)
    BY <1>2, <1>5, <2>2
  <2>4. Good(w[m - 1])
    BY <1>2, <2>2, <2>3
  <2>5. w[m] = CutPart(w[m - 1], lines[m], max, total)
    BY <1>3, <2>2, <2>3
  <2>6. Good(w[m])
    BY <1>2, <1>4, <2>3, <2>4, <2>5
  <2> QED  BY <2>2, <2>6
<1>7. Good(w[n])
  BY <1>6
<1> QED  BY <1>7 DEF Good

LEMMA PartsAreLists ==
  ASSUME NEW R, NEW lines \in Seq(R), NEW max, NEW total
  PROVE  /\ Parts(lines, max, total).done \in Seq(Seq(R))
         /\ Parts(lines, max, total).cur \in Seq(R)
         /\ ~(total > 1) => Parts(lines, max, total).done = <<>>
<1>1. PICK w : /\ CutTo(lines, max, total, w, Len(lines))
               /\ Parts(lines, max, total) = w[Len(lines)]
  BY PartsAreCut
<1>2. PICK n \in 0 .. Len(lines) : n = Len(lines)
  OBVIOUS
<1>3. /\ w[n] = [done |-> w[n].done, cur |-> w[n].cur, size |-> w[n].size]
      /\ w[n].done \in Seq(Seq(R)) /\ w[n].cur \in Seq(R)
      /\ ~(total > 1) => w[n].done = <<>>
  BY <1>1, CutIsTyped
<1> QED  BY <1>1, <1>2, <1>3

CountPart(u, l, max) ==
  IF u.size + l.n > max
  THEN [parts |-> u.parts + 1, size |-> 0]
  ELSE [u EXCEPT !.size = @ + l.n]
CountTo(lines, max, v, n) ==
  v = [i \in 0 .. n |->
         IF i = 0 THEN [parts |-> 1, size |-> 0] ELSE CountPart(v[i - 1], lines[i], max)]

\* One part is counted for each that is cut.
LEMMA CountsTheCut ==
  ASSUME NEW R, NEW lines \in Seq(R), NEW max, NEW total, total > 1
  PROVE  Count(lines, max) = Len(Parts(lines, max, total).done) + 1
<1>1. PICK w : /\ CutTo(lines, max, total, w, Len(lines))
               /\ Parts(lines, max, total) = w[Len(lines)]
  BY PartsAreCut
<1>2. Len(lines) \in Nat /\ \A i \in 1 .. Len(lines) : lines[i] \in R
  OBVIOUS
<1>3. \A i \in 0 .. Len(lines) :
        w[i] = IF i = 0 THEN [done |-> <<>>, cur |-> <<>>, size |-> 0]
               ELSE CutPart(w[i - 1], lines[i], max, total)
  BY <1>1 DEF CutTo
<1>4. ASSUME NEW i \in 0 .. Len(lines)
      PROVE  /\ w[i] = [done |-> w[i].done, cur |-> w[i].cur, size |-> w[i].size]
             /\ w[i].done \in Seq(Seq(R)) /\ w[i].cur \in Seq(R)
  BY <1>1, CutIsTyped
<1> DEFINE Same(i, x) == x = [parts |-> Len(w[i].done) + 1, size |-> w[i].size]
<1>5. \A x : Same(0, x) <=> x = [parts |-> 1, size |-> 0]
  <2>1. 0 \in 0 .. Len(lines)  BY <1>2
  <2>2. w[0] = [done |-> <<>>, cur |-> <<>>, size |-> 0]  BY <1>3, <2>1
  <2> QED  BY <2>2
<1>6. ASSUME NEW i \in 1 .. Len(lines), NEW x, Same(i - 1, x)
      PROVE  Same(i, CountPart(x, lines[i], max))
  <2>0. i \in 0 .. Len(lines) /\ i - 1 \in 0 .. Len(lines) /\ i # 0
    BY <1>2
  <2>1. PICK d, c, z : w[i - 1] = [done |-> d, cur |-> c, size |-> z]
    BY <1>4, <2>0
  <2>2. d \in Seq(Seq(R)) /\ c \in Seq(R)
    BY <1>4, <2>0, <2>1
  <2>3. x = [parts |-> Len(d) + 1, size |-> z]
    BY <1>6, <2>1
  <2>4. w[i] = CutPart(w[i - 1], lines[i], max, total)
    BY <1>3, <2>0
  <2>5. CASE z + lines[i].n > max
    <3>1. w[i] = [done |-> Append(d, Append(c, lines[i])), cur |-> <<>>, size |-> 0]
      BY <2>1, <2>4, <2>5 DEF CutPart
    <3>2. CountPart(x, lines[i], max) = [parts |-> Len(d) + 1 + 1, size |-> 0]
      BY <2>3, <2>5 DEF CountPart
    <3>3. Len(Append(d, Append(c, lines[i]))) = Len(d) + 1
      BY <2>2
    <3> QED  BY <3>1, <3>2, <3>3
  <2>6. CASE ~(z + lines[i].n > max)
    <3>1. w[i] = [done |-> d, cur |-> Append(c, lines[i]), size |-> z + lines[i].n]
      <4>1. PICK u : u = [done |-> d, cur |-> c, size |-> z]
        OBVIOUS
      <4>2. CutPart(u, lines[i], max, total)
              = [done |-> d, cur |-> Append(c, lines[i]), size |-> z + lines[i].n]
        BY <2>6, <4>1 DEF CutPart
      <4> QED  BY <2>1, <2>4, <4>1, <4>2
    <3>2. CountPart(x, lines[i], max) = [parts |-> Len(d) + 1, size |-> z + lines[i].n]
      BY <2>3, <2>6 DEF CountPart
    <3> QED  BY <3>1, <3>2
  <2> QED  BY <2>5, <2>6
<1> DEFINE counted == [i \in 0 .. Len(lines) |->
                         [parts |-> Len(w[i].done) + 1, size |-> w[i].size]]
<1>7. CountTo(lines, max, counted, Len(lines))
  <2> SUFFICES ASSUME NEW i \in 0 .. Len(lines)
               PROVE  counted[i] = IF i = 0 THEN [parts |-> 1, size |-> 0]
                                   ELSE CountPart(counted[i - 1], lines[i], max)
    BY DEF CountTo
  <2>1. CASE i = 0
    BY <1>5, <2>1
  <2>2. CASE i # 0
    <3>1. i \in 1 .. Len(lines) /\ i - 1 \in 0 .. Len(lines)
      BY <1>2, <2>2
    <3>2. Same(i - 1, counted[i - 1])
      BY <3>1
    <3>3. Same(i, CountPart(counted[i - 1], lines[i], max))
      BY <1>6, <3>1, <3>2
    <3> QED  BY <2>2, <3>3
  <2> QED  BY <2>1, <2>2
<1> HIDE DEF counted
<1>8. ASSUME NEW v, CountTo(lines, max, v, Len(lines))
      PROVE  v[Len(lines)].parts = Len(w[Len(lines)].done) + 1
  <2> DEFINE Fails == {i \in 0 .. Len(lines) : ~Same(i, v[i])}
  <2>1. \A i \in 0 .. Len(lines) :
          v[i] = IF i = 0 THEN [parts |-> 1, size |-> 0]
                 ELSE CountPart(v[i - 1], lines[i], max)
    BY <1>8 DEF CountTo
  <2> HIDE DEF Same
  <2>2. Fails = {}
    <3>1. SUFFICES ASSUME Fails # {} PROVE FALSE
      OBVIOUS
    <3>2. PICK m \in Fails : \A k \in Fails : m <= k
      <4>1. Fails \in SUBSET Nat
        BY <1>2
      <4> HIDE DEF Fails
      <4> QED  BY <3>1, <4>1, LeastIn
    <3>3. m # 0
      <4>1. 0 \in 0 .. Len(lines)  BY <1>2
      <4> QED  BY <1>5, <2>1, <3>2, <4>1
    <3>4. m \in 1 .. Len(lines) /\ m - 1 \in 0 .. Len(lines) /\ m - 1 \notin Fails
      BY <1>2, <3>2, <3>3
    <3>5. Same(m - 1, v[m - 1])
      BY <3>4
    <3>6. v[m] = CountPart(v[m - 1], lines[m], max)
      BY <2>1, <3>2, <3>3
    <3> QED  BY <1>6, <3>2, <3>4, <3>5, <3>6
  <2>3. Same(Len(lines), v[Len(lines)])
    BY <1>2, <2>2
  <2> QED  BY <2>3 DEF Same
<1>9. PICK v : CountTo(lines, max, v, Len(lines)) /\ Count(lines, max) = v[Len(lines)].parts
  <2>1. \A v : CountTo(lines, max, v, Len(lines)) <=>
          v = [i \in 0 .. Len(lines) |->
                 IF i = 0 THEN [parts |-> 1, size |-> 0]
                 ELSE CHOOSE r \in {CountPart(u, lines[i], max) : u \in {v[i - 1]}} : TRUE]
    <3>1. \A u, l : CountPart(u, l, max)
                    = CHOOSE r \in {CountPart(z, l, max) : z \in {u}} : TRUE
      OBVIOUS
    <3> QED  BY <3>1 DEF CountTo
  <2> DEFINE v == CHOOSE v :
          v = [i \in 0 .. Len(lines) |->
                 IF i = 0 THEN [parts |-> 1, size |-> 0]
                 ELSE CHOOSE r \in {CountPart(u, lines[i], max) : u \in {v[i - 1]}} : TRUE]
  <2>2. CountTo(lines, max, v, Len(lines))
    BY <1>7, <2>1
  <2>3. Count(lines, max) = v[Len(lines)].parts
    BY DEF Count, Walk, CountPart
  <2> QED  BY <2>2, <2>3
<1> QED  BY <1>1, <1>8, <1>9

\* The number that a message is said to have parts is that of its parts: the
\* loop that counts them and the one that cuts them agree (rfc2ftn.c:992).
THEOREM PartsCounted ==
  ASSUME NEW lines, IsList(lines), NEW max
  PROVE  PartsTotal(lines, max) = Len(PartsOf(lines, max))
<1>1. PICK total : total = PartsTotal(lines, max)
  OBVIOUS
<1>2. PICK ps : ps = Parts(lines, max, total)
  OBVIOUS
<1>3. ps.done \in Seq(Seq(Range(lines))) /\ ps.cur \in Seq(Range(lines))
  BY <1>2, PartsAreLists DEF IsList
<1>4. Len(PartsOf(lines, max)) = Len(ps.done) + 1
  BY <1>1, <1>2, <1>3 DEF PartsOf
<1>5. CASE max # 0 /\ total > 1
  <2>1. total = Count(lines, max)
    BY <1>1, <1>5 DEF PartsTotal
  <2>2. Count(lines, max) = Len(ps.done) + 1
    BY <1>2, <1>5, CountsTheCut DEF IsList
  <2> QED  BY <1>1, <1>4, <2>1, <2>2
<1>6. CASE ~(max # 0 /\ total > 1)
  <2>1. total = 1
    <3>1. Count(lines, max) \in Nat \ {0}
      <4>1. Parts(lines, max, 2).done \in Seq(Seq(Range(lines)))
        BY PartsAreLists DEF IsList
      <4>2. Len(Parts(lines, max, 2).done) \in Nat
        BY <4>1
      <4> QED  BY <4>2, CountsTheCut DEF IsList
    <3> QED  BY <1>1, <1>6, <3>1 DEF PartsTotal
  <2>2. ps.done = <<>>
    BY <1>2, <2>1, PartsAreLists DEF IsList
  <2> QED  BY <1>1, <1>4, <2>1, <2>2
<1> QED  BY <1>5, <1>6

LEMMA SomePart ==
  ASSUME NEW lines, NEW max, IsList(lines)
  PROVE  Len(PartsOf(lines, max)) \in Nat \ {0}
<1>1. PICK total : total = PartsTotal(lines, max)
  OBVIOUS
<1>2. PICK ps : ps = Parts(lines, max, total)
  OBVIOUS
<1>3. ps.done \in Seq(Seq(Range(lines))) /\ ps.cur \in Seq(Range(lines))
  BY <1>2, PartsAreLists DEF IsList
<1>4. PartsOf(lines, max) = Append(ps.done, ps.cur)
  BY <1>1, <1>2 DEF PartsOf
<1>5. Len(Append(ps.done, ps.cur)) = Len(ps.done) + 1 /\ Len(ps.done) \in Nat
  BY <1>3
<1> QED  BY <1>4, <1>5

-----------------------------------------------------------------------------
\* rfc2ftn.

LEMMA AnyList ==
  ASSUME NEW S, NEW s \in Seq(S)
  PROVE  IsList(s)
<1>1. Len(s) \in Nat /\ DOMAIN s = 1 .. Len(s) /\ s = [i \in 1 .. Len(s) |-> s[i]]
  OBVIOUS
<1>2. \A i \in 1 .. Len(s) : s[i] \in Range(s)
  BY <1>1 DEF Range
<1>3. s \in [1 .. Len(s) -> Range(s)]
  BY <1>1, <1>2
<1> QED  BY <1>1, <1>3 DEF IsList

\* What the steps keep of the jobs, the place in them and the packets.
OutFile(f) == f = [zone |-> f.zone, ext |-> f.ext, items |-> f.items] /\ IsList(f.items)
SoundJobs ==
  /\ IsList(jobs)
  /\ \A j \in DOMAIN jobs :
       /\ IsList(jobs[j].arts)
       /\ \A i \in DOMAIN jobs[j].arts :
            /\ jobs[j].arts[i].there \in BOOLEAN
            /\ IsList(jobs[j].arts[i].targets) /\ IsList(jobs[j].arts[i].lines)
OutTyped ==
  /\ SoundJobs
  /\ opc \in {"idle", "list", "mail", "send", "remove"}
  /\ jn \in Nat \ {0} /\ off \in Nat \ {0}
  /\ pos # NONE => pos \in Nat \ {0}
  /\ opc # "idle" => jn \in DOMAIN jobs
  /\ opc = "send" => off - 1 \in DOMAIN Job.arts /\ todo \in Seq(DOMAIN Art.targets)
  /\ given = [k \in Targets |-> given[k]]
  /\ IsList(outp) /\ \A n \in DOMAIN outp : OutFile(outp[n])
  /\ opkt # NONE => opkt \in DOMAIN outp

\* ArticleKept of one article and target.
Dealt(k) ==
  \/ jobs[k[1]].arts[k[2]].there = FALSE
  \/ given[k] \in {"none", "excluded", "denied", "big", "nohost", "failed"}
  \/ \E n \in DOMAIN outp : In(k, n)

\* What lies behind the place that a run has reached, or that the next one
\* begins at.
Behind(k) ==
  \/ k[1] < jn
  \/ k[1] = jn /\ pos # NONE /\ k[2] < pos
  \/ k[1] = jn /\ opc # "idle" /\ k[2] < off - 1
  \/ k[1] = jn /\ opc \in {"list", "mail"} /\ k[2] < off
  \/ k[1] = jn /\ opc = "send" /\ k[2] = off - 1 /\ k[3] \notin Range(todo)
  \/ k[1] = jn /\ opc = "remove"

AllDealt == \A k \in Targets : Behind(k) => Dealt(k)
OutInv == OutTyped /\ AllDealt

LEMMA TargetParts ==
  ASSUME OutTyped, NEW k \in Targets
  PROVE  /\ k = <<k[1], k[2], k[3]>> /\ k[1] \in DOMAIN jobs
         /\ k[2] \in DOMAIN jobs[k[1]].arts
         /\ k[3] \in DOMAIN jobs[k[1]].arts[k[2]].targets
         /\ k[1] \in Nat \ {0} /\ k[2] \in Nat \ {0} /\ k[3] \in Nat \ {0}
<1>1. /\ k = <<k[1], k[2], k[3]>> /\ k[1] \in DOMAIN jobs
      /\ k[2] \in DOMAIN jobs[k[1]].arts
      /\ k[3] \in DOMAIN jobs[k[1]].arts[k[2]].targets
  BY DEF Targets
<1>2. \A s : IsList(s) => DOMAIN s \subseteq Nat \ {0}
  BY ListProperties
<1> QED  BY <1>1, <1>2 DEF OutTyped, SoundJobs

\* The packets keep what they hold.
OutKept ==
  /\ jobs' = jobs
  /\ \A k \in Targets, n \in DOMAIN outp : In(k, n) => n \in DOMAIN outp' /\ In(k, n)'

LEMMA DealtStays ==
  ASSUME OutKept, NEW k \in Targets, Dealt(k),
         given'[k] = given[k] \/ (\E n \in DOMAIN outp' : In(k, n)')
           \/ given'[k] \in {"none", "excluded", "denied", "big", "nohost", "failed"}
  PROVE  Dealt(k)'
BY DEF OutKept, Dealt

LEMMA SameOut ==
  ASSUME UNCHANGED <<jobs, outp>>
  PROVE  OutKept
BY DEF OutKept, In

\* Steps that treat no target.
LEMMA QuietOut ==
  ASSUME OutInv, UNCHANGED <<jobs, given, outp>>,
         \A k \in Targets : Behind(k)' => Behind(k) \/ Dealt(k)
  PROVE  AllDealt'
<1>1. Targets' = Targets  BY DEF Targets
<1>2. \A k \in Targets : Dealt(k) => Dealt(k)'
  BY SameOut, DealtStays
<1> QED  BY <1>1, <1>2 DEF OutInv, AllDealt

LEMMA OutBeginKeeps == ASSUME OutInv, OutBegin PROVE OutInv'
<1>0. Targets' = Targets /\ Job' = Job  BY DEF Targets, Job, OutBegin
<1>1. jn \in DOMAIN jobs
  BY ListProperties DEF OutInv, OutTyped, SoundJobs, OutBegin
<1>2. off' \in Nat \ {0} /\ opc' \in {"list", "mail"}
  BY DEF OutInv, OutTyped, OutBegin
<1>3. OutTyped'
  BY <1>0, <1>1, <1>2 DEF OutInv, OutTyped, SoundJobs, OutBegin
<1>4. \A k \in Targets : Behind(k)' => Behind(k)
  BY <1>2, TargetParts DEF OutInv, OutTyped, Behind, OutBegin
<1>5. AllDealt'
  BY <1>4, QuietOut DEF OutBegin
<1> QED  BY <1>3, <1>5 DEF OutInv

LEMMA ReadArticleKeeps == ASSUME OutInv, ReadArticle PROVE OutInv'
<1>0. Targets' = Targets /\ Job' = Job  BY DEF Targets, Job, ReadArticle
<1>1. /\ IsList(Job.arts) /\ off \in DOMAIN Job.arts /\ jn \in DOMAIN jobs
      /\ off \in Nat \ {0} /\ off' = off + 1
  BY ListProperties DEF OutInv, OutTyped, SoundJobs, ReadArticle, Job
<1>2. pos' # NONE => pos' \in Nat \ {0}
  BY <1>1 DEF OutInv, OutTyped, ReadArticle, Position
<1>3. CASE Job.arts[off].there
  <2>1. /\ opc' = "send"
        /\ todo' = [t \in 1 .. Len(Job.arts[off].targets) |-> t]
    BY <1>3 DEF ReadArticle
  <2>2. /\ DOMAIN Job.arts[off].targets = 1 .. Len(Job.arts[off].targets)
        /\ Len(Job.arts[off].targets) \in Nat
    BY <1>1, ListProperties DEF OutInv, OutTyped, SoundJobs, Job
  <2>3. todo' \in Seq(DOMAIN Job.arts[off].targets)
        /\ \A t \in DOMAIN Job.arts[off].targets : t \in Range(todo')
    BY <2>1, <2>2 DEF Range
  <2>4. off' - 1 = off /\ Art' = Job.arts[off]
    BY <1>0, <1>1 DEF Art
  <2>5. OutTyped'
    BY <1>0, <1>1, <1>2, <2>1, <2>3, <2>4 DEF OutInv, OutTyped, SoundJobs, ReadArticle
  <2>6. ASSUME NEW k \in Targets, Behind(k)' PROVE Behind(k)
    <3>1. k[2] \in Nat /\ (k[1] = jn => k[3] \in DOMAIN Job.arts[k[2]].targets)
      BY TargetParts DEF OutInv, Job
    <3>2. UNCHANGED jn /\ pos' \in {off, pos} /\ opc \in {"list", "mail"}
      BY DEF ReadArticle, Position
    <3> QED  BY <1>1, <2>1, <2>3, <2>4, <2>6, <3>1, <3>2 DEF Behind
  <2>7. AllDealt'
    BY <2>6, QuietOut DEF ReadArticle
  <2> QED  BY <2>5, <2>7 DEF OutInv
<1>4. CASE ~Job.arts[off].there
  <2>1. UNCHANGED <<todo, nmsg, opc>> /\ opc \in {"list", "mail"}
    BY <1>4 DEF ReadArticle
  <2>2. OutTyped'
    BY <1>0, <1>1, <1>2, <2>1 DEF OutInv, OutTyped, SoundJobs, ReadArticle
  <2>3. ASSUME NEW k \in Targets, Behind(k)' PROVE Behind(k) \/ Dealt(k)
    <3>1. k[2] \in Nat
      BY TargetParts DEF OutInv
    <3>2. UNCHANGED jn /\ pos' \in {off, pos}
      BY DEF ReadArticle, Position
    <3>3. k[1] = jn /\ k[2] = off => Dealt(k)
      BY <1>1, <1>4 DEF Dealt, Job, OutInv, OutTyped, SoundJobs
    <3> QED  BY <1>1, <2>1, <2>3, <3>1, <3>2, <3>3 DEF Behind
  <2>4. AllDealt'
    BY <2>3, QuietOut DEF ReadArticle
  <2> QED  BY <2>2, <2>4 DEF OutInv
<1> QED  BY <1>3, <1>4

LEMMA SendingPlace ==
  ASSUME OutInv, Sending
  PROVE  /\ At \in Targets /\ At = <<jn, off - 1, Head(todo)>>
         /\ todo \in Seq(DOMAIN Art.targets) /\ todo # <<>> /\ opc = "send"
         /\ Head(todo) \in DOMAIN Art.targets /\ Tail(todo) \in Seq(DOMAIN Art.targets)
         /\ \A t \in Range(todo) : t = Head(todo) \/ t \in Range(Tail(todo))
<1>1. /\ todo \in Seq(DOMAIN Art.targets) /\ todo # <<>> /\ opc = "send"
      /\ jn \in DOMAIN jobs /\ off - 1 \in DOMAIN Job.arts
  BY DEF OutInv, OutTyped, Sending
<1>2. /\ Head(todo) \in DOMAIN Art.targets /\ Tail(todo) \in Seq(DOMAIN Art.targets)
      /\ \A t \in Range(todo) : t = Head(todo) \/ t \in Range(Tail(todo))
  BY <1>1, HeadAndTail
<1>3. At \in Targets
  BY <1>1, <1>2 DEF At, Targets, Art, Job
<1> QED  BY <1>1, <1>2, <1>3 DEF At

\* A step that treats targets of the article deals with them.
LEMMA TreatedDealt ==
  ASSUME OutInv, Sending, OutKept, UNCHANGED <<opc, jn, off, pos>>,
         \A k \in Targets : Dealt(k) => Dealt(k)',
         \A k \in Targets : k[1] = jn /\ k[2] = off - 1 /\ k[3] \in Range(todo)
                            => k[3] \in Range(todo') \/ Dealt(k)'
  PROVE  AllDealt'
<1>1. Targets' = Targets  BY DEF Targets, OutKept
<1>2. ASSUME NEW k \in Targets, Behind(k)' PROVE Dealt(k)'
  BY <1>2, SendingPlace DEF OutInv, AllDealt, Behind
<1> QED  BY <1>1, <1>2 DEF AllDealt

LEMMA SkipKeeps ==
  ASSUME OutInv, Sending, NEW v, v = V, NEW zone, Skip(v, zone)
  PROVE  OutInv'
<1>1. /\ At \in Targets /\ At = <<jn, off - 1, Head(todo)>>
      /\ Tail(todo) \in Seq(DOMAIN Art.targets)
      /\ \A t \in Range(todo) : t = Head(todo) \/ t \in Range(Tail(todo))
  BY SendingPlace
<1>2. v \in {"none", "excluded", "denied", "big", "nohost"}
  BY DEF Skip, V, Verdict
<1>3. /\ given' = [given EXCEPT ![At] = v] /\ todo' = Tail(todo)
      /\ UNCHANGED <<jobs, opc, jn, off, pos, opkt, outp>>
  BY DEF Skip
<1>4. given = [k \in Targets |-> given[k]]
  BY DEF OutInv, OutTyped
<1>5. /\ given' = [k \in Targets |-> given'[k]] /\ given'[At] = v
      /\ \A k \in Targets \ {At} : given'[k] = given[k]
  BY <1>1, <1>3, <1>4
<1>6. Targets' = Targets /\ Job' = Job /\ Art' = Art
  BY <1>3 DEF Targets, Job, Art
<1>7. OutTyped'
  BY <1>1, <1>3, <1>5, <1>6 DEF OutInv, OutTyped, SoundJobs
<1>8. OutKept
  BY <1>3, SameOut
<1>9. AllDealt'
  <2>1. ASSUME NEW k \in Targets, Dealt(k) PROVE Dealt(k)'
    BY <1>2, <1>5, <1>8, <2>1, DealtStays
  <2>2. ASSUME NEW k \in Targets, k[1] = jn, k[2] = off - 1, k[3] \in Range(todo),
               k[3] \notin Range(todo')
        PROVE  Dealt(k)'
    <3>1. k = At
      BY <1>1, <1>3, <2>2, TargetParts DEF OutInv
    <3>2. given'[k] \in {"none", "excluded", "denied", "big", "nohost"}
      BY <1>2, <1>5, <3>1
    <3> QED  BY <3>2 DEF Dealt
  <2> QED  BY <1>3, <1>8, <2>1, <2>2, TreatedDealt
<1> QED  BY <1>7, <1>9 DEF OutInv

\* A packet is closed: only its name changes.
LEMMA PublishKeeps ==
  ASSUME OutTyped, opkt # NONE, outp' = Publish(opkt), jobs' = jobs
  PROVE  /\ OutKept /\ DOMAIN outp' = DOMAIN outp
         /\ IsList(outp') /\ \A n \in DOMAIN outp' : OutFile(outp'[n])
<1> DEFINE f == outp[opkt]
           g == [zone |-> f.zone, ext |-> "pkt", items |-> f.items]
<1>1. opkt \in DOMAIN outp /\ outp \in Seq(Range(outp)) /\ OutFile(f)
  BY DEF OutTyped, IsList
<1>2. outp' = [outp EXCEPT ![opkt] = g]
  <2>1. PICK z, e, i : f = [zone |-> z, ext |-> e, items |-> i]
    BY <1>1 DEF OutFile
  <2>2. [f EXCEPT !.ext = "pkt"] = g
    BY <2>1
  <2> QED  BY <2>2 DEF Publish
<1>3. OutFile(g) /\ g.items = f.items
  BY <1>1 DEF OutFile
<1> HIDE DEF g
<1>4. opkt \in 1 .. Len(outp) /\ outp \in Seq(Range(outp) \cup {g})
  BY <1>1
<1>5. [outp EXCEPT ![opkt] = g] \in Seq(Range(outp) \cup {g})
  BY <1>4, ExceptSeq
<1>6. /\ IsList(outp') /\ DOMAIN outp' = DOMAIN outp /\ outp'[opkt] = g
      /\ \A n \in DOMAIN outp \ {opkt} : outp'[n] = outp[n]
  BY <1>1, <1>2, <1>5, AnyList
<1>7. \A n \in DOMAIN outp' : OutFile(outp'[n]) /\ outp'[n].items = outp[n].items
  BY <1>3, <1>6 DEF OutTyped
<1>8. OutKept
  BY <1>6, <1>7 DEF OutKept, In
<1> QED  BY <1>6, <1>7, <1>8

LEMMA CloseFirstKeeps ==
  ASSUME OutInv, Sending, NEW v, NEW zone, CloseFirst(v, zone)
  PROVE  OutInv'
<1>1. /\ opkt # NONE /\ outp' = Publish(opkt) /\ opkt' = NONE
      /\ UNCHANGED <<jobs, opc, jn, off, pos, todo, given>>
  BY DEF CloseFirst, MustClose
<1>2. /\ OutKept /\ IsList(outp') /\ \A n \in DOMAIN outp' : OutFile(outp'[n])
  BY <1>1, PublishKeeps DEF OutInv
<1>3. Targets' = Targets /\ Job' = Job /\ Art' = Art
  BY <1>1 DEF Targets, Job, Art
<1>4. OutTyped'
  BY <1>1, <1>2, <1>3 DEF OutInv, OutTyped, SoundJobs
<1>5. \A k \in Targets : Dealt(k) => Dealt(k)'
  BY <1>1, <1>2, DealtStays
<1>6. AllDealt'
  BY <1>1, <1>2, <1>5, TreatedDealt
<1> QED  BY <1>4, <1>6 DEF OutInv

\* The other groups are given up when one of them fails.
LEMMA GiveUpDeals ==
  ASSUME OutInv, Sending, GiveUp, OutKept, UNCHANGED <<opc, jn, off, pos>>
  PROVE  /\ given' = [k \in Targets |-> given'[k]]
         /\ todo' \in Seq(DOMAIN Art.targets)
         /\ AllDealt'
<1>1. /\ Tail(todo) \in Seq(DOMAIN Art.targets)
      /\ \A t \in Range(todo) : t = Head(todo) \/ t \in Range(Tail(todo))
  BY SendingPlace
<1>2. given = [k \in Targets |-> given[k]]
  BY DEF OutInv, OutTyped
<1>3. /\ given' = [k \in Targets |-> given'[k]]
      /\ \A k \in Targets : given'[k] = IF k[1] = jn /\ k[2] = off - 1 /\ k[3] \in GivenUp
                                        THEN "failed" ELSE given[k]
  BY <1>2 DEF GiveUp
<1>4. todo' \in Seq(DOMAIN Art.targets)
  <2>1. \A S : <<>> \in Seq(S)
    OBVIOUS
  <2>2. todo' = <<>> \/ todo' = Tail(todo)
    BY DEF GiveUp
  <2> QED  BY ONLY <1>1, <2>1, <2>2
<1>5. \A t \in Range(todo) : t \in Range(todo') \/ t \in GivenUp
  BY <1>1 DEF GiveUp, GivenUp
<1>6. ASSUME NEW k \in Targets, Dealt(k) PROVE Dealt(k)'
  <2>1. given'[k] \in {given[k], "failed"}
    BY <1>3
  <2> QED  BY <1>6, <2>1, DealtStays
<1>7. ASSUME NEW k \in Targets, k[1] = jn, k[2] = off - 1, k[3] \in Range(todo),
             k[3] \notin Range(todo')
      PROVE  Dealt(k)'
  <2>1. given'[k] = "failed"
    BY <1>3, <1>5, <1>7
  <2> QED  BY <2>1 DEF Dealt
<1>8. AllDealt'
  BY <1>6, <1>7, TreatedDealt
<1> QED  BY <1>3, <1>4, <1>8

LEMMA NoPacketKeeps ==
  ASSUME OutInv, Sending, NEW v, NEW zone, NoPacket(v, zone)
  PROVE  OutInv'
<1>1. GiveUp /\ UNCHANGED <<jobs, opc, jn, off, pos, opkt, outp>>
  BY DEF NoPacket
<1>2. OutKept
  BY <1>1, SameOut
<1>3. /\ given' = [k \in Targets |-> given'[k]]
      /\ todo' \in Seq(DOMAIN Art.targets) /\ AllDealt'
  BY <1>1, <1>2, GiveUpDeals
<1>4. Targets' = Targets /\ Job' = Job /\ Art' = Art
  BY <1>1 DEF Targets, Job, Art
<1>5. OutTyped'
  BY <1>1, <1>3, <1>4 DEF OutInv, OutTyped, SoundJobs
<1> QED  BY <1>3, <1>5 DEF OutInv

\* The packet that is open, or a new one.
LEMMA OpenPktFiles ==
  ASSUME OutTyped, NEW zone
  PROVE  /\ IsList(OpenPkt(zone)) /\ PktNo \in DOMAIN OpenPkt(zone)
         /\ \A n \in DOMAIN OpenPkt(zone) : OutFile(OpenPkt(zone)[n])
         /\ \A n \in DOMAIN outp : n \in DOMAIN OpenPkt(zone) /\ OpenPkt(zone)[n] = outp[n]
<1>1. CASE opkt # NONE
  BY <1>1 DEF OpenPkt, PktNo, OutTyped
<1>2. CASE opkt = NONE
  <2> DEFINE f == [zone |-> zone, ext |-> "tmp", items |-> <<>>]
  <2>1. OutFile(f)
    BY DEF OutFile, IsList
  <2>2. OpenPkt(zone) = Append(outp, f) /\ PktNo = Len(outp) + 1
    BY <1>2 DEF OpenPkt, PktNo
  <2> HIDE DEF f
  <2>3. outp \in Seq(Range(outp)) /\ \A n \in DOMAIN outp : OutFile(outp[n])
    BY DEF OutTyped, IsList
  <2>4. outp \in Seq(Range(outp) \cup {f}) /\ Len(outp) \in Nat /\ DOMAIN outp = 1 .. Len(outp)
    BY <2>3
  <2>5. /\ Append(outp, f) \in Seq(Range(outp) \cup {f})
        /\ DOMAIN Append(outp, f) = 1 .. Len(outp) + 1
        /\ Append(outp, f)[Len(outp) + 1] = f
        /\ \A n \in 1 .. Len(outp) : Append(outp, f)[n] = outp[n]
    BY <2>4
  <2>6. \A n \in 1 .. Len(outp) + 1 : n \in 1 .. Len(outp) \/ n = Len(outp) + 1
    BY <2>4
  <2>7. IsList(OpenPkt(zone))
    BY <2>2, <2>5, AnyList
  <2>8. PktNo \in DOMAIN OpenPkt(zone)
    BY <2>2, <2>4, <2>5
  <2>9. \A n \in DOMAIN OpenPkt(zone) : OutFile(OpenPkt(zone)[n])
    BY <2>1, <2>2, <2>3, <2>4, <2>5, <2>6
  <2>10. \A n \in DOMAIN outp : n \in DOMAIN OpenPkt(zone) /\ OpenPkt(zone)[n] = outp[n]
    BY <2>2, <2>4, <2>5
  <2> QED  BY <2>7, <2>8, <2>9, <2>10
<1> QED  BY <1>1, <1>2

LEMMA NoTextKeeps ==
  ASSUME OutInv, Sending, NEW v, NEW zone, NoText(v, zone)
  PROVE  OutInv'
<1>1. /\ GiveUp /\ outp' = OpenPkt(zone) /\ opkt' = PktNo
      /\ UNCHANGED <<jobs, opc, jn, off, pos>>
  BY DEF NoText
<1>2. /\ IsList(outp') /\ opkt' \in DOMAIN outp'
      /\ \A n \in DOMAIN outp' : OutFile(outp'[n])
      /\ \A n \in DOMAIN outp : n \in DOMAIN outp' /\ outp'[n] = outp[n]
  BY <1>1, OpenPktFiles DEF OutInv
<1>3. OutKept
  BY <1>1, <1>2 DEF OutKept, In
<1>4. /\ given' = [k \in Targets |-> given'[k]]
      /\ todo' \in Seq(DOMAIN Art.targets) /\ AllDealt'
  BY <1>1, <1>3, GiveUpDeals
<1>5. Targets' = Targets /\ Job' = Job /\ Art' = Art
  BY <1>1 DEF Targets, Job, Art
<1>6. OutTyped'
  BY <1>1, <1>2, <1>4, <1>5 DEF OutInv, OutTyped, SoundJobs
<1> QED  BY <1>4, <1>6 DEF OutInv

LEMMA ListsJoined ==
  ASSUME NEW S, NEW s \in Seq(S), NEW t \in Seq(S)
  PROVE  /\ IsList(s \o t)
         /\ \A i \in DOMAIN s : i \in DOMAIN (s \o t) /\ (s \o t)[i] = s[i]
         /\ t # <<>> => /\ Len(s) + 1 \in DOMAIN (s \o t)
                        /\ (s \o t)[Len(s) + 1] = t[1]
<1>1. s \o t \in Seq(S)
  OBVIOUS
<1>2. IsList(s \o t)
  BY <1>1, AnyList
<1>3. /\ Len(s) \in Nat /\ Len(t) \in Nat /\ DOMAIN s = 1 .. Len(s)
      /\ DOMAIN (s \o t) = 1 .. Len(s) + Len(t)
      /\ \A i \in 1 .. Len(s) + Len(t) :
           (s \o t)[i] = IF i <= Len(s) THEN s[i] ELSE t[i - Len(s)]
      /\ t # <<>> => Len(t) > 0
  OBVIOUS
<1> QED  BY <1>2, <1>3

LEMMA MoreItems ==
  ASSUME NEW f, OutFile(f), NEW new
  PROVE  [f EXCEPT !.items = @ \o new]
           = [zone |-> f.zone, ext |-> f.ext, items |-> f.items \o new]
<1>1. PICK z, e, i : f = [zone |-> z, ext |-> e, items |-> i]
  BY DEF OutFile
<1>2. PICK j : j = f.items \o new
  OBVIOUS
<1>3. [f EXCEPT !.items = j] = [zone |-> z, ext |-> e, items |-> j]
  BY <1>1
<1> QED  BY <1>1, <1>2, <1>3

\* The message goes into the packet, in at least one part.
LEMMA SendMessageKeeps ==
  ASSUME OutInv, Sending, NEW v, NEW zone, SendMessage(v, zone)
  PROVE  OutInv'
<1> DEFINE total == PartsTotal(Art.lines, MaxSize(TargetArea))
           n == Len(PartsOf(Art.lines, MaxSize(TargetArea)))
           new == [i \in 1 .. n |-> [key |-> At, part |-> i, of |-> total]]
           files == OpenPkt(zone)
           f == files[PktNo]
           g == [zone |-> f.zone, ext |-> f.ext, items |-> f.items \o new]
<1>1. /\ outp' = [files EXCEPT ![PktNo].items = @ \o new]
      /\ \/ given' = [given EXCEPT ![At] = "sent"]
         \/ given' = [given EXCEPT ![At] = "unremembered"]
      /\ opkt' = PktNo /\ todo' = Tail(todo)
      /\ UNCHANGED <<jobs, opc, jn, off, pos>>
  BY DEF SendMessage
<1>2. /\ At \in Targets /\ At = <<jn, off - 1, Head(todo)>>
      /\ Tail(todo) \in Seq(DOMAIN Art.targets) /\ opc = "send"
      /\ \A t \in Range(todo) : t = Head(todo) \/ t \in Range(Tail(todo))
  BY SendingPlace
<1>3. n \in Nat \ {0}
  <2>1. IsList(Art.lines)
    BY <1>2 DEF OutInv, OutTyped, SoundJobs, Art, Job
  <2> QED  BY <2>1, SomePart
<1>4. new \in Seq(Range(new)) /\ new # <<>> /\ new[1].key = At
  <2>1. DOMAIN new = 1 .. n /\ \A i \in 1 .. n : new[i] \in Range(new)
    BY DEF Range
  <2>2. new \in Seq(Range(new))
    BY <1>3, <2>1
  <2>3. 1 \in 1 .. n
    BY <1>3
  <2> QED  BY <2>1, <2>2, <2>3
<1> HIDE DEF n, new, total
<1>5. /\ IsList(files) /\ PktNo \in DOMAIN files
      /\ \A m \in DOMAIN files : OutFile(files[m])
      /\ \A m \in DOMAIN outp : m \in DOMAIN files /\ files[m] = outp[m]
  BY OpenPktFiles DEF OutInv
<1> HIDE DEF files
<1>6. /\ OutFile(g)
      /\ \A i \in DOMAIN f.items : i \in DOMAIN g.items /\ g.items[i] = f.items[i]
      /\ \E i \in DOMAIN g.items : g.items[i].key = At
  <2>1. PICK S : S = Range(f.items) \cup Range(new)
    OBVIOUS
  <2>2. f.items \in Seq(Range(f.items))
    BY <1>5 DEF OutFile, IsList
  <2>3. f.items \in Seq(S) /\ new \in Seq(S)
    BY <1>4, <2>1, <2>2
  <2> HIDE DEF f
  <2>4. /\ IsList(f.items \o new)
        /\ \A i \in DOMAIN f.items :
             i \in DOMAIN (f.items \o new) /\ (f.items \o new)[i] = f.items[i]
        /\ new # <<>> => /\ Len(f.items) + 1 \in DOMAIN (f.items \o new)
                         /\ (f.items \o new)[Len(f.items) + 1] = new[1]
    BY <2>3, ListsJoined
  <2>5. g.items = f.items \o new
    OBVIOUS
  <2>6. OutFile(g)
    BY <2>4 DEF OutFile
  <2> QED  BY <1>4, <2>4, <2>5, <2>6
<1>7. outp' = [files EXCEPT ![PktNo] = g]
  <2>1. [f EXCEPT !.items = @ \o new] = g
    BY <1>5, MoreItems
  <2> QED  BY <1>1, <2>1
<1> HIDE DEF g
<1>8. /\ IsList(outp') /\ DOMAIN outp' = DOMAIN files /\ outp'[PktNo] = g
      /\ \A m \in DOMAIN files \ {PktNo} : outp'[m] = files[m]
  <2>1. files \in Seq(Range(files) \cup {g}) /\ PktNo \in 1 .. Len(files)
    BY <1>5 DEF IsList
  <2>2. [files EXCEPT ![PktNo] = g] \in Seq(Range(files) \cup {g})
    BY <2>1, ExceptSeq
  <2> QED  BY <1>5, <1>7, <2>2, AnyList
<1>9. OutKept
  <2>1. ASSUME NEW m \in DOMAIN outp, NEW i \in DOMAIN outp[m].items
        PROVE  /\ m \in DOMAIN outp' /\ i \in DOMAIN outp'[m].items
               /\ outp'[m].items[i] = outp[m].items[i]
    BY <1>5, <1>6, <1>8
  <2> QED  BY <1>1, <2>1 DEF OutKept, In
<1>10. Targets' = Targets /\ Job' = Job /\ Art' = Art
  BY <1>1 DEF Targets, Job, Art
<1>11. /\ given' = [k \in Targets |-> given'[k]]
       /\ \A k \in Targets \ {At} : given'[k] = given[k]
  <2>1. given = [k \in Targets |-> given[k]]
    BY DEF OutInv, OutTyped
  <2> QED  BY <1>1, <1>2, <2>1
<1>12. OutTyped'
  <2>1. \A m \in DOMAIN outp' : OutFile(outp'[m])
    BY <1>5, <1>6, <1>8
  <2> QED  BY <1>1, <1>2, <1>5, <1>8, <1>10, <1>11, <2>1 DEF OutInv, OutTyped, SoundJobs
<1>13. \E m \in DOMAIN outp' : \E i \in DOMAIN outp'[m].items : outp'[m].items[i].key = At
  BY <1>5, <1>6, <1>8
<1>14. AllDealt'
  <2>1. PICK x : x = At
    OBVIOUS
  <2>2. \E m \in DOMAIN outp' : In(x, m)'
    BY <1>13, <2>1 DEF In
  <2>3. ASSUME NEW k \in Targets, Dealt(k) PROVE Dealt(k)'
    <3>1. CASE k = x
      BY <2>2, <3>1 DEF Dealt
    <3>2. CASE k # x
      BY <1>9, <1>11, <2>1, <2>3, <3>2, DealtStays
    <3> QED  BY <3>1, <3>2
  <2>4. ASSUME NEW k \in Targets, k[1] = jn, k[2] = off - 1, k[3] \in Range(todo),
               k[3] \notin Range(todo')
        PROVE  Dealt(k)'
    <3>1. k = x
      BY <1>1, <1>2, <2>1, <2>4, TargetParts DEF OutInv
    <3> QED  BY <2>2, <3>1 DEF Dealt
  <2> QED  BY <1>1, <1>9, <2>3, <2>4, TreatedDealt
<1> QED  BY <1>12, <1>14 DEF OutInv

LEMMA TreatKeeps == ASSUME OutInv, Treat PROVE OutInv'
<1>1. PICK v \in {V}, zone \in {ZoneNow} :
        \/ Skip(v, zone) \/ CloseFirst(v, zone) \/ NoPacket(v, zone)
        \/ NoText(v, zone) \/ SendMessage(v, zone)
  BY DEF Treat
<1>2. Sending /\ v = V
  BY <1>1 DEF Treat
<1> QED  BY <1>1, <1>2, SkipKeeps, CloseFirstKeeps, NoPacketKeeps, NoTextKeeps,
            SendMessageKeeps

LEMMA ArticleDoneKeeps == ASSUME OutInv, ArticleDone PROVE OutInv'
<1>1. /\ opc = "send" /\ todo = <<>> /\ opc' \in {"list", "mail"}
      /\ UNCHANGED <<jobs, jn, off, pos, todo, opkt, outp, given>>
  BY DEF ArticleDone
<1>2. Targets' = Targets /\ Job' = Job
  BY <1>1 DEF Targets, Job
<1>3. OutTyped'
  BY <1>1, <1>2 DEF OutInv, OutTyped, SoundJobs
<1>4. Range(todo) = {}
  BY <1>1 DEF Range
<1>5. off \in Nat \ {0}
  BY DEF OutInv, OutTyped
<1>6. ASSUME NEW k \in Targets, Behind(k)' PROVE Behind(k)
  <2>1. k[2] \in Nat
    BY TargetParts DEF OutInv
  <2> QED  BY <1>1, <1>4, <1>5, <1>6, <2>1 DEF Behind
<1>7. AllDealt'
  BY <1>1, <1>6, QuietOut
<1> QED  BY <1>3, <1>7 DEF OutInv

\* Behind the last line of the list everything was dealt with.
LEMMA OutCloseKeeps == ASSUME OutInv, OutClose PROVE OutInv'
<1>1. /\ opc \in {"list", "mail"} /\ off > Len(Job.arts) /\ opc' = "remove"
      /\ pos' \in {off, pos} /\ opkt' = NONE
      /\ UNCHANGED <<jobs, jn, off, todo, given>>
  BY DEF OutClose, Position
<1>2. OutKept /\ IsList(outp') /\ \A n \in DOMAIN outp' : OutFile(outp'[n])
  <2>1. CASE opkt = NONE
    <3>1. UNCHANGED <<jobs, outp>>
      BY <2>1 DEF OutClose
    <3> QED  BY <3>1, SameOut DEF OutInv, OutTyped
  <2>2. CASE opkt # NONE
    <3>1. outp' = Publish(opkt) /\ jobs' = jobs
      BY <2>2 DEF OutClose
    <3> QED  BY <2>2, <3>1, PublishKeeps DEF OutInv
  <2> QED  BY <2>1, <2>2
<1>3. Targets' = Targets /\ Job' = Job
  BY <1>1 DEF Targets, Job
<1>4. pos' # NONE => pos' \in Nat \ {0}
  BY <1>1 DEF OutInv, OutTyped
<1>5. OutTyped'
  BY <1>1, <1>2, <1>3, <1>4 DEF OutInv, OutTyped, SoundJobs
<1>6. ASSUME NEW k \in Targets, Behind(k)' PROVE Behind(k)
  <2>1. k[2] \in Nat /\ k[1] \in DOMAIN jobs /\ k[2] \in DOMAIN jobs[k[1]].arts
    BY TargetParts DEF OutInv
  <2>2. k[1] = jn => k[2] <= Len(Job.arts) /\ Len(Job.arts) \in Nat
    BY <2>1, ListProperties DEF OutInv, OutTyped, SoundJobs, Job
  <2>3. off \in Nat
    BY DEF OutInv, OutTyped
  <2> QED  BY <1>1, <1>6, <2>1, <2>2, <2>3 DEF Behind
<1>7. AllDealt'
  <2>1. Targets' = Targets /\ UNCHANGED given
    BY <1>1, <1>3
  <2> QED  BY <1>2, <1>6, <2>1, DealtStays DEF OutInv, AllDealt
<1> QED  BY <1>5, <1>7 DEF OutInv

LEMMA RemoveListKeeps == ASSUME OutInv, RemoveList PROVE OutInv'
<1>1. /\ opc = "remove" /\ opc' = "idle" /\ jn' = jn + 1 /\ pos' = NONE
      /\ UNCHANGED <<jobs, off, todo, opkt, outp, given>>
  BY DEF RemoveList
<1>2. Targets' = Targets
  BY <1>1 DEF Targets
<1>3. OutTyped'
  BY <1>1, <1>2 DEF OutInv, OutTyped, SoundJobs
<1>4. ASSUME NEW k \in Targets, Behind(k)' PROVE Behind(k)
  <2>1. k[1] \in Nat /\ jn \in Nat
    BY TargetParts DEF OutInv, OutTyped
  <2> QED  BY <1>1, <1>4, <2>1 DEF Behind
<1>5. AllDealt'
  BY <1>1, <1>4, QuietOut
<1> QED  BY <1>3, <1>5 DEF OutInv

\* The next run begins at the position that was saved.
LEMMA OutKillKeeps == ASSUME OutInv, OutKill PROVE OutInv'
<1>1. /\ opc' = "idle" /\ opkt' = NONE
      /\ UNCHANGED <<jobs, jn, off, pos, todo, outp, given>>
  BY DEF OutKill
<1>2. Targets' = Targets
  BY <1>1 DEF Targets
<1>3. OutTyped'
  BY <1>1, <1>2 DEF OutInv, OutTyped, SoundJobs
<1>4. \A k \in Targets : Behind(k)' => Behind(k)
  BY <1>1 DEF Behind
<1>5. AllDealt'
  BY <1>1, <1>4, QuietOut
<1> QED  BY <1>3, <1>5 DEF OutInv

LEMMA OutSame == ASSUME OutInv, UNCHANGED outown PROVE OutInv'
<1>1. UNCHANGED <<jobs, opc, jn, off, pos, todo, opkt, outp, given>>
  BY DEF outown
<1>2. Targets' = Targets /\ Job' = Job /\ Art' = Art
  BY <1>1 DEF Targets, Job, Art
<1>3. OutTyped'
  BY <1>1, <1>2 DEF OutInv, OutTyped, SoundJobs
<1>4. \A k \in Targets : Behind(k)' => Behind(k)
  BY <1>1 DEF Behind
<1>5. AllDealt'
  BY <1>1, <1>4, QuietOut
<1> QED  BY <1>3, <1>5 DEF OutInv

LEMMA OutInitInv ==
  ASSUME NEW s \in Scenarios, OutInit(s.out)
  PROVE  OutInv
<1> DEFINE js == s.out.jobs
<1>1. /\ IsList(js)
      /\ \A j \in DOMAIN js :
           /\ {"kind", "arts"} \subseteq DOMAIN js[j] /\ IsList(js[j].arts)
           /\ \A i \in DOMAIN js[j].arts :
                LET a == js[j].arts[i] IN
                /\ {"there", "targets", "lines"} \subseteq DOMAIN a
                /\ a.there \in BOOLEAN /\ IsList(a.targets) /\ IsList(a.lines)
  BY ScenariosAssumption DEF Sound
<1>2. jobs = [j \in DOMAIN js |-> [js[j] EXCEPT !.arts =
                [i \in DOMAIN js[j].arts |-> Translated(js[j].arts[i], js[j].kind)]]]
  BY DEF OutInit
<1> HIDE DEF js
<1>3. ASSUME NEW j \in DOMAIN js
      PROVE  jobs[j].arts = [i \in DOMAIN js[j].arts |-> Translated(js[j].arts[i], js[j].kind)]
  BY <1>1, <1>2
<1>4. ASSUME NEW a, NEW kind, {"there", "targets", "lines"} \subseteq DOMAIN a
      PROVE  /\ Translated(a, kind).there = a.there
             /\ Translated(a, kind).targets = a.targets
             /\ Translated(a, kind).lines = a.lines
  BY <1>4 DEF Translated
<1>5. \A s_, g : IsList(s_) /\ DOMAIN g = DOMAIN s_ /\ g = [i \in DOMAIN s_ |-> g[i]] => IsList(g)
  <2>1. SUFFICES ASSUME NEW t, NEW g, IsList(t), g = [i \in DOMAIN t |-> g[i]]
                 PROVE  IsList(g)
    OBVIOUS
  <2>2. Len(t) \in Nat /\ DOMAIN t = 1 .. Len(t)
    BY <2>1, ListProperties
  <2>3. \A i \in 1 .. Len(t) : g[i] \in Range(g)
    BY <2>1, <2>2 DEF Range
  <2>4. g \in Seq(Range(g))
    BY <2>1, <2>2, <2>3
  <2> QED  BY <2>4 DEF IsList
<1>6. SoundJobs
  <2>1. DOMAIN jobs = DOMAIN js /\ IsList(jobs)
    BY <1>1, <1>2, <1>5
  <2>2. ASSUME NEW j \in DOMAIN js
        PROVE  DOMAIN jobs[j].arts = DOMAIN js[j].arts /\ IsList(jobs[j].arts)
    BY <1>1, <1>3, <1>5
  <2>3. ASSUME NEW j \in DOMAIN js, NEW i \in DOMAIN js[j].arts
        PROVE  /\ jobs[j].arts[i].there \in BOOLEAN
               /\ IsList(jobs[j].arts[i].targets) /\ IsList(jobs[j].arts[i].lines)
    <3>1. PICK a : a = js[j].arts[i]
      OBVIOUS
    <3>2. /\ {"there", "targets", "lines"} \subseteq DOMAIN a
          /\ a.there \in BOOLEAN /\ IsList(a.targets) /\ IsList(a.lines)
      BY <1>1, <3>1
    <3>3. jobs[j].arts[i] = Translated(a, js[j].kind)
      BY <1>3, <3>1
    <3> QED  BY <1>4, <3>2, <3>3
  <2> QED  BY <2>1, <2>2, <2>3 DEF SoundJobs
<1>7. /\ opc = "idle" /\ jn = 1 /\ off = 1 /\ pos = NONE /\ outp = <<>> /\ opkt = NONE
      /\ given = [k \in Targets |-> NONE]
  BY DEF OutInit
<1>8. OutTyped
  BY <1>6, <1>7 DEF OutTyped, IsList
<1>9. ASSUME NEW k \in Targets PROVE ~Behind(k)
  BY <1>7, <1>8, TargetParts DEF Behind
<1> QED  BY <1>8, <1>9 DEF OutInv, AllDealt

-----------------------------------------------------------------------------
\* Both gateways.

LEMMA GateInit == ASSUME Init PROVE InInv /\ OutInv
BY InInitInv, OutInitInv DEF Init

LEMMA GateNext == ASSUME InInv, OutInv, Next PROVE InInv' /\ OutInv'
<1>1. CASE InNext /\ In_
  BY <1>1, InNextKeeps, OutSame DEF In_
<1>2. CASE (OutStep \/ OutKill) /\ Out_
  <2>1. faults' \in {faults, faults + 1}
    BY <1>2 DEF OutStep, OutKill, OutBegin, ReadArticle, Treat, ArticleDone, OutClose,
                RemoveList, Skip, CloseFirst, NoPacket, NoText, SendMessage, Fine, Fault
  <2>2. InInv'
    BY <1>2, <2>1, QuietKeeps DEF Out_
  <2>3. OutInv'
    BY <1>2, OutBeginKeeps, ReadArticleKeeps, TreatKeeps, ArticleDoneKeeps,
       OutCloseKeeps, RemoveListKeeps, OutKillKeeps DEF OutStep
  <2> QED  BY <2>2, <2>3
<1>3. CASE \E p \in Packet : Arrive(p)
  <2>1. PICK p \in Packet : Arrive(p)
    BY <1>3
  <2>2. UNCHANGED outown
    BY <2>1 DEF Arrive
  <2> QED  BY <2>1, <2>2, ArriveKeeps, OutSame
<1> QED  BY <1>1, <1>2, <1>3 DEF Next

LEMMA GateStutters == ASSUME InInv, OutInv, UNCHANGED gvars PROVE InInv' /\ OutInv'
BY QuietKeeps, OutSame DEF gvars

LEMMA GateInvariant == Spec => [](InInv /\ OutInv)
<1>1. InInv /\ OutInv /\ [Next]_gvars => (InInv /\ OutInv)'
  BY GateNext, GateStutters
<1> QED  BY GateInit, <1>1, PTL DEF Spec

\* ftn2rfc removes a packet only when each of its messages was dropped by a
\* rule, or stands in a file of the spool, or was handed over; only a bounce
\* that cannot be written and messages behind an unread text are lost, for
\* any messages, options, failing calls and kills (ftn2rfc.c:1725).
THEOREM GateLosesNothing == Spec => []NothingLost
<1>1. InInv => NothingLost
  <2>1. SUFFICES ASSUME InInv, NEW k \in Key, pkt[k[1]] = "gone"
                 PROVE  Treated(k) /\ Settled(k)
    BY DEF NothingLost, Treated, Settled
  <2> QED  BY <2>1 DEF InInv, Passed, AllSettled
<1> QED  BY <1>1, GateInvariant, PTL

\* When rfc2ftn removes a list each article was put into a packet for each
\* of its groups, refused by a rule or given up because of an error, after
\* any kills and wherever the saved position makes it go on (rfc2ftn.c:2309).
THEOREM GateKeepsArticles == Spec => []ArticleKept
<1>1. OutInv => ArticleKept
  BY DEF OutInv, AllDealt, Behind, Dealt, ArticleKept, Finished
<1> QED  BY <1>1, GateInvariant, PTL

=============================================================================
