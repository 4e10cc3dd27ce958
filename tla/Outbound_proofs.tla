--------------------------- MODULE Outbound_proofs --------------------------
(***************************************************************************)
(* For any number of packets, files, nodes and processes, any kills and    *)
(* failures: no packet is lost on its way through the outbound, what is to *)
(* be sent is listed in a FLO file that has a name, and nothing is sent    *)
(* twice as long as nothing is killed.                                     *)
(***************************************************************************)
EXTENDS Outbound, Integers, FiniteSetTheorems, WellFoundedInduction, TLAPS

\* Archives and FLO files belong to one node, so that its bsy file guards both;
\* so do .OUT files; and netmail for archives is not copied over itself.
Sound(c) ==
  /\ c.pkts \subseteq Pkt /\ c.files \subseteq File /\ c.callers \subseteq Caller
  /\ {c.arcnode, c.flonode, c.to} \subseteq [Pkt -> Node]
  /\ \A p \in Pkt : /\ c.arcnode[p] = c.flonode[p]
                    /\ c.noarc[p] => c.to[p] = c.flonode[p]
                    /\ c.net[p] /\ ~c.noarc[p] => ~c.same

Listing  == {"open", "lock", "attach"}
Archived == {"rename", "unlink", "archive", "remove"} \cup Listing
OutFile  == {"open_out", "copy_out", "unlink_out"}
Inside   == {"search", "release"} \cup Archived \cup OutFile
Calling  == {"fopen", "flock", "read", "dispose", "mark"}
Opened   == {"lock", "attach", "flock", "read", "dispose", "mark"}

EntrySet == [item : Item, sent : BOOLEAN]

Types ==
  /\ Sound(config)
  /\ inn \subseteq Pkt /\ tmp \subseteq Pkt /\ files \subseteq File
  /\ arc \in [Node -> [Digit -> {NONE} \cup SUBSET Pkt]]
  /\ outf \in [Node -> {NONE} \cup SUBSET Pkt]
  /\ flo \in [Node -> Inode \cup {NONE}]
  /\ entries \in [Inode -> Seq(EntrySet)]
  /\ bsy \in [Node -> Proc \cup {NONE}]
  /\ sent \in [Pkt \cup File -> Nat]
  /\ pc \in [Proc -> Control]
  /\ pkt \in [Proc -> Pkt \cup {NONE}] /\ node \in [Proc -> Node \cup {NONE}]
  /\ open \in [Proc -> Inode \cup {NONE}] /\ item \in [Proc -> Item \cup {NONE}]

\* What ftnpack has done at each place, under the bsy file of the node.
PackerAt(q) ==
  /\ pc[q] \in {"idle", "busy"} \cup Inside
  /\ pc[q] # "idle" => pkt[q] \in Pkt
  /\ pc[q] \in Inside => bsy[Flonode(q)] = q
  /\ pc[q] \in {"search"} \cup Archived => ~config.noarc[pkt[q]]
  /\ pc[q] \in OutFile => config.noarc[pkt[q]]
  /\ pc[q] \in Archived => \E d \in Digit : item[q] = Archive(Flonode(q), d)
  /\ pc[q] \in Listing => node[q] = Flonode(q)
  /\ pc[q] = "unlink" => pkt[q] \in tmp
  /\ pc[q] \in {"archive", "remove"} => config.same \/ pkt[q] \notin inn
  /\ pc[q] = "remove" => Packed(pkt[q], item[q][2], item[q][3])
  /\ pc[q] \in {"copy_out", "unlink_out"} => outf[To(q)] # NONE
  /\ pc[q] = "unlink_out" => pkt[q] \in outf[To(q)]

AttacherAt(t) ==
  /\ pc[t] \in {"idle"} \cup Listing
  /\ pc[t] \in Listing => /\ node[t] \in Node /\ bsy[node[t]] = t
                          /\ \E f \in File : item[t] = Plain(f)

\* What is to be truncated has been sent.
CallerAt(c) ==
  /\ pc[c] \in {"idle", "wait"} \cup Calling
  /\ pc[c] # "idle" => node[c] \in Node
  /\ pc[c] \in Calling => bsy[node[c]] = c
  /\ pc[c] \in {"dispose", "mark"} =>
       /\ Unsent(c) # {} /\ Content(Current(c)) # NONE
       /\ \A x \in Content(Current(c)) : sent[x] > 0

Places ==
  /\ \A q \in Packer : PackerAt(q)
  /\ \A t \in Attacher : AttacherAt(t)
  /\ \A c \in Caller : CallerAt(c)

\* Who has a FLO file open has the one that has the name.
Names ==
  /\ \A m, n \in Node : flo[m] = flo[n] => m = n \/ flo[m] = NONE
  /\ \A p \in Proc :
       /\ pc[p] \in Opened => flo[node[p]] # NONE /\ open[p] = flo[node[p]]
       /\ pc[p] \notin Opened => open[p] = NONE

ItemOf(n) == {Archive(n, d) : d \in Digit} \cup {Plain(f) : f \in File}

\* A FLO file lists archives of its own node.
OwnItems ==
  \A n \in Node : flo[n] # NONE =>
    \A k \in DOMAIN entries[flo[n]] : entries[flo[n]][k].item \in ItemOf(n)

\* A packet that has to be sent is in one archive.
OneArchive ==
  \A p \in Pkt \ stranded, n \in Node, d \in Digit :
    Packed(p, n, d) /\ sent[p] = 0 =>
      /\ n = config.flonode[p]
      /\ p \in inn \cup tmp => \E q \in Packer : pkt[q] = p /\ pc[q] = "remove"
      /\ \A q \in Packer : pkt[q] = p =>
           /\ pc[q] \in {"remove", "release"} \cup Listing
           /\ pc[q] # "release" => item[q] = Archive(n, d)

\* AllListed, with the place of a process that is going to list a file.
FoundArchive(p, n, d) ==
  \/ flo[config.flonode[p]] # NONE
     /\ Listed(flo[config.flonode[p]], Archive(n, d))
  \/ \E q \in Packer : pkt[q] = p /\ pc[q] \in {"remove"} \cup Listing

FoundFile(f) ==
  \/ sent[f] > 0 \/ f \in stranded
  \/ \E n \in Node : flo[n] # NONE /\ Listed(flo[n], Plain(f))
  \/ \E t \in Attacher : pc[t] \in Listing /\ item[t] = Plain(f)

Found ==
  /\ \A p \in Pkt \ stranded, n \in Node, d \in Digit :
       Packed(p, n, d) /\ sent[p] = 0 => FoundArchive(p, n, d)
  /\ \A f \in config.files \ files : FoundFile(f)

IInv == /\ Types /\ Places /\ Names /\ OwnItems /\ OneArchive /\ Found
        /\ NothingLost

-----------------------------------------------------------------------------
LEMMA HasLeast ==
  ASSUME NEW s \in SUBSET Nat, s # {}
  PROVE  \E d \in s : \A e \in s : d <= e
<1>1. PICK d \in s : \A e \in s : <<e, d>> \notin OpToRel(<, Nat)
  BY NatLessThanWellFounded, WFMin
<1>2. \A e \in s : ~(e < d)
  BY <1>1 DEF OpToRel
<1> QED  BY <1>2

LEMMA HasGreatest ==
  ASSUME NEW n \in Nat, NEW s \in SUBSET (0..n), s # {}
  PROVE  \E d \in s : \A e \in s : e <= d
<1> DEFINE t == {n - e : e \in s}
<1>1. \A e \in s : n - e \in Nat
  OBVIOUS
<1>2. t \in SUBSET Nat /\ t # {}
  BY <1>1
<1>3. PICK k \in t : \A e \in t : k <= e
  BY <1>2, HasLeast
<1>4. PICK d \in s : k = n - d
  OBVIOUS
<1>5. \A e \in s : n - d <= n - e
  BY <1>3, <1>4
<1> QED  BY <1>5

\* arcmail_search() finds a digit, whatever archives there are.
LEMMA NextDigitIsDigit ==
  ASSUME NEW a \in [Digit -> {NONE} \cup SUBSET Pkt], NEW fresh \in SUBSET Digit
  PROVE  NextDigit(a, fresh) \in Digit
<1> DEFINE used  == {d \in Digit : a[d] \notin {NONE, {}}}
           fits  == {d \in used : ~TooBig(a[d])}
           holes == {d \in Digit : a[d] = NONE} \cup fresh
                    \cup (IF a[LastChar] = {} THEN {LastChar} ELSE {})
           taken == used \cup fresh
           least(s) == CHOOSE d \in s : \A e \in s : d <= e
           top   == CHOOSE d \in taken : \A e \in taken : e <= d
           next  == IF taken = {} THEN 0 ELSE IF top < LastChar THEN top + 1 ELSE top
           size(d)  == Cardinality(a[d])
           smallest == {d \in used : \A e \in used : size(d) <= size(e)}
           last  == CHOOSE d \in smallest : \A e \in smallest : e <= d
<1>1. LastChar \in Nat /\ LastChar \in Digit /\ 0 \in Digit /\ Digit \subseteq Nat
  BY ConstantsAssumption DEF Digit
<1>2. \A s \in SUBSET Digit : s # {} => least(s) \in Digit
  BY <1>1, HasLeast
<1>3. taken # {} => top \in Digit
  <2>1. taken \in SUBSET (0..LastChar)
    BY DEF Digit
  <2> QED  BY <1>1, <2>1, HasGreatest DEF Digit
<1>4. next \in Digit
  BY <1>1, <1>3 DEF Digit
<1>5. \A d \in used : size(d) \in Nat
  BY ConstantsAssumption, FS_Subset, FS_CardinalityType
<1>6. used # {} => smallest # {}
  <2> SUFFICES ASSUME used # {} PROVE smallest # {}
    OBVIOUS
  <2> DEFINE sizes == {size(d) : d \in used}
  <2>1. sizes \in SUBSET Nat /\ sizes # {}
    BY <1>5
  <2>2. PICK k \in sizes : \A e \in sizes : k <= e
    BY <2>1, HasLeast
  <2> QED  BY <2>2
<1>7. used # {} => last \in Digit
  <2>1. smallest \in SUBSET (0..LastChar)
    BY DEF Digit
  <2> QED  BY <1>1, <1>6, <2>1, HasGreatest DEF Digit
<1>8. holes \in SUBSET Digit /\ fits \in SUBSET Digit
  BY <1>1
<1>9. NextDigit(a, fresh) =
        IF fits # {} THEN least(fits)
        ELSE IF next # LastChar \/ next \notin used THEN next
        ELSE IF holes # {} THEN least(holes) ELSE last
  BY DEF NextDigit
<1> HIDE DEF used, fits, holes, taken, least, top, next, size, smallest, last
<1> QED  BY <1>2, <1>4, <1>7, <1>8, <1>9

-----------------------------------------------------------------------------
-----------------------------------------------------------------------------
LEMMA Kinds ==
  /\ \A p, q \in Packer : p = q
  /\ Packer \cap Attacher = {} /\ Packer \cap Caller = {}
  /\ Attacher \cap Caller = {}
  /\ Packer \subseteq Proc /\ Attacher \subseteq Proc /\ Caller \subseteq Proc
  /\ NONE \notin Proc /\ NONE \notin Inode /\ NONE \notin Pkt
  /\ \A s \in SUBSET Pkt : s # NONE
BY ConstantsAssumption DEF Proc

\* The nodes of a packet.
LEMMA NodesOf ==
  ASSUME Types, NEW q, pkt[q] \in Pkt
  PROVE  /\ Flonode(q) \in Node /\ Arcnode(q) = Flonode(q) /\ To(q) \in Node
         /\ config.noarc[pkt[q]] => To(q) = Flonode(q)
BY DEF Types, Sound, Flonode, Arcnode, To

\* How process p is at its place.
At(p) == /\ p \in Packer => PackerAt(p)
         /\ p \in Attacher => AttacherAt(p)
         /\ p \in Caller => CallerAt(p)
         /\ pc[p] \in Opened => flo[node[p]] # NONE /\ open[p] = flo[node[p]]
         /\ pc[p] \notin Opened => open[p] = NONE

Own(r) == <<pc[r], pkt[r], node[r], open[r], item[r]>>

\* What a step of p leaves alone: the other processes, and all that belongs to
\* a node of which another has the bsy file.
Alone(p) ==
  /\ UNCHANGED config
  /\ \A r \in Proc \ {p} : /\ pc'[r] = pc[r] /\ pkt'[r] = pkt[r]
                           /\ node'[r] = node[r] /\ open'[r] = open[r]
                           /\ item'[r] = item[r]
  /\ \A n \in Node : bsy[n] \notin {p, NONE} =>
       /\ bsy'[n] = bsy[n] /\ arc'[n] = arc[n] /\ outf'[n] = outf[n]
       /\ flo'[n] = flo[n]
       /\ flo[n] # NONE => entries'[flo[n]] = entries[flo[n]]
  /\ p \notin Packer => UNCHANGED tmp
  /\ inn' \subseteq inn
  /\ \A x \in Pkt \cup File : sent[x] > 0 => sent'[x] > 0

LEMMA PlacesAt ==
  ASSUME Places, Names, NEW p \in Proc PROVE At(p)
BY DEF Places, Names, At

LEMMA AtPlaces ==
  ASSUME \A p \in Proc : At(p)',
         (\A m, n \in Node : flo[m] = flo[n] => m = n \/ flo[m] = NONE)'
  PROVE  Places' /\ Names'
<1>1. Places'
  BY Kinds DEF Places, At
<1>2. Names'
  BY DEF Names, At
<1> QED  BY <1>1, <1>2

LEMMA OpenedNode ==
  ASSUME Types, Places, Names, NEW r \in Proc, pc[r] \in Opened
  PROVE  node[r] \in Node /\ bsy[node[r]] = r /\ open[r] = flo[node[r]]
<1>1. At(r)
  BY PlacesAt
<1>2. CASE r \in Packer
  BY <1>1, <1>2, NodesOf
     DEF At, PackerAt, Opened, Inside, Archived, OutFile, Listing, Calling
<1>3. CASE r \in Attacher
  BY <1>1, <1>3 DEF At, AttacherAt, Opened, Listing
<1>4. CASE r \in Caller
  BY <1>1, <1>4 DEF At, CallerAt, Opened, Calling
<1> QED  BY <1>1, <1>2, <1>3, <1>4 DEF Proc, At

\* The others are at their places still.
LEMMA Rest ==
  ASSUME IInv, NEW p, Alone(p), NEW r \in Proc \ {p}
  PROVE  At(r)'
<1>1. At(r)
  BY PlacesAt DEF IInv
<1>2. UNCHANGED <<config, pc[r], pkt[r], node[r], open[r], item[r]>>
  BY DEF Alone
<1>3. r \in Packer => PackerAt(r)'
  <2> SUFFICES ASSUME r \in Packer PROVE PackerAt(r)'
    OBVIOUS
  <2>1. PackerAt(r) /\ UNCHANGED <<Flonode(r), To(r)>>
    BY <1>1, <1>2 DEF At, Flonode, To
  <2>2. CASE pc[r] \notin Inside
    BY <1>2, <2>1, <2>2 DEF PackerAt, Inside, Archived, OutFile, Listing
  <2>3. CASE pc[r] \in Inside
    <3>1. pkt[r] \in Pkt /\ bsy[Flonode(r)] = r /\ r # NONE
      BY <2>1, <2>3, Kinds DEF PackerAt, Inside, Archived, OutFile, Listing
    <3>2. Flonode(r) \in Node /\ (config.noarc[pkt[r]] => To(r) = Flonode(r))
      BY <3>1, NodesOf DEF IInv
    <3>3. UNCHANGED <<bsy[Flonode(r)], arc[Flonode(r)], outf[Flonode(r)]>>
      BY <1>2, <2>1, <3>1, <3>2 DEF Alone
    <3>4. (p \notin Packer => UNCHANGED tmp) /\ inn' \subseteq inn
      BY DEF Alone
    <3>5. p \notin Packer
      BY Kinds
    <3>6. pc[r] = "remove" => Packed(pkt[r], item[r][2], item[r][3])'
      BY <1>2, <2>1, <3>3, <3>2 DEF PackerAt, Packed, Archived, Archive
    <3>7. pc[r] \in {"copy_out", "unlink_out"} => UNCHANGED outf[To(r)]
      BY <1>2, <2>1, <3>2, <3>3 DEF PackerAt, OutFile
    <3> QED  BY <1>2, <2>1, <3>1, <3>3, <3>4, <3>5, <3>6, <3>7 DEF PackerAt
  <2> QED  BY <2>2, <2>3
<1>4. r \in Attacher => AttacherAt(r)'
  BY <1>1, <1>2, Kinds DEF At, AttacherAt, Alone
<1>5. /\ (pc[r] \in Opened => flo[node[r]] # NONE /\ open[r] = flo[node[r]])'
      /\ (pc[r] \notin Opened => open[r] = NONE)'
  <2>1. CASE pc[r] \notin Opened
    BY <1>1, <1>2, <2>1 DEF At
  <2>2. CASE pc[r] \in Opened
    <3>1. node[r] \in Node /\ bsy[node[r]] = r
      BY <2>2, OpenedNode DEF IInv
    <3>2. UNCHANGED flo[node[r]]
      BY <1>2, <3>1, Kinds DEF Alone
    <3> QED  BY <1>1, <1>2, <3>2, <2>2 DEF At
  <2> QED  BY <2>1, <2>2, <1>2
<1>6. r \in Caller => CallerAt(r)'
  <2> SUFFICES ASSUME r \in Caller PROVE CallerAt(r)'
    OBVIOUS
  <2>1. CallerAt(r)
    BY <1>1 DEF At
  <2>2. CASE pc[r] \notin {"dispose", "mark"}
    BY <1>2, <2>1, <2>2, Kinds DEF CallerAt, Alone, Calling
  <2>3. CASE pc[r] \in {"dispose", "mark"}
    <3>1. node[r] \in Node /\ bsy[node[r]] = r /\ Unsent(r) # {}
      BY <2>1, <2>3 DEF CallerAt, Calling
    <3>2. flo[node[r]] # NONE /\ open[r] = flo[node[r]]
      BY <1>1, <2>3 DEF At, Opened
    <3>3. UNCHANGED <<bsy[node[r]], arc[node[r]], entries[open[r]]>>
      BY <1>2, <3>1, <3>2, Kinds DEF Alone
    <3>4. UNCHANGED <<Unsent(r), Current(r)>>
      BY <1>2, <3>3 DEF Unsent, Current, Line
    <3>5. Current(r) \in ItemOf(node[r])
      <4>1. Unsent(r) \in SUBSET Nat
        BY <3>1, <3>2 DEF Unsent, IInv, Types
      <4>2. Line(r) \in Unsent(r)
        BY <3>1, <4>1, HasLeast DEF Line
      <4> QED  BY <3>1, <3>2, <4>2 DEF IInv, OwnItems, Current, Unsent
    <3>6. UNCHANGED Content(Current(r))
      BY <3>3, <3>4, <3>5, <1>2 DEF ItemOf, Archive, Plain, Content
    <3>7. Content(Current(r)) # NONE => Content(Current(r)) \subseteq Pkt \cup File
      BY <3>5, <3>1 DEF ItemOf, Archive, Plain, Content, IInv, Types
    <3> QED  BY <1>2, <2>1, <2>3, <3>1, <3>3, <3>4, <3>6, <3>7 DEF CallerAt, Alone
  <2> QED  BY <2>2, <2>3
<1> QED  BY <1>3, <1>4, <1>5, <1>6 DEF At

Distinct == \A m, n \in Node : flo[m] = flo[n] => m = n \/ flo[m] = NONE

Kept == Distinct /\ OwnItems /\ OneArchive /\ Found /\ NothingLost

\* What is left to show of a step of p.
LEMMA StepKeeps ==
  ASSUME IInv, NEW p, Alone(p), p \in Proc => At(p)', Types', Kept'
  PROVE  IInv'
<1>1. \A r \in Proc : At(r)'
  BY Rest
<1> QED  BY <1>1, AtPlaces DEF IInv, Kept, Distinct

LEMMA InvKept == ASSUME IInv PROVE Kept
BY DEF IInv, Kept, Names, Distinct

Mail == <<config, inn, tmp, arc, outf, flo, entries, files>>

\* Steps that touch no mail and no FLO file.
LEMMA Paper ==
  ASSUME Types, Kept, UNCHANGED Mail, stranded \subseteq stranded',
         \A x \in Pkt \cup File : /\ sent[x] > 0 => sent'[x] > 0
                                  /\ sent'[x] = 0 => sent[x] = 0,
         \A q \in Packer : /\ pkt'[q] = pkt[q] /\ item'[q] = item[q]
                           /\ \/ pc'[q] = pc[q]
                              \/ pc[q] \in Listing /\ pc'[q] \in Listing,
         \A t \in Attacher : /\ item'[t] = item[t]
                             /\ pc[t] \in Listing => pc'[t] \in Listing
  PROVE  Kept'
<1>1. Distinct' /\ OwnItems'
  BY DEF Kept, Mail, Distinct, OwnItems
<1>2. \A i, x, p, n, d : /\ Listed(i, x)' <=> Listed(i, x)
                         /\ Packed(p, n, d)' <=> Packed(p, n, d)
  BY DEF Mail, Listed, Packed
<1>3. /\ config.files \subseteq File /\ config.pkts \subseteq Pkt
      /\ \A x \in Pkt \cup File : sent[x] \in Nat
  BY DEF Types, Sound
<1>4. OneArchive'
  BY <1>2 DEF Kept, Mail, OneArchive, Listing
<1>5. Found'
  <2>1. \A p \in Pkt, n \in Node, d \in Digit :
          FoundArchive(p, n, d) => FoundArchive(p, n, d)'
    BY <1>2 DEF Mail, FoundArchive
  <2>2. \A f \in config.files : FoundFile(f) => FoundFile(f)'
    BY <1>2, <1>3 DEF Mail, FoundFile
  <2> QED  BY <1>2, <2>1, <2>2 DEF Kept, Mail, Found
<1>6. NothingLost'
  BY <1>2, <1>3 DEF Kept, Mail, NothingLost, Listing
<1> QED  BY <1>1, <1>4, <1>5, <1>6 DEF Kept

-----------------------------------------------------------------------------
(* ftnflo or the mailer                                                    *)

LEMMA CallTakes ==
  ASSUME IInv, NEW c \in Caller,
         \/ \E n \in Node : StartCall(c, n)
         \/ CallBusy(c) \/ CallOpen(c) \/ CallGone(c) \/ CallLock(c) \/ SendFails(c)
  PROVE  IInv'
<1> USE Kinds
<1>1. At(c) /\ Types /\ c \in Proc
  BY PlacesAt DEF IInv
<1>2. /\ UNCHANGED <<Mail, sent, stranded>>
      /\ \A r \in Proc \ {c} : /\ pc'[r] = pc[r] /\ pkt'[r] = pkt[r]
                               /\ node'[r] = node[r] /\ open'[r] = open[r]
                               /\ item'[r] = item[r]
  BY <1>1 DEF StartCall, CallBusy, CallOpen, CallGone, CallLock, SendFails, Mail,
        Types, Goto, Hangup, CloseFlo, list, out, own, bound
<1>3. Kept'
  BY <1>1, <1>2, InvKept, Paper
<1>4. CASE \E n \in Node : StartCall(c, n)
  <2>1. Alone(c)
    BY <1>2, <1>4 DEF StartCall, Alone, Mail
  <2>2. At(c)'
    BY <1>1, <1>4 DEF StartCall, At, CallerAt, Types, Goto, Calling, Opened
  <2>3. Types'
    BY <1>1, <1>4 DEF StartCall, Types, Goto, Control, list, out
  <2> QED  BY <1>3, <2>1, <2>2, <2>3, StepKeeps
<1>5. CASE CallBusy(c)
  <2>1. Alone(c)
    BY <1>1, <1>2, <1>5 DEF CallBusy, Alone, Mail, Types
  <2>2. At(c)'
    BY <1>1, <1>5 DEF CallBusy, At, CallerAt, Types, Goto, Calling, Opened, own, list
  <2>3. Types'
    BY <1>1, <1>5 DEF CallBusy, Types, Goto, Control, list, out, own
  <2> QED  BY <1>3, <2>1, <2>2, <2>3, StepKeeps
<1>6. CASE CallOpen(c)
  <2>1. Alone(c)
    BY <1>2, <1>6 DEF CallOpen, Alone, Mail
  <2>2. At(c)'
    BY <1>1, <1>6 DEF CallOpen, At, CallerAt, Types, Goto, Calling, Opened, list
  <2>3. Types'
    BY <1>1, <1>6 DEF CallOpen, At, CallerAt, Types, Goto, Control, list, out
  <2> QED  BY <1>3, <2>1, <2>2, <2>3, StepKeeps
<1>7. CASE CallGone(c)
  <2>1. Alone(c)
    BY <1>1, <1>2, <1>7 DEF CallGone, Alone, Mail, BsyDelete, At, CallerAt, Calling, Types
  <2>2. At(c)'
    BY <1>1, <1>7 DEF CallGone, Hangup, CloseFlo, At, CallerAt, Types, Goto, Calling, Opened
  <2>3. Types'
    BY <1>1, <1>7 DEF CallGone, Hangup, CloseFlo, BsyDelete, Types, Goto, Control, out
  <2> QED  BY <1>3, <2>1, <2>2, <2>3, StepKeeps
<1>8. CASE CallLock(c)
  <2>1. flo[node[c]] # NONE
    BY <1>1, <1>8 DEF CallLock, At, Opened
  <2>2. Alone(c)
    BY <1>2, <1>8, <2>1 DEF CallLock, Alone, Mail
  <2>3. At(c)'
    BY <1>1, <1>8, <2>1 DEF CallLock, At, CallerAt, Types, Goto, Calling, Opened
  <2>4. Types'
    BY <1>1, <1>8, <2>1 DEF CallLock, Types, Goto, Control, out
  <2> QED  BY <1>3, <2>2, <2>3, <2>4, StepKeeps
<1>9. CASE SendFails(c)
  <2>1. Alone(c)
    BY <1>1, <1>2, <1>9 DEF SendFails, Alone, Mail, BsyDelete, At, CallerAt, Calling, Types
  <2>2. At(c)'
    BY <1>1, <1>9 DEF SendFails, Hangup, CloseFlo, At, CallerAt, Types, Goto, Calling, Opened
  <2>3. Types'
    BY <1>1, <1>9 DEF SendFails, Hangup, CloseFlo, BsyDelete, Types, Goto, Control, out
  <2> QED  BY <1>3, <2>1, <2>2, <2>3, StepKeeps
<1> QED  BY <1>4, <1>5, <1>6, <1>7, <1>8, <1>9

\* The line a caller is at is of its FLO file.
LEMMA LineOf ==
  ASSUME IInv, NEW c \in Caller, pc[c] \in {"read", "dispose", "mark"}
  PROVE  /\ node[c] \in Node /\ bsy[node[c]] = c
         /\ open[c] = flo[node[c]] /\ open[c] \in Inode /\ flo[node[c]] # NONE
         /\ Unsent(c) # {} =>
              /\ Line(c) \in Unsent(c)
              /\ Current(c) \in ItemOf(node[c])
<1> USE Kinds
<1>1. At(c)
  BY PlacesAt DEF IInv
<1>2. /\ node[c] \in Node /\ bsy[node[c]] = c
      /\ open[c] = flo[node[c]] /\ open[c] \in Inode /\ flo[node[c]] # NONE
  BY <1>1 DEF At, CallerAt, Opened, Calling, IInv, Types
<1>3. Unsent(c) \in SUBSET Nat
  BY <1>2 DEF Unsent, IInv, Types
<1>4. Unsent(c) # {} => Line(c) \in Unsent(c)
  BY <1>3, HasLeast DEF Line
<1> QED  BY <1>2, <1>4 DEF IInv, OwnItems, Current, Unsent

LEMMA ContentOf ==
  ASSUME Types, NEW n \in Node, NEW x \in ItemOf(n)
  PROVE  Content(x) # NONE => Content(x) \subseteq Pkt \cup File
BY DEF ItemOf, Archive, Plain, Content, Types

LEMMA SendKeeps ==
  ASSUME IInv, NEW c \in Caller, Send(c)
  PROVE  IInv'
<1> USE Kinds
<1>1. /\ At(c) /\ Types /\ c \in Proc
      /\ pc[c] = "read" /\ Unsent(c) # {} /\ Content(Current(c)) # NONE
      /\ UNCHANGED <<Mail, stranded, bsy, own>>
      /\ pc' = [pc EXCEPT ![c] = "dispose"]
      /\ sent' = [x \in Pkt \cup File |->
                    IF x \in Content(Current(c)) THEN sent[x] + 1 ELSE sent[x]]
  BY PlacesAt DEF IInv, Send, Mail, list, out, Goto
<1>2. Content(Current(c)) \subseteq Pkt \cup File
  BY <1>1, LineOf, ContentOf
<1>3. \A x \in Pkt \cup File : /\ sent[x] > 0 => sent'[x] > 0
                               /\ sent'[x] = 0 => sent[x] = 0
                               /\ x \in Content(Current(c)) => sent'[x] > 0
  BY <1>1 DEF Types
<1>4. Kept'
  BY <1>1, <1>3, InvKept, Paper DEF own, Types
<1>5. Alone(c)
  BY <1>1, <1>3 DEF Alone, Mail, own, Types
<1>6. UNCHANGED <<Unsent(c), Current(c), Content(Current(c))>>
  <2>1. UNCHANGED <<open, entries, arc>>
    BY <1>1 DEF Mail, own
  <2> QED  BY <2>1 DEF Unsent, Current, Line, Content
<1>7. At(c)'
  BY <1>1, <1>2, <1>3, <1>6 DEF At, CallerAt, Mail, own, Types, Calling, Opened
<1>8. Types'
  BY <1>1 DEF Types, Control, Mail, own
<1> QED  BY <1>4, <1>5, <1>7, <1>8, StepKeeps

LEMMA DisposeKeeps ==
  ASSUME IInv, NEW c \in Caller, Dispose(c)
  PROVE  IInv'
<1> USE Kinds
<1> DEFINE x == Current(c)
<1>1. /\ At(c) /\ Types /\ c \in Proc
      /\ pc[c] = "dispose" /\ Unsent(c) # {}
      /\ UNCHANGED <<config, inn, tmp, outf, flo, entries, files, sent, stranded,
                     bsy, pkt, node, open, item>>
      /\ pc' = [pc EXCEPT ![c] = "mark"]
  BY PlacesAt DEF IInv, Dispose, list, out, own, Goto, At, CallerAt
<1>2. x \in ItemOf(node[c]) /\ node[c] \in Node /\ bsy[node[c]] = c
  BY <1>1, LineOf
<1>3. \/ UNCHANGED arc
      \/ \E d \in Digit : /\ x = Archive(node[c], d) /\ arc[node[c]][d] # NONE
                          /\ arc' = [arc EXCEPT ![node[c]][d] = {}]
  <2>1. CASE \E f \in File : x = Plain(f)
    BY <2>1 DEF Dispose, Plain
  <2>2. ASSUME NEW d \in Digit, x = Archive(node[c], d)
        PROVE  arc[node[c]][d] # NONE =>
                 arc' = [arc EXCEPT ![node[c]][d] = {}]
    BY <2>2 DEF Dispose, Archive
  <2>3. ASSUME NEW d \in Digit, x = Archive(node[c], d), arc[node[c]][d] = NONE
        PROVE  UNCHANGED arc
    BY <2>3 DEF Dispose, Archive
  <2> QED  BY <1>2, <2>1, <2>2, <2>3 DEF ItemOf
<1> HIDE DEF x
<1>4. \A p \in Pkt, n \in Node, d \in Digit :
        /\ Packed(p, n, d)' => Packed(p, n, d)
        /\ Packed(p, n, d) /\ ~Packed(p, n, d)' => sent[p] > 0
  <2>1. CASE UNCHANGED arc
    BY <2>1 DEF Packed
  <2>2. CASE ~UNCHANGED arc
    <3>1. PICK e \in Digit : /\ x = Archive(node[c], e) /\ arc[node[c]][e] # NONE
                             /\ arc' = [arc EXCEPT ![node[c]][e] = {}]
      BY <1>3, <2>2
    <3>2. Content(x) = arc[node[c]][e]
      BY <3>1 DEF Content, Archive
    <3>3. \A p \in arc[node[c]][e] : sent[p] > 0
      BY <1>1, <3>1, <3>2 DEF At, CallerAt, x
    <3>4. \A n \in Node, d \in Digit :
            arc'[n][d] = IF n = node[c] /\ d = e THEN {} ELSE arc[n][d]
      BY <1>1, <1>2, <3>1 DEF Types
    <3> QED  BY <3>3, <3>4 DEF Packed
  <2> QED  BY <2>1, <2>2
<1>5. UNCHANGED <<Unsent(c), x>>
  BY <1>1 DEF Unsent, Current, Line, x
<1>6. Alone(c)
  BY <1>1, <1>2, <1>3 DEF Alone, Types
<1>7. Types'
  <2>1. \A n \in Node, d \in Digit :
          [arc[n] EXCEPT ![d] = {}] \in [Digit -> {NONE} \cup SUBSET Pkt]
    BY <1>1 DEF Types
  <2>2. arc' \in [Node -> [Digit -> {NONE} \cup SUBSET Pkt]]
    <3>1. CASE UNCHANGED arc
      BY <1>1, <3>1 DEF Types
    <3>2. CASE \E d \in Digit : arc' = [arc EXCEPT ![node[c]] = [arc[node[c]] EXCEPT ![d] = {}]]
      BY <1>1, <1>2, <2>1, <3>2 DEF Types
    <3> QED  BY <1>3, <3>1, <3>2
  <2> QED  BY <1>1, <2>2 DEF Types, Control
<1>8. At(c)'
  <2>1. CASE UNCHANGED arc
    <3>1. UNCHANGED Content(x)
      BY <1>5, <2>1 DEF Content
    <3> QED  BY <1>1, <1>5, <3>1 DEF At, CallerAt, Calling, Opened, Types, x
  <2>2. CASE \E d \in Digit : /\ x = Archive(node[c], d)
                              /\ arc' = [arc EXCEPT ![node[c]][d] = {}]
    <3>1. Content(x)' = {}
      BY <1>1, <1>2, <1>5, <2>2 DEF Content, Archive, Types
    <3> QED  BY <1>1, <1>5, <3>1 DEF At, CallerAt, Calling, Opened, Types, x
  <2> QED  BY <1>3, <2>1, <2>2
<1>9. Kept'
  <2>1. Distinct' /\ OwnItems'
    BY <1>1, InvKept DEF Kept, Distinct, OwnItems
  <2>2. \A q \in Packer : pc'[q] = pc[q] /\ \A t \in Attacher : pc'[t] = pc[t]
    BY <1>1 DEF Types
  <2>3. OneArchive'
    BY <1>1, <1>4, <2>2, InvKept DEF Kept, OneArchive
  <2>4. Found'
    <3>1. \A i, y : UNCHANGED Listed(i, y)
      BY <1>1 DEF Listed
    <3>2. \A p, n, d : FoundArchive(p, n, d) => FoundArchive(p, n, d)'
      BY <1>1, <2>2, <3>1 DEF FoundArchive
    <3>3. \A f : FoundFile(f) => FoundFile(f)'
      BY <1>1, <2>2, <3>1 DEF FoundFile, Types
    <3> QED  BY <1>1, <1>4, <3>2, <3>3, InvKept DEF Kept, Found
  <2>5. NothingLost'
    BY <1>1, <1>4, <2>2, InvKept DEF Kept, NothingLost, Types, Sound
  <2> QED  BY <2>1, <2>3, <2>4, <2>5 DEF Kept
<1> QED  BY <1>6, <1>7, <1>8, <1>9, StepKeeps

\* An entry is marked, or the FLO file is removed: nothing that has to be sent
\* was listed only there.
LEMMA MarkKeeps ==
  ASSUME IInv, NEW c \in Caller, Mark(c)
  PROVE  IInv'
<1> USE Kinds
<1> DEFINE k == Line(c)
           i == open[c]
           e == [entries[i][k] EXCEPT !.sent = TRUE]
<1>1. /\ At(c) /\ Types /\ c \in Proc
      /\ pc[c] = "mark" /\ Unsent(c) # {}
      /\ UNCHANGED <<config, inn, tmp, arc, outf, flo, files, sent, stranded,
                     bsy, pkt, node, open, item>>
      /\ pc' = [pc EXCEPT ![c] = "read"]
  BY PlacesAt DEF IInv, Mark, out, own, Goto, At, CallerAt
<1>2. /\ node[c] \in Node /\ bsy[node[c]] = c
      /\ i = flo[node[c]] /\ i \in Inode
      /\ k \in DOMAIN entries[i] /\ Current(c) \in ItemOf(node[c])
  BY <1>1, LineOf DEF Unsent
<1>3. \A x \in Content(Current(c)) : sent[x] > 0
  BY <1>1 DEF At, CallerAt
<1>4. /\ entries[i] \in Seq(EntrySet) /\ entries[i][k] \in EntrySet
      /\ Current(c) = entries[i][k].item
  BY <1>1, <1>2 DEF Types, Current
<1>5. e \in EntrySet /\ e.item = Current(c)
  BY <1>4 DEF EntrySet
<1>6. /\ [entries[i] EXCEPT ![k] = e] \in Seq(EntrySet)
      /\ DOMAIN [entries[i] EXCEPT ![k] = e] = DOMAIN entries[i]
      /\ \A j \in DOMAIN entries[i] :
           [entries[i] EXCEPT ![k] = e][j] = IF j = k THEN e ELSE entries[i][j]
  BY <1>2, <1>4, <1>5
<1>7. entries' = [entries EXCEPT ![i] = [entries[i] EXCEPT ![k] = e]]
  BY DEF Mark
<1> HIDE DEF k, i, e
<1>8. /\ entries'[i] = [entries[i] EXCEPT ![k] = e]
      /\ \A j \in Inode \ {i} : entries'[j] = entries[j]
  BY <1>1, <1>2, <1>7 DEF Types
<1>9. Types'
  BY <1>1, <1>2, <1>6, <1>7 DEF Types, Control
<1>10. Alone(c)
  BY <1>1, <1>2, <1>8, InvKept DEF Alone, Types, Kept, Distinct
<1>11. At(c)'
  BY <1>1, <1>2 DEF At, CallerAt, Calling, Opened, Types
<1>12. \A j \in Inode : \A x :
         Listed(j, x) => Listed(j, x)' \/ (j = i /\ x = Current(c))
  <2> SUFFICES ASSUME NEW j \in Inode, NEW x, Listed(j, x), ~(j = i /\ x = Current(c))
               PROVE  Listed(j, x)'
    OBVIOUS
  <2>1. PICK l \in DOMAIN entries[j] : entries[j][l] = Entry(x, FALSE)
    BY DEF Listed
  <2>2. j = i => l # k
    BY <1>4, <2>1 DEF Entry
  <2>3. l \in DOMAIN entries'[j] /\ entries'[j][l] = entries[j][l]
    BY <1>6, <1>8, <2>1, <2>2
  <2> QED  BY <2>1, <2>3 DEF Listed
<1>13. Kept'
  <2>1. Distinct'
    BY <1>1, InvKept DEF Kept, Distinct
  <2>2. OwnItems'
    <3>1. \A n \in Node : flo[n] # NONE => flo[n] \in Inode /\ (flo[n] = i => n = node[c])
      BY <1>1, <1>2, InvKept DEF Kept, Distinct, Types
    <3>2. SUFFICES ASSUME NEW n \in Node, flo[n] # NONE,
                          NEW l \in DOMAIN entries'[flo[n]]
                   PROVE  entries'[flo[n]][l].item \in ItemOf(n)
      BY <1>1 DEF OwnItems, ItemOf
    <3>3. \A j \in DOMAIN entries[flo[n]] : entries[flo[n]][j].item \in ItemOf(n)
      BY <3>2, InvKept DEF Kept, OwnItems
    <3>4. CASE flo[n] # i
      BY <1>8, <3>1, <3>2, <3>3, <3>4
    <3>5. CASE flo[n] = i
      BY <1>2, <1>5, <1>6, <1>8, <3>1, <3>2, <3>3, <3>5
    <3> QED  BY <3>4, <3>5
  <2>3. /\ \A q \in Packer : pc'[q] = pc[q]
        /\ \A t \in Attacher : pc'[t] = pc[t]
        /\ \A p, n, d : Packed(p, n, d)' <=> Packed(p, n, d)
        /\ \A n \in Node : flo[n] # NONE => flo[n] \in Inode
        /\ config.files \subseteq File /\ config.pkts \subseteq Pkt
        /\ config.flonode \in [Pkt -> Node]
    BY <1>1 DEF Types, Packed, Sound
  <2>4. OneArchive'
    BY <1>1, <2>3, InvKept DEF Kept, OneArchive
  <2>5. NothingLost'
    BY <1>1, <2>3, InvKept DEF Kept, NothingLost
  <2>6. \A p \in Pkt, n \in Node, d \in Digit :
          Packed(p, n, d) /\ sent[p] = 0 => Current(c) # Archive(n, d)
    BY <1>3 DEF Packed, Content, Archive
  <2>7. \A f \in File : Current(c) = Plain(f) => sent[f] > 0
    BY <1>3, Kinds DEF Content, Plain
  <2>8. \A p \in Pkt, n \in Node, d \in Digit :
          Packed(p, n, d) /\ sent[p] = 0 /\ FoundArchive(p, n, d) => FoundArchive(p, n, d)'
    BY <1>1, <1>12, <2>3, <2>6 DEF FoundArchive
  <2>9. \A f \in config.files : FoundFile(f) => FoundFile(f)'
    BY <1>1, <1>12, <2>3, <2>7 DEF FoundFile
  <2>10. Found'
    BY <1>1, <2>3, <2>8, <2>9, InvKept DEF Kept, Found
  <2> QED  BY <2>1, <2>2, <2>4, <2>5, <2>10 DEF Kept
<1> QED  BY <1>9, <1>10, <1>11, <1>13, StepKeeps

LEMMA EndKeeps ==
  ASSUME IInv, NEW c \in Caller, EndCall(c)
  PROVE  IInv'
<1> USE Kinds
<1>1. /\ At(c) /\ Types /\ c \in Proc
      /\ pc[c] = "read" /\ Unsent(c) = {}
      /\ UNCHANGED <<config, inn, tmp, arc, outf, entries, files, sent, stranded,
                     pkt, item>>
      /\ pc' = [pc EXCEPT ![c] = "idle"]
      /\ open' = [open EXCEPT ![c] = NONE]
      /\ node' = [node EXCEPT ![c] = NONE]
      /\ flo' = [flo EXCEPT ![node[c]] = NONE]
      /\ bsy' = [n \in Node |-> IF n = node[c] THEN NONE ELSE bsy[n]]
  BY PlacesAt DEF IInv, EndCall, out, own, Goto, BsyDelete, Hangup, CloseFlo
<1>2. node[c] \in Node /\ bsy[node[c]] = c /\ open[c] = flo[node[c]]
  BY <1>1, LineOf
<1>3. Alone(c)
  BY <1>1, <1>2 DEF Alone, Types
<1>4. Types'
  BY <1>1, <1>2 DEF Types, Control
<1>5. At(c)'
  BY <1>1 DEF At, CallerAt, Calling, Opened, Types
<1>6. Kept'
  <2>1. Distinct' /\ OwnItems'
    BY <1>1, <1>2, InvKept DEF Kept, Distinct, OwnItems, Types
  <2>2. /\ \A q \in Packer : pc'[q] = pc[q]
        /\ \A t \in Attacher : pc'[t] = pc[t]
        /\ \A p, n, d : Packed(p, n, d)' <=> Packed(p, n, d)
        /\ \A i, x : Listed(i, x)' <=> Listed(i, x)
        /\ config.files \subseteq File /\ config.pkts \subseteq Pkt
        /\ config.flonode \in [Pkt -> Node]
    BY <1>1 DEF Types, Packed, Sound, Listed
  <2>3. OneArchive'
    BY <1>1, <2>2, InvKept DEF Kept, OneArchive
  <2>4. NothingLost'
    BY <1>1, <2>2, InvKept DEF Kept, NothingLost
  <2>5. \A x : ~Listed(flo[node[c]], x)
    BY <1>1, <1>2 DEF Listed, Entry, Unsent
  <2>6. \A n \in Node : n # node[c] => flo'[n] = flo[n]
    BY <1>1 DEF Types
  <2>7. \A p \in Pkt, n \in Node, d \in Digit :
          FoundArchive(p, n, d) => FoundArchive(p, n, d)'
    BY <1>1, <2>2, <2>5, <2>6 DEF FoundArchive
  <2>8. \A f \in config.files : FoundFile(f) => FoundFile(f)'
    BY <1>1, <2>2, <2>5, <2>6 DEF FoundFile
  <2>9. Found'
    BY <1>1, <2>2, <2>7, <2>8, InvKept DEF Kept, Found
  <2> QED  BY <2>1, <2>3, <2>4, <2>9 DEF Kept
<1> QED  BY <1>3, <1>4, <1>5, <1>6, StepKeeps

LEMMA CallKeeps ==
  ASSUME IInv, NEW c \in Caller, Call(c)
  PROVE  IInv'
BY CallTakes, SendKeeps, DisposeKeeps, MarkKeeps, EndKeeps DEF Call

\* The mailer sends an .OUT file.
LEMMA SendOutKeeps ==
  ASSUME IInv, NEW n \in Node, SendOut(n)
  PROVE  IInv'
<1> USE Kinds
<1>1. /\ Types /\ bsy[n] = NONE /\ outf[n] # NONE
      /\ UNCHANGED <<config, inn, tmp, arc, flo, entries, files, stranded,
                     bsy, pc, pkt, node, open, item>>
      /\ outf' = [outf EXCEPT ![n] = NONE]
      /\ sent' = [x \in Pkt \cup File |-> IF x \in outf[n] THEN sent[x] + 1 ELSE sent[x]]
  BY DEF IInv, SendOut, list, own
<1>2. \A x \in Pkt \cup File : /\ sent[x] > 0 => sent'[x] > 0
                               /\ sent'[x] = 0 => sent[x] = 0
                               /\ x \in outf[n] => sent'[x] > 0
  BY <1>1 DEF Types
<1>3. Types'
  BY <1>1 DEF Types
<1>4. \A m \in Node : m # n => outf'[m] = outf[m]
  BY <1>1 DEF Types
<1>5. Alone(NONE)
  BY <1>1, <1>2, <1>4 DEF Alone
<1>6. /\ config.files \subseteq File /\ config.pkts \subseteq Pkt
      /\ \A p, m, d : Packed(p, m, d)' <=> Packed(p, m, d)
      /\ \A i, x : Listed(i, x)' <=> Listed(i, x)
      /\ \A x \in Pkt \cup File : sent[x] \in Nat
  BY <1>1 DEF Types, Sound, Packed, Listed
<1>7. Distinct' /\ OwnItems'
  BY <1>1, InvKept DEF Kept, Distinct, OwnItems
<1>8. OneArchive'
  BY <1>1, <1>2, <1>6, InvKept DEF Kept, OneArchive
<1>9. Found'
  <2>1. \A p, m, d : FoundArchive(p, m, d) => FoundArchive(p, m, d)'
    BY <1>1, <1>6 DEF FoundArchive
  <2>2. \A f \in config.files : FoundFile(f) => FoundFile(f)'
    BY <1>1, <1>2, <1>6 DEF FoundFile
  <2> QED  BY <1>1, <1>2, <1>6, <2>1, <2>2, InvKept DEF Kept, Found
<1>10. NothingLost'
  BY <1>1, <1>2, <1>4, <1>6, InvKept DEF Kept, NothingLost
<1>11. Kept'
  BY <1>7, <1>8, <1>9, <1>10 DEF Kept
<1> QED  BY <1>3, <1>5, <1>11, StepKeeps

-----------------------------------------------------------------------------
(* bink_attach(), by ftnpack and by those that attach files                *)

LEMMA ListingAt ==
  ASSUME IInv, NEW p \in Packer \cup Attacher, pc[p] \in Listing
  PROVE  /\ p \in Proc /\ node[p] \in Node /\ bsy[node[p]] = p
         /\ item[p] \in ItemOf(node[p])
         /\ pc[p] # "open" => /\ open[p] = flo[node[p]] /\ open[p] \in Inode
<1> USE Kinds
<1>1. At(p) /\ Types /\ p \in Proc
  BY PlacesAt DEF IInv
<1>2. p \in Packer => node[p] \in Node /\ bsy[node[p]] = p /\ item[p] \in ItemOf(node[p])
  <2> SUFFICES ASSUME p \in Packer
               PROVE  node[p] \in Node /\ bsy[node[p]] = p /\ item[p] \in ItemOf(node[p])
    OBVIOUS
  <2>1. pkt[p] \in Pkt /\ node[p] = Flonode(p) /\ bsy[Flonode(p)] = p
    BY <1>1 DEF At, PackerAt, Inside, Archived, Listing
  <2>2. item[p] \in ItemOf(Flonode(p))
    BY <1>1 DEF At, PackerAt, Archived, Listing, ItemOf
  <2> QED  BY <1>1, <2>1, <2>2, NodesOf
<1>3. p \in Attacher => node[p] \in Node /\ bsy[node[p]] = p /\ item[p] \in ItemOf(node[p])
  BY <1>1 DEF At, AttacherAt, ItemOf
<1>4. pc[p] # "open" => flo[node[p]] # NONE /\ open[p] = flo[node[p]]
  BY <1>1 DEF At, Listing, Opened
<1> QED  BY <1>1, <1>2, <1>3, <1>4 DEF Types

\* The places of a process that goes on listing.
LEMMA StillListing ==
  ASSUME IInv, NEW p \in Packer \cup Attacher, pc[p] \in Listing,
         NEW l \in Listing, pc' = [pc EXCEPT ![p] = l],
         UNCHANGED <<config, bsy, pkt, node, item>>,
         l # "open" => (flo[node[p]] # NONE /\ open[p] = flo[node[p]])',
         l = "open" => open'[p] = NONE
  PROVE  At(p)'
<1> USE Kinds
<1>1. At(p) /\ Types /\ p \in Proc
  BY PlacesAt DEF IInv
<1>2. pc'[p] = l
  BY <1>1 DEF Types
<1>3. p \in Packer => PackerAt(p)'
  BY <1>1, <1>2 DEF At, PackerAt, Listing, Inside, Archived, OutFile, Flonode
<1>4. p \in Attacher => AttacherAt(p)'
  BY <1>1, <1>2 DEF At, AttacherAt
<1>5. p \notin Caller
  OBVIOUS
<1> QED  BY <1>2, <1>3, <1>4, <1>5 DEF At, Opened, Listing

\* There is an inode for the FLO file of a node that has none.
LEMMA UnusedInode ==
  ASSUME IInv, NEW n \in Node, flo[n] = NONE
  PROVE  Unused # {}
<1>1. PICK j \in Inode : \A m \in Node : flo[m] # j
  BY InodesAssumption DEF IInv, Types
<1>2. \A r \in Proc : open[r] # j
  <2>1. SUFFICES ASSUME NEW r \in Proc, pc[r] \in Opened PROVE open[r] # j
    BY <1>1, Kinds DEF IInv, Names
  <2>2. open[r] = flo[node[r]] /\ node[r] \in Node
    BY <2>1, OpenedNode DEF IInv
  <2> QED  BY <1>1, <2>2
<1> QED  BY <1>1, <1>2 DEF Unused

LEMMA OpenKeeps ==
  ASSUME IInv, NEW p \in Packer \cup Attacher, OpenFlo(p)
  PROVE  IInv'
<1> USE Kinds
<1>1. /\ pc[p] = "open" /\ Types
      /\ UNCHANGED <<config, inn, tmp, arc, outf, bsy, files, sent, pkt, node, item,
                     stranded>>
      /\ pc' = [pc EXCEPT ![p] = "lock"]
  BY DEF IInv, OpenFlo, Goto, out
<1>2. p \in Proc /\ node[p] \in Node /\ bsy[node[p]] = p
  BY <1>1, ListingAt DEF Listing
<1>3. CASE flo[node[p]] # NONE
  <2>1. open' = [open EXCEPT ![p] = flo[node[p]]] /\ UNCHANGED <<flo, entries>>
    BY <1>3 DEF OpenFlo
  <2>2. Types'
    BY <1>1, <1>2, <1>3, <2>1 DEF Types, Control
  <2>3. Alone(p)
    BY <1>1, <2>1 DEF Alone, Types
  <2>4. At(p)'
    BY <1>1, <1>2, <1>3, <2>1, StillListing DEF Types, Listing
  <2>5. Kept'
    BY <1>1, <2>1, InvKept, Paper DEF Types, Listing, Mail
  <2> QED  BY <2>2, <2>3, <2>4, <2>5, StepKeeps
<1>4. CASE flo[node[p]] = NONE
  <2> DEFINE i == CHOOSE i \in Unused : TRUE
  <2>1. Unused # {}
    BY <1>2, <1>4, UnusedInode
  <2>2. i \in Inode /\ \A n \in Node : flo[n] # i
    BY <2>1 DEF Unused
  <2>3. /\ open' = [open EXCEPT ![p] = i] /\ flo' = [flo EXCEPT ![node[p]] = i]
        /\ entries' = [entries EXCEPT ![i] = <<>>]
    BY <1>4 DEF OpenFlo
  <2> HIDE DEF i
  <2>4. /\ flo'[node[p]] = i /\ entries'[i] = <<>>
        /\ \A n \in Node : n # node[p] =>
             /\ flo'[n] = flo[n]
             /\ flo[n] # NONE => entries'[flo[n]] = entries[flo[n]]
    BY <1>1, <1>2, <2>2, <2>3 DEF Types
  <2>5. <<>> \in Seq(EntrySet) /\ DOMAIN <<>> = {}
    OBVIOUS
  <2>6. Types'
    BY <1>1, <1>2, <2>2, <2>3, <2>5 DEF Types, Control
  <2>7. Alone(p)
    BY <1>1, <1>2, <2>3, <2>4 DEF Alone, Types
  <2>8. At(p)'
    BY <1>1, <1>2, <2>2, <2>3, <2>4, StillListing DEF Types, Listing
  <2>9. /\ Distinct'
        /\ \A q \in Packer : pc[q] \in Listing <=> pc'[q] \in Listing
        /\ \A q \in Packer : pc[q] \notin Listing => pc'[q] = pc[q]
        /\ \A t \in Attacher : pc[t] \in Listing <=> pc'[t] \in Listing
        /\ \A r, n, d : Packed(r, n, d)' <=> Packed(r, n, d)
        /\ config.files \subseteq File /\ config.pkts \subseteq Pkt
        /\ config.flonode \in [Pkt -> Node]
    BY ZenonT(60), <1>1, <2>2, <2>4, InvKept DEF Kept, Distinct, Types, Listing, Packed, Sound
  <2>10. \A n \in Node : flo[n] # NONE =>
           /\ flo'[n] = flo[n]
           /\ \A x : Listed(flo[n], x) <=> Listed(flo[n], x)'
    BY <1>1, <1>4, <2>4 DEF Listed
  <2>11. OwnItems'
    BY <1>1, <2>4, <2>5, InvKept DEF Kept, OwnItems, ItemOf
  <2>12. OneArchive'
    BY <1>1, <2>9, InvKept DEF Kept, OneArchive, Listing
  <2>13. NothingLost'
    BY <1>1, <2>9, InvKept DEF Kept, NothingLost, Listing
  <2>14. Found'
    <3>1. \A r \in Pkt, n \in Node, d \in Digit :
            FoundArchive(r, n, d) => FoundArchive(r, n, d)'
      BY <1>1, <2>9, <2>10 DEF FoundArchive, Listing
    <3>2. \A f \in config.files : FoundFile(f) => FoundFile(f)'
      BY <1>1, <2>9, <2>10 DEF FoundFile
    <3> QED  BY <1>1, <2>9, <3>1, <3>2, InvKept DEF Kept, Found
  <2> QED  BY <2>6, <2>7, <2>8, <2>9, <2>11, <2>12, <2>13, <2>14, StepKeeps DEF Kept
<1> QED  BY <1>3, <1>4

LEMMA LockKeeps ==
  ASSUME IInv, NEW p \in Packer \cup Attacher, LockFlo(p)
  PROVE  IInv'
<1> USE Kinds
<1>1. pc[p] = "lock" /\ Types
  BY DEF IInv, LockFlo
<1>2. /\ p \in Proc /\ node[p] \in Node /\ bsy[node[p]] = p
      /\ open[p] = flo[node[p]] /\ flo[node[p]] # NONE
  BY <1>1, ListingAt DEF Listing
<1>3. /\ UNCHANGED <<Mail, sent, stranded, bsy, pkt, node, open, item>>
      /\ pc' = [pc EXCEPT ![p] = "attach"]
  BY <1>2 DEF LockFlo, Goto, Mail, out
<1>4. UNCHANGED <<config, inn, tmp, arc, outf, flo, entries, files>>
  BY <1>3 DEF Mail
<1>5. Types'
  BY <1>1, <1>3, <1>4 DEF Types, Control
<1>6. Alone(p)
  BY <1>1, <1>3, <1>4 DEF Alone, Types
<1>7. At(p)'
  BY <1>1, <1>2, <1>3, <1>4, StillListing DEF Listing
<1>8. Kept'
  BY <1>1, <1>3, InvKept, Paper DEF Types, Listing
<1> QED  BY <1>5, <1>6, <1>7, <1>8, StepKeeps

LEMMA AppendIs ==
  ASSUME NEW S, NEW s \in Seq(S), NEW x \in S
  PROVE  /\ Append(s, x) \in Seq(S)
         /\ DOMAIN s \subseteq DOMAIN Append(s, x)
         /\ \A k \in DOMAIN s : Append(s, x)[k] = s[k]
         /\ \E k \in DOMAIN Append(s, x) : Append(s, x)[k] = x
         /\ \A k \in DOMAIN Append(s, x) : k \notin DOMAIN s => Append(s, x)[k] = x
<1>1. /\ Append(s, x) \in Seq(S) /\ DOMAIN Append(s, x) = 1 .. Len(s) + 1
      /\ DOMAIN s = 1 .. Len(s) /\ Len(s) \in Nat
      /\ \A k \in 1 .. Len(s) + 1 : Append(s, x)[k] = IF k <= Len(s) THEN s[k] ELSE x
  OBVIOUS
<1> QED  BY <1>1

LEMMA AttachKeeps ==
  ASSUME IInv, NEW p \in Packer \cup Attacher, Attach(p)
  PROVE  IInv'
<1> USE Kinds
<1>0. PICK i, x : i = open[p] /\ x = item[p]
  OBVIOUS
<1> DEFINE e == Entry(x, FALSE)
<1>1. /\ pc[p] = "attach" /\ Types /\ At(p)
      /\ UNCHANGED <<config, inn, tmp, arc, outf, flo, files, sent, pkt, stranded>>
      /\ open' = [open EXCEPT ![p] = NONE]
  BY <1>0, PlacesAt DEF IInv, Attach, out, CloseFlo, Proc
<1>how. \/ entries' = entries /\ Listed(i, x)
        \/ entries' = [entries EXCEPT ![i] = Append(entries[i], e)]
  BY <1>0 DEF Attach
<1>2. /\ p \in Proc /\ node[p] \in Node /\ bsy[node[p]] = p
      /\ i = flo[node[p]] /\ i \in Inode /\ x \in ItemOf(node[p])
  BY <1>0, <1>1, ListingAt DEF Listing
<1>3. /\ p \in Packer => /\ UNCHANGED <<bsy, node, item>>
                         /\ pc' = [pc EXCEPT ![p] = "release"]
      /\ p \in Attacher => /\ bsy' = [n \in Node |-> IF n = node[p] THEN NONE ELSE bsy[n]]
                           /\ node' = [node EXCEPT ![p] = NONE]
                           /\ item' = [item EXCEPT ![p] = NONE]
                           /\ pc' = [pc EXCEPT ![p] = "idle"]
  BY DEF Attach, Goto, BsyDelete
<1>4. /\ entries[i] \in Seq(EntrySet) /\ e \in EntrySet /\ e.item = x
  <2>1. ItemOf(node[p]) \subseteq Item
    BY <1>2 DEF ItemOf, Item
  <2> QED  BY <1>1, <1>2, <2>1 DEF Types, EntrySet, Entry
<1> HIDE DEF e
<1>new. PICK s : s = Append(entries[i], e)
  OBVIOUS
<1>5. /\ s \in Seq(EntrySet)
      /\ DOMAIN entries[i] \subseteq DOMAIN s
      /\ \A k \in DOMAIN entries[i] : s[k] = entries[i][k]
      /\ \E k \in DOMAIN s : s[k] = e
      /\ \A k \in DOMAIN s : k \notin DOMAIN entries[i] => s[k] = e
  BY <1>4, <1>new, AppendIs
<1>6. /\ entries' \in [Inode -> Seq(EntrySet)]
      /\ \A j \in Inode \ {i} : entries'[j] = entries[j]
      /\ DOMAIN entries[i] \subseteq DOMAIN entries'[i]
      /\ \A k \in DOMAIN entries[i] : entries'[i][k] = entries[i][k]
      /\ \A k \in DOMAIN entries'[i] : k \in DOMAIN entries[i] \/ entries'[i][k] = e
      /\ \E k \in DOMAIN entries'[i] : entries'[i][k] = e
  <2>1. CASE entries' = entries /\ Listed(i, x)
    BY <1>1, <2>1 DEF Types, Listed, e
  <2>2. CASE entries' = [entries EXCEPT ![i] = Append(entries[i], e)]
    <3>1. entries \in [Inode -> Seq(EntrySet)]
      BY <1>1 DEF Types
    <3>2. entries' = [entries EXCEPT ![i] = s]
      BY <1>new, <2>2
    <3>3. /\ entries' \in [Inode -> Seq(EntrySet)]
          /\ \A j \in Inode \ {i} : entries'[j] = entries[j]
          /\ entries'[i] = s
      BY <1>2, <1>5, <3>1, <3>2
    <3> QED  BY <1>5, <3>3
  <2> QED  BY <1>how, <2>1, <2>2
<1>7. \A j \in Inode : \A y : Listed(j, y) => Listed(j, y)'
  <2>1. SUFFICES ASSUME NEW j \in Inode, NEW y, Listed(j, y) PROVE Listed(j, y)'
    OBVIOUS
  <2>2. PICK k \in DOMAIN entries[j] : entries[j][k] = Entry(y, FALSE)
    BY <2>1 DEF Listed
  <2>3. k \in DOMAIN entries'[j] /\ entries'[j][k] = entries[j][k]
    BY <1>6, <2>2
  <2> QED  BY <2>2, <2>3 DEF Listed
<1>8. Listed(i, x)'
  BY <1>6 DEF Listed, e
<1>9. Types'
  <2>1. /\ bsy' \in [Node -> Proc \cup {NONE}] /\ pc' \in [Proc -> Control]
        /\ node' \in [Proc -> Node \cup {NONE}] /\ item' \in [Proc -> Item \cup {NONE}]
        /\ open' \in [Proc -> Inode \cup {NONE}]
    <3>1. CASE p \in Packer
      BY ZenonT(60), <1>1, <1>3, <3>1 DEF Types, Control
    <3>2. CASE p \in Attacher
      <4>1. bsy' \in [Node -> Proc \cup {NONE}]
        BY <1>1, <1>3, <3>2 DEF Types
      <4>2. pc' \in [Proc -> Control]
        <5>1. pc \in [Proc -> Control] /\ "idle" \in Control
          BY <1>1 DEF Types, Control
        <5>2. pc' = [pc EXCEPT ![p] = "idle"]
          BY <1>3, <3>2
        <5> QED  BY <5>1, <5>2
      <4>3. node' \in [Proc -> Node \cup {NONE}]
        BY <1>1, <1>3, <3>2 DEF Types
      <4>4. item' \in [Proc -> Item \cup {NONE}]
        BY <1>1, <1>3, <3>2 DEF Types
      <4>5. open' \in [Proc -> Inode \cup {NONE}]
        BY <1>1 DEF Types
      <4> QED  BY <4>1, <4>2, <4>3, <4>4, <4>5
    <3> QED  BY <3>1, <3>2
  <2> QED  BY <1>1, <1>6, <2>1 DEF Types
<1>10. Alone(p)
  BY <1>1, <1>2, <1>3, <1>6, InvKept DEF Alone, Types, Kept, Distinct
<1>11. At(p)'
  <2>1. CASE p \in Packer
    BY <1>1, <1>2, <1>3, <2>1
       DEF At, PackerAt, Types, Listing, Inside, Archived, OutFile, Opened, Flonode
  <2>2. CASE p \in Attacher
    BY <1>1, <1>2, <1>3, <2>2 DEF At, AttacherAt, Types, Listing, Opened
  <2> QED  BY <2>1, <2>2
<1>12. /\ \A r \in Proc : r # p => pc'[r] = pc[r] /\ item'[r] = item[r]
       /\ \A n \in Node : flo[n] # NONE => flo[n] \in Inode /\ (flo[n] = i => n = node[p])
       /\ \A r, n, d : Packed(r, n, d)' <=> Packed(r, n, d)
       /\ config.files \subseteq File /\ config.pkts \subseteq Pkt
       /\ config.flonode \in [Pkt -> Node]
  BY <1>1, <1>2, <1>3, InvKept DEF Types, Kept, Distinct, Packed, Sound
<1>13. OwnItems'
  <2>1. SUFFICES ASSUME NEW n \in Node, flo[n] # NONE, NEW k \in DOMAIN entries'[flo[n]]
                 PROVE  entries'[flo[n]][k].item \in ItemOf(n)
    BY <1>1 DEF OwnItems, ItemOf
  <2>2. \A j \in DOMAIN entries[flo[n]] : entries[flo[n]][j].item \in ItemOf(n)
    BY <2>1, InvKept DEF Kept, OwnItems
  <2>3. CASE flo[n] # i
    BY <1>6, <1>12, <2>1, <2>2, <2>3
  <2>4. CASE flo[n] = i
    BY <1>2, <1>4, <1>6, <1>12, <2>1, <2>2, <2>4
  <2> QED  BY <2>3, <2>4
<1>14. /\ Distinct'
       /\ \A q \in Packer : q # p \/ (pc[q] = "attach" /\ pc'[q] = "release" /\ item'[q] = item[q])
  BY <1>1, <1>3, InvKept DEF Kept, Distinct, Types
<1>15. OneArchive'
  BY <1>1, <1>12, <1>14, InvKept DEF Kept, OneArchive, Listing
<1>16. NothingLost'
  BY <1>1, <1>12, <1>14, InvKept DEF Kept, NothingLost
<1>17. Found'
  <2>1. ASSUME NEW r \in Pkt \ stranded, NEW n \in Node, NEW d \in Digit,
               Packed(r, n, d), sent[r] = 0
        PROVE  FoundArchive(r, n, d)'
    <3>1. CASE p \in Packer /\ pkt[p] = r
      <4>1. x = Archive(n, d)
        BY <1>0, <1>1, <2>1, <3>1, InvKept DEF Kept, OneArchive
      <4>2. node[p] = config.flonode[r]
        BY <1>1, <3>1 DEF At, PackerAt, Listing, Flonode
      <4> QED  BY <1>1, <1>2, <1>8, <1>12, <4>1, <4>2 DEF FoundArchive
    <3>2. CASE ~(p \in Packer /\ pkt[p] = r)
      <4>1. FoundArchive(r, n, d)
        BY <2>1, InvKept DEF Kept, Found
      <4> QED  BY <1>1, <1>7, <1>12, <3>2, <4>1 DEF FoundArchive
    <3> QED  BY <3>1, <3>2
  <2>2. ASSUME NEW f \in config.files, FoundFile(f)
        PROVE  FoundFile(f)'
    <3>1. CASE x = Plain(f)
      BY <1>1, <1>2, <1>8, <1>12, <3>1 DEF FoundFile
    <3>2. CASE x # Plain(f)
      BY <1>0, <1>1, <1>7, <1>12, <2>2, <3>2 DEF FoundFile
    <3> QED  BY <3>1, <3>2
  <2> QED  BY <1>1, <1>12, <2>1, <2>2, InvKept DEF Kept, Found
<1> QED  BY <1>9, <1>10, <1>11, <1>13, <1>14, <1>15, <1>16, <1>17, StepKeeps DEF Kept

LEMMA StartAttachKeeps ==
  ASSUME IInv, NEW t \in Attacher, NEW n \in Node, StartAttach(t, n)
  PROVE  IInv'
<1> USE Kinds
<1>1. PICK f \in files : files' = files \ {f} /\ item' = [item EXCEPT ![t] = Plain(f)]
  BY DEF StartAttach
<1>2. /\ Types /\ At(t) /\ t \in Proc /\ pc[t] = "idle" /\ bsy[n] = NONE
      /\ UNCHANGED <<config, inn, tmp, arc, outf, flo, entries, sent, pkt, open, stranded>>
      /\ bsy' = [bsy EXCEPT ![n] = t]
      /\ node' = [node EXCEPT ![t] = n]
      /\ pc' = [pc EXCEPT ![t] = "open"]
  BY PlacesAt DEF IInv, StartAttach, out, list, Goto
<1>3. f \in File /\ Plain(f) \in Item
  BY <1>1, <1>2 DEF Types, Item
<1>4. Types'
  BY <1>1, <1>2, <1>3 DEF Types, Control
<1>5. Alone(t)
  BY <1>1, <1>2 DEF Alone, Types
<1>6. At(t)'
  BY <1>1, <1>2, <1>3 DEF At, AttacherAt, Types, Listing, Opened
<1>7. /\ \A r \in Proc : r # t => pc'[r] = pc[r] /\ item'[r] = item[r]
      /\ pc'[t] \in Listing /\ item'[t] = Plain(f) /\ pc[t] \notin Listing
      /\ \A r, m, d : Packed(r, m, d)' <=> Packed(r, m, d)
      /\ \A i, x : Listed(i, x)' <=> Listed(i, x)
  BY <1>1, <1>2 DEF Types, Packed, Listed, Listing
<1>8. Distinct' /\ OwnItems'
  BY <1>2, InvKept DEF Kept, Distinct, OwnItems
<1>9. OneArchive'
  BY <1>2, <1>7, InvKept DEF Kept, OneArchive
<1>10. NothingLost'
  BY <1>2, <1>7, InvKept DEF Kept, NothingLost
<1>11. Found'
  <2>1. \A p, m, d : FoundArchive(p, m, d) => FoundArchive(p, m, d)'
    BY <1>2, <1>7 DEF FoundArchive
  <2>2. \A g : FoundFile(g) => FoundFile(g)'
    BY <1>2, <1>7 DEF FoundFile
  <2>3. FoundFile(f)'
    BY <1>7 DEF FoundFile
  <2> QED  BY <1>1, <1>2, <1>7, <2>1, <2>2, <2>3, InvKept DEF Kept, Found
<1> QED  BY <1>4, <1>5, <1>6, <1>8, <1>9, <1>10, <1>11, StepKeeps DEF Kept

-----------------------------------------------------------------------------
(* ftnpack                                                                 *)

LEMMA InsideAt ==
  ASSUME IInv, NEW q \in Packer, pc[q] \in Inside
  PROVE  /\ pkt[q] \in Pkt /\ Flonode(q) \in Node /\ bsy[Flonode(q)] = q
         /\ Arcnode(q) = Flonode(q) /\ To(q) \in Node
         /\ config.noarc[pkt[q]] => To(q) = Flonode(q)
<1> USE Kinds
<1>1. At(q)
  BY PlacesAt DEF IInv
<1>2. pkt[q] \in Pkt /\ bsy[Flonode(q)] = q
  BY <1>1 DEF At, PackerAt, Inside, Archived, OutFile, Listing
<1> QED  BY <1>2, NodesOf DEF IInv

\* Steps of ftnpack before the archiver and after bink_attach().
LEMMA PackFrame ==
  ASSUME IInv, NEW q \in Packer, pc[q] \notin {"remove"} \cup Listing,
         UNCHANGED <<config, flo, entries, files, sent>>, stranded \subseteq stranded',
         \A t \in Attacher : pc'[t] = pc[t] /\ item'[t] = item[t],
         \A r \in Pkt, n \in Node, d \in Digit : Packed(r, n, d)' => Packed(r, n, d),
         \A r \in (inn' \cup tmp') \ (inn \cup tmp) : r = pkt[q] /\ pc[q] # "release",
         pkt'[q] \in {pkt[q], NONE} \cup inn,
         pc[q] = "release" => pkt'[q] = NONE
  PROVE  Distinct' /\ OwnItems' /\ OneArchive' /\ Found'
<1> USE Kinds
<1>1. Distinct' /\ OwnItems'
  BY InvKept DEF Kept, Distinct, OwnItems
<1>2. ASSUME NEW r \in Pkt \ stranded', NEW n \in Node, NEW d \in Digit,
             Packed(r, n, d)', sent[r] = 0
      PROVE  /\ n = config.flonode[r] /\ r \notin inn \cup tmp
             /\ pkt[q] = r => pc[q] = "release"
             /\ FoundArchive(r, n, d)
  BY <1>2, InvKept DEF Kept, OneArchive, Found
<1>3. OneArchive'
  BY <1>2 DEF OneArchive
<1>4. \A i, x : Listed(i, x)' <=> Listed(i, x)
  BY DEF Listed
<1>5. \A r, n, d : FoundArchive(r, n, d) => FoundArchive(r, n, d)'
  BY <1>4 DEF FoundArchive
<1>6. \A f \in config.files : FoundFile(f) => FoundFile(f)'
  BY <1>4 DEF FoundFile
<1>7. Found'
  BY <1>2, <1>5, <1>6, InvKept DEF Kept, Found
<1> QED  BY <1>1, <1>3, <1>7

LEMMA TakeKeeps ==
  ASSUME IInv, NEW q \in Packer,
         TakePacket(q) \/ BusyTake(q) \/ BusySkip(q) \/ Release(q)
  PROVE  IInv'
<1> USE Kinds
<1>1. /\ At(q) /\ Types /\ q \in Proc
      /\ UNCHANGED <<config, inn, tmp, arc, outf, flo, entries, files, sent,
                     open, stranded>>
      /\ pc[q] \in {"idle", "busy", "release"}
      /\ \A r \in Proc \ {q} : /\ pc'[r] = pc[r] /\ pkt'[r] = pkt[r]
                               /\ node'[r] = node[r] /\ item'[r] = item[r]
  BY PlacesAt DEF IInv, TakePacket, BusyTake, BusySkip, Release, out, list, own, Goto, Types
<1>2. \A r, n, d : Packed(r, n, d)' <=> Packed(r, n, d)
  BY <1>1 DEF Packed
<1>3. NothingLost'
  BY <1>1, <1>2, InvKept DEF Kept, NothingLost
<1>4. CASE TakePacket(q)
  <2>1. PICK p \in inn : /\ pkt' = [pkt EXCEPT ![q] = p] /\ pc[q] = "idle"
                         /\ pc' = [pc EXCEPT ![q] = "busy"]
                         /\ UNCHANGED <<node, item, bsy>>
    BY <1>4 DEF TakePacket, Goto
  <2>2. Types'
    BY <1>1, <2>1 DEF Types, Control
  <2>3. At(q)'
    BY <1>1, <2>1
       DEF At, PackerAt, Types, Inside, Archived, OutFile, Listing, Opened
  <2>4. Alone(q)
    BY <1>1, <2>1 DEF Alone
  <2>5. OneArchive' /\ Found' /\ Distinct' /\ OwnItems'
    BY SMTT(60), <1>1, <1>2, <2>1, PackFrame DEF Listing, Types
  <2> QED  BY <1>3, <2>2, <2>3, <2>4, <2>5, StepKeeps DEF Kept
<1>5. CASE BusyTake(q)
  <2>1. /\ pc[q] = "busy" /\ UNCHANGED <<pkt, node, item>>
        /\ pc' = [pc EXCEPT ![q] = IF config.noarc[pkt[q]] THEN "open_out" ELSE "search"]
    BY <1>5 DEF BusyTake, Goto, own
  <2>2. pkt[q] \in Pkt /\ Flonode(q) \in Node /\ Arcnode(q) = Flonode(q)
    BY <1>1, <2>1, NodesOf DEF At, PackerAt
  <2>3. bsy[Flonode(q)] = NONE /\ bsy' = [bsy EXCEPT ![Flonode(q)] = q]
    BY <1>5, <2>2 DEF BusyTake
  <2>4. Types'
    BY <1>1, <2>1, <2>3 DEF Types, Control
  <2>5. bsy'[Flonode(q)] = q /\ UNCHANGED Flonode(q)
    BY <1>1, <2>1, <2>2, <2>3 DEF Types, Flonode
  <2>6. At(q)'
    BY <1>1, <2>1, <2>2, <2>5
       DEF At, PackerAt, Types, Inside, Archived, OutFile, Listing, Opened
  <2>7. Alone(q)
    BY <1>1, <2>1, <2>2, <2>3 DEF Alone, Types
  <2>8. OneArchive' /\ Found' /\ Distinct' /\ OwnItems'
    BY <1>1, <1>2, <2>1, PackFrame DEF Listing
  <2> QED  BY <1>3, <2>4, <2>6, <2>7, <2>8, StepKeeps DEF Kept
<1>6. CASE BusySkip(q) \/ Release(q)
  <2>1. /\ pc' = [pc EXCEPT ![q] = "idle"] /\ pkt' = [pkt EXCEPT ![q] = NONE]
        /\ \/ UNCHANGED <<bsy, node, item>>
           \/ /\ pc[q] = "release"
              /\ node' = [node EXCEPT ![q] = NONE] /\ item' = [item EXCEPT ![q] = NONE]
              /\ bsy' = [n \in Node |-> IF n \in {Arcnode(q), Flonode(q)}
                                        THEN NONE ELSE bsy[n]]
    BY <1>6 DEF BusySkip, Release, Goto, BsyDelete
  <2>2. Types'
    <3>1. bsy' \in [Node -> Proc \cup {NONE}]
      BY <1>1, <2>1 DEF Types
    <3>2. node' \in [Proc -> Node \cup {NONE}] /\ item' \in [Proc -> Item \cup {NONE}]
      BY <1>1, <2>1 DEF Types
    <3>3. pc' \in [Proc -> Control] /\ pkt' \in [Proc -> Pkt \cup {NONE}]
      BY <1>1, <2>1 DEF Types, Control
    <3> QED  BY <1>1, <3>1, <3>2, <3>3 DEF Types
  <2>3. At(q)'
    BY <1>1, <2>1
       DEF At, PackerAt, Types, Inside, Archived, OutFile, Listing, Opened
  <2>4. \A n \in Node : bsy[n] \notin {q, NONE} => bsy'[n] = bsy[n]
    BY <1>1, <2>1, InsideAt DEF Inside
  <2>5. Alone(q)
    BY <1>1, <2>4 DEF Alone
  <2>6. pkt'[q] = NONE
    BY <1>1, <2>1 DEF Types
  <2>7. OneArchive' /\ Found' /\ Distinct' /\ OwnItems'
    BY <1>1, <1>2, <2>6, PackFrame DEF Listing
  <2> QED  BY <1>3, <2>2, <2>3, <2>5, <2>7, StepKeeps DEF Kept
<1> QED  BY <1>4, <1>5, <1>6

LEMMA SearchKeeps ==
  ASSUME IInv, NEW q \in Packer, Search(q)
  PROVE  IInv'
<1> USE Kinds
<1> DEFINE n == Arcnode(q)
           empty == {d \in Digit : arc[n][d] = {}}
<1>1. /\ At(q) /\ Types /\ q \in Proc /\ pc[q] = "search"
      /\ UNCHANGED <<config, inn, tmp, outf, flo, entries, files, sent,
                     open, stranded, bsy, pkt, node>>
      /\ pc' = [pc EXCEPT ![q] = "rename"]
      /\ arc' = [arc EXCEPT ![n] = [d \in Digit |-> IF d \in empty THEN NONE ELSE @[d]]]
  BY PlacesAt DEF IInv, Search, out, list, Goto
<1>2. pkt[q] \in Pkt /\ n \in Node /\ n = Flonode(q) /\ bsy[n] = q
  BY <1>1, InsideAt DEF Inside
<1>3. PICK fresh \in SUBSET (empty \ {LastChar}) :
        item' = [item EXCEPT ![q] = Archive(n, NextDigit(arc[n], fresh))]
  BY DEF Search
<1>4. NextDigit(arc[n], fresh) \in Digit
  BY <1>1, <1>2, NextDigitIsDigit DEF Types
<1>5. PICK d \in Digit : item' = [item EXCEPT ![q] = Archive(n, d)]
  BY <1>3, <1>4
<1>6. \A m \in Node, e \in Digit :
        /\ m # n => arc'[m] = arc[m]
        /\ arc'[m][e] = arc[m][e] \/ (arc[m][e] = {} /\ arc'[m][e] = NONE)
  BY <1>1, <1>2 DEF Types
<1>7. arc' \in [Node -> [Digit -> {NONE} \cup SUBSET Pkt]]
  <2>1. [e \in Digit |-> IF e \in empty THEN NONE ELSE arc[n][e]]
          \in [Digit -> {NONE} \cup SUBSET Pkt]
    BY <1>1, <1>2 DEF Types
  <2> QED  BY <1>1, <1>2, <2>1 DEF Types
<1> HIDE DEF n, empty
<1>8. Types'
  <2>1. Archive(n, d) \in Item
    BY <1>2 DEF Item
  <2> QED  BY <1>1, <1>5, <1>7, <2>1 DEF Types, Control
<1>9. Alone(q)
  BY <1>1, <1>2, <1>5, <1>6 DEF Alone, Types
<1>10. At(q)'
  <2>1. item'[q] = Archive(n, d) /\ pc'[q] = "rename" /\ UNCHANGED Flonode(q)
    BY <1>1, <1>5 DEF Types, Flonode
  <2> QED  BY <1>1, <1>2, <2>1
           DEF At, PackerAt, Inside, Archived, OutFile, Listing, Opened
<1>11. \A r \in Pkt, m \in Node, e \in Digit : Packed(r, m, e)' <=> Packed(r, m, e)
  BY <1>6 DEF Packed
<1>12. /\ \A t \in Attacher : pc'[t] = pc[t] /\ item'[t] = item[t]
       /\ pc'[q] = "rename"
  BY <1>1, <1>5 DEF Types
<1>13. OneArchive' /\ Found' /\ Distinct' /\ OwnItems'
  BY <1>1, <1>11, <1>12, PackFrame DEF Listing
<1>14. NothingLost'
  BY <1>1, <1>11, <1>12, InvKept DEF Kept, NothingLost, Types, Sound
<1> QED  BY <1>8, <1>9, <1>10, <1>13, <1>14, StepKeeps DEF Kept

LEMMA MoveKeeps ==
  ASSUME IInv, NEW q \in Packer, RenamePacket(q) \/ CopyPacket(q) \/ UnlinkPacket(q)
  PROVE  IInv'
<1> USE Kinds
<1>1. /\ At(q) /\ Types /\ q \in Proc
      /\ pc[q] \in {"rename", "unlink", "unlink_out"}
      /\ UNCHANGED <<config, arc, outf, flo, entries, files, sent, open, stranded,
                     bsy, pkt, node, item>>
  BY PlacesAt DEF IInv, RenamePacket, CopyPacket, UnlinkPacket, out, list, own
<1>2. PICK p : p = pkt[q]
  OBVIOUS
<1>3. p \in Pkt /\ Flonode(q) \in Node /\ bsy[Flonode(q)] = q
  BY <1>1, <1>2, InsideAt DEF Inside, Archived, OutFile
<1>4. \/ /\ pc[q] = "rename" /\ pc' = [pc EXCEPT ![q] = "archive"]
         /\ IF config.same THEN UNCHANGED <<inn, tmp>>
                           ELSE inn' = inn \ {p} /\ tmp' = tmp \cup {p}
      \/ /\ pc[q] = "rename" /\ pc' = [pc EXCEPT ![q] = "unlink"]
         /\ tmp' = tmp \cup {p} /\ UNCHANGED inn
      \/ /\ pc[q] = "unlink" /\ pc' = [pc EXCEPT ![q] = "archive"]
         /\ inn' = inn \ {p} /\ UNCHANGED tmp
      \/ /\ pc[q] = "unlink_out" /\ pc' = [pc EXCEPT ![q] = "release"]
         /\ inn' = inn \ {p} /\ UNCHANGED tmp
  <2>1. pc[q] = "rename" /\ config.net[p] => ~config.same
    BY <1>1, <1>2, <1>3 DEF At, PackerAt, Archived, Types, Sound
  <2> QED  BY <1>1, <1>2, <2>1 DEF RenamePacket, CopyPacket, UnlinkPacket, Goto
<1>5. /\ inn' \subseteq inn /\ tmp \subseteq tmp' /\ tmp' \subseteq tmp \cup {p}
      /\ \A r : r # p => (r \in inn => r \in inn')
  BY <1>4
<1>6. Types'
  <2>1. \E l \in {"archive", "unlink", "release"} : pc' = [pc EXCEPT ![q] = l]
    BY <1>4
  <2>2. pc' \in [Proc -> Control]
    BY <1>1, <2>1 DEF Types, Control
  <2> QED  BY <1>1, <1>3, <1>5, <2>2 DEF Types
<1>7. \A r \in Proc \ {q} : pc'[r] = pc[r]
  BY <1>1, <1>4 DEF Types
<1>8. Alone(q)
  BY <1>1, <1>5, <1>7 DEF Alone
<1>9. /\ pc'[q] \in {"archive", "unlink", "release"}
      /\ pc'[q] = "unlink" => p \in tmp'
      /\ pc'[q] = "archive" => config.same \/ p \notin inn'
      /\ pc'[q] \in {"archive", "unlink"} => pc[q] \in {"rename", "unlink"}
  BY <1>1, <1>4 DEF Types
<1>10. At(q)'
  BY <1>1, <1>2, <1>3, <1>9
     DEF At, PackerAt, Inside, Archived, OutFile, Listing, Opened, Flonode
<1>11. \A r, m, e : Packed(r, m, e)' <=> Packed(r, m, e)
  BY <1>1 DEF Packed
<1>12. OneArchive' /\ Found' /\ Distinct' /\ OwnItems'
  BY <1>1, <1>2, <1>5, <1>7, <1>11, PackFrame DEF Listing
<1>13. NothingLost'
  <2>1. SUFFICES ASSUME NEW r \in config.pkts, ~(sent[r] > 0)
                 PROVE  \/ r \in inn' \cup tmp'
                        \/ \E n \in Node : \/ \E d \in Digit : Packed(r, n, d)
                                           \/ outf[n] # NONE /\ r \in outf[n]
    BY <1>1, <1>11 DEF NothingLost
  <2>2. CASE r # p
    <3>1. ~\E z \in Packer : pkt[z] = r /\ pc[z] = "unlink"
      BY <1>2, <2>2
    <3> QED  BY <1>5, <2>1, <2>2, <3>1, InvKept DEF Kept, NothingLost
  <2>3. CASE r = p /\ pc[q] = "unlink_out"
    BY <1>1, <1>2, <2>3, InsideAt DEF At, PackerAt, Inside, OutFile
  <2>4. CASE r = p /\ pc[q] = "unlink"
    BY <1>1, <1>2, <1>5, <2>4 DEF At, PackerAt
  <2>5. CASE r = p /\ pc[q] = "rename"
    <3>1. ~\E z \in Packer : pkt[z] = r /\ pc[z] = "unlink"
      BY <2>5
    <3>2. r \in inn \cup tmp => r \in inn' \cup tmp'
      BY <1>4, <2>5
    <3> QED  BY <2>1, <3>1, <3>2, InvKept DEF Kept, NothingLost
  <2> QED  BY <1>1, <2>2, <2>3, <2>4, <2>5
<1> QED  BY <1>6, <1>8, <1>10, <1>12, <1>13, StepKeeps DEF Kept

LEMMA ArchiverFailsKeeps ==
  ASSUME IInv, NEW q \in Packer, ArchiverFails(q)
  PROVE  IInv'
<1> USE Kinds
<1>1. /\ At(q) /\ Types /\ q \in Proc /\ pc[q] = "archive"
      /\ UNCHANGED <<config, inn, tmp, arc, outf, flo, entries, files, sent, open,
                     bsy, pkt, node, item>>
      /\ pc' = [pc EXCEPT ![q] = "release"] /\ stranded \subseteq stranded'
  BY PlacesAt DEF IInv, ArchiverFails, out, list, own, Goto
<1>2. Types'
  BY <1>1 DEF Types, Control
<1>3. Alone(q)
  BY <1>1 DEF Alone, Types
<1>4. At(q)'
  BY <1>1 DEF At, PackerAt, Types, Inside, Archived, OutFile, Listing, Opened, Flonode
<1>5. \A r, m, e : Packed(r, m, e)' <=> Packed(r, m, e)
  BY <1>1 DEF Packed
<1>6. OneArchive' /\ Found' /\ Distinct' /\ OwnItems'
  BY <1>1, <1>5, PackFrame DEF Listing, Types
<1>7. NothingLost'
  BY <1>1, <1>5, InvKept DEF Kept, NothingLost
<1> QED  BY <1>2, <1>3, <1>4, <1>6, <1>7, StepKeeps DEF Kept

LEMMA OutFileKeeps ==
  ASSUME IInv, NEW q \in Packer, OpenOut(q) \/ CopyOut(q)
  PROVE  IInv'
<1> USE Kinds
<1>1. /\ At(q) /\ Types /\ q \in Proc /\ pc[q] \in {"open_out", "copy_out"}
      /\ UNCHANGED <<config, inn, tmp, arc, flo, entries, files, sent, open,
                     bsy, pkt, node, item, stranded>>
  BY PlacesAt DEF IInv, OpenOut, CopyOut, out, list, own
<1>2. PICK p, n : p = pkt[q] /\ n = To(q)
  OBVIOUS
<1>3. p \in Pkt /\ n \in Node /\ n = Flonode(q) /\ bsy[n] = q /\ config.noarc[p]
  BY <1>1, <1>2, InsideAt DEF At, PackerAt, Inside, OutFile
<1>4. \/ /\ pc[q] = "open_out" /\ pc' = [pc EXCEPT ![q] = "release"] /\ UNCHANGED outf
      \/ /\ pc[q] = "open_out" /\ pc' = [pc EXCEPT ![q] = "copy_out"]
         /\ outf' = [outf EXCEPT ![n] = IF @ = NONE THEN {} ELSE @]
      \/ /\ pc[q] = "copy_out" /\ pc' = [pc EXCEPT ![q] = "unlink_out"]
         /\ outf' = [outf EXCEPT ![n] = IF @ = NONE THEN @ ELSE @ \cup {p}]
  BY <1>2 DEF OpenOut, CopyOut, Goto, out
<1>5. /\ \A m \in Node : m # n => outf'[m] = outf[m]
      /\ \A m \in Node : outf[m] # NONE => outf'[m] # NONE /\ outf[m] \subseteq outf'[m]
      /\ outf' \in [Node -> {NONE} \cup SUBSET Pkt]
      /\ pc' \in [Proc -> Control]
      /\ \A r \in Proc \ {q} : pc'[r] = pc[r]
      /\ pc'[q] \in {"release", "copy_out", "unlink_out"}
      /\ pc'[q] # "release" => outf'[n] # NONE
      /\ pc'[q] = "unlink_out" => p \in outf'[n]
  <2>1. outf[n] \in {NONE} \cup SUBSET Pkt /\ {} \in SUBSET Pkt
    BY <1>1, <1>3 DEF Types
  <2>2. pc[q] = "copy_out" => outf[n] # NONE
    BY <1>1, <1>2 DEF At, PackerAt
  <2>3. CASE UNCHANGED outf /\ pc' = [pc EXCEPT ![q] = "release"]
    BY <1>1, <2>3 DEF Types, Control
  <2>4. CASE /\ pc' = [pc EXCEPT ![q] = "copy_out"]
             /\ outf' = [outf EXCEPT ![n] = IF @ = NONE THEN {} ELSE @]
    BY <1>1, <1>3, <2>1, <2>4 DEF Types, Control
  <2>5. CASE /\ pc[q] = "copy_out" /\ pc' = [pc EXCEPT ![q] = "unlink_out"]
             /\ outf' = [outf EXCEPT ![n] = IF @ = NONE THEN @ ELSE @ \cup {p}]
    <3>1. outf' = [outf EXCEPT ![n] = outf[n] \cup {p}]
      BY <2>2, <2>5
    <3>2. outf[n] \cup {p} \in SUBSET Pkt
      BY <1>3, <2>1, <2>2, <2>5
    <3> QED  BY <1>1, <1>3, <2>5, <3>1, <3>2 DEF Types, Control
  <2> QED  BY <1>4, <2>3, <2>4, <2>5
<1>6. Types'
  BY <1>1, <1>5 DEF Types
<1>7. Alone(q)
  BY <1>1, <1>3, <1>5 DEF Alone
<1>8. UNCHANGED <<Flonode(q), To(q)>>
  BY <1>1 DEF Flonode, To
<1>9. At(q)'
  BY <1>1, <1>2, <1>3, <1>5, <1>8
     DEF At, PackerAt, Inside, Archived, OutFile, Listing, Opened
<1>10. \A r, m, e : Packed(r, m, e)' <=> Packed(r, m, e)
  BY <1>1 DEF Packed
<1>11. OneArchive' /\ Found' /\ Distinct' /\ OwnItems'
  BY <1>1, <1>5, <1>10, PackFrame DEF Listing
<1>12. NothingLost'
  BY <1>1, <1>5, <1>10, InvKept DEF Kept, NothingLost
<1> QED  BY <1>6, <1>7, <1>9, <1>11, <1>12, StepKeeps DEF Kept

LEMMA ArchiveKeeps ==
  ASSUME IInv, NEW q \in Packer, RunArchiver(q)
  PROVE  IInv'
<1> USE Kinds
<1>1. /\ At(q) /\ Types /\ q \in Proc /\ pc[q] = "archive"
      /\ UNCHANGED <<config, inn, tmp, outf, flo, entries, files, sent, open,
                     bsy, pkt, node, item, stranded>>
      /\ pc' = [pc EXCEPT ![q] = "remove"]
  BY PlacesAt DEF IInv, RunArchiver, out, list, own, Goto
<1>2. PICK p, n : p = pkt[q] /\ n = Flonode(q)
  OBVIOUS
<1>3. p \in Pkt /\ n \in Node /\ bsy[n] = q
  BY <1>1, <1>2, InsideAt DEF Inside, Archived
<1>4. PICK d \in Digit : item[q] = Archive(n, d)
  BY <1>1, <1>2 DEF At, PackerAt, Archived
<1>5. item[q][2] = n /\ item[q][3] = d
  BY <1>4 DEF Archive
<1>a. PICK a : a = (IF arc[n][d] = NONE THEN {} ELSE arc[n][d]) \cup {p}
  OBVIOUS
<1>6. /\ a \in SUBSET Pkt /\ p \in a
      /\ \A r : r # p => (r \in a <=> arc[n][d] # NONE /\ r \in arc[n][d])
  <2>1. arc[n][d] \in {NONE} \cup SUBSET Pkt
    BY <1>1, <1>3 DEF Types
  <2> QED  BY <1>3, <1>a, <2>1
<1>7. arc' = [arc EXCEPT ![n] = [arc[n] EXCEPT ![d] = a]]
  BY <1>2, <1>5, <1>a DEF RunArchiver
<1>8. /\ arc' \in [Node -> [Digit -> {NONE} \cup SUBSET Pkt]]
      /\ arc'[n][d] = a /\ a # NONE
      /\ \A m \in Node, e \in Digit : m # n \/ e # d => arc'[m][e] = arc[m][e]
      /\ \A m \in Node : m # n => arc'[m] = arc[m]
  <2>1. arc \in [Node -> [Digit -> {NONE} \cup SUBSET Pkt]]
    BY <1>1 DEF Types
  <2>2. PICK b : b = [arc[n] EXCEPT ![d] = a]
    OBVIOUS
  <2>3. /\ b \in [Digit -> {NONE} \cup SUBSET Pkt] /\ b[d] = a
        /\ \A e \in Digit : e # d => b[e] = arc[n][e]
    BY <1>3, <1>6, <2>1, <2>2
  <2>4. arc' = [arc EXCEPT ![n] = b]
    BY <1>7, <2>2
  <2> QED  BY <1>3, <1>6, <2>1, <2>3, <2>4
<1>9. Types'
  BY <1>1, <1>8 DEF Types, Control
<1>10. Alone(q)
  BY <1>1, <1>3, <1>8 DEF Alone, Types
<1>11. /\ pc'[q] = "remove" /\ UNCHANGED Flonode(q)
       /\ \A r \in Proc : r # q => pc'[r] = pc[r]
  BY <1>1 DEF Types, Flonode
<1>12. Packed(pkt[q], item[q][2], item[q][3])'
  BY <1>1, <1>2, <1>5, <1>6, <1>8 DEF Packed
<1>13. At(q)'
  BY <1>1, <1>2, <1>3, <1>11, <1>12
     DEF At, PackerAt, Inside, Archived, OutFile, Listing, Opened
<1>14. \A r \in Pkt, m \in Node, e \in Digit :
         /\ Packed(r, m, e) => Packed(r, m, e)'
         /\ Packed(r, m, e)' => Packed(r, m, e) \/ (r = p /\ m = n /\ e = d)
  BY <1>6, <1>8 DEF Packed
<1>15. Distinct' /\ OwnItems'
  BY <1>1, InvKept DEF Kept, Distinct, OwnItems
<1>16. NothingLost'
  BY <1>1, <1>11, <1>14, InvKept DEF Kept, NothingLost, Types, Sound
<1>17. \A r \in Pkt \ stranded, m \in Node, e \in Digit :
         Packed(r, m, e) /\ sent[r] = 0 =>
           m = config.flonode[r] /\ r \notin inn \cup tmp /\ r # p
  BY <1>1, <1>2, InvKept DEF Kept, OneArchive, Listing
<1>18. OneArchive'
  <2>1. SUFFICES ASSUME NEW r \in Pkt \ stranded, NEW m \in Node, NEW e \in Digit,
                        Packed(r, m, e)', sent[r] = 0
                 PROVE  /\ m = config.flonode[r]
                        /\ r \in inn \cup tmp => r = p
                        /\ r = p => m = n /\ e = d
    BY <1>1, <1>2, <1>4, <1>11 DEF OneArchive
  <2> QED  BY <1>2, <1>14, <1>17, <2>1 DEF Flonode
<1>19. Found'
  <2>1. \A i, x : Listed(i, x)' <=> Listed(i, x)
    BY <1>1 DEF Listed
  <2>2. \A r \in Pkt, m \in Node, e \in Digit :
          FoundArchive(r, m, e) \/ r = p => FoundArchive(r, m, e)'
    BY <1>1, <1>2, <1>11, <2>1 DEF FoundArchive, Listing
  <2>3. \A f \in config.files : FoundFile(f) => FoundFile(f)'
    BY <1>1, <1>11, <2>1 DEF FoundFile
  <2> QED  BY <1>1, <1>14, <2>2, <2>3, InvKept DEF Kept, Found
<1> QED  BY <1>9, <1>10, <1>13, <1>15, <1>16, <1>18, <1>19, StepKeeps DEF Kept

LEMMA RemoveKeeps ==
  ASSUME IInv, NEW q \in Packer, RemoveTemp(q)
  PROVE  IInv'
<1> USE Kinds
<1>1. /\ At(q) /\ Types /\ q \in Proc /\ pc[q] = "remove"
      /\ UNCHANGED <<config, arc, outf, flo, entries, files, sent, open,
                     bsy, pkt, item, stranded>>
      /\ pc' = [pc EXCEPT ![q] = "open"]
      /\ node' = [node EXCEPT ![q] = Flonode(q)]
      /\ inn' \subseteq inn /\ tmp' \subseteq tmp
      /\ inn \subseteq inn' \cup {pkt[q]} /\ tmp \subseteq tmp' \cup {pkt[q]}
  BY PlacesAt DEF IInv, RemoveTemp, out, list, Goto
<1>gone. pkt[q] \notin inn' \cup tmp'
  BY <1>1 DEF RemoveTemp, At, PackerAt
<1>2. pkt[q] \in Pkt /\ Flonode(q) \in Node /\ bsy[Flonode(q)] = q
  BY <1>1, InsideAt DEF Inside, Archived
<1>3. PICK d \in Digit : item[q] = Archive(Flonode(q), d)
  BY <1>1 DEF At, PackerAt, Archived
<1>4. Packed(pkt[q], Flonode(q), d)
  BY <1>1, <1>3 DEF At, PackerAt, Archive
<1>5. Types'
  BY <1>1, <1>2 DEF Types, Control
<1>6. Alone(q)
  BY <1>1 DEF Alone, Types
<1>7. /\ pc'[q] = "open" /\ node'[q] = Flonode(q) /\ UNCHANGED Flonode(q)
      /\ \A r \in Proc : r # q => pc'[r] = pc[r]
  BY <1>1 DEF Types, Flonode
<1>8. At(q)'
  BY <1>1, <1>2, <1>7
     DEF At, PackerAt, Inside, Archived, OutFile, Listing, Opened
<1>9. \A r, m, e : Packed(r, m, e)' <=> Packed(r, m, e)
  BY <1>1 DEF Packed
<1>10. Distinct' /\ OwnItems'
  BY <1>1, InvKept DEF Kept, Distinct, OwnItems
<1>11. NothingLost'
  BY <1>1, <1>2, <1>4, <1>7, <1>9, InvKept DEF Kept, NothingLost
<1>12. OneArchive'
  BY <1>1, <1>gone, <1>7, <1>9, InvKept DEF Kept, OneArchive, Listing
<1>13. Found'
  <2>1. \A i, x : Listed(i, x)' <=> Listed(i, x)
    BY <1>1 DEF Listed
  <2>2. \A r, m, e : FoundArchive(r, m, e) => FoundArchive(r, m, e)'
    BY <1>1, <1>7, <2>1 DEF FoundArchive, Listing
  <2>3. \A f \in config.files : FoundFile(f) => FoundFile(f)'
    BY <1>1, <1>7, <2>1 DEF FoundFile
  <2> QED  BY <1>1, <1>9, <2>2, <2>3, InvKept DEF Kept, Found
<1> QED  BY <1>5, <1>6, <1>8, <1>10, <1>11, <1>12, <1>13, StepKeeps DEF Kept

-----------------------------------------------------------------------------
\* A kill strands what only the killed process knew of.
LEMMA KillKeeps ==
  ASSUME IInv, NEW p \in Proc, Kill(p)
  PROVE  IInv'
<1> USE Kinds
<1>1. /\ At(p) /\ Types /\ pc[p] # "idle"
      /\ UNCHANGED <<config, inn, tmp, arc, outf, flo, entries, files, sent>>
      /\ pc' = [pc EXCEPT ![p] = "idle"] /\ pkt' = [pkt EXCEPT ![p] = NONE]
      /\ node' = [node EXCEPT ![p] = NONE] /\ item' = [item EXCEPT ![p] = NONE]
      /\ open' = [open EXCEPT ![p] = NONE]
      /\ bsy' = [n \in Node |-> IF bsy[n] = p THEN NONE ELSE bsy[n]]
      /\ stranded \subseteq stranded'
  BY PlacesAt DEF IInv, Kill, out, Goto, BsyDelete, CloseFlo
<1>2. /\ p \in Packer /\ pc[p] \in {"remove"} \cup Listing => pkt[p] \in stranded'
      /\ \A f : p \in Attacher /\ item[p] = Plain(f) => f \in stranded'
  BY DEF Kill, Listing, Plain
<1>3. Types'
  BY <1>1 DEF Types, Control
<1>4. Alone(p)
  BY <1>1 DEF Alone, Types
<1>5. At(p)'
  BY <1>1 DEF At, PackerAt, AttacherAt, CallerAt, Types, Inside, Archived, OutFile,
              Listing, Calling, Opened
<1>6. /\ pc'[p] = "idle" /\ pkt'[p] = NONE
      /\ \A r \in Proc : r # p => pc'[r] = pc[r] /\ pkt'[r] = pkt[r] /\ item'[r] = item[r]
      /\ \A r, m, e : Packed(r, m, e)' <=> Packed(r, m, e)
      /\ \A i, x : Listed(i, x)' <=> Listed(i, x)
      /\ config.pkts \subseteq Pkt
  BY <1>1 DEF Types, Packed, Listed, Sound
<1>7. Distinct' /\ OwnItems'
  BY <1>1, InvKept DEF Kept, Distinct, OwnItems
<1>8. OneArchive'
  <2>1. SUFFICES ASSUME NEW r \in Pkt \ stranded', NEW m \in Node, NEW e \in Digit,
                        Packed(r, m, e), sent[r] = 0
                 PROVE  /\ m = config.flonode[r]
                        /\ r \in inn \cup tmp =>
                             \E q \in Packer : pkt'[q] = r /\ pc'[q] = "remove"
                        /\ \A q \in Packer : pkt'[q] = r =>
                             /\ pc'[q] \in {"remove", "release"} \cup Listing
                             /\ pc'[q] # "release" => item'[q] = Archive(m, e)
    BY <1>1, <1>6 DEF OneArchive
  <2>2. r \notin stranded
    BY <1>1, <2>1
  <2> QED  BY <1>2, <1>6, <2>1, <2>2, InvKept DEF Kept, OneArchive
<1>9. Found'
  <2>1. \A r \in Pkt \ stranded', m \in Node, e \in Digit :
          FoundArchive(r, m, e) => FoundArchive(r, m, e)'
    BY <1>1, <1>2, <1>6 DEF FoundArchive
  <2>2. \A f \in config.files : FoundFile(f) => FoundFile(f)'
    BY <1>1, <1>2, <1>6 DEF FoundFile
  <2> QED  BY <1>1, <1>6, <2>1, <2>2, InvKept DEF Kept, Found
<1>10. NothingLost'
  <2>1. p \in Packer /\ pc[p] = "unlink" => pkt[p] \in tmp
    BY <1>1 DEF At, PackerAt
  <2> QED  BY <1>1, <1>6, <2>1, InvKept DEF Kept, NothingLost
<1> QED  BY <1>3, <1>4, <1>5, <1>7, <1>8, <1>9, <1>10, StepKeeps DEF Kept

LEMMA InitIInv ==
  ASSUME \A c \in Configs : Sound(c), Init
  PROVE  IInv
<1> USE Kinds
<1>1. Types
  <2>1. <<>> \in Seq(EntrySet)
    OBVIOUS
  <2>2. entries \in [Inode -> Seq(EntrySet)]
    BY <2>1 DEF Init
  <2> QED  BY <2>2 DEF Init, Types, Sound, Control
<1>2. /\ \A p \in Proc : pc[p] = "idle" /\ open[p] = NONE
      /\ \A n \in Node : flo[n] = NONE /\ \A d \in Digit : arc[n][d] = NONE
      /\ inn = config.pkts /\ files = config.files
  BY DEF Init
<1>3. Places
  BY <1>2 DEF Places, PackerAt, AttacherAt, CallerAt, Inside, Archived, OutFile,
              Listing, Calling
<1>4. Names
  BY <1>2 DEF Names, Opened
<1>5. OwnItems
  BY <1>2 DEF OwnItems
<1>6. OneArchive /\ Found
  BY <1>2 DEF OneArchive, Found, Packed
<1>7. NothingLost
  BY <1>2 DEF NothingLost
<1> QED  BY <1>1, <1>3, <1>4, <1>5, <1>6, <1>7 DEF IInv

\* Each action is one of its own kind of process.
LEMMA WhoSteps ==
  ASSUME IInv, NEW p \in Proc, Step(p)
  PROVE  \/ p \in Packer /\ Pack(p)
         \/ p \in Packer \cup Attacher /\ List(p)
         \/ p \in Caller /\ Call(p)
         \/ p \in Attacher /\ \E n \in Node : StartAttach(p, n)
<1> USE Kinds
<1>1. At(p) /\ config.callers \subseteq Caller
  BY PlacesAt DEF IInv, Types, Sound
<1>2. Pack(p) => p \in Packer
  BY <1>1 DEF Proc, At, AttacherAt, CallerAt, Listing, Calling, Pack,
     TakePacket, BusyTake, BusySkip, Search, RenamePacket, CopyPacket, UnlinkPacket,
     RunArchiver, ArchiverFails, RemoveTemp, Release, OpenOut, CopyOut
<1>3. List(p) => p \in Packer \cup Attacher
  BY <1>1 DEF Proc, At, CallerAt, Calling, List, OpenFlo, LockFlo, Attach
<1>4. Call(p) => p \in Caller
  BY <1>1 DEF Proc, At, PackerAt, AttacherAt, Inside, Archived, OutFile, Listing,
     Call, StartCall, CallBusy, CallOpen, CallGone, CallLock, Send, SendFails, Dispose,
     Mark, EndCall
<1>5. (\E n \in Node : StartAttach(p, n)) => p \in Attacher
  BY DEF StartAttach
<1> QED  BY <1>2, <1>3, <1>4, <1>5 DEF Step

LEMMA StepIInv ==
  ASSUME IInv, [Next]_vars
  PROVE  IInv'
<1>1. CASE UNCHANGED vars
  <2>1. UNCHANGED <<config, inn, tmp, arc, outf, flo, entries, files, sent, bsy, pc, pkt,
                    node, open, item, stranded>>
    BY <1>1 DEF vars, out, list, own, bound
  <2>2. Types' /\ Alone(NONE)
    BY <2>1 DEF IInv, Types, Alone
  <2>3. Kept'
    BY <2>1, InvKept, Paper DEF IInv, Mail
  <2> QED  BY <2>2, <2>3, StepKeeps, Kinds
<1>2. CASE \E n \in Node : SendOut(n)
  BY <1>2, SendOutKeeps
<1>3. ASSUME NEW p \in Proc, Kill(p)
      PROVE  IInv'
  BY <1>3, KillKeeps
<1>4. ASSUME NEW p \in Proc, Step(p)
      PROVE  IInv'
  BY <1>4, WhoSteps, CallKeeps, StartAttachKeeps, OpenKeeps, LockKeeps, AttachKeeps,
     TakeKeeps, SearchKeeps, MoveKeeps, ArchiveKeeps, ArchiverFailsKeeps, RemoveKeeps,
     OutFileKeeps DEF Pack, List
<1> QED  BY <1>1, <1>2, <1>3, <1>4 DEF Next

-----------------------------------------------------------------------------
\* What ftnpack takes from its directory is in one of them, in an archive or in
\* an .OUT file until it has been sent, whoever is killed and whatever fails
\* (do_pack(), do_noarc(), arcmail_search(), do_flo()), where archives and FLO
\* files belong to one node and in_dir is not out_dir for netmail in archives.
THEOREM OutboundKeeps ==
  ASSUME \A c \in Configs : Sound(c)
  PROVE  Spec => []NothingLost
<1>1. IInv => NothingLost
  BY DEF IInv
<1> QED  BY InitIInv, StepIInv, <1>1, PTL DEF Spec

LEMMA IInvListed == IInv => AllListed
<1> SUFFICES ASSUME IInv PROVE AllListed
  OBVIOUS
<1>1. ASSUME NEW p \in Pkt \ stranded, NEW n \in Node, NEW d \in Digit,
             Packed(p, n, d), sent[p] = 0
      PROVE  \/ LET i == flo[config.flonode[p]] IN
                i # NONE /\ Listed(i, Archive(n, d))
             \/ \E q \in Packer : pkt[q] = p /\ pc[q] \in {"remove", "open", "lock",
                                                           "attach"}
  BY <1>1 DEF IInv, Found, FoundArchive, Listing
<1>2. ASSUME NEW f \in config.files \ files
      PROVE  \/ sent[f] > 0 \/ f \in stranded
             \/ \E n \in Node : flo[n] # NONE /\ Listed(flo[n], Plain(f))
             \/ \E t \in Attacher : item[t] = Plain(f)
  BY <1>2 DEF IInv, Found, FoundFile
<1> QED  BY <1>1, <1>2 DEF AllListed

\* What is to be sent is in a FLO file that has a name, or a process that has
\* not been killed is going to list it (bink_attach(), flo_mark(), do_flo()).
THEOREM OutboundLists ==
  ASSUME \A c \in Configs : Sound(c)
  PROVE  Spec => []AllListed
<1> QED  BY InitIInv, StepIInv, IInvListed, PTL DEF Spec


-----------------------------------------------------------------------------
\* Where a packet is while nothing has been killed: in one archive, or in one
\* .OUT file, and in a directory besides only until ftnpack has removed it; and
\* nowhere any more once it has been sent, unless its archive is about to be
\* truncated.
Before == {"busy", "search", "rename", "unlink"} \cup OutFile

OncePacket(p) ==
  /\ sent[p] <= 1
  /\ p \in inn \cup tmp => sent[p] = 0
  /\ p \in tmp => ~config.noarc[p]
  /\ \A q \in Packer : pkt[q] = p /\ pc[q] \in Before => p \in inn
  /\ \A n \in Node, d \in Digit : Packed(p, n, d) =>
       /\ ~config.noarc[p] /\ n = config.flonode[p]
       /\ \A e \in Digit : Packed(p, n, e) => e = d
       /\ p \in inn \cup tmp => \E q \in Packer : pkt[q] = p /\ pc[q] = "remove"
       /\ sent[p] > 0 =>
            \E c \in Caller : pc[c] = "dispose" /\ Current(c) = Archive(n, d)
  /\ \A n \in Node : outf[n] # NONE /\ p \in outf[n] =>
       /\ config.noarc[p] /\ n = config.to[p] /\ sent[p] = 0
       /\ p \in inn \cup tmp => \E q \in Packer : pkt[q] = p /\ pc[q] = "unlink_out"

\* Where a file is listed: nowhere before it is attached, by one process, and
\* in one line of one FLO file then, which is marked when it has been sent.
IsLine(f, n, k) ==
  /\ flo[n] # NONE /\ k \in DOMAIN entries[flo[n]]
  /\ entries[flo[n]][k].item = Plain(f)
Unlisted(f) == sent[f] = 0 /\ \A n \in Node, k \in Nat : ~IsLine(f, n, k)
Attaching(t, f) == pc[t] \in Listing /\ item[t] = Plain(f)

OnceFile(f) ==
  /\ sent[f] <= 1
  /\ f \in files => Unlisted(f) /\ \A t \in Attacher : ~Attaching(t, f)
  /\ \A t \in Attacher : Attaching(t, f) =>
       Unlisted(f) /\ \A u \in Attacher : Attaching(u, f) => u = t
  /\ \A n \in Node, k \in Nat : IsLine(f, n, k) =>
       /\ \A m \in Node, j \in Nat : IsLine(f, m, j) => m = n /\ j = k
       /\ sent[f] > 0 =>
            \/ entries[flo[n]][k].sent
            \/ \E c \in Caller : /\ node[c] = n /\ pc[c] \in {"dispose", "mark"}
                                 /\ Line(c) = k

Once == /\ kills \in Nat
        /\ kills = 0 => /\ \A p \in Pkt : OncePacket(p)
                        /\ \A f \in File : OnceFile(f)


\* A step of one process leaves the place of the others alone.
LEMMA OwnStays ==
  ASSUME IInv, NEW p \in Proc, Step(p), NEW r \in Proc, r # p
  PROVE  UNCHANGED Own(r)
<1>1. Types
  BY DEF IInv
<1>2. CASE Pack(p)
  BY <1>1, <1>2 DEF Own, Types, Pack, TakePacket, BusyTake, BusySkip, Search, RenamePacket,
     CopyPacket, UnlinkPacket, RunArchiver, ArchiverFails, RemoveTemp, Release, OpenOut,
     CopyOut, Goto, own
<1>3. CASE List(p)
  BY <1>1, <1>3 DEF Own, Types, List, OpenFlo, LockFlo, Attach, Goto, CloseFlo
<1>4. CASE Call(p)
  BY <1>1, <1>4 DEF Own, Types, Call, StartCall, CallBusy, CallOpen, CallGone, CallLock,
     Send, SendFails, Dispose, Mark, EndCall, Goto, Hangup, CloseFlo, own
<1>5. CASE \E n \in Node : StartAttach(p, n)
  BY <1>1, <1>5 DEF Own, Types, StartAttach, Goto
<1> QED  BY <1>2, <1>3, <1>4, <1>5 DEF Step

\* Who truncates an archive or marks a line is still at it: nobody else writes to
\* the FLO file of its node.
LEMMA CallerStays ==
  ASSUME IInv, NEW p \in Proc, Step(p), NEW c \in Caller, c # p,
         pc[c] \in {"dispose", "mark"}
  PROVE  UNCHANGED <<pc[c], node[c], Line(c), Current(c)>>
<1> USE Kinds
<1>1. UNCHANGED <<pc[c], node[c], open[c]>>
  BY OwnStays DEF Own
<1>2. /\ node[c] \in Node /\ bsy[node[c]] = c
      /\ open[c] = flo[node[c]] /\ open[c] \in Inode /\ flo[node[c]] # NONE
  BY LineOf
<1>3. Types /\ Distinct
  BY InvKept DEF IInv, Kept
<1>4. entries'[open[c]] = entries[open[c]]
  <2>1. CASE p \in Packer \cup Attacher /\ OpenFlo(p)
    <3>1. node[p] \in Node /\ node[p] # node[c]
      BY <1>2, <2>1, ListingAt DEF OpenFlo, Listing
    <3>2. CASE flo[node[p]] = NONE
      <4>1. PICK i : i = CHOOSE j \in Unused : TRUE
        OBVIOUS
      <4>2. i \in Unused
        BY <3>1, <3>2, <4>1, UnusedInode
      <4>3. entries' = [entries EXCEPT ![i] = <<>>] /\ i # open[c]
        BY <1>2, <2>1, <3>2, <4>1, <4>2 DEF OpenFlo, Unused
      <4> QED  BY <1>2, <1>3, <4>3 DEF Types
    <3>3. CASE flo[node[p]] # NONE
      BY <2>1, <3>3 DEF OpenFlo
    <3> QED  BY <3>2, <3>3
  <2>2. CASE p \in Packer \cup Attacher /\ Attach(p)
    <3>1. /\ node[p] \in Node /\ node[p] # node[c]
          /\ open[p] = flo[node[p]] /\ open[p] \in Inode
      BY <1>2, <2>2, ListingAt DEF Attach, Listing
    <3>2. open[p] # open[c]
      BY <1>2, <1>3, <3>1 DEF Distinct
    <3> QED  BY <1>2, <1>3, <2>2, <3>1, <3>2 DEF Attach, Types
  <2>3. CASE p \in Caller /\ Mark(p)
    <3>1. node[p] \in Node /\ node[p] # node[c] /\ open[p] = flo[node[p]]
      BY <1>2, <2>3, LineOf DEF Mark
    <3>2. open[p] # open[c]
      BY <1>2, <1>3, <3>1 DEF Distinct
    <3> QED  BY <1>2, <1>3, <2>3, <3>2 DEF Mark, Types
  <2>4. UNCHANGED entries \/ OpenFlo(p) \/ Attach(p) \/ Mark(p)
    BY DEF Step, Pack, TakePacket, BusyTake, BusySkip, Search, RenamePacket,
       CopyPacket, UnlinkPacket, RunArchiver, ArchiverFails, RemoveTemp, Release, OpenOut,
       CopyOut, List, LockFlo, Call, StartCall, CallBusy, CallOpen, CallGone, CallLock,
       Send, SendFails, Dispose, EndCall, StartAttach, list
  <2>5. OpenFlo(p) \/ Attach(p) => p \in Packer \cup Attacher
    BY PlacesAt DEF IInv, Proc, At, CallerAt, OpenFlo, Attach, Calling
  <2>6. Mark(p) => p \in Caller
    BY PlacesAt DEF IInv, Proc, At, PackerAt, AttacherAt, Mark, Inside, Archived, OutFile,
                    Listing
  <2> QED  BY <2>1, <2>2, <2>3, <2>4, <2>5, <2>6
<1> QED  BY <1>1, <1>4 DEF Line, Current, Unsent

\* What changes nothing about a packet, but that it may be where it was no more.
LEMMA PacketStays ==
  ASSUME NEW r \in Pkt, OncePacket(r), UNCHANGED <<config, sent[r]>>,
         r \in inn' \cup tmp' => r \in inn \cup tmp,
         r \in tmp' => r \in tmp \/ ~config.noarc[r],
         \A n \in Node, d \in Digit : Packed(r, n, d)' => Packed(r, n, d),
         \A n \in Node : (outf[n] # NONE /\ r \in outf[n])' => outf[n] # NONE /\ r \in outf[n],
         \A q \in Packer :
           /\ pkt[q] = r /\ pc[q] \in {"remove", "unlink_out"} /\ r \in inn' \cup tmp' =>
                pkt'[q] = r /\ pc'[q] = pc[q]
           /\ pkt'[q] = r /\ pc'[q] \in Before => r \in inn',
         \A c \in Caller : pc[c] = "dispose" =>
           \/ UNCHANGED <<pc[c], Current(c)>>
           \/ \A n \in Node, d \in Digit : Current(c) = Archive(n, d) => ~Packed(r, n, d)'
  PROVE  OncePacket(r)'
<1>1. UNCHANGED <<config.noarc, config.flonode, config.to>>
  OBVIOUS
<1>2. ASSUME NEW n \in Node, NEW d \in Digit, Packed(r, n, d)'
      PROVE  /\ ~config.noarc[r] /\ n = config.flonode[r]
             /\ \A e \in Digit : Packed(r, n, e)' => e = d
             /\ r \in inn' \cup tmp' => \E q \in Packer : pkt'[q] = r /\ pc'[q] = "remove"
             /\ sent[r] > 0 =>
                  \E c \in Caller : pc'[c] = "dispose" /\ Current(c)' = Archive(n, d)
  BY <1>2 DEF OncePacket
<1>3. ASSUME NEW n \in Node, outf'[n] # NONE /\ r \in outf'[n]
      PROVE  /\ config.noarc[r] /\ n = config.to[r] /\ sent[r] = 0
             /\ r \in inn' \cup tmp' =>
                  \E q \in Packer : pkt'[q] = r /\ pc'[q] = "unlink_out"
  BY <1>3 DEF OncePacket
<1> QED  BY <1>2, <1>3 DEF OncePacket, Before

\* What changes nothing about a file, but that a line of it may be marked or gone.
LEMMA FileStays ==
  ASSUME NEW f \in File, OnceFile(f), UNCHANGED sent[f], f \in files' => f \in files,
         \A t \in Attacher : Attaching(t, f)' => Attaching(t, f),
         \A n \in Node, k \in Nat : IsLine(f, n, k)' =>
           /\ IsLine(f, n, k)
           /\ entries[flo[n]][k].sent => entries'[flo'[n]][k].sent
           /\ \A c \in Caller : node[c] = n /\ pc[c] \in {"dispose", "mark"} /\ Line(c) = k =>
                \/ entries'[flo'[n]][k].sent
                \/ node'[c] = n /\ pc'[c] \in {"dispose", "mark"} /\ Line(c)' = k
  PROVE  OnceFile(f)'
<1>1. Unlisted(f) => Unlisted(f)'
  BY DEF Unlisted
<1>2. ASSUME NEW n \in Node, NEW k \in Nat, IsLine(f, n, k)', sent[f] > 0
      PROVE  \/ entries'[flo'[n]][k].sent
             \/ \E c \in Caller : /\ node'[c] = n /\ pc'[c] \in {"dispose", "mark"}
                                  /\ Line(c)' = k
  <2>1. CASE entries[flo[n]][k].sent
    BY <1>2, <2>1
  <2>2. CASE \E c \in Caller : node[c] = n /\ pc[c] \in {"dispose", "mark"} /\ Line(c) = k
    BY <1>2, <2>2
  <2> QED  BY <1>2, <2>1, <2>2 DEF OnceFile
<1> QED  BY <1>1, <1>2 DEF OnceFile


\* Listing and sending keep packets where they are, but for an archive that is
\* truncated.
LEMMA OtherStepsPackets ==
  ASSUME IInv, NEW p \in Proc, NEW r \in Pkt, OncePacket(r),
         \/ p \in Packer \cup Attacher /\ List(p)
         \/ p \in Attacher /\ \E n \in Node : StartAttach(p, n)
         \/ p \in Caller /\ Call(p) /\ ~Send(p)
  PROVE  OncePacket(r)'
<1> USE Kinds
<1>1. Types /\ Step(p)
  BY DEF IInv, Step
<1>2. UNCHANGED <<config, inn, tmp, outf, sent>>
  BY DEF List, OpenFlo, LockFlo, Attach, StartAttach, Call, StartCall, CallBusy, CallOpen,
         CallGone, CallLock, SendFails, Dispose, Mark, EndCall, out
<1>3. \A q \in Packer : /\ pkt'[q] = pkt[q]
                        /\ \/ pc'[q] = pc[q]
                           \/ pc[q] \in Listing /\ pc'[q] \notin Before
  <2>1. ASSUME NEW q \in Packer, q # p PROVE pkt'[q] = pkt[q] /\ pc'[q] = pc[q]
    BY <1>1, <2>1, OwnStays DEF Own
  <2>2. CASE p \in Packer /\ List(p)
    <3>1. /\ UNCHANGED pkt /\ pc[p] \in Listing
          /\ \E l \in Listing \cup {"release"} : pc' = [pc EXCEPT ![p] = l]
      BY <2>2 DEF List, OpenFlo, LockFlo, Attach, Goto, Listing
    <3>2. pc'[p] \notin Before
      BY <1>1, <3>1 DEF Types, Listing, Before, OutFile
    <3> QED  BY <2>1, <3>1, <3>2
  <2>3. CASE p \notin Packer
    BY <2>1, <2>3
  <2> QED  BY <2>2, <2>3
<1>4. ASSUME NEW c \in Caller, pc[c] = "dispose", c # p
      PROVE  UNCHANGED <<pc[c], Current(c)>>
  BY <1>1, <1>4, CallerStays
<1>5. CASE p \in Caller /\ Dispose(p)
  <2>1. pc[p] = "dispose" /\ Unsent(p) # {}
    BY <1>5, PlacesAt DEF IInv, Dispose, At, CallerAt
  <2>2. node[p] \in Node /\ Current(p) \in ItemOf(node[p])
    BY <1>5, <2>1, LineOf
  <2>3. \A n \in Node, d \in Digit :
          /\ Packed(r, n, d)' => Packed(r, n, d)
          /\ Current(p) = Archive(n, d) => ~Packed(r, n, d)'
    <3>1. CASE \E f \in File : Current(p) = Plain(f)
      BY <1>5, <3>1 DEF Dispose, Plain, Archive, Packed
    <3>2. ASSUME NEW e \in Digit, Current(p) = Archive(node[p], e)
          PROVE  /\ arc[node[p]][e] = NONE => UNCHANGED arc
                 /\ arc[node[p]][e] # NONE => arc' = [arc EXCEPT ![node[p]][e] = {}]
                 /\ \A n, d : Current(p) = Archive(n, d) => n = node[p] /\ d = e
      BY <1>5, <3>2 DEF Dispose, Archive
    <3>3. \A e \in Digit : arc' = [arc EXCEPT ![node[p]][e] = {}] =>
            \A n \in Node, d \in Digit :
              arc'[n][d] = IF n = node[p] /\ d = e THEN {} ELSE arc[n][d]
      BY <1>1, <2>2 DEF Types
    <3>4. ASSUME NEW e \in Digit, Current(p) = Archive(node[p], e),
                 NEW n \in Node, NEW d \in Digit
          PROVE  /\ Packed(r, n, d)' => Packed(r, n, d)
                 /\ Current(p) = Archive(n, d) => ~Packed(r, n, d)'
      <4>1. CASE arc[node[p]][e] = NONE
        BY <3>2, <3>4, <4>1 DEF Packed
      <4>2. CASE arc[node[p]][e] # NONE
        <5>1. \A m \in Node, b \in Digit :
                arc'[m][b] = IF m = node[p] /\ b = e THEN {} ELSE arc[m][b]
          BY <3>2, <3>3, <3>4, <4>2
        <5>2. Current(p) = Archive(n, d) => n = node[p] /\ d = e
          BY <3>2, <3>4
        <5>3. arc'[n][d] = IF n = node[p] /\ d = e THEN {} ELSE arc[n][d]
          BY <5>1
        <5> QED  BY <5>2, <5>3 DEF Packed
      <4> QED  BY <4>1, <4>2
    <3> QED  BY <2>2, <3>1, <3>4 DEF ItemOf
  <2> QED  BY <1>2, <1>3, <1>4, <2>3, PacketStays DEF OncePacket, Listing, Before
<1>6. CASE ~(p \in Caller /\ Dispose(p))
  <2>1. UNCHANGED arc
    BY <1>6 DEF List, OpenFlo, LockFlo, Attach, StartAttach, Call, StartCall, CallBusy,
           CallOpen, CallGone, CallLock, SendFails, Mark, EndCall
  <2>2. \A n, d : Packed(r, n, d)' <=> Packed(r, n, d)
    BY <2>1 DEF Packed
  <2>3. p \in Caller => pc[p] # "dispose"
    BY <1>6, PlacesAt DEF IInv, At, AttacherAt, Call, StartCall, CallBusy, CallOpen, CallGone,
       CallLock, SendFails, Mark, EndCall
  <2> QED  BY <1>2, <1>3, <1>4, <2>2, <2>3, PacketStays DEF OncePacket, Listing, Before
<1> QED  BY <1>5, <1>6

\* ftnpack has the packet in one directory, and packs it once.
LEMMA PackPackets ==
  ASSUME IInv, NEW q \in Packer, Pack(q), NEW r \in Pkt, OncePacket(r)
  PROVE  OncePacket(r)'
<1> USE Kinds
<1>1. Types /\ Step(q) /\ At(q) /\ q \in Proc
  BY PlacesAt DEF IInv, Step
<1>2. UNCHANGED <<config, entries, sent>>
  BY DEF Pack, TakePacket, BusyTake, BusySkip, Search, RenamePacket, CopyPacket,
     UnlinkPacket, RunArchiver, ArchiverFails, RemoveTemp, Release, OpenOut, CopyOut, list
<1>3. ASSUME NEW c \in Caller
      PROVE  pc[c] = "dispose" => UNCHANGED <<pc[c], Current(c)>>
  BY <1>1, CallerStays
<1>4. CASE TakePacket(q) \/ BusyTake(q) \/ BusySkip(q) \/ Release(q) \/ ArchiverFails(q)
  <2>1. UNCHANGED <<inn, tmp, arc, outf>> /\ pc[q] \notin {"remove", "unlink_out"}
    BY <1>4 DEF TakePacket, BusyTake, BusySkip, Release, ArchiverFails, out
  <2>2. pkt'[q] = r /\ pc'[q] \in Before => r \in inn
    <3>1. CASE TakePacket(q)
      BY <1>1, <3>1 DEF TakePacket, Types
    <3>2. CASE BusyTake(q)
      BY <1>1, <3>2 DEF BusyTake, own, OncePacket, Before
    <3>3. CASE BusySkip(q) \/ Release(q) \/ ArchiverFails(q)
      BY <1>1, <3>3 DEF BusySkip, Release, ArchiverFails, Goto, Before, OutFile, Types
    <3> QED  BY <1>4, <3>1, <3>2, <3>3
  <2>3. \A n, d : Packed(r, n, d)' <=> Packed(r, n, d)
    BY <2>1 DEF Packed
  <2> QED  BY <1>2, <1>3, <2>1, <2>2, <2>3, PacketStays DEF OncePacket
<1>5. CASE Search(q)
  <2>1. UNCHANGED <<inn, tmp, outf, pkt>> /\ pc[q] = "search"
    BY <1>5 DEF Search, out
  <2>2. Arcnode(q) \in Node
    BY <2>1, InsideAt DEF Inside
  <2>3. \A n \in Node, d \in Digit :
          arc'[n][d] = arc[n][d] \/ arc'[n][d] = NONE
    BY <1>1, <1>5, <2>2 DEF Search, Types
  <2>4. \A n \in Node, d \in Digit : Packed(r, n, d)' => Packed(r, n, d)
    BY <2>3 DEF Packed
  <2>5. pkt[q] = r => r \in inn
    BY <2>1 DEF OncePacket, Before
  <2> QED  BY <1>2, <1>3, <2>1, <2>4, <2>5, PacketStays
<1>6. CASE RenamePacket(q) \/ CopyPacket(q) \/ UnlinkPacket(q)
  <2>1. /\ UNCHANGED <<arc, outf, pkt>>
        /\ pc[q] \in {"rename", "unlink", "unlink_out"} /\ pkt[q] \in Pkt
    BY <1>1, <1>6 DEF RenamePacket, CopyPacket, UnlinkPacket, out, own, At, PackerAt
  <2>2. \A n, d : Packed(r, n, d)' <=> Packed(r, n, d)
    BY <2>1 DEF Packed
  <2>3. /\ inn' \subseteq inn /\ inn \ {pkt[q]} \subseteq inn'
        /\ tmp' \subseteq tmp \cup {pkt[q]}
        /\ pc[q] = "unlink_out" => tmp' = tmp /\ pkt[q] \notin inn'
        /\ pc[q] = "unlink" => pc'[q] = "archive"
        /\ pc[q] = "unlink_out" => pc'[q] = "release"
        /\ pc[q] = "rename" => \/ pc'[q] = "archive"
                               \/ pc'[q] = "unlink" /\ inn' = inn
    <3>1. pc[q] = "rename" /\ config.net[pkt[q]] => ~config.same
      BY <1>1, <2>1 DEF At, PackerAt, Archived, Types, Sound
    <3>2. CASE RenamePacket(q)
      BY <1>1, <3>2 DEF RenamePacket, Goto, Types
    <3>3. CASE CopyPacket(q)
      BY <1>1, <3>1, <3>3 DEF CopyPacket, Goto, Types
    <3>4. CASE UnlinkPacket(q)
      BY <1>1, <3>4 DEF UnlinkPacket, Goto, Types
    <3> QED  BY <1>6, <3>2, <3>3, <3>4
  <2>4. pc[q] \in {"rename", "unlink"} => ~config.noarc[pkt[q]]
    BY <1>1 DEF At, PackerAt, Archived
  <2>5. pc[q] = "unlink_out" => config.noarc[pkt[q]]
    BY <1>1 DEF At, PackerAt, OutFile
  <2>6. pkt[q] = r => r \in inn
    BY <2>1 DEF OncePacket, Before, OutFile
  <2>7. r \in inn' \cup tmp' => r \in inn \cup tmp
    BY <2>3, <2>6
  <2>8. r \in tmp' => r \in tmp \/ ~config.noarc[r]
    BY <2>1, <2>3, <2>4
  <2>9. pkt[q] = r /\ pc[q] = "unlink_out" => r \notin inn' \cup tmp'
    BY <2>1, <2>3, <2>5 DEF OncePacket
  <2>10. pkt[q] = r /\ pc'[q] \in Before => r \in inn'
    BY <2>1, <2>3, <2>6 DEF Before, OutFile
  <2> QED  BY <1>2, <1>3, <2>1, <2>2, <2>7, <2>8, <2>9, <2>10, PacketStays
<1>7. CASE RemoveTemp(q)
  <2>1. /\ UNCHANGED <<arc, outf, pkt>> /\ pc[q] = "remove" /\ pc'[q] = "open"
        /\ inn' \subseteq inn /\ tmp' \subseteq tmp
    BY <1>1, <1>7 DEF RemoveTemp, out, Goto, Types
  <2>2. \A n, d : Packed(r, n, d)' <=> Packed(r, n, d)
    BY <2>1 DEF Packed
  <2>3. pkt[q] \notin inn' \cup tmp'
    BY <1>1, <1>7, <2>1 DEF RemoveTemp, At, PackerAt
  <2> QED  BY <1>2, <1>3, <2>1, <2>2, <2>3, PacketStays DEF Before, OutFile
<1>8. CASE OpenOut(q)
  <2>1. /\ UNCHANGED <<inn, tmp, arc, pkt>> /\ pc[q] = "open_out"
        /\ pc'[q] \in {"release", "copy_out"}
    BY <1>1, <1>8 DEF OpenOut, own, Goto, Types
  <2>2. \A n, d : Packed(r, n, d)' <=> Packed(r, n, d)
    BY <2>1 DEF Packed
  <2>3. \A n \in Node : outf'[n] = outf[n] \/ (outf[n] = NONE /\ outf'[n] = {})
    BY <1>1, <1>8 DEF OpenOut, Types, out
  <2>4. pkt[q] = r => r \in inn
    BY <2>1 DEF OncePacket, Before, OutFile
  <2> QED  BY <1>2, <1>3, <2>1, <2>2, <2>3, <2>4, PacketStays
<1>9. CASE RunArchiver(q)
  <2>1. /\ UNCHANGED <<inn, tmp, outf, pkt>>
        /\ pc[q] = "archive" /\ pc'[q] = "remove" /\ pkt[q] \in inn \cup tmp
    BY <1>1, <1>9 DEF RunArchiver, own, out, OutDir, Goto, Types
  <2>2. PICK n, d : n = Flonode(q) /\ d \in Digit /\ item[q] = Archive(n, d)
    BY <1>1, <2>1 DEF At, PackerAt, Archived
  <2>3. n \in Node /\ pkt[q] \in Pkt /\ n = config.flonode[pkt[q]]
    BY <2>1, <2>2, InsideAt DEF Inside, Archived, Flonode
  <2>4. \A m \in Node, e \in Digit : Packed(r, m, e)' =>
          Packed(r, m, e) \/ (r = pkt[q] /\ m = n /\ e = d)
    <3>1. PICK a : a = (IF arc[n][d] = NONE THEN {} ELSE arc[n][d]) \cup {pkt[q]}
      OBVIOUS
    <3>2. arc' = [arc EXCEPT ![n] = [arc[n] EXCEPT ![d] = a]]
      BY <1>9, <2>2, <3>1 DEF RunArchiver, Archive
    <3>3. \A m \in Node, e \in Digit :
            arc'[m][e] = IF m = n /\ e = d THEN a ELSE arc[m][e]
      BY <1>1, <2>2, <2>3, <3>2 DEF Types
    <3> QED  BY <3>1, <3>3 DEF Packed
  <2>5. CASE r # pkt[q]
    BY <1>2, <1>3, <2>1, <2>4, <2>5, PacketStays
  <2>6. CASE r = pkt[q]
    <3>1. sent[r] = 0 /\ \A m \in Node, e \in Digit : ~Packed(r, m, e)
      BY <2>1, <2>6 DEF OncePacket
    <3>2. ~config.noarc[r]
      BY <1>1, <2>1, <2>6 DEF At, PackerAt, Archived
    <3>3. \A m \in Node, e \in Digit : Packed(r, m, e)' => m = n /\ e = d
      BY <2>4, <3>1
    <3>4. \A m \in Node : outf[m] # NONE => r \notin outf[m]
      BY <3>2 DEF OncePacket
    <3>5. \A z \in Packer : pkt'[z] = r /\ pc'[z] \in Before => r \in inn'
      BY <2>1 DEF Before, OutFile
    <3> QED  BY <1>2, <2>1, <2>3, <2>6, <3>1, <3>2, <3>3, <3>4, <3>5 DEF OncePacket
  <2> QED  BY <2>5, <2>6
<1>10. CASE CopyOut(q)
  <2>1. /\ UNCHANGED <<inn, tmp, arc, pkt>>
        /\ pc[q] = "copy_out" /\ pc'[q] = "unlink_out"
    BY <1>1, <1>10 DEF CopyOut, own, Goto, Types
  <2>2. PICK n : n = To(q) /\ n \in Node /\ pkt[q] \in Pkt /\ n = config.to[pkt[q]]
    BY <2>1, InsideAt DEF Inside, OutFile, To
  <2>3. \A m \in Node : outf'[m] # NONE /\ r \in outf'[m] =>
          (outf[m] # NONE /\ r \in outf[m]) \/ (r = pkt[q] /\ m = n)
    BY <1>1, <1>10, <2>2 DEF CopyOut, Types
  <2>4. \A m, e : Packed(r, m, e)' <=> Packed(r, m, e)
    BY <2>1 DEF Packed
  <2>5. CASE r # pkt[q]
    BY <1>2, <1>3, <2>1, <2>3, <2>4, <2>5, PacketStays
  <2>6. CASE r = pkt[q]
    <3>1. r \in inn /\ sent[r] = 0
      BY <2>1, <2>6 DEF OncePacket, Before, OutFile
    <3>2. config.noarc[r]
      BY <1>1, <2>1, <2>6 DEF At, PackerAt, OutFile
    <3>3. r \notin tmp /\ \A m \in Node, e \in Digit : ~Packed(r, m, e)
      BY <3>2 DEF OncePacket
    <3>4. \A m \in Node : outf'[m] # NONE /\ r \in outf'[m] => m = n
      BY <2>1, <2>3, <3>1, <2>6 DEF OncePacket
    <3>5. \A z \in Packer : pkt'[z] = r /\ pc'[z] \in Before => r \in inn'
      BY <2>1, <3>1
    <3> QED  BY <1>2, <2>1, <2>2, <2>4, <2>6, <3>1, <3>2, <3>3, <3>4, <3>5 DEF OncePacket
  <2> QED  BY <2>5, <2>6
<1> QED  BY <1>4, <1>5, <1>6, <1>7, <1>8, <1>9, <1>10 DEF Pack


\* A packet is sent from its archive once: until the archive is truncated, the
\* caller that has sent it has the bsy file.
LEMMA SendPackets ==
  ASSUME IInv, NEW c \in Caller, Send(c), NEW r \in Pkt, OncePacket(r)
  PROVE  OncePacket(r)'
<1> USE Kinds
<1>1. /\ Types /\ Step(c) /\ c \in Proc
      /\ pc[c] = "read" /\ Unsent(c) # {} /\ Content(Current(c)) # NONE
      /\ UNCHANGED <<config, inn, tmp, arc, outf, flo, entries, pkt, node, open>>
      /\ pc' = [pc EXCEPT ![c] = "dispose"]
      /\ sent' = [x \in Pkt \cup File |->
                    IF x \in Content(Current(c)) THEN sent[x] + 1 ELSE sent[x]]
  BY DEF IInv, Step, Call, Send, list, out, own, Goto
<1>2. node[c] \in Node /\ bsy[node[c]] = c /\ Current(c) \in ItemOf(node[c])
  BY <1>1, LineOf
<1>3. /\ \A n, d : Packed(r, n, d)' <=> Packed(r, n, d)
      /\ \A z \in Packer : pc'[z] = pc[z]
      /\ UNCHANGED Current(c)
  BY <1>1 DEF Packed, Types, Current, Line, Unsent
<1>4. ASSUME NEW b \in Caller, pc[b] = "dispose"
      PROVE  b # c /\ UNCHANGED <<pc[b], Current(b)>>
  BY <1>1, <1>4, CallerStays
<1>5. CASE r \notin Content(Current(c))
  <2>1. UNCHANGED sent[r]
    BY <1>1, <1>5
  <2> QED  BY <1>1, <1>3, <1>4, <2>1, PacketStays DEF OncePacket
<1>6. CASE r \in Content(Current(c))
  <2>1. PICK d \in Digit : Current(c) = Archive(node[c], d)
    <3>1. ASSUME NEW f \in File, Current(c) = Plain(f) PROVE FALSE
      <4>1. Content(Current(c)) = {f}
        BY <3>1 DEF Content, Plain
      <4> QED  BY <1>6, <4>1, ConstantsAssumption
    <3> QED  BY <1>2, <3>1 DEF ItemOf
  <2>2. Packed(r, node[c], d)
    BY <1>1, <1>6, <2>1 DEF Packed, Content, Archive
  <2>3. sent[r] = 0
    <3>1. SUFFICES ASSUME sent[r] # 0 PROVE FALSE
      OBVIOUS
    <3>2. sent[r] > 0
      BY <1>1, <3>1 DEF Types
    <3>3. PICK b \in Caller : pc[b] = "dispose" /\ Current(b) = Archive(node[c], d)
      BY <1>2, <2>2, <3>2 DEF OncePacket
    <3>4. node[b] \in Node /\ bsy[node[b]] = b /\ Current(b) \in ItemOf(node[b])
      <4>1. Unsent(b) # {}
        BY <3>3, PlacesAt DEF IInv, At, CallerAt
      <4> QED  BY <3>3, <4>1, LineOf
    <3>5. node[b] = node[c]
      BY <3>3, <3>4 DEF ItemOf, Archive, Plain
    <3> QED  BY <1>1, <1>2, <3>3, <3>4, <3>5
  <2>4. sent'[r] = 1
    BY <1>1, <1>6, <2>3
  <2>5. r \notin inn \cup tmp
    <3>1. SUFFICES ASSUME r \in inn \cup tmp PROVE FALSE
      OBVIOUS
    <3>2. PICK q \in Packer : pkt[q] = r /\ pc[q] = "remove"
      BY <1>2, <2>2, <3>1 DEF OncePacket
    <3>3. bsy[Flonode(q)] = q
      BY <3>2, InsideAt DEF Inside, Archived
    <3>4. node[c] = Flonode(q)
      BY <1>2, <2>2, <3>2 DEF OncePacket, Flonode
    <3> QED  BY <1>2, <3>3, <3>4
  <2>6. \A n \in Node : outf[n] # NONE => r \notin outf[n]
    BY <1>2, <2>2 DEF OncePacket
  <2>7. \A n \in Node, e \in Digit : Packed(r, n, e) => n = node[c] /\ e = d
    BY <1>2, <2>2 DEF OncePacket
  <2>8. pc'[c] = "dispose" /\ Current(c)' = Archive(node[c], d)
    BY <1>1, <1>3, <2>1 DEF Types
  <2>9. \A n \in Node, e \in Digit : Packed(r, n, e) =>
          /\ ~config.noarc[r] /\ n = config.flonode[r]
          /\ \A b \in Digit : Packed(r, n, b) => b = e
          /\ \E b \in Caller : pc'[b] = "dispose" /\ Current(b)' = Archive(n, e)
    BY <2>7, <2>8 DEF OncePacket
  <2>10. \A q \in Packer : ~(pkt[q] = r /\ pc[q] \in Before)
    BY <2>5 DEF OncePacket
  <2> QED  BY <1>1, <1>3, <2>4, <2>5, <2>6, <2>9, <2>10 DEF OncePacket
<1> QED  BY <1>5, <1>6

\* The mailer sends an .OUT file, and nothing is left of it.
LEMMA SendOutPackets ==
  ASSUME IInv, NEW n \in Node, SendOut(n), NEW r \in Pkt, OncePacket(r)
  PROVE  OncePacket(r)'
<1> USE Kinds
<1>1. /\ Types /\ bsy[n] = NONE /\ outf[n] # NONE
      /\ UNCHANGED <<config, inn, tmp, arc, flo, entries, pc, pkt, node, open>>
      /\ outf' = [outf EXCEPT ![n] = NONE]
      /\ sent' = [x \in Pkt \cup File |-> IF x \in outf[n] THEN sent[x] + 1 ELSE sent[x]]
  BY DEF IInv, SendOut, list, own
<1>2. /\ \A m, d : Packed(r, m, d)' <=> Packed(r, m, d)
      /\ \A c : UNCHANGED Current(c)
      /\ \A m \in Node : outf'[m] # NONE => outf[m] = outf'[m] /\ m # n
  BY <1>1 DEF Packed, Current, Line, Unsent, Types
<1>3. CASE r \notin outf[n]
  <2>1. UNCHANGED sent[r]
    BY <1>1, <1>3
  <2> QED  BY <1>1, <1>2, <2>1, PacketStays DEF OncePacket
<1>4. CASE r \in outf[n]
  <2>1. config.noarc[r] /\ n = config.to[r] /\ sent[r] = 0
    BY <1>1, <1>4 DEF OncePacket
  <2>2. sent'[r] = 1
    BY <1>1, <1>4, <2>1
  <2>3. r \notin inn \cup tmp
    <3>1. SUFFICES ASSUME r \in inn \cup tmp PROVE FALSE
      OBVIOUS
    <3>2. PICK q \in Packer : pkt[q] = r /\ pc[q] = "unlink_out"
      BY <1>1, <1>4, <3>1 DEF OncePacket
    <3>3. bsy[Flonode(q)] = q /\ To(q) = Flonode(q) /\ To(q) = n
      BY <2>1, <3>2, InsideAt DEF Inside, OutFile, To
    <3> QED  BY <1>1, <3>3
  <2>4. \A m \in Node, d \in Digit : ~Packed(r, m, d)
    BY <2>1 DEF OncePacket
  <2>5. \A m \in Node : outf'[m] # NONE => r \notin outf'[m]
    BY <1>2, <2>1 DEF OncePacket
  <2>6. \A q \in Packer : ~(pkt[q] = r /\ pc[q] \in Before)
    BY <2>3 DEF OncePacket
  <2> QED  BY <1>1, <1>2, <2>2, <2>3, <2>4, <2>5, <2>6 DEF OncePacket
<1> QED  BY <1>3, <1>4

LEMMA StepPackets ==
  ASSUME IInv, Next, \A p \in Proc : ~Kill(p), NEW r \in Pkt, OncePacket(r)
  PROVE  OncePacket(r)'
<1>1. ASSUME NEW p \in Proc, Step(p)
      PROVE  OncePacket(r)'
  BY <1>1, WhoSteps, PackPackets, OtherStepsPackets, SendPackets
<1> QED  BY <1>1, SendOutPackets DEF Next


\* The lines of a file, when a process writes to or makes FLO files.
LEMMA LinesOf ==
  ASSUME IInv, NEW p \in Proc, Step(p), NEW f \in File,
         ~Mark(p), Attach(p) => item[p] # Plain(f)
  PROVE  \A n \in Node, k \in Nat : IsLine(f, n, k)' =>
           /\ IsLine(f, n, k)
           /\ entries'[flo'[n]][k] = entries[flo[n]][k]
<1> USE Kinds
<1>1. Types /\ Distinct
  BY InvKept DEF IInv, Kept
<1>2. CASE UNCHANGED <<flo, entries>>
  BY <1>2 DEF IsLine
<1>3. CASE p \in Packer \cup Attacher /\ OpenFlo(p) /\ flo[node[p]] = NONE
  <2>1. node[p] \in Node
    BY <1>3, ListingAt DEF OpenFlo, Listing
  <2>2. PICK i : i = CHOOSE j \in Unused : TRUE
    OBVIOUS
  <2>3. i \in Unused
    BY <1>3, <2>1, <2>2, UnusedInode
  <2>4. flo' = [flo EXCEPT ![node[p]] = i] /\ entries' = [entries EXCEPT ![i] = <<>>]
    BY <1>3, <2>2 DEF OpenFlo
  <2>5. /\ flo'[node[p]] = i /\ DOMAIN entries'[i] = {}
        /\ \A n \in Node : n # node[p] =>
             flo'[n] = flo[n] /\ (flo[n] # NONE => entries'[flo[n]] = entries[flo[n]])
    BY <1>1, <2>1, <2>3, <2>4 DEF Types, Unused
  <2> QED  BY <2>5 DEF IsLine
<1>4. CASE p \in Packer \cup Attacher /\ Attach(p)
  <2>1. node[p] \in Node /\ open[p] = flo[node[p]] /\ open[p] \in Inode
    BY <1>4, ListingAt DEF Attach, Listing
  <2>2. PICK i, e : i = open[p] /\ e = Entry(item[p], FALSE)
    OBVIOUS
  <2>3. /\ UNCHANGED flo
        /\ entries' = entries \/ entries' = [entries EXCEPT ![i] = Append(entries[i], e)]
    BY <1>4, <2>2 DEF Attach
  <2>4. entries[i] \in Seq(EntrySet) /\ i \in Inode /\ e.item # Plain(f)
    BY <1>1, <1>4, <2>1, <2>2 DEF Types, Entry
  <2>5. \A k \in DOMAIN Append(entries[i], e) :
          Append(entries[i], e)[k] = e \/ (/\ k \in DOMAIN entries[i]
                                           /\ Append(entries[i], e)[k] = entries[i][k])
    <3>1. e \in EntrySet
      BY <1>1, <1>4, <2>2, ListingAt DEF Attach, Listing, Entry, EntrySet, ItemOf, Item
    <3> QED  BY <2>4, <3>1, AppendIs
  <2>6. \A j \in Inode, k \in Nat :
          k \in DOMAIN entries'[j] /\ entries'[j][k].item = Plain(f) =>
            k \in DOMAIN entries[j] /\ entries'[j][k] = entries[j][k]
    <3>1. CASE entries' = entries
      BY <3>1
    <3>2. CASE entries' = [entries EXCEPT ![i] = Append(entries[i], e)]
      <4>1. PICK s : s = Append(entries[i], e)
        OBVIOUS
      <4>2. \A j \in Inode : entries'[j] = IF j = i THEN s ELSE entries[j]
        BY <1>1, <2>4, <3>2, <4>1 DEF Types
      <4> QED  BY <2>4, <2>5, <4>1, <4>2
    <3> QED  BY <2>3, <3>1, <3>2
  <2>7. \A n \in Node : flo[n] # NONE => flo[n] \in Inode
    BY <1>1 DEF Types
  <2> QED  BY <2>3, <2>6, <2>7 DEF IsLine
<1>5. CASE p \in Caller /\ EndCall(p)
  <2>1. UNCHANGED entries /\ \A n \in Node : flo'[n] = flo[n] \/ flo'[n] = NONE
    BY <1>1, <1>5 DEF EndCall, Types
  <2> QED  BY <2>1 DEF IsLine
<1>6. \/ UNCHANGED <<flo, entries>>
      \/ OpenFlo(p) /\ flo[node[p]] = NONE
      \/ Attach(p) \/ EndCall(p)
  BY DEF Step, Pack, TakePacket, BusyTake, BusySkip, Search, RenamePacket,
     CopyPacket, UnlinkPacket, RunArchiver, ArchiverFails, RemoveTemp, Release, OpenOut,
     CopyOut, List, OpenFlo, LockFlo, Call, StartCall, CallBusy, CallOpen, CallGone,
     CallLock, Send, SendFails, Dispose, StartAttach, list
<1>7. OpenFlo(p) \/ Attach(p) => p \in Packer \cup Attacher
  BY PlacesAt DEF IInv, Proc, At, CallerAt, OpenFlo, Attach, Calling
<1>8. EndCall(p) => p \in Caller
  BY PlacesAt DEF IInv, Proc, At, PackerAt, AttacherAt, EndCall, Inside, Archived, OutFile,
                  Listing
<1> QED  BY <1>2, <1>3, <1>4, <1>5, <1>6, <1>7, <1>8

\* Who is going to list a file has it in hand; StartAttach() takes it up.
LEMMA AttachersOf ==
  ASSUME IInv, NEW p \in Proc, Step(p), NEW f \in File,
         \A n \in Node : ~StartAttach(p, n)
  PROVE  UNCHANGED files /\ \A t \in Attacher : Attaching(t, f)' => Attaching(t, f)
<1> USE Kinds
<1>1. Types
  BY DEF IInv
<1>2. ASSUME NEW t \in Attacher, t # p PROVE Attaching(t, f)' => Attaching(t, f)
  BY <1>2, OwnStays DEF Own, Attaching
<1>3. UNCHANGED files
  BY DEF Step, Pack, TakePacket, BusyTake, BusySkip, Search, RenamePacket,
     CopyPacket, UnlinkPacket, RunArchiver, ArchiverFails, RemoveTemp, Release, OpenOut,
     CopyOut, List, OpenFlo, LockFlo, Attach, Call, StartCall, CallBusy, CallOpen, CallGone,
     CallLock, Send, SendFails, Dispose, Mark, EndCall
<1>4. CASE p \in Attacher
  <2>1. List(p)
    BY <1>4, WhoSteps
  <2>2. CASE OpenFlo(p) \/ LockFlo(p)
    <3>1. pc[p] \in Listing /\ UNCHANGED item
      BY <2>2 DEF OpenFlo, LockFlo, Listing
    <3> QED  BY <1>2, <1>3, <3>1 DEF Attaching
  <2>3. CASE Attach(p)
    <3>1. pc' = [pc EXCEPT ![p] = "idle"]
      BY <1>4, <2>3 DEF Attach, Goto
    <3>2. pc'[p] = "idle"
      BY <1>1, <3>1 DEF Types
    <3> QED  BY <1>2, <1>3, <3>2 DEF Attaching, Listing
  <2> QED  BY <1>2, <1>3, <2>1, <2>2, <2>3 DEF List
<1>5. CASE p \notin Attacher
  BY <1>2, <1>3, <1>5
<1> QED  BY <1>4, <1>5


\* Steps that neither send, mark nor list file f.
LEMMA QuietFiles ==
  ASSUME IInv, NEW p \in Proc, Step(p), NEW f \in File, OnceFile(f),
         ~Send(p), ~Mark(p), Attach(p) => item[p] # Plain(f),
         \A n \in Node : ~StartAttach(p, n)
  PROVE  OnceFile(f)'
<1> USE Kinds
<1>1. UNCHANGED sent
  BY DEF Step, Pack, TakePacket, BusyTake, BusySkip, Search, RenamePacket,
     CopyPacket, UnlinkPacket, RunArchiver, ArchiverFails, RemoveTemp, Release, OpenOut,
     CopyOut, List, OpenFlo, LockFlo, Attach, Call, StartCall, CallBusy, CallOpen, CallGone,
     CallLock, SendFails, Dispose, EndCall
<1>2. ASSUME NEW c \in Caller, pc[c] \in {"dispose", "mark"}
      PROVE  node'[c] = node[c] /\ pc'[c] \in {"dispose", "mark"} /\ Line(c)' = Line(c)
  <2>1. CASE c # p
    BY <1>2, <2>1, CallerStays
  <2>2. CASE c = p
    <3>1. Dispose(p)
      BY <1>2, <2>2, WhoSteps
         DEF Call, StartCall, CallBusy, CallOpen, CallGone, CallLock, SendFails, EndCall
    <3>2. UNCHANGED <<node, open, entries>> /\ pc'[p] = "mark"
      BY <3>1 DEF Dispose, own, list, Goto, IInv, Types
    <3> QED  BY <2>2, <3>2 DEF Line, Unsent
  <2> QED  BY <2>1, <2>2
<1>3. UNCHANGED files /\ \A t \in Attacher : Attaching(t, f)' => Attaching(t, f)
  BY AttachersOf
<1>4. \A n \in Node, k \in Nat : IsLine(f, n, k)' =>
        IsLine(f, n, k) /\ entries'[flo'[n]][k] = entries[flo[n]][k]
  BY LinesOf
<1> QED  BY <1>1, <1>2, <1>3, <1>4, FileStays

\* flo_mark(): the line of the file that was sent is marked.
LEMMA MarkFiles ==
  ASSUME IInv, NEW p \in Caller, Mark(p), NEW f \in File, OnceFile(f)
  PROVE  OnceFile(f)'
<1> USE Kinds
<1> DEFINE k0 == Line(p)
           i == open[p]
<1>1. /\ Types /\ Distinct /\ Step(p) /\ p \in Proc
      /\ pc[p] = "mark" /\ UNCHANGED <<flo, files, sent, node, open>>
  BY InvKept DEF IInv, Kept, Step, Call, Mark, own
<1>2. /\ node[p] \in Node /\ i = flo[node[p]] /\ i \in Inode
      /\ k0 \in DOMAIN entries[i]
  <2>1. Unsent(p) # {}
    BY <1>1, PlacesAt DEF IInv, At, CallerAt
  <2> QED  BY <1>1, <2>1, LineOf DEF Unsent
<1>3. entries' = [entries EXCEPT ![i] = [entries[i] EXCEPT ![k0].sent = TRUE]]
  BY DEF Mark
<1>4. entries[i] \in Seq(EntrySet) /\ entries[i][k0] \in EntrySet
  BY <1>1, <1>2 DEF Types
<1> HIDE DEF k0, i
<1>5. PICK s : s = [entries[i] EXCEPT ![k0].sent = TRUE]
  OBVIOUS
<1>6. /\ DOMAIN s = DOMAIN entries[i]
      /\ \A k \in DOMAIN s : k # k0 => s[k] = entries[i][k]
      /\ s[k0].item = entries[i][k0].item /\ s[k0].sent = TRUE
  BY <1>2, <1>4, <1>5 DEF EntrySet
<1>7. \A j \in Inode : entries'[j] = IF j = i THEN s ELSE entries[j]
  BY <1>1, <1>2, <1>3, <1>5 DEF Types
<1>8. ASSUME NEW n \in Node, NEW k \in Nat, IsLine(f, n, k)'
      PROVE  /\ IsLine(f, n, k)
             /\ entries[flo[n]][k].sent => entries'[flo'[n]][k].sent
             /\ n = node[p] /\ k = k0 => entries'[flo'[n]][k].sent
  <2>1. flo[n] \in Inode /\ flo[n] # NONE /\ flo' = flo
    BY <1>1, <1>8 DEF Types, IsLine
  <2>2. CASE flo[n] # i
    BY <1>2, <1>7, <1>8, <2>1, <2>2 DEF IsLine
  <2>3. CASE flo[n] = i
    <3>1. entries'[flo'[n]] = s
      BY <1>7, <2>1, <2>3
    <3>2. k \in DOMAIN s /\ s[k].item = Plain(f)
      BY <1>8, <3>1 DEF IsLine
    <3> QED  BY <1>6, <2>1, <2>3, <3>1, <3>2 DEF IsLine
  <2> QED  BY <2>2, <2>3
<1>9. ASSUME NEW c \in Caller, pc[c] \in {"dispose", "mark"}, c # p
      PROVE  node'[c] = node[c] /\ pc'[c] \in {"dispose", "mark"} /\ Line(c)' = Line(c)
  BY <1>1, <1>9, CallerStays
<1>10. UNCHANGED files /\ \A t \in Attacher : Attaching(t, f)' => Attaching(t, f)
  <2>1. \A n \in Node : ~StartAttach(p, n)
    BY DEF StartAttach
  <2> QED  BY <1>1, <2>1, AttachersOf
<1> QED  BY <1>1, <1>8, <1>9, <1>10, FileStays DEF k0

\* The script sends the file of the first line that is not marked.
LEMMA SendFiles ==
  ASSUME IInv, NEW p \in Caller, Send(p), NEW f \in File, OnceFile(f)
  PROVE  OnceFile(f)'
<1> USE Kinds
<1>1. /\ Types /\ Distinct /\ Step(p) /\ p \in Proc
      /\ pc[p] = "read" /\ Unsent(p) # {} /\ Content(Current(p)) # NONE
      /\ UNCHANGED <<flo, entries, files, node, open, item>>
      /\ pc' = [pc EXCEPT ![p] = "dispose"]
      /\ sent' = [x \in Pkt \cup File |->
                    IF x \in Content(Current(p)) THEN sent[x] + 1 ELSE sent[x]]
  BY InvKept DEF IInv, Kept, Step, Call, Send, list, own, Goto
<1>2. /\ node[p] \in Node /\ bsy[node[p]] = p /\ Current(p) \in ItemOf(node[p])
      /\ open[p] = flo[node[p]] /\ flo[node[p]] # NONE /\ Line(p) \in Unsent(p)
  BY <1>1, LineOf
<1>3. \A n, k : IsLine(f, n, k)' <=> IsLine(f, n, k)
  BY <1>1 DEF IsLine
<1>4. \A t \in Attacher : Attaching(t, f)' <=> Attaching(t, f)
  BY <1>1 DEF Attaching, Types
<1>5. ASSUME NEW c \in Caller, pc[c] \in {"dispose", "mark"}
      PROVE  /\ node'[c] = node[c] /\ pc'[c] \in {"dispose", "mark"} /\ Line(c)' = Line(c)
             /\ node[c] # node[p]
  BY <1>1, <1>2, <1>5, CallerStays, LineOf
<1>6. CASE f \notin Content(Current(p))
  <2>1. UNCHANGED sent[f]
    BY <1>1, <1>6
  <2> QED  BY <1>1, <1>3, <1>4, <1>5, <2>1, FileStays
<1>7. CASE f \in Content(Current(p))
  <2>1. Current(p) = Plain(f)
    <3>1. ASSUME NEW d \in Digit, Current(p) = Archive(node[p], d) PROVE FALSE
      <4>1. Content(Current(p)) \subseteq Pkt
        BY <1>1, <1>2, <3>1 DEF Content, Archive, Types
      <4> QED  BY <1>7, <4>1, ConstantsAssumption
    <3>2. PICK g \in File : Current(p) = Plain(g)
      BY <1>2, <3>1 DEF ItemOf
    <3>3. Content(Current(p)) = {g}
      BY <3>2 DEF Content, Plain
    <3> QED  BY <1>7, <3>2, <3>3
  <2>2. /\ IsLine(f, node[p], Line(p)) /\ Line(p) \in Nat
        /\ ~entries[flo[node[p]]][Line(p)].sent
    <3>1. Unsent(p) \in SUBSET Nat
      BY <1>1, <1>2 DEF Unsent, Types
    <3> QED  BY <1>2, <2>1, <3>1 DEF IsLine, Current, Unsent
  <2>3. sent[f] = 0
    <3>1. ~\E c \in Caller : node[c] = node[p] /\ pc[c] \in {"dispose", "mark"}
      BY <1>5
    <3>2. ~(sent[f] > 0)
      BY <1>2, <2>2, <3>1 DEF OnceFile
    <3> QED  BY <1>1, <3>2 DEF Types
  <2>4. sent'[f] = 1
    BY <1>1, <1>7, <2>3
  <2>5. ~Unlisted(f)
    BY <1>2, <2>2 DEF Unlisted
  <2>6. f \notin files' /\ \A t \in Attacher : ~Attaching(t, f)'
    BY <1>1, <1>4, <2>5 DEF OnceFile
  <2>7. node'[p] = node[p] /\ pc'[p] = "dispose" /\ Line(p)' = Line(p)
    BY <1>1 DEF Line, Unsent, Types
  <2>8. \A n \in Node, k \in Nat : IsLine(f, n, k) =>
          /\ n = node[p] /\ k = Line(p)
          /\ \A m \in Node, j \in Nat : IsLine(f, m, j) => m = n /\ j = k
    BY <1>2, <2>2 DEF OnceFile
  <2> QED  BY <1>3, <2>4, <2>6, <2>7, <2>8 DEF OnceFile
<1> QED  BY <1>6, <1>7


\* A process takes up a file that nobody has taken up yet.
LEMMA StartFiles ==
  ASSUME IInv, NEW t \in Attacher, NEW n \in Node, StartAttach(t, n),
         NEW f \in File, OnceFile(f)
  PROVE  OnceFile(f)'
<1> USE Kinds
<1>1. /\ Types /\ t \in Proc /\ Step(t) /\ pc[t] = "idle"
      /\ UNCHANGED <<flo, entries, sent>>
  BY DEF IInv, Step, StartAttach, list
<1>2. PICK g \in files : files' = files \ {g} /\ item' = [item EXCEPT ![t] = Plain(g)]
  BY DEF StartAttach
<1>3. \A m, k : IsLine(f, m, k)' <=> IsLine(f, m, k)
  BY <1>1 DEF IsLine
<1>4. ASSUME NEW c \in Caller, pc[c] \in {"dispose", "mark"}
      PROVE  node'[c] = node[c] /\ pc'[c] \in {"dispose", "mark"} /\ Line(c)' = Line(c)
  BY <1>1, <1>4, CallerStays
<1>5. \A u \in Attacher : u # t => (Attaching(u, f)' <=> Attaching(u, f))
  BY <1>1, OwnStays DEF Own, Attaching
<1>6. item'[t] = Plain(g) /\ (Attaching(t, f)' => f = g)
  BY <1>1, <1>2 DEF Attaching, Types, Plain
<1>7. CASE f # g
  BY <1>1, <1>2, <1>3, <1>4, <1>5, <1>6, <1>7, FileStays
<1>8. CASE f = g
  <2>1. Unlisted(f) /\ Unlisted(f)' /\ \A u \in Attacher : ~Attaching(u, f)
    BY <1>1, <1>2, <1>3, <1>8 DEF OnceFile, Unlisted
  <2>2. f \notin files' /\ \A u \in Attacher : Attaching(u, f)' => u = t
    BY <1>2, <1>5, <1>8, <2>1
  <2>3. sent'[f] <= 1 /\ \A m \in Node, k \in Nat : ~IsLine(f, m, k)'
    BY <1>1, <2>1 DEF Unlisted
  <2> QED  BY <2>1, <2>2, <2>3 DEF OnceFile
<1> QED  BY <1>7, <1>8

\* bink_attach() writes the only line of the file.
LEMMA AttachFiles ==
  ASSUME IInv, NEW t \in Attacher, Attach(t), NEW f \in File, item[t] = Plain(f), OnceFile(f)
  PROVE  OnceFile(f)'
<1> USE Kinds
<1>1. /\ Types /\ t \in Proc /\ Step(t) /\ pc[t] = "attach"
      /\ UNCHANGED <<flo, files, sent>> /\ pc' = [pc EXCEPT ![t] = "idle"]
  BY DEF IInv, Step, List, Attach, Goto
<1>2. /\ node[t] \in Node /\ open[t] = flo[node[t]] /\ open[t] \in Inode
      /\ \A n \in Node : flo[n] = open[t] => n = node[t]
  BY <1>1, ListingAt DEF Listing, IInv, Names
<1>3. /\ Unlisted(f) /\ f \notin files
      /\ \A u \in Attacher : Attaching(u, f) => u = t
  BY <1>1 DEF OnceFile, Attaching, Listing
<1>4. \A u \in Attacher : ~Attaching(u, f)'
  <2>1. ASSUME NEW u \in Attacher, u # t PROVE ~Attaching(u, f)'
    BY <1>1, <1>3, <2>1, OwnStays DEF Own, Attaching
  <2>2. pc'[t] = "idle"
    BY <1>1 DEF Types
  <2> QED  BY <2>1, <2>2 DEF Attaching, Listing
<1>5. PICK i, e : i = open[t] /\ e = Entry(item[t], FALSE)
  OBVIOUS
<1>6. entries' = entries \/ entries' = [entries EXCEPT ![i] = Append(entries[i], e)]
  BY <1>5 DEF Attach
<1>7. PICK s : s = Append(entries[i], e)
  OBVIOUS
<1>8. entries[i] \in Seq(EntrySet) /\ i \in Inode /\ e \in EntrySet
  <2>1. e \in EntrySet
    BY <1>5 DEF Entry, EntrySet, Item
  <2> QED  BY <1>1, <1>2, <1>5, <2>1 DEF Types
<1>9. \A j \in Inode, k \in Nat : k \in DOMAIN entries'[j] =>
        \/ k \in DOMAIN entries[j] /\ entries'[j][k] = entries[j][k]
        \/ j = i /\ k = Len(entries[i]) + 1
  <2>1. /\ DOMAIN s = 1 .. Len(entries[i]) + 1 /\ DOMAIN entries[i] = 1 .. Len(entries[i])
        /\ Len(entries[i]) \in Nat
        /\ \A k \in 1 .. Len(entries[i]) : s[k] = entries[i][k]
    BY <1>7, <1>8
  <2>2. \A k \in DOMAIN s : k \in DOMAIN entries[i] \/ k = Len(entries[i]) + 1
    BY <2>1
  <2>3. CASE entries' = entries
    BY <2>3
  <2>4. CASE entries' = [entries EXCEPT ![i] = Append(entries[i], e)]
    <3>1. \A j \in Inode : entries'[j] = IF j = i THEN s ELSE entries[j]
      BY <1>1, <1>7, <1>8, <2>4 DEF Types
    <3> QED  BY <2>1, <2>2, <3>1
  <2> QED  BY <1>6, <2>3, <2>4
<1>10. \A n \in Node, k \in Nat : IsLine(f, n, k)' => n = node[t] /\ k = Len(entries[i]) + 1
  <2>1. SUFFICES ASSUME NEW n \in Node, NEW k \in Nat, IsLine(f, n, k)'
                 PROVE  n = node[t] /\ k = Len(entries[i]) + 1
    OBVIOUS
  <2>2. flo[n] \in Inode /\ flo[n] # NONE /\ k \in DOMAIN entries'[flo[n]]
    BY <1>1, <2>1 DEF IsLine, Types
  <2>3. ~(k \in DOMAIN entries[flo[n]] /\ entries'[flo[n]][k] = entries[flo[n]][k])
    BY <1>1, <1>3, <2>1 DEF IsLine, Unlisted
  <2>4. flo[n] = i /\ k = Len(entries[i]) + 1
    BY <1>9, <2>2, <2>3
  <2> QED  BY <1>2, <1>5, <2>4
<1>11. sent'[f] = 0
  BY <1>1, <1>3 DEF Unlisted
<1> QED  BY <1>1, <1>3, <1>4, <1>10, <1>11 DEF OnceFile

LEMMA StepFiles ==
  ASSUME IInv, Next, \A p \in Proc : ~Kill(p), NEW f \in File, OnceFile(f)
  PROVE  OnceFile(f)'
<1> USE Kinds
<1>1. ASSUME NEW p \in Proc, Step(p)
      PROVE  OnceFile(f)'
  <2>1. CASE \E n \in Node : StartAttach(p, n)
    BY <2>1, StartFiles DEF StartAttach
  <2>2. CASE Attach(p) /\ item[p] = Plain(f)
    <3>1. p \in Packer => \E d \in Digit : item[p] = Archive(Flonode(p), d)
      BY <2>2, PlacesAt DEF IInv, At, PackerAt, Attach, Archived, Listing
    <3>2. p \notin Packer
      BY <2>2, <3>1 DEF Archive, Plain
    <3>3. p \notin Caller
      BY <2>2, PlacesAt DEF IInv, At, CallerAt, Attach, Calling
    <3> QED  BY <2>2, <3>2, <3>3, AttachFiles DEF Proc
  <2>3. CASE Mark(p) \/ Send(p)
    <3>1. p \in Caller
      BY <2>3, PlacesAt DEF IInv, Proc, At, PackerAt, AttacherAt, Mark, Send, Inside,
                            Archived, OutFile, Listing
    <3> QED  BY <2>3, <3>1, MarkFiles, SendFiles
  <2> QED  BY <1>1, <2>1, <2>2, <2>3, QuietFiles
<1>2. ASSUME NEW n \in Node, SendOut(n)
      PROVE  OnceFile(f)'
  <2>1. /\ UNCHANGED <<files, flo, entries, pc, node, open, item>>
        /\ sent' = [x \in Pkt \cup File |-> IF x \in outf[n] THEN sent[x] + 1 ELSE sent[x]]
        /\ outf[n] # NONE
    BY <1>2 DEF SendOut, list, own
  <2>2. f \notin outf[n]
    BY <2>1, ConstantsAssumption DEF IInv, Types
  <2>3. UNCHANGED sent[f]
    BY <2>1, <2>2
  <2>4. /\ \A m, k : IsLine(f, m, k)' <=> IsLine(f, m, k)
        /\ \A t : Attaching(t, f)' <=> Attaching(t, f)
        /\ \A c : Line(c)' = Line(c)
    BY <2>1 DEF IsLine, Attaching, Line, Unsent
  <2> QED  BY <2>1, <2>3, <2>4, FileStays
<1> QED  BY <1>1, <1>2 DEF Next

LEMMA InitOnce ==
  ASSUME \A c \in Configs : Sound(c), Init
  PROVE  Once
<1> USE Kinds
<1>1. /\ kills = 0 /\ tmp = {} /\ \A n \in Node : outf[n] = NONE /\ flo[n] = NONE
      /\ \A n \in Node, d \in Digit : arc[n][d] = NONE
      /\ \A p \in Proc : pc[p] = "idle" /\ pkt[p] = NONE
      /\ \A x \in Pkt \cup File : sent[x] = 0
  BY DEF Init
<1>2. \A p \in Pkt : OncePacket(p)
  BY <1>1 DEF OncePacket, Packed
<1>3. \A f \in File : OnceFile(f)
  BY <1>1 DEF OnceFile, Unlisted, IsLine, Attaching, Listing
<1> QED  BY <1>1, <1>2, <1>3 DEF Once

LEMMA StepOnce ==
  ASSUME IInv, Once, [Next]_vars
  PROVE  Once'
<1>1. CASE UNCHANGED vars
  <2>1. UNCHANGED <<config, inn, tmp, arc, outf, flo, entries, files, sent, pc, pkt,
                    node, open, item, kills>>
    BY <1>1 DEF vars, out, list, own, bound
  <2>2. \A p \in Pkt : OncePacket(p) => OncePacket(p)'
    <3>1. /\ \A r, n, d : Packed(r, n, d)' <=> Packed(r, n, d)
          /\ \A c : UNCHANGED Current(c)
      BY <2>1 DEF Packed, Current, Line, Unsent
    <3> QED  BY <2>1, <3>1, PacketStays DEF OncePacket
  <2>3. \A f : OnceFile(f) => OnceFile(f)'
    BY <2>1 DEF OnceFile, Unlisted, IsLine, Attaching, Line, Unsent
  <2> QED  BY <2>1, <2>2, <2>3 DEF Once
<1>2. CASE Next /\ \E p \in Proc : Kill(p)
  BY <1>2 DEF Once, Kill
<1>3. CASE Next /\ \A p \in Proc : ~Kill(p)
  <2>1. ASSUME NEW p \in Proc, Step(p) PROVE UNCHANGED kills
    <3>1. Pack(p) => UNCHANGED kills
      BY DEF Pack, TakePacket, BusyTake, BusySkip, Search, RenamePacket, CopyPacket,
         UnlinkPacket, RunArchiver, ArchiverFails, RemoveTemp, Release, OpenOut, CopyOut,
         bound
    <3>2. List(p) \/ (\E n \in Node : StartAttach(p, n)) => UNCHANGED kills
      BY DEF List, OpenFlo, LockFlo, Attach, StartAttach, bound
    <3>3. Call(p) => UNCHANGED kills
      BY DEF Call, StartCall, CallBusy, CallOpen, CallGone, CallLock, Send, SendFails,
         Dispose, Mark, EndCall, bound
    <3> QED  BY <2>1, <3>1, <3>2, <3>3 DEF Step
  <2>2. (\E n \in Node : SendOut(n)) => UNCHANGED kills
    BY DEF SendOut, bound
  <2>3. UNCHANGED kills
    BY <1>3, <2>1, <2>2 DEF Next
  <2> QED  BY <1>3, <2>3, StepPackets, StepFiles DEF Once
<1> QED  BY <1>1, <1>2, <1>3

\* No packet and no file is sent twice unless a process was killed, though
\* archives are filled and listed again and FLO files are read again after the
\* script has failed (do_pack(), do_noarc(), bink_attach(), flo_mark(), do_flo()).
THEOREM OutboundOnce ==
  ASSUME \A c \in Configs : Sound(c)
  PROVE  Spec => []SentOnce
<1>1. Init => IInv /\ Once
  BY InitIInv, InitOnce
<1>2. IInv /\ Once /\ [Next]_vars => IInv' /\ Once'
  BY StepIInv, StepOnce
<1>3. Once => SentOnce
  BY DEF Once, OncePacket, OnceFile, SentOnce
<1> QED  BY <1>1, <1>2, <1>3, PTL DEF Spec
=============================================================================
